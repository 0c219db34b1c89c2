------------------------------ MODULE Catalog ------------------------------
(***************************************************************************)
(* Tables, their secondary indexes and the free list of one session         *)
(* (src/leafdb/engine.py, catalog.py, freelist.py): in memory, on the        *)
(* catalog page, and in the snapshot a transaction takes of them.            *)
(*                                                                          *)
(* BTree says what a tree does inside its pages.  Here a tree is a leaf, or  *)
(* a root over the leaf that was the root before: a page is told from        *)
(* another by the rows a search from it finds.  Every table has one column   *)
(* beside its row id, and that column may be indexed.                        *)
(***************************************************************************)
EXTENDS Integers, Sequences, FiniteSets, SequencesExt

CONSTANTS Table,       \* names of tables
          Value,       \* values of the column other than NULL
          Null, Absent,
          MaxRid,      \* bound: row ids 1 .. MaxRid
          MaxPages,    \* bound: pages in use at once
          MaxCalls,    \* bound: statements of an explicit transaction
          LeafRows,    \* rows that fit a leaf
          Room,        \* tables, indexes and free pages that fit the catalog page
          Assumed      \* what is assumed of the callers, see Discipline

Rid    == 1 .. MaxRid
PageNo == 1 .. MaxPages   \* page 0, the catalog's, is `cat'
NoPage == 0
NoRid  == 0               \* no row id is given
Column == Value \cup {Null}
Row    == [Rid -> Column \cup {Absent}]

Node      == [rows : Row, low : 0 .. MaxPages]
Meta      == [root : PageNo, count : Nat, next : Nat \ {0}, index : BOOLEAN]
Pages     == [PageNo -> Node \cup {Absent}]
Metas     == [Table -> Meta \cup {Absent}]
Indexes   == [Table -> (SUBSET (Value \X Rid)) \cup {Absent}]
Contained == [page : Pages, cat : Metas]
Snapshots == [tables : Metas, indexes : Indexes, live : SUBSET Table]
Databases == [page : Pages, cat : Metas, tables : Metas, free : Seq(PageNo),
              indexes : Indexes, snap : Snapshots \cup {Absent},
              wrote : SUBSET (0 .. MaxPages), full : BOOLEAN]

Discipline == {"failed",   \* who sees a statement fail rolls the transaction back next
               "index",    \* who creates or drops an index does not roll back
               "bulk",     \* no rollback of a bulk_insert or vacuum that no write of SQL
                           \* preceded, not even the one its own failure calls for
               "vacuum",   \* who vacuums outside a transaction checkpoints next
              "survive"}  \* no death between its catalog page and its trees, see Survives

ASSUME CatalogAssumption ==
  /\ MaxRid \in Nat \ {0} /\ MaxPages \in Nat \ {0} /\ MaxCalls \in Nat
  /\ LeafRows \in Nat \ {0} /\ Room \in Nat
  /\ Null \notin Value /\ Absent \notin Column
  /\ Absent \notin Node \cup Meta \cup Contained \cup Snapshots
  /\ \A pairs \in SUBSET (Value \X Rid) : pairs # Absent
  /\ Assumed \subseteq Discipline

VARIABLES
  db,      \* the session: pages, catalog, indexes, snapshot; see Fresh
  stored,  \* what the file and the log hold: [page, cat]
  logged,  \* whether the log has an image of the catalog page
  loose,   \* what the pages hold beyond that since a vacuum outside a transaction, or Absent
  mode,    \* "txn", an autocommit statement ("auto", "passed", "raised"), or how the last
           \* transaction ended ("committed", "rolledback")
  calls,   \* statements of the transaction so far
  risks    \* history: what the transaction has done against a discipline

vars == <<db, stored, logged, loose, mode, calls, risks>>

Idle == {"committed", "rolledback"}

NoRows   == [r \in Rid |-> Absent]
NoTables == [t \in Table |-> Absent]
Leaf(rows) == [rows |-> rows, low |-> NoPage]

Fresh == [page |-> [n \in PageNo |-> Absent],   \* the pages of the trees
          cat |-> NoTables,                     \* the tables the catalog page names
          tables |-> NoTables,                  \* Catalog.tables
          free |-> << >>,                       \* Catalog.free_pages
          indexes |-> NoTables,                 \* Database.indexes: pairs of value and row id
          snap |-> Absent,                      \* Database._snapshot
          wrote |-> {},                         \* 0 if `cat' was written, and while some pages
                                                \* are `loose' the other pages that were
          full |-> FALSE]                       \* MaxPages is exceeded

(* What a rollback goes back to. *)
Base == IF loose = Absent THEN stored ELSE loose

Exists(d, t)  == d.tables[t] # Absent
Below(page, n) == IF page[n] = Absent THEN NoRows ELSE page[n].rows   \* opening fails
RowsOf(d, t)  == Below(d.page, d.tables[t].root)
Rids(rows)    == {r \in Rid : rows[r] # Absent}
Tree(page, n) == {n} \cup (IF page[n] = Absent THEN {} ELSE {page[n].low} \ {NoPage})

Written(d, pages) == IF loose = Absent THEN d ELSE [d EXCEPT !.wrote = @ \cup pages]

-----------------------------------------------------------------------------
(* Catalog page, snapshot *)

PairsOf(rows, rids) == {<<rows[r], r>> : r \in {q \in rids : rows[q] # Null}}
Pairs(rows)         == PairsOf(rows, Rids(rows))

(* Catalog.load and _rebuild_indexes.  The free list is on the catalog page  *)
(* too, but load does not look at it.                                        *)
Rebuilt(page, tables) ==
  [t \in Table |-> IF tables[t] # Absent /\ tables[t].index
                   THEN Pairs(Below(page, tables[t].root)) ELSE Absent]

Reloaded(s) == [Fresh EXCEPT !.page = s.page, !.cat = s.cat, !.tables = s.cat,
                             !.indexes = Rebuilt(s.page, s.cat)]

Fits(d)  == Cardinality({t \in Table : Exists(d, t)})
              + Cardinality({t \in Table : Exists(d, t) /\ d.tables[t].index})
              + Len(d.free) <= Room
Saved(d) == [d EXCEPT !.cat = d.tables, !.wrote = @ \cup {0}]

(* The snapshot copies indexes and the numbers of a table, but to_dict hands *)
(* out the table's own dictionary of indexes: `live' are the tables whose    *)
(* dictionary the snapshot shares.                                           *)
Snapshotted_Mutant(d) ==
  [d EXCEPT !.snap = [tables |-> d.tables, indexes |-> d.indexes,
                      live |-> {t \in Table : Exists(d, t)}]]

Snapshotted(d) ==
  IF d.snap # Absent THEN d
  ELSE [d EXCEPT !.snap = [tables |-> d.tables, indexes |-> d.indexes,
                           live |-> {t \in Table : Exists(d, t)}]]

(* meta.indexes changes in place. *)
Declared(d, t, yes) ==
  LET put == [d EXCEPT !.tables[t].index = yes]
  IN  IF d.snap = Absent \/ t \notin d.snap.live THEN put
      ELSE [put EXCEPT !.snap.tables[t].index = yes]

-----------------------------------------------------------------------------
(* Trees and indexes *)

NewPage(d) ==
  LET unused == {n \in PageNo : d.page[n] = Absent /\ stored.page[n] = Absent}
  IN  IF unused = {} THEN NoPage ELSE CHOOSE n \in unused : \A m \in unused : n <= m

(* The rows a split leaves in the leaf that was the root. *)
Low(rows) == [r \in Rid |-> IF Cardinality({q \in Rids(rows) : q <= r}) <= LeafRows
                            THEN rows[r] ELSE Absent]

(* The tree of t comes to hold rows: its root splits, or gives way to its    *)
(* child, or stays.                                                          *)
Regrown(d, t, rows) ==
  LET root == d.tables[t].root
      low  == d.page[root].low
      many == Cardinality(Rids(rows)) > LeafRows
      new  == NewPage(d)
  IN  CASE many /\ low = NoPage /\ new = NoPage -> [d EXCEPT !.full = TRUE]
        [] many /\ low = NoPage /\ new # NoPage ->
             [d EXCEPT !.page[root] = Leaf(Low(rows)),
                       !.page[new] = [rows |-> rows, low |-> root],
                       !.tables[t].root = new]
        [] ~many /\ low # NoPage ->
             [d EXCEPT !.page[low] = Leaf(rows), !.tables[t].root = low]
        [] many /\ low # NoPage ->
             [d EXCEPT !.page[root].rows = rows, !.page[low] = Leaf(Low(rows))]
        [] ~many /\ low = NoPage -> [d EXCEPT !.page[root].rows = rows]

(* The two pages of a tree are taken to be written together.                 *)
Holding(d, t, rows) ==
  LET h == Regrown(d, t, rows)
  IN  Written(h, Tree(h.page, d.tables[t].root) \cup Tree(h.page, h.tables[t].root))

(* setdefault makes an index that is not there yet. *)
IndexAdd(d, t, pairs) ==
  IF ~d.tables[t].index \/ pairs = {} THEN d
  ELSE [d EXCEPT !.indexes[t] = (IF @ = Absent THEN {} ELSE @) \cup pairs]

IndexRemove_Mutant(d, t, pairs) == d
IndexRemove(d, t, pairs) ==
  IF ~d.tables[t].index \/ d.indexes[t] = Absent THEN d
  ELSE [d EXCEPT !.indexes[t] = @ \ pairs]

(* _matching_rows for WHERE column = v, by the index when one is declared,   *)
(* and without WHERE (v is Absent).                                          *)
Matching(d, t, v) ==
  LET rows == RowsOf(d, t)
      hits == IF d.tables[t].index
              THEN {r \in Rids(rows) : d.indexes[t] # Absent /\ <<v, r>> \in d.indexes[t]}
              ELSE Rids(rows)
  IN  IF v = Absent THEN Rids(rows) ELSE {r \in hits : rows[r] = v}

(* The first k of them, in the order of the scan and of the index.           *)
First(k, rids) == {r \in rids : Cardinality({q \in rids : q <= r}) <= k}

-----------------------------------------------------------------------------
(* Statements: what they make of the session, and whether they get through   *)
(* to the save of the catalog page.                                          *)

Done(d)   == [db |-> d, ok |-> TRUE]
Raised(d) == [db |-> d, ok |-> FALSE]

(* A page of the free list is taken before the name is looked up. *)
Rooted_Mutant(d) ==
  LET n == IF d.free = << >> THEN NewPage(d) ELSE Last(d.free)
  IN  IF n = NoPage THEN [db |-> [d EXCEPT !.full = TRUE], root |-> n]
      ELSE [db |-> [d EXCEPT !.page[n] = Leaf(NoRows)], root |-> n]

Rooted(d) ==
  LET n == IF d.free = << >> THEN NewPage(d) ELSE Last(d.free)
  IN  IF n = NoPage THEN [db |-> [d EXCEPT !.full = TRUE], root |-> n]
      ELSE [db |-> Written([d EXCEPT !.page[n] = Leaf(NoRows),
                                     !.free = IF @ = << >> THEN @ ELSE Front(@)], {n}),
            root |-> n]

CreateTable(t) ==
  LET made == Rooted(Snapshotted(db))
  IN  IF Exists(db, t) THEN Raised(made.db)
      ELSE Done([made.db EXCEPT !.tables[t] =
                   [root |-> made.root, count |-> 0, next |-> 1, index |-> FALSE]])

(* The pages of a tree, the largest number first.                            *)
Freed(page, root) ==
  LET low == page[root].low
  IN  IF low = NoPage THEN <<root>> ELSE IF low > root THEN <<low, root>> ELSE <<root, low>>

DropTable(t) ==
  LET d == Snapshotted(db)
  IN  IF ~Exists(d, t) THEN Raised(d)
      ELSE Done([d EXCEPT !.indexes[t] = Absent,
                          !.free = @ \o Freed(d.page, d.tables[t].root),
                          !.tables[t] = Absent,
                          !.snap.live = @ \ {t}])

CreateIndex(t) ==
  LET d == Snapshotted(db)
  IN  IF ~Exists(d, t) \/ d.tables[t].index THEN Raised(d)
      ELSE Done([Declared(d, t, TRUE) EXCEPT !.indexes[t] = Pairs(RowsOf(d, t))])

DropIndex(t) ==
  LET d == Snapshotted(db)
  IN  IF ~Exists(d, t) \/ ~d.tables[t].index THEN Raised(d)
      ELSE Done([Declared(d, t, FALSE) EXCEPT !.indexes[t] = Absent])

(* One row of INSERT and of bulk_insert: a row id that is taken raises.      *)
InsertRow(so_far, t, row) ==
  LET d == so_far.db
      r == IF row.rid = NoRid THEN d.tables[t].next ELSE row.rid
      h == Holding(d, t, [RowsOf(d, t) EXCEPT ![r] = row.val])
  IN  CASE ~so_far.ok -> so_far
        [] so_far.ok /\ r \notin Rid -> Done([d EXCEPT !.full = TRUE])
        [] so_far.ok /\ r \in Rid /\ RowsOf(d, t)[r] # Absent -> Raised(d)
        [] OTHER -> Done(IndexAdd([h EXCEPT !.tables[t].count = @ + 1,
                                            !.tables[t].next = IF @ > r THEN @ ELSE r + 1],
                                  t, IF row.val = Null THEN {} ELSE {<<row.val, r>>}))

(* One row or two alike: the second has the row id of the first, if that was *)
(* given.                                                                    *)
Insert(d, t, row, twice) ==
  LET one == InsertRow(Done(d), t, row)
  IN  IF ~Exists(d, t) THEN Raised(d)
      ELSE IF twice /\ ~one.db.full THEN InsertRow(one, t, row) ELSE one

(* The rows rids of table t become v, or go (v is Absent).  The code writes  *)
(* them one by one, into the pages of this tree and to their own entries of  *)
(* the index: no statement sees less than all of it.                         *)
Rewritten(d, t, rids, v) ==
  LET rows == RowsOf(d, t)
      now  == [r \in Rid |-> IF r \in rids THEN v ELSE rows[r]]
      new  == IF v = Absent THEN {} ELSE PairsOf(now, rids)
  IN  IF rids = {} THEN d
      ELSE IndexAdd(IndexRemove(Holding(d, t, now), t, PairsOf(rows, rids)), t, new)

(* Writing one of the rows may raise: those before it have changed.          *)
Update(t, where, v, stop) ==
  LET d == Snapshotted(db)
      rids == Matching(d, t, where)
  IN  IF ~Exists(d, t) THEN Raised(d)
      ELSE [db |-> Rewritten(d, t, First(stop, rids), v), ok |-> stop = Cardinality(rids)]

Uncounted_Mutant(d, t, k) == d
Uncounted(d, t, k) == [d EXCEPT !.tables[t].count = @ - k]

Delete(t, where) ==
  LET d == Snapshotted(db)
      rids == Matching(d, t, where)
  IN  IF ~Exists(d, t) THEN Raised(d)
      ELSE Done(Uncounted(Rewritten(d, t, rids, Absent), t, Cardinality(rids)))

(* bulk_load takes new pages, never those of the free list; the old tree is  *)
(* left where it is, and no snapshot is taken.                               *)
Vacuumed(d, t) ==
  LET rows  == RowsOf(d, t)
      many  == Cardinality(Rids(rows)) > LeafRows
      first == NewPage(d)
      leaf  == [d EXCEPT !.page[first] = Leaf(IF many THEN Low(rows) ELSE rows)]
      root  == IF many THEN NewPage(leaf) ELSE first
      grown == IF many THEN [leaf EXCEPT !.page[root] = [rows |-> rows, low |-> first]] ELSE leaf
  IN  IF NoPage \in {first, root} THEN [d EXCEPT !.full = TRUE]
      ELSE Written([grown EXCEPT !.tables[t].root = root], {first, root})

VacuumTable(t) == IF Exists(db, t) THEN Done(Vacuumed(db, t)) ELSE Raised(db)

-----------------------------------------------------------------------------
(* Transactions *)

Init == /\ db = Fresh /\ stored = [page |-> Fresh.page, cat |-> Fresh.cat]
        /\ logged = FALSE /\ loose = Absent
        /\ mode = "committed" /\ calls = 0 /\ risks = {}

(* Between transactions pages that nothing names are as good as unused, and  *)
(* nothing reads what is left in a page of the free list.  A catalog page    *)
(* that a death would leave may name more than the session does.             *)
Named(d, t) == IF Exists(d, t) THEN Tree(d.page, d.tables[t].root) ELSE {}
NamedBy(page, tables) == UNION {Tree(page, tables[t].root) : t \in {u \in Table : tables[u] # Absent}}

Tidied(d, others) ==
  LET trees == (UNION {Named(d, t) : t \in Table}) \cup NamedBy(d.page, others)
  IN  [d EXCEPT !.page = [n \in PageNo |-> CASE n \in trees -> @[n]
                                             [] n \in ToSet(d.free) \ trees -> Leaf(NoRows)
                                             [] OTHER -> Absent]]

Tidy(d) == Tidied(d, IF loose = Absent THEN NoTables ELSE stored.cat)

Begin(how) == /\ mode \in Idle /\ mode' = how
              /\ "vacuum" \in Assumed => loose = Absent
              /\ UNCHANGED <<db, stored, logged, loose, calls, risks>>

(* A statement raises on its own account, or at the save, when the catalog   *)
(* is too large for its page.  What it has done stays until a rollback.      *)
Statement(result, risk) ==
  /\ \/ mode = "auto"
     \/ mode = "txn" /\ calls < MaxCalls
  /\ "failed" \in Assumed => "failed" \notin risks
  /\ ~result.db.full
  /\ LET ok == result.ok /\ Fits(result.db) IN
       /\ db' = IF ok THEN Saved(result.db) ELSE result.db
       /\ mode' = IF mode = "txn" THEN "txn" ELSE IF ok THEN "passed" ELSE "raised"
       /\ risks' = risks \cup risk \cup (IF ok THEN {} ELSE {"failed"})
  /\ calls' = IF mode = "txn" THEN calls + 1 ELSE calls
  /\ UNCHANGED <<stored, logged, loose>>

Quiet == IF db.snap = Absent THEN {"bulk"} ELSE {}   \* no statement has taken a snapshot

BulkInsert(t, row, twice) ==
  Statement(Insert(db, t, row, twice), Quiet)

VacuumInTxn(t) == mode = "txn" /\ Statement(VacuumTable(t), Quiet)

(* Outside a transaction the pages are written all the same, to no batch.    *)
Vacuum(t) ==
  LET d == Vacuumed(db, t) IN
  /\ mode \in Idle /\ Exists(db, t) /\ ~d.full
  /\ db' = [Tidied(Saved(d), stored.cat) EXCEPT !.wrote = {}]
  /\ loose' = [page |-> db'.page, cat |-> db'.cat]
  /\ UNCHANGED <<stored, logged, mode, calls, risks>>

(* Eviction and flush write these pages to the file one by one, in whatever  *)
(* order evictions make.  An image of the catalog page in the log outlasts   *)
(* the page in the file until the log is reset; the others have none there.  *)
FlushPage(n) ==
  /\ mode \in Idle /\ loose # Absent
  /\ loose.page[n] \notin {Absent, stored.page[n]}
  /\ stored' = [stored EXCEPT !.page[n] = loose.page[n]]
  /\ UNCHANGED <<db, logged, loose, mode, calls, risks>>

FlushCatalog ==
  /\ mode \in Idle /\ loose # Absent /\ ~logged
  /\ stored.cat # loose.cat /\ stored' = [stored EXCEPT !.cat = loose.cat]
  /\ UNCHANGED <<db, logged, loose, mode, calls, risks>>

(* A checkpoint, also that of a close, resets the log when all are written.  *)
Flushed == /\ \A n \in PageNo : loose.page[n] \in {Absent, stored.page[n]}
           /\ logged \/ stored.cat = loose.cat

Checkpoint ==
  /\ mode \in Idle
  /\ IF loose = Absent THEN UNCHANGED <<db, stored, loose>>
     ELSE /\ Flushed
          /\ db' = Tidied(db, NoTables)
          /\ stored' = [page |-> db'.page, cat |-> loose.cat]
          /\ loose' = Absent
  /\ logged' = FALSE
  /\ UNCHANGED <<mode, calls, risks>>

(* The batch holds the pages the transaction wrote.                          *)
Batched(now) ==
  IF loose = Absent THEN now
  ELSE [page |-> [n \in PageNo |-> IF n \in db.wrote THEN now.page[n] ELSE stored.page[n]],
        cat |-> IF 0 \in db.wrote THEN now.cat ELSE stored.cat]

Commit ==
  /\ mode \in {"txn", "passed"}
  /\ "failed" \in Assumed => "failed" \notin risks
  /\ db' = Tidy([db EXCEPT !.snap = Absent, !.wrote = {}])
  /\ LET now == [page |-> db'.page, cat |-> db'.cat] IN
       /\ stored' = Batched(now)
       /\ loose' = IF loose = Absent THEN Absent ELSE now
  /\ logged' = (logged \/ 0 \in db.wrote)
  /\ mode' = "committed" /\ calls' = 0 /\ risks' = {}

(* The pages go back (PageStore shows that they do), and the tables and      *)
(* indexes if a snapshot was taken; the restored catalog has no free page.   *)
Restored_Mutant(d) == [d EXCEPT !.page = Base.page, !.cat = Base.cat, !.snap = Absent]

Restored(d) ==
  LET back == [d EXCEPT !.page = Base.page, !.cat = Base.cat, !.snap = Absent]
  IN  IF d.snap = Absent THEN back
      ELSE [back EXCEPT !.tables = d.snap.tables, !.indexes = d.snap.indexes, !.free = << >>]

Rollback ==
  /\ mode \in {"txn", "raised"}
  /\ Assumed \cap {"index", "bulk"} \cap risks = {}
  /\ db' = [Tidy(Restored(db)) EXCEPT !.wrote = {}]
  /\ mode' = "rolledback" /\ calls' = 0 /\ risks' = {}
  /\ UNCHANGED <<stored, logged, loose>>

(* The trees that the catalog page in the file names are in the file as the  *)
(* session has them; where the log has that page, replay puts its own there. *)
Standing(page, tables) == \A n \in NamedBy(page, tables) : stored.page[n] = page[n]
Survives == loose # Absent /\ ~logged => Standing(loose.page, stored.cat)

(* The session is closed, or dies, and another one opens: the log is replayed *)
(* and reset.                                                                *)
Reopen ==
  /\ "survive" \in Assumed => Survives
  /\ db' = Tidied(Reloaded(stored), NoTables)
  /\ mode' = IF mode \in Idle THEN mode ELSE "rolledback"
  /\ calls' = 0 /\ risks' = {} /\ loose' = Absent /\ logged' = FALSE
  /\ UNCHANGED stored

Rows == [rid : Rid \cup {NoRid}, val : Column]

Next ==
  \/ \E how \in {"auto", "txn"} : Begin(how)
  \/ Commit \/ Rollback \/ Reopen \/ FlushCatalog \/ Checkpoint
  \/ \E n \in PageNo : FlushPage(n)
  \/ \E t \in Table :
       \/ Statement(CreateTable(t), {})
       \/ Statement(DropTable(t), {})
       \/ Statement(CreateIndex(t), {"index"})
       \/ Statement(DropIndex(t), {"index"})
       \/ \E row \in Rows, twice \in BOOLEAN :
            Statement(Insert(Snapshotted(db), t, row, twice), {})
       \/ \E row \in Rows, twice \in BOOLEAN : BulkInsert(t, row, twice)
       \/ VacuumInTxn(t)
       \/ Vacuum(t)
       \/ \E where \in Value \cup {Absent}, v \in Column, stop \in 0 .. MaxRid :
            /\ Exists(db, t) => stop <= Cardinality(Matching(db, t, where))
            /\ Statement(Update(t, where, v, stop), {})
       \/ \E where \in Value \cup {Absent} : Statement(Delete(t, where), {})

Spec == Init /\ [][Next]_vars

-----------------------------------------------------------------------------
(* Properties *)

TypeOK ==
  /\ mode \in {"txn", "auto", "passed", "raised"} \cup Idle
  /\ calls \in 0 .. MaxCalls /\ risks \subseteq Discipline
  /\ db \in Databases /\ stored \in Contained /\ loose \in Contained \cup {Absent}
  /\ logged \in BOOLEAN
  /\ ~db.full /\ (db.snap # Absent => mode \notin Idle)
  /\ \A t \in Table : /\ Exists(db, t) => db.page[db.tables[t].root] # Absent
                      /\ Base.cat[t] # Absent => Base.page[Base.cat[t].root] # Absent

(* Null stands for a tree that cannot be read.                               *)
Contents(page, tables) ==
  [t \in Table |-> CASE tables[t] = Absent -> Absent
                     [] tables[t] # Absent /\ page[tables[t].root] = Absent -> Null
                     [] OTHER -> page[tables[t].root].rows]

(* To its users the database is a map from tables to rows: a statement       *)
(* changes one table, a rollback (engine.py:417) brings back what BEGIN      *)
(* found, whatever tables and trees have come and gone since, and a session  *)
(* that opens (engine.py:57) finds exactly what was committed.               *)
Tables == INSTANCE Dictionary
            WITH Key <- Table, NoRow <- Absent,
                 rows <- Contents(db.page, db.tables),
                 saved <- IF mode \in Idle THEN NoTables ELSE Contents(Base.page, Base.cat),
                 txn <- IF mode \in Idle THEN mode ELSE "open"
ImplementsTables == Tables!Spec

(* The catalog in memory is the one on the catalog page whenever no          *)
(* statement runs: roots, counts, next row ids and declared indexes, after   *)
(* commit (engine.py:399), rollback (engine.py:417) and reload               *)
(* (catalog.py:93).                                                          *)
CatalogIsStored ==
  mode \in Idle =>
    /\ db.tables = Base.cat
    /\ \A t \in Table : Exists(db, t) =>
         \A n \in Tree(db.page, db.tables[t].root) : db.page[n] = Base.page[n]

(* A declared index holds exactly the rows of its table that have a value,   *)
(* in the middle of a transaction and after it ended, so that a query by     *)
(* index (engine.py:683) finds what a scan finds; and nothing is kept of an  *)
(* index that is not declared.                                               *)
IndexesAgree ==
  \A t \in Table : db.indexes[t] =
    IF Exists(db, t) /\ db.tables[t].index THEN Pairs(RowsOf(db, t)) ELSE Absent

(* The row count is the number of rows, and the next row id is beyond all of *)
(* them (engine.py:564), through rollbacks, dropped and recreated tables.    *)
CountsRight ==
  \A t \in Table : Exists(db, t) =>
    /\ db.tables[t].count = Cardinality(Rids(RowsOf(db, t)))
    /\ \A r \in Rids(RowsOf(db, t)) : r < db.tables[t].next

(* No page belongs to two trees, or to a tree and the free list, and none is *)
(* on the free list twice (engine.py:453, 494).                              *)
PagesOwnedOnce ==
  /\ IsInjective(db.free)
  /\ \A t \in Table : Named(db, t) \cap ToSet(db.free) = {}
  /\ \A t, u \in Table : t # u => Named(db, t) \cap Named(db, u) = {}
=============================================================================
