--------------------------- MODULE CatalogProofs ---------------------------
(* The catalog, the indexes and the free list of Catalog, for every number   *)
(* of tables, rows and pages, as long as the callers keep the disciplines.   *)
EXTENDS Catalog, FiniteSetTheorems, WellFoundedInduction, TLAPS

(* What the callers keep to: see Discipline.                                 *)
Disciplined == Assumed = Discipline

(* The tree below page n is whole: a leaf, or a root over another leaf.      *)
Whole(page, n) ==
  /\ page[n] # Absent
  /\ page[n].low # NoPage => /\ page[n].low # n /\ page[page[n].low] # Absent
                             /\ page[page[n].low].low = NoPage

Counted(meta, rows) == /\ meta.count = Cardinality(Rids(rows))
                       /\ \A r \in Rids(rows) : r < meta.next

(* Pages and the catalog that names them belong together.                    *)
Sound(page, tables) ==
  /\ page \in Pages /\ tables \in Metas
  /\ \A t \in Table : tables[t] # Absent =>
       Whole(page, tables[t].root) /\ Counted(tables[t], page[tables[t].root].rows)
  /\ \A t, u \in Table : t # u /\ tables[t] # Absent /\ tables[u] # Absent =>
       Tree(page, tables[t].root) \cap Tree(page, tables[u].root) = {}

(* The pages of the free list are pages that no tree has and that no         *)
(* allocation finds unused.                                                  *)
FreeList(d) ==
  /\ IsInjective(d.free)
  /\ \A n \in ToSet(d.free) : d.page[n] # Absent
  /\ \A t \in Table : Named(d, t) \cap ToSet(d.free) = {}

SharedTables(d) == d.snap # Absent => \A t \in d.snap.live : d.snap.tables[t] # Absent

Consistent(d) ==
  /\ d \in Databases
  /\ Sound(d.page, d.tables)
  /\ d.indexes = Rebuilt(d.page, d.tables)
  /\ FreeList(d) /\ SharedTables(d)

(* The tables and their trees are those of s.                                *)
SameTrees(d, s) ==
  /\ d.tables = s.cat
  /\ \A t \in Table : Exists(d, t) => \A n \in Tree(d.page, d.tables[t].root) : d.page[n] = s.page[n]

(* After a vacuum outside a transaction the pages hold two sets of trees:    *)
(* those of the session, and those that the stored catalog page names, with  *)
(* the same rows.  What the log holds of the latter nothing writes over.     *)
TwoSets ==
  /\ mode \in Idle /\ loose \in Contained
  /\ loose.page = db.page /\ loose.cat = db.tables
  /\ Sound(db.page, stored.cat)
  /\ Contents(db.page, stored.cat) = Contents(db.page, db.tables)
  /\ logged => Standing(db.page, stored.cat)

Inv ==
  /\ mode \in {"txn", "auto", "passed", "raised"} \cup Idle
  /\ calls \in 0 .. MaxCalls /\ risks \subseteq Discipline
  /\ Consistent(db) /\ ~db.full
  /\ stored \in Contained /\ logged \in BOOLEAN
  /\ loose = Absent => Sound(stored.page, stored.cat)
  /\ loose # Absent => TwoSets
  /\ mode \in Idle => db.snap = Absent /\ risks = {}
  /\ "failed" \notin risks => db.cat = db.tables
  /\ db.snap = Absent /\ "bulk" \notin risks => SameTrees(db, Base)
  /\ db.snap # Absent /\ risks \cap {"index", "bulk"} = {} =>
       db.snap.tables = stored.cat /\ db.snap.indexes = Rebuilt(stored.page, stored.cat)

-----------------------------------------------------------------------------
(* Pages and trees *)

LEMMA AbsentIsNone ==
  /\ Absent \notin Node /\ Absent \notin Meta
  /\ Absent \notin Contained /\ Absent \notin Snapshots
  /\ \A pairs \in SUBSET (Value \X Rid) : pairs # Absent
BY CatalogAssumption

LEMMA FieldsOf ==
  ASSUME NEW d \in Databases
  PROVE  /\ d.page \in Pages /\ d.cat \in Metas /\ d.tables \in Metas
         /\ d.free \in Seq(PageNo) /\ d.indexes \in Indexes
         /\ d.snap \in Snapshots \cup {Absent}
         /\ d.wrote \in SUBSET (0 .. MaxPages) /\ d.full \in BOOLEAN
BY DEF Databases

LEMMA NodeAt ==
  ASSUME NEW page \in Pages, NEW n \in PageNo, page[n] # Absent
  PROVE  /\ page[n] \in Node /\ page[n].rows \in Row
         /\ page[n].low \in PageNo \cup {NoPage}
BY CatalogAssumption DEF Pages, Node, PageNo, NoPage

LEMMA MetaOf ==
  ASSUME NEW tables \in Metas, NEW t \in Table, tables[t] # Absent
  PROVE  /\ tables[t] \in Meta /\ tables[t].root \in PageNo
         /\ tables[t].count \in Nat /\ tables[t].next \in Nat \ {0}
         /\ tables[t].index \in BOOLEAN
BY DEF Metas, Meta

(* The pages of a whole tree are pages, and none of them is unused.          *)
LEMMA PagesOfTree ==
  ASSUME NEW page \in Pages, NEW n \in PageNo, Whole(page, n)
  PROVE  /\ Tree(page, n) \subseteq PageNo /\ n \in Tree(page, n)
         /\ \A m \in Tree(page, n) : page[m] # Absent
         /\ Tree(page, n) = IF page[n].low = NoPage THEN {n} ELSE {n, page[n].low}
BY NodeAt DEF Whole, Tree

(* The tree below n is the same among the pages other.                       *)
Stands(page, other, n) ==
  /\ Whole(other, n) /\ Tree(other, n) = Tree(page, n)
  /\ other[n] = page[n] /\ Below(other, n) = Below(page, n)

(* A tree stands as long as its pages do.                                    *)
LEMMA SameTree ==
  ASSUME NEW page, NEW other, NEW n, Whole(page, n),
         \A m \in Tree(page, n) : other[m] = page[m]
  PROVE  Stands(page, other, n)
<1>1. n \in Tree(page, n) /\ page[n] # Absent
  BY DEF Tree, Whole
<1>2. other[n] = page[n]
  BY <1>1
<1>3. page[n].low # NoPage => page[n].low \in Tree(page, n)
  BY <1>1 DEF Tree
<1>4. page[n].low # NoPage => other[page[n].low] = page[page[n].low]
  BY <1>3
<1> QED
  BY <1>1, <1>2, <1>4 DEF Stands, Whole, Tree, Below

LEMMA NamedPages ==
  ASSUME NEW d, Sound(d.page, d.tables), NEW t \in Table
  PROVE  /\ Named(d, t) \subseteq PageNo
         /\ \A m \in Named(d, t) : d.page[m] # Absent
BY MetaOf, PagesOfTree DEF Named, Exists, Sound

-----------------------------------------------------------------------------
(* What a statement about table t may make of the session *)

Unused(d) == {n \in PageNo : d.page[n] = Absent}

(* The pages of no other table are lost or written.                          *)
PagesKept(d, h, t) ==
  \A n \in PageNo :
    /\ d.page[n] # Absent => h.page[n] # Absent
    /\ h.page[n] = d.page[n] \/ n \in Unused(d) \cup Named(d, t) \cup ToSet(d.free)

Changes(d, h, t) ==
  /\ h \in Databases
  /\ \A u \in Table \ {t} : h.tables[u] = d.tables[u] /\ h.indexes[u] = d.indexes[u]
  /\ PagesKept(d, h, t)
  /\ Named(h, t) \subseteq Unused(d) \cup Named(d, t) \cup ToSet(d.free)
  /\ ToSet(h.free) \subseteq Named(d, t) \cup ToSet(d.free)
  /\ IsInjective(h.free) /\ Named(h, t) \cap ToSet(h.free) = {}
  /\ Exists(h, t) => Whole(h.page, h.tables[t].root) /\ Counted(h.tables[t], RowsOf(h, t))
  /\ h.indexes[t] = Rebuilt(h.page, h.tables)[t]
  /\ SharedTables(h)

(* The tree of another table stays as it was.                                *)
LEMMA OthersStand ==
  ASSUME NEW d, NEW h, NEW t \in Table, Consistent(d), Changes(d, h, t),
         NEW u \in Table \ {t}, Exists(d, u)
  PROVE  /\ Exists(h, u) /\ Whole(h.page, h.tables[u].root)
         /\ Named(h, u) = Named(d, u)
         /\ h.page[h.tables[u].root] = d.page[d.tables[u].root]
         /\ RowsOf(h, u) = RowsOf(d, u)
<1> DEFINE n == d.tables[u].root
<1>1. Whole(d.page, n) /\ Named(d, u) = Tree(d.page, n)
  BY DEF Consistent, Sound, Exists, Named
<1>2. \A m \in Tree(d.page, n) : h.page[m] = d.page[m]
  <2> SUFFICES ASSUME NEW m \in Tree(d.page, n) PROVE h.page[m] = d.page[m]
    OBVIOUS
  <2>1. m \in PageNo /\ d.page[m] # Absent
    BY <1>1, NamedPages DEF Consistent
  <2>2. m \notin Named(d, t)
    BY <1>1 DEF Consistent, Sound, Named, Exists
  <2>3. m \notin ToSet(d.free)
    BY <1>1 DEF Consistent, FreeList
  <2> QED
    BY <2>1, <2>2, <2>3 DEF Changes, PagesKept, Unused
<1>3. h.tables[u] = d.tables[u]
  BY DEF Changes
<1>4. /\ Whole(h.page, n) /\ Tree(h.page, n) = Tree(d.page, n)
      /\ h.page[n] = d.page[n] /\ Below(h.page, n) = Below(d.page, n)
  <2>1. Stands(d.page, h.page, n)
    <3> HIDE DEF n
    <3> QED
      BY <1>1, <1>2, SameTree
  <2> QED
    BY <2>1 DEF Stands
<1> QED
  BY <1>1, <1>3, <1>4 DEF Exists, Named, RowsOf

LEMMA ChangesKeep ==
  ASSUME NEW d, NEW h, NEW t \in Table, Consistent(d), Changes(d, h, t)
  PROVE  /\ Consistent(h)
         /\ \A u \in Table \ {t} :
              Contents(h.page, h.tables)[u] = Contents(d.page, d.tables)[u]
<1>1. h \in Databases /\ h.page \in Pages /\ h.tables \in Metas /\ h.indexes \in Indexes
  BY FieldsOf DEF Changes
<1>2. \A u \in Table \ {t} : (Exists(h, u) <=> Exists(d, u)) /\ h.tables[u] = d.tables[u]
  BY DEF Changes, Exists
<1>3. \A u \in Table : Exists(h, u) =>
        Whole(h.page, h.tables[u].root) /\ Counted(h.tables[u], h.page[h.tables[u].root].rows)
  <2> SUFFICES ASSUME NEW u \in Table, Exists(h, u)
               PROVE  Whole(h.page, h.tables[u].root) /\ Counted(h.tables[u], h.page[h.tables[u].root].rows)
    OBVIOUS
  <2>1. CASE u = t
    BY <2>1 DEF Changes, RowsOf, Below, Whole
  <2>2. CASE u # t
    <3>1. Exists(d, u) /\ h.tables[u] = d.tables[u]
      BY <1>2, <2>2
    <3>2. Counted(d.tables[u], d.page[d.tables[u].root].rows)
      BY <3>1 DEF Consistent, Sound, Exists
    <3> QED
      BY <2>2, <3>1, <3>2, OthersStand
  <2> QED
    BY <2>1, <2>2
<1>4. ASSUME NEW u \in Table \ {t} PROVE Named(h, u) = Named(d, u)
  <2>1. CASE Exists(d, u)
    BY <2>1, OthersStand
  <2>2. CASE ~Exists(d, u)
    BY <1>2, <2>2 DEF Named
  <2> QED
    BY <2>1, <2>2
<1>5. ASSUME NEW u \in Table \ {t} PROVE Named(h, u) \cap Named(h, t) = {}
  <2>1. Named(d, u) \cap Unused(d) = {}
    BY NamedPages DEF Consistent, Unused
  <2>2. Named(d, u) \cap Named(d, t) = {}
    BY DEF Consistent, Sound, Named, Exists
  <2>3. Named(d, u) \cap ToSet(d.free) = {}
    BY DEF Consistent, FreeList
  <2> QED
    BY <1>4, <2>1, <2>2, <2>3 DEF Changes
<1>6. \A u, w \in Table : u # w => Named(h, u) \cap Named(h, w) = {}
  <2> SUFFICES ASSUME NEW u \in Table, NEW w \in Table, u # w
               PROVE  Named(h, u) \cap Named(h, w) = {}
    OBVIOUS
  <2>1. CASE u = t \/ w = t
    BY <1>5, <2>1
  <2>2. CASE u # t /\ w # t
    <3>1. Named(d, u) \cap Named(d, w) = {}
      BY DEF Consistent, Sound, Named, Exists
    <3> QED
      BY <1>4, <2>2, <3>1
  <2> QED
    BY <2>1, <2>2
<1>7. Sound(h.page, h.tables)
  BY <1>1, <1>3, <1>6 DEF Sound, Named, Exists
<1>8. h.indexes = Rebuilt(h.page, h.tables)
  <2>1. ASSUME NEW u \in Table PROVE h.indexes[u] = Rebuilt(h.page, h.tables)[u]
    <3>1. CASE u = t
      BY <3>1 DEF Changes
    <3>2. CASE u # t
      <4>1. h.indexes[u] = Rebuilt(d.page, d.tables)[u] /\ h.tables[u] = d.tables[u]
        BY <3>2 DEF Changes, Consistent
      <4>2. CASE Exists(d, u)
        BY <3>2, <4>1, <4>2, OthersStand DEF Rebuilt, RowsOf
      <4>3. CASE ~Exists(d, u)
        BY <4>1, <4>3 DEF Rebuilt, Exists
      <4> QED
        BY <4>2, <4>3
    <3> QED
      BY <3>1, <3>2
  <2> QED
    BY <1>1, <2>1 DEF Indexes, Rebuilt
<1>9. FreeList(h)
  <2>1. ASSUME NEW n \in ToSet(h.free) PROVE h.page[n] # Absent
    <3>1. n \in Named(d, t) \/ n \in ToSet(d.free)
      BY DEF Changes
    <3>2. d.page[n] # Absent
      BY <3>1, NamedPages DEF Consistent, FreeList
    <3>3. n \in PageNo
      <4>1. h.free \in Seq(PageNo)
        BY <1>1, FieldsOf
      <4> QED
        BY <4>1 DEF ToSet
    <3> QED
      BY <3>2, <3>3 DEF Changes, PagesKept
  <2>2. ASSUME NEW u \in Table PROVE Named(h, u) \cap ToSet(h.free) = {}
    <3>1. CASE u = t
      BY <3>1 DEF Changes
    <3>2. CASE u # t
      <4>1. Named(d, u) \cap Named(d, t) = {}
        BY <3>2 DEF Consistent, Sound, Named, Exists
      <4>2. Named(d, u) \cap ToSet(d.free) = {}
        BY DEF Consistent, FreeList
      <4> QED
        BY <1>4, <3>2, <4>1, <4>2 DEF Changes
    <3> QED
      BY <3>1, <3>2
  <2> QED
    BY <2>1, <2>2 DEF FreeList, Changes
<1>10. ASSUME NEW u \in Table \ {t}
       PROVE  Contents(h.page, h.tables)[u] = Contents(d.page, d.tables)[u]
  <2>1. CASE Exists(d, u)
    <3>1. d.page[d.tables[u].root] # Absent
      BY <2>1 DEF Consistent, Sound, Whole, Exists
    <3> QED
      BY <2>1, <3>1, OthersStand DEF Contents, Exists
  <2>2. CASE ~Exists(d, u)
    BY <1>2, <2>2 DEF Contents, Exists
  <2> QED
    BY <2>1, <2>2
<1> QED
  BY <1>1, <1>7, <1>8, <1>9, <1>10 DEF Consistent, Changes

-----------------------------------------------------------------------------
(* Growing trees *)

LEMMA Smallest ==
  ASSUME NEW S \in SUBSET Nat, S # {}
  PROVE  \E m \in S : \A x \in S : m <= x
<1> DEFINE Less == OpToRel(<, Nat)
<1>1. IsWellFoundedOn(Less, Nat)
  BY NatLessThanWellFounded
<1> HIDE DEF Less
<1>2. PICK m \in S : \A x \in S : ~(<<x, m>> \in Less)
  BY <1>1, WFMin
<1>3. ASSUME NEW x \in S, x < m
      PROVE  FALSE
  <2>1. x \in Nat /\ m \in Nat
    OBVIOUS
  <2>2. <<x, m>> \in Less
    BY <1>3, <2>1 DEF OpToRel, Less
  <2> QED
    BY <1>2, <2>2
<1>4. \A x \in S : x \in Nat /\ m \in Nat
  OBVIOUS
<1> QED
  BY <1>3, <1>4

(* allocate finds an unused page.                                            *)
LEMMA NewPageUnused ==
  ASSUME NEW d, NewPage(d) # NoPage
  PROVE  NewPage(d) \in Unused(d) /\ NewPage(d) \in PageNo
<1> DEFINE unused == {n \in PageNo : d.page[n] = Absent /\ stored.page[n] = Absent}
<1>1. unused # {} /\ NewPage(d) = CHOOSE n \in unused : \A m \in unused : n <= m
  BY DEF NewPage
<1>2. unused \in SUBSET Nat
  BY CatalogAssumption DEF PageNo
<1>3. \E n \in unused : \A m \in unused : n <= m
  <2> HIDE DEF unused
  <2> QED
    BY <1>1, <1>2, Smallest
<1>4. NewPage(d) \in unused
  BY <1>1, <1>3
<1> QED
  BY <1>4 DEF Unused

(* Table t of h has a whole tree with the given rows, out of pages that were *)
(* unused or its own, and the rest of h is as it was.                        *)
Grown(d, h, t, rows) ==
  /\ h \in Databases /\ h.full = d.full
  /\ h.cat = d.cat /\ h.free = d.free /\ h.indexes = d.indexes /\ h.snap = d.snap
  /\ \A u \in Table \ {t} : h.tables[u] = d.tables[u]
  /\ Exists(h, t) /\ h.tables[t].count = d.tables[t].count
  /\ h.tables[t].next = d.tables[t].next /\ h.tables[t].index = d.tables[t].index
  /\ Whole(h.page, h.tables[t].root) /\ h.page[h.tables[t].root].rows = rows
  /\ \A n \in PageNo : /\ d.page[n] # Absent => h.page[n] # Absent
                       /\ h.page[n] = d.page[n] \/ n \in Unused(d) \cup Named(d, t)
  /\ Named(h, t) \subseteq Unused(d) \cup Named(d, t)

LEMMA LowIsRow ==
  ASSUME NEW rows \in Row
  PROVE  Low(rows) \in Row /\ Leaf(rows) \in Node /\ Leaf(Low(rows)) \in Node
<1>1. Low(rows) \in Row
  BY DEF Low, Row
<1>2. \A r \in Row : Leaf(r) \in Node
  BY CatalogAssumption DEF Leaf, Node, NoPage
<1> QED
  BY <1>1, <1>2

(* What grows is told by its pages and its root alone.                       *)
Replanted(d, t, page, root) == [d EXCEPT !.page = page, !.tables[t].root = root]

GrowsInto(d, t, page, root, rows) ==
  /\ page \in Pages /\ root \in PageNo
  /\ Whole(page, root) /\ page[root].rows = rows
  /\ \A n \in PageNo : /\ d.page[n] # Absent => page[n] # Absent
                       /\ page[n] = d.page[n] \/ n \in Unused(d) \cup Named(d, t)
  /\ Tree(page, root) \subseteq Unused(d) \cup Named(d, t)

LEMMA GrownBy ==
  ASSUME NEW d \in Databases, NEW t \in Table, Exists(d, t), NEW rows,
         NEW page, NEW root, GrowsInto(d, t, page, root, rows)
  PROVE  Grown(d, Replanted(d, t, page, root), t, rows)
<1> DEFINE h == Replanted(d, t, page, root)
           meta == [d.tables[t] EXCEPT !.root = root]
           tables == [d.tables EXCEPT ![t] = meta]
<1>1. d.tables \in Metas /\ d.tables[t] \in Meta /\ page \in Pages /\ root \in PageNo
  BY FieldsOf, MetaOf DEF Exists, GrowsInto
<1>2. /\ meta \in Meta /\ meta.root = root /\ meta.count = d.tables[t].count
      /\ meta.next = d.tables[t].next /\ meta.index = d.tables[t].index
  BY <1>1 DEF Meta
<1>3. tables \in Metas /\ tables[t] = meta /\ \A u \in Table \ {t} : tables[u] = d.tables[u]
  BY <1>1, <1>2 DEF Metas
<1>4. meta # Absent
  BY <1>2, AbsentIsNone
<1>5. h = [d EXCEPT !.page = page, !.tables = tables]
  BY DEF Databases, Replanted
<1> HIDE DEF tables, meta
<1>6. /\ h \in Databases /\ h.page = page /\ h.tables = tables /\ h.full = d.full
      /\ h.cat = d.cat /\ h.free = d.free /\ h.indexes = d.indexes /\ h.snap = d.snap
  BY <1>1, <1>3, <1>5 DEF Databases
<1> HIDE DEF h
<1>7. Exists(h, t) /\ Named(h, t) = Tree(page, root)
  BY <1>2, <1>3, <1>4, <1>6 DEF Exists, Named
<1>8. Grown(d, h, t, rows)
  BY <1>2, <1>3, <1>6, <1>7 DEF Grown, GrowsInto
<1> QED
  BY <1>8 DEF h

(* A root that stays. *)
LEMMA RootKept ==
  ASSUME NEW d \in Databases, NEW t \in Table, Exists(d, t), NEW page
  PROVE  [d EXCEPT !.page = page] = Replanted(d, t, page, d.tables[t].root)
<1>1. d.tables \in Metas /\ d.tables[t] \in Meta
  BY FieldsOf, MetaOf DEF Exists
<1>2. [d.tables[t] EXCEPT !.root = d.tables[t].root] = d.tables[t]
  BY <1>1 DEF Meta
<1>3. [d.tables EXCEPT ![t].root = d.tables[t].root] = d.tables
  BY <1>1, <1>2 DEF Metas
<1>4. [d EXCEPT !.page = page, !.tables[t].root = d.tables[t].root]
        = [d EXCEPT !.page = page, !.tables = [d.tables EXCEPT ![t].root = d.tables[t].root]]
  BY DEF Databases
<1>5. [d EXCEPT !.page = page, !.tables = d.tables] = [d EXCEPT !.page = page]
  BY DEF Databases
<1> QED
  BY <1>3, <1>4, <1>5 DEF Replanted

(* insert, delete and upsert of the tree of a table. *)
LEMMA RegrownTree ==
  ASSUME NEW d \in Databases, NEW t \in Table, Exists(d, t),
         Whole(d.page, d.tables[t].root), NEW rows \in Row,
         ~Regrown(d, t, rows).full
  PROVE  Grown(d, Regrown(d, t, rows), t, rows)
<1> DEFINE root == d.tables[t].root
           low  == d.page[root].low
           many == Cardinality(Rids(rows)) > LeafRows
           new  == NewPage(d)
<1>1. /\ d.page \in Pages /\ root \in PageNo /\ d.page[root] \in Node /\ d.page[root] # Absent
      /\ low \in PageNo \cup {NoPage} /\ d.full \in BOOLEAN
      /\ low # NoPage => low # root /\ d.page[low] # Absent
  BY FieldsOf, MetaOf, NodeAt DEF Exists, Whole
<1>2. Leaf(rows) \in Node /\ Leaf(Low(rows)) \in Node /\ NoPage \notin PageNo
  BY LowIsRow, CatalogAssumption DEF NoPage, PageNo
<1>3. Absent \notin Node
  BY AbsentIsNone
<1>4. Named(d, t) = IF low = NoPage THEN {root} ELSE {root, low}
  BY <1>1 DEF Named, Tree
<1>5. \A r : Leaf(r).low = NoPage /\ Leaf(r).rows = r
  BY DEF Leaf
<1>6. CASE many /\ low = NoPage /\ new = NoPage
  <2>1. Regrown(d, t, rows) = [d EXCEPT !.full = TRUE]
    BY <1>6 DEF Regrown
  <2> QED
    BY <2>1 DEF Databases
<1>7. CASE many /\ low = NoPage /\ new # NoPage
  <2> DEFINE top  == [rows |-> rows, low |-> root]
             page == [d.page EXCEPT ![root] = Leaf(Low(rows)), ![new] = top]
  <2>1. new \in Unused(d) /\ new \in PageNo
    BY <1>7, NewPageUnused
  <2>2. new # root
    BY <1>1, <2>1 DEF Unused
  <2>3. top \in Node /\ top.low = root /\ top.rows = rows
    BY <1>1, CatalogAssumption DEF Node, PageNo
  <2>4. /\ page \in Pages /\ page[new] = top /\ page[root] = Leaf(Low(rows))
        /\ \A n \in PageNo \ {root, new} : page[n] = d.page[n]
    BY <1>1, <1>2, <2>1, <2>2, <2>3 DEF Pages
  <2>5. Regrown(d, t, rows) = Replanted(d, t, page, new)
    BY <1>7 DEF Regrown, Databases, Replanted
  <2> HIDE DEF page, top
  <2>6. Whole(page, new) /\ Tree(page, new) = {new, root}
    <3>1. /\ page[new] = top /\ top # Absent /\ top.low = root
          /\ root # NoPage /\ root # new
      BY <1>1, <1>2, <1>3, <2>2, <2>3, <2>4
    <3>2. page[root] # Absent /\ page[root].low = NoPage
      BY <1>2, <1>3, <1>5, <2>4
    <3> HIDE DEF root, low, many, new
    <3> QED
      BY <3>1, <3>2 DEF Whole, Tree
  <2>7. \A n \in PageNo : /\ d.page[n] # Absent => page[n] # Absent
                          /\ page[n] = d.page[n] \/ n \in Unused(d) \cup Named(d, t)
    BY <1>1, <1>2, <1>3, <1>4, <2>1, <2>3, <2>4
  <2>8. Tree(page, new) \subseteq Unused(d) \cup Named(d, t)
    BY <1>4, <2>1, <2>6
  <2>9. page[new].rows = rows
    BY <2>3, <2>4
  <2>10. GrowsInto(d, t, page, new, rows)
    BY <2>1, <2>4, <2>6, <2>7, <2>8, <2>9 DEF GrowsInto
  <2> HIDE DEF root, low, many, new
  <2> QED
    BY <2>5, <2>10, GrownBy
<1>8. CASE ~many /\ low # NoPage
  <2> DEFINE page == [d.page EXCEPT ![low] = Leaf(rows)]
  <2>1. low \in PageNo
    BY <1>1, <1>8
  <2>2. /\ page \in Pages /\ page[low] = Leaf(rows)
        /\ \A n \in PageNo \ {low} : page[n] = d.page[n]
    BY <1>1, <1>2, <2>1 DEF Pages
  <2>3. Regrown(d, t, rows) = Replanted(d, t, page, low)
    BY <1>8 DEF Regrown, Databases, Replanted
  <2> HIDE DEF page
  <2>4. Whole(page, low) /\ Tree(page, low) = {low} /\ page[low].rows = rows
    BY <1>2, <1>3, <1>5, <2>2 DEF Whole, Tree
  <2>5. \A n \in PageNo : /\ d.page[n] # Absent => page[n] # Absent
                          /\ page[n] = d.page[n] \/ n \in Unused(d) \cup Named(d, t)
    BY <1>2, <1>3, <1>4, <1>8, <2>2
  <2>6. Tree(page, low) \subseteq Unused(d) \cup Named(d, t)
    BY <1>4, <1>8, <2>4
  <2>7. GrowsInto(d, t, page, low, rows)
    BY <2>1, <2>2, <2>4, <2>5, <2>6 DEF GrowsInto
  <2> HIDE DEF root, low, many, new
  <2> QED
    BY <2>3, <2>7, GrownBy
<1>9. CASE many /\ low # NoPage
  <2> DEFINE top  == [d.page[root] EXCEPT !.rows = rows]
             page == [d.page EXCEPT ![root].rows = rows, ![low] = Leaf(Low(rows))]
  <2>1. low \in PageNo /\ low # root
    BY <1>1, <1>9
  <2>2. top \in Node /\ top.low = low /\ top.rows = rows
    BY <1>1 DEF Node
  <2>3. /\ page \in Pages /\ page[low] = Leaf(Low(rows)) /\ page[root] = top
        /\ \A n \in PageNo \ {root, low} : page[n] = d.page[n]
    BY <1>1, <1>2, <2>1, <2>2 DEF Pages
  <2>4. Regrown(d, t, rows) = [d EXCEPT !.page = page]
    BY <1>9 DEF Regrown, Databases
  <2> HIDE DEF page, top
  <2>5. Whole(page, root) /\ Tree(page, root) = {root, low} /\ page[root].rows = rows
    <3>1. /\ page[root] = top /\ top # Absent /\ top.low = low /\ top.rows = rows
          /\ low # NoPage /\ low # root
      BY <1>3, <1>9, <2>1, <2>2, <2>3
    <3>2. page[low] # Absent /\ page[low].low = NoPage
      BY <1>2, <1>3, <1>5, <2>3
    <3> HIDE DEF root, low, many, new
    <3> QED
      BY <3>1, <3>2 DEF Whole, Tree
  <2>6. \A n \in PageNo : /\ d.page[n] # Absent => page[n] # Absent
                          /\ page[n] = d.page[n] \/ n \in Unused(d) \cup Named(d, t)
    BY <1>2, <1>3, <1>4, <1>9, <2>2, <2>3
  <2>7. Tree(page, root) \subseteq Unused(d) \cup Named(d, t)
    BY <1>4, <1>9, <2>5
  <2>8. Regrown(d, t, rows) = Replanted(d, t, page, root)
    BY <2>4, RootKept
  <2>9. GrowsInto(d, t, page, root, rows)
    BY <1>1, <2>3, <2>5, <2>6, <2>7 DEF GrowsInto
  <2> HIDE DEF root, low, many, new
  <2> QED
    BY <2>8, <2>9, GrownBy
<1>10. CASE ~many /\ low = NoPage
  <2> DEFINE top  == [d.page[root] EXCEPT !.rows = rows]
             page == [d.page EXCEPT ![root].rows = rows]
  <2>1. top \in Node /\ top.low = NoPage /\ top.rows = rows
    BY <1>1, <1>10 DEF Node
  <2>2. /\ page \in Pages /\ page[root] = top
        /\ \A n \in PageNo \ {root} : page[n] = d.page[n]
    BY <1>1, <2>1 DEF Pages
  <2>3. Regrown(d, t, rows) = [d EXCEPT !.page = page]
    BY <1>10 DEF Regrown, Databases
  <2> HIDE DEF page, top
  <2>4. Whole(page, root) /\ Tree(page, root) = {root} /\ page[root].rows = rows
    BY <1>3, <2>1, <2>2 DEF Whole, Tree
  <2>5. \A n \in PageNo : /\ d.page[n] # Absent => page[n] # Absent
                          /\ page[n] = d.page[n] \/ n \in Unused(d) \cup Named(d, t)
    BY <1>3, <1>4, <1>10, <2>1, <2>2
  <2>6. Tree(page, root) \subseteq Unused(d) \cup Named(d, t)
    BY <1>4, <1>10, <2>4
  <2>7. Regrown(d, t, rows) = Replanted(d, t, page, root)
    BY <2>3, RootKept
  <2>8. GrowsInto(d, t, page, root, rows)
    BY <1>1, <2>2, <2>4, <2>5, <2>6 DEF GrowsInto
  <2> HIDE DEF root, low, many, new
  <2> QED
    BY <2>7, <2>8, GrownBy
<1> QED
  BY <1>6, <1>7, <1>8, <1>9, <1>10

(* What write() of a page notes.                                             *)
LEMMA WrittenFields ==
  ASSUME NEW d \in Databases, NEW P \in SUBSET (0 .. MaxPages)
  PROVE  /\ Written(d, P) \in Databases /\ Written(d, P).full = d.full
         /\ Written(d, P).page = d.page /\ Written(d, P).cat = d.cat
         /\ Written(d, P).tables = d.tables /\ Written(d, P).free = d.free
         /\ Written(d, P).indexes = d.indexes /\ Written(d, P).snap = d.snap
BY DEF Written, Databases

LEMMA WrittenGrown ==
  ASSUME NEW d, NEW h, NEW t \in Table, NEW rows, Grown(d, h, t, rows),
         NEW P \in SUBSET (0 .. MaxPages)
  PROVE  Grown(d, Written(h, P), t, rows)
<1> DEFINE w == Written(h, P)
<1>1. /\ w \in Databases /\ w.full = h.full /\ w.page = h.page /\ w.cat = h.cat
      /\ w.tables = h.tables /\ w.free = h.free /\ w.indexes = h.indexes /\ w.snap = h.snap
  BY WrittenFields DEF Grown
<1> HIDE DEF w
<1>2. (Exists(w, t) <=> Exists(h, t)) /\ Named(w, t) = Named(h, t)
  BY <1>1 DEF Exists, Named
<1>3. Grown(d, w, t, rows)
  BY <1>1, <1>2 DEF Grown
<1> QED
  BY <1>3 DEF w

LEMMA HoldingTree ==
  ASSUME NEW d \in Databases, NEW t \in Table, Exists(d, t),
         Whole(d.page, d.tables[t].root), NEW rows \in Row,
         ~Holding(d, t, rows).full
  PROVE  Grown(d, Holding(d, t, rows), t, rows)
<1> DEFINE h == Regrown(d, t, rows)
           P == Tree(h.page, d.tables[t].root) \cup Tree(h.page, h.tables[t].root)
<1>0. Holding(d, t, rows) = Written(h, P)
  BY DEF Holding
<1>1. d.tables[t].root \in PageNo
  BY FieldsOf, MetaOf DEF Exists
<1>2. h.full = Written(h, P).full
  BY DEF Written
<1> QED
  <2>1. Grown(d, h, t, rows)
    BY <1>0, <1>2, RegrownTree
  <2>2. h.page \in Pages /\ h.tables[t].root \in PageNo
    BY <2>1, FieldsOf, MetaOf DEF Grown, Exists
  <2>3. P \in SUBSET (0 .. MaxPages)
    BY <1>1, <2>2, NodeAt, CatalogAssumption DEF Tree, PageNo, NoPage
  <2> HIDE DEF h, P
  <2> QED
    BY <1>0, <2>1, <2>3, WrittenGrown

(* vacuum builds the tree anew, of unused pages only.                        *)
LEMMA VacuumedTree ==
  ASSUME NEW d \in Databases, NEW t \in Table, Exists(d, t),
         RowsOf(d, t) \in Row, ~Vacuumed(d, t).full
  PROVE  /\ Grown(d, Vacuumed(d, t), t, RowsOf(d, t))
         /\ \A n \in PageNo : d.page[n] # Absent => Vacuumed(d, t).page[n] = d.page[n]
<1> DEFINE rows  == RowsOf(d, t)
           many  == Cardinality(Rids(rows)) > LeafRows
           first == NewPage(d)
           low   == Leaf(IF many THEN Low(rows) ELSE rows)
           leaf  == [d EXCEPT !.page[first] = low]
           root  == IF many THEN NewPage(leaf) ELSE first
           grown == IF many THEN [leaf EXCEPT !.page[root] = [rows |-> rows, low |-> first]]
                            ELSE leaf
           pg    == [d.page EXCEPT ![first] = low]
           top   == [rows |-> rows, low |-> first]
           page  == IF many THEN [pg EXCEPT ![root] = top] ELSE pg
<1>1. NoPage \notin {first, root}
  <2> SUFFICES ASSUME NoPage \in {first, root} PROVE FALSE
    OBVIOUS
  <2>1. Vacuumed(d, t) = [d EXCEPT !.full = TRUE]
    BY DEF Vacuumed
  <2> QED
    BY <2>1 DEF Databases
<1>2. d.page \in Pages /\ Absent \notin Node
  BY FieldsOf, AbsentIsNone
<1>3. first \in Unused(d) /\ first \in PageNo
  BY <1>1, NewPageUnused
<1>4. low \in Node /\ low.low = NoPage /\ (~many => low.rows = rows)
  BY LowIsRow DEF Leaf
<1>5. leaf.page = pg /\ pg \in Pages /\ pg[first] = low
      /\ \A n \in PageNo \ {first} : pg[n] = d.page[n]
  BY <1>2, <1>3, <1>4 DEF Databases, Pages
<1>6. root \in PageNo /\ root \in Unused(d) /\ (many => root # first)
  <2>1. CASE many
    <3>1. root \in PageNo /\ root \in Unused(leaf)
      <4>1. root = NewPage(leaf)
        BY <2>1
      <4> HIDE DEF root, leaf
      <4> QED
        BY <1>1, <4>1, NewPageUnused
    <3> QED
      BY <1>2, <1>4, <1>5, <2>1, <3>1 DEF Unused
  <2>2. CASE ~many
    BY <1>3, <2>2
  <2> QED
    BY <2>1, <2>2
<1>7. top \in Node /\ top.low = first /\ top.rows = rows
  BY <1>3, CatalogAssumption DEF Node, PageNo
<1>8. Vacuumed(d, t) = Written(Replanted(d, t, page, root), {first, root})
  <2>1. [grown EXCEPT !.tables[t].root = root] = Replanted(d, t, page, root)
    BY DEF Replanted, Databases
  <2> QED
    BY <1>1, <2>1 DEF Vacuumed
<1>9. GrowsInto(d, t, page, root, rows)
  <2> HIDE DEF rows, first, low, leaf, pg, top
  <2>1. CASE many
    <3>1. /\ page \in Pages /\ page[root] = top /\ page[first] = low
          /\ \A n \in PageNo \ {first, root} : page[n] = d.page[n]
      BY <1>3, <1>5, <1>6, <1>7, <2>1 DEF Pages
    <3> HIDE DEF page, root
    <3>2. Whole(page, root) /\ Tree(page, root) = {root, first} /\ page[root].rows = rows
      BY <1>2, <1>3, <1>4, <1>6, <1>7, <2>1, <3>1, CatalogAssumption DEF Whole, Tree, PageNo, NoPage
    <3>3. \A n \in PageNo : /\ d.page[n] # Absent => page[n] # Absent
                            /\ page[n] = d.page[n] \/ n \in Unused(d) \cup Named(d, t)
      BY <1>2, <1>3, <1>4, <1>6, <1>7, <3>1
    <3> QED
      BY <1>3, <1>6, <3>1, <3>2, <3>3 DEF GrowsInto
  <2>2. CASE ~many
    <3>1. page = pg /\ root = first
      BY <2>2
    <3> HIDE DEF page, root
    <3>2. Whole(page, root) /\ Tree(page, root) = {root} /\ page[root].rows = rows
      BY <1>2, <1>4, <1>5, <2>2, <3>1 DEF Whole, Tree
    <3>3. \A n \in PageNo : /\ d.page[n] # Absent => page[n] # Absent
                            /\ page[n] = d.page[n] \/ n \in Unused(d) \cup Named(d, t)
      BY <1>2, <1>3, <1>4, <1>5, <3>1
    <3> QED
      BY <1>5, <1>6, <3>1, <3>2, <3>3 DEF GrowsInto
  <2> QED
    BY <2>1, <2>2
<1>10. {first, root} \in SUBSET (0 .. MaxPages)
  BY <1>3, <1>6, CatalogAssumption DEF PageNo
<1>12. \A n \in PageNo : d.page[n] # Absent => page[n] = d.page[n]
  <2> HIDE DEF rows, first, low, leaf, pg, top
  <2>1. first # root => pg \in Pages
    BY <1>5
  <2> QED
    BY <1>3, <1>5, <1>6 DEF Unused, Pages
<1> HIDE DEF page, root, first
<1>11. Grown(d, Replanted(d, t, page, root), t, rows)
  <2> HIDE DEF rows
  <2> QED
    BY <1>9, GrownBy
<1>13. Vacuumed(d, t).page = page
  <2>1. Replanted(d, t, page, root) \in Databases /\ Replanted(d, t, page, root).page = page
    BY <1>11 DEF Grown, Replanted, Databases
  <2> QED
    BY <1>8, <1>10, <2>1, WrittenFields
<1> QED
  BY <1>8, <1>10, <1>11, <1>12, <1>13, WrittenGrown

-----------------------------------------------------------------------------
(* Rows, counts and indexes *)

LEMMA RidsFinite ==
  ASSUME NEW rows
  PROVE  /\ Rids(rows) \subseteq Rid /\ IsFiniteSet(Rids(rows))
         /\ Cardinality(Rids(rows)) \in Nat
<1>1. IsFiniteSet(Rid)
  BY FS_Interval, CatalogAssumption DEF Rid
<1>2. Rids(rows) \subseteq Rid
  BY DEF Rids
<1> QED
  BY <1>1, <1>2, FS_Subset, FS_CardinalityType

LEMMA PairsTyped ==
  ASSUME NEW rows \in Row, NEW rids \in SUBSET Rids(rows)
  PROVE  PairsOf(rows, rids) \in SUBSET (Value \X Rid)
BY DEF PairsOf, Rids, Row, Column

(* One row more. *)
LEMMA RowAdded ==
  ASSUME NEW rows \in Row, NEW r \in Rid, rows[r] = Absent, NEW v \in Column
  PROVE  LET now == [rows EXCEPT ![r] = v] IN
         /\ now \in Row /\ Rids(now) = Rids(rows) \cup {r}
         /\ Cardinality(Rids(now)) = Cardinality(Rids(rows)) + 1
         /\ Pairs(now) = Pairs(rows) \cup (IF v = Null THEN {} ELSE {<<v, r>>})
<1> DEFINE now == [rows EXCEPT ![r] = v]
<1>1. /\ now \in Row /\ now[r] = v /\ v # Absent
      /\ \A q \in Rid \ {r} : now[q] = rows[q]
  BY CatalogAssumption DEF Row
<1> HIDE DEF now
<1>2. Rids(now) = Rids(rows) \cup {r} /\ r \notin Rids(rows)
  BY <1>1 DEF Rids
<1>3. Cardinality(Rids(now)) = Cardinality(Rids(rows)) + 1
  BY <1>2, RidsFinite, FS_AddElement
<1>4. Pairs(now) = Pairs(rows) \cup (IF v = Null THEN {} ELSE {<<v, r>>})
  <2>1. \A q \in Rids(rows) : now[q] = rows[q]
    BY <1>1, <1>2 DEF Rids
  <2> QED
    BY <1>1, <1>2, <2>1 DEF Pairs, PairsOf
<1> QED
  BY <1>1, <1>2, <1>3, <1>4 DEF now

(* Rows that become v, or go (v is Absent).                                  *)
Replaced(rows, rids, v) == [r \in Rid |-> IF r \in rids THEN v ELSE rows[r]]

LEMMA RowsChanged ==
  ASSUME NEW rows \in Row, NEW rids \in SUBSET Rids(rows), NEW v \in Column
  PROVE  /\ Replaced(rows, rids, v) \in Row
         /\ Rids(Replaced(rows, rids, v)) = Rids(rows)
         /\ Pairs(Replaced(rows, rids, v))
              = (Pairs(rows) \ PairsOf(rows, rids)) \cup PairsOf(Replaced(rows, rids, v), rids)
<1> DEFINE now == Replaced(rows, rids, v)
<1>1. /\ now \in Row /\ v # Absent /\ rids \subseteq Rid
      /\ \A r \in rids : now[r] = v
      /\ \A r \in Rid \ rids : now[r] = rows[r]
  BY CatalogAssumption DEF Row, Replaced, Rids
<1> HIDE DEF now
<1>2. Rids(now) = Rids(rows)
  BY <1>1 DEF Rids
<1>3. \A r \in Rids(rows) : r \in Rid
  BY DEF Rids
<1>4. Pairs(now) = (Pairs(rows) \ PairsOf(rows, rids)) \cup PairsOf(now, rids)
  BY <1>1, <1>2, <1>3 DEF Pairs, PairsOf
<1> QED
  BY <1>1, <1>2, <1>4 DEF now

LEMMA RowsGone ==
  ASSUME NEW rows \in Row, NEW rids \in SUBSET Rids(rows)
  PROVE  /\ Replaced(rows, rids, Absent) \in Row
         /\ Rids(Replaced(rows, rids, Absent)) = Rids(rows) \ rids
         /\ Cardinality(Rids(rows)) - Cardinality(rids) \in Nat
         /\ Cardinality(Rids(Replaced(rows, rids, Absent)))
              = Cardinality(Rids(rows)) - Cardinality(rids)
         /\ Pairs(Replaced(rows, rids, Absent)) = Pairs(rows) \ PairsOf(rows, rids)
<1> DEFINE now == Replaced(rows, rids, Absent)
<1>1. /\ now \in Row /\ rids \subseteq Rid
      /\ \A r \in rids : now[r] = Absent
      /\ \A r \in Rid \ rids : now[r] = rows[r]
  BY DEF Row, Replaced, Rids
<1> HIDE DEF now
<1>2. Rids(now) = Rids(rows) \ rids
  BY <1>1 DEF Rids
<1>3. \A r \in Rids(rows) : r \in Rid
  BY DEF Rids
<1>4. Pairs(now) = Pairs(rows) \ PairsOf(rows, rids)
  BY <1>1, <1>2, <1>3 DEF Pairs, PairsOf
<1>5. /\ Cardinality(Rids(now)) = Cardinality(Rids(rows)) - Cardinality(rids)
      /\ Cardinality(Rids(rows)) - Cardinality(rids) \in Nat
  <2>1. IsFiniteSet(rids) /\ IsFiniteSet(Rids(rows)) /\ Cardinality(Rids(rows)) \in Nat
    BY RidsFinite, FS_Subset
  <2>2. Cardinality(rids) \in Nat /\ Cardinality(Rids(now)) \in Nat
    BY <2>1, RidsFinite, FS_CardinalityType
  <2>3. Rids(rows) \cap rids = rids
    OBVIOUS
  <2>4. Cardinality(Rids(rows) \ rids) = Cardinality(Rids(rows)) - Cardinality(Rids(rows) \cap rids)
    BY <2>1, FS_Difference
  <2> QED
    BY <1>2, <2>1, <2>2, <2>3, <2>4
<1> QED
  BY <1>1, <1>2, <1>4, <1>5 DEF now

(* Only the entries of one index change.                                     *)
Reindexed(d, h, t) ==
  /\ h \in Databases /\ h.full = d.full /\ h.page = d.page /\ h.cat = d.cat
  /\ h.tables = d.tables /\ h.free = d.free /\ h.snap = d.snap
  /\ \A u \in Table \ {t} : h.indexes[u] = d.indexes[u]

LEMMA IndexAddOf ==
  ASSUME NEW d \in Databases, NEW t \in Table, Exists(d, t),
         NEW pairs \in SUBSET (Value \X Rid),
         d.tables[t].index <=> d.indexes[t] # Absent
  PROVE  /\ Reindexed(d, IndexAdd(d, t, pairs), t)
         /\ IndexAdd(d, t, pairs).indexes[t] = IF d.tables[t].index THEN d.indexes[t] \cup pairs ELSE Absent
<1> DEFINE h == IndexAdd(d, t, pairs)
<1>1. CASE ~d.tables[t].index
  BY <1>1 DEF IndexAdd, Reindexed
<1>2. CASE d.tables[t].index /\ pairs = {}
  BY <1>2 DEF IndexAdd, Reindexed
<1>3. CASE d.tables[t].index /\ pairs # {}
  <2> DEFINE new == [d.indexes EXCEPT ![t] = d.indexes[t] \cup pairs]
  <2>1. d.indexes \in Indexes /\ d.indexes[t] \in SUBSET (Value \X Rid)
    BY <1>3, FieldsOf DEF Indexes
  <2>2. new \in Indexes /\ new[t] = d.indexes[t] \cup pairs
        /\ \A u \in Table \ {t} : new[u] = d.indexes[u]
    BY <2>1 DEF Indexes
  <2>3. h = [d EXCEPT !.indexes = new]
    BY <1>3 DEF IndexAdd, Databases
  <2> HIDE DEF new
  <2> QED
    BY <1>3, <2>2, <2>3 DEF Reindexed, Databases
<1> QED
  BY <1>1, <1>2, <1>3

LEMMA IndexRemoveOf ==
  ASSUME NEW d \in Databases, NEW t \in Table, Exists(d, t),
         NEW pairs \in SUBSET (Value \X Rid),
         d.tables[t].index <=> d.indexes[t] # Absent
  PROVE  /\ Reindexed(d, IndexRemove(d, t, pairs), t)
         /\ IndexRemove(d, t, pairs).indexes[t] = IF d.tables[t].index THEN d.indexes[t] \ pairs ELSE Absent
<1> DEFINE h == IndexRemove(d, t, pairs)
<1>1. CASE ~d.tables[t].index
  BY <1>1 DEF IndexRemove, Reindexed
<1>2. CASE d.tables[t].index
  <2> DEFINE new == [d.indexes EXCEPT ![t] = d.indexes[t] \ pairs]
  <2>1. d.indexes \in Indexes /\ d.indexes[t] \in SUBSET (Value \X Rid)
    BY <1>2, FieldsOf DEF Indexes
  <2>2. new \in Indexes /\ new[t] = d.indexes[t] \ pairs
        /\ \A u \in Table \ {t} : new[u] = d.indexes[u]
    BY <2>1 DEF Indexes
  <2>3. h = [d EXCEPT !.indexes = new]
    BY <1>2 DEF IndexRemove, Databases
  <2> HIDE DEF new
  <2> QED
    BY <1>2, <2>2, <2>3 DEF Reindexed, Databases
<1> QED
  BY <1>1, <1>2

-----------------------------------------------------------------------------
(* Statements that change rows *)

(* What a consistent session knows of a table.                               *)
LEMMA TableOf ==
  ASSUME NEW d, Consistent(d), NEW t \in Table, Exists(d, t)
  PROVE  /\ d \in Databases /\ d.tables[t] \in Meta
         /\ Whole(d.page, d.tables[t].root) /\ RowsOf(d, t) \in Row
         /\ Counted(d.tables[t], RowsOf(d, t))
         /\ d.indexes[t] = (IF d.tables[t].index THEN Pairs(RowsOf(d, t)) ELSE Absent)
         /\ (d.tables[t].index <=> d.indexes[t] # Absent)
<1>1. d \in Databases /\ d.page \in Pages /\ d.tables \in Metas
  BY FieldsOf DEF Consistent
<1>2. d.tables[t] \in Meta /\ d.tables[t].root \in PageNo
  BY <1>1, MetaOf DEF Exists
<1>3. /\ Whole(d.page, d.tables[t].root)
      /\ Counted(d.tables[t], d.page[d.tables[t].root].rows)
  BY DEF Consistent, Sound, Exists
<1>4. RowsOf(d, t) = d.page[d.tables[t].root].rows /\ RowsOf(d, t) \in Row
  BY <1>1, <1>2, <1>3, NodeAt DEF Whole, RowsOf, Below
<1>5. d.indexes[t] = IF d.tables[t].index THEN Pairs(RowsOf(d, t)) ELSE Absent
  BY DEF Consistent, Rebuilt, Exists, RowsOf
<1>6. Pairs(RowsOf(d, t)) # Absent
  BY <1>4, PairsTyped, AbsentIsNone DEF Pairs
<1> QED
  BY <1>1, <1>2, <1>3, <1>4, <1>5, <1>6

(* Row count, next row id and index follow the rows that the tree of g got.  *)
Finished(g, h, t, rows) ==
  /\ h \in Databases /\ h.page = g.page /\ h.free = g.free /\ h.snap = g.snap
  /\ \A u \in Table \ {t} : h.tables[u] = g.tables[u] /\ h.indexes[u] = g.indexes[u]
  /\ Exists(h, t) /\ h.tables[t].root = g.tables[t].root
  /\ Counted(h.tables[t], rows)
  /\ h.indexes[t] = IF h.tables[t].index THEN Pairs(rows) ELSE Absent

(* What a change of rows leaves alone.                                       *)
Keeps(d, h, t) ==
  /\ Consistent(h) /\ h.snap = d.snap /\ Exists(h, t)
  /\ \A u \in Table \ {t} :
       Contents(h.page, h.tables)[u] = Contents(d.page, d.tables)[u]

LEMMA GrownKeeps ==
  ASSUME NEW d, Consistent(d), NEW t \in Table, Exists(d, t), NEW rows \in Row,
         NEW g, Grown(d, g, t, rows), NEW h, Finished(g, h, t, rows)
  PROVE  Keeps(d, h, t)
<1>1. Named(h, t) = Named(g, t) /\ Exists(g, t)
  BY DEF Finished, Grown, Named, Exists
<1>2. Named(h, t) \subseteq Unused(d) \cup Named(d, t)
  BY <1>1 DEF Grown
<1>3. h.free = d.free /\ h.snap = d.snap
  BY DEF Finished, Grown
<1>4. ToSet(h.free) = ToSet(d.free) /\ IsInjective(h.free) /\ Named(d, t) \cap ToSet(d.free) = {}
  BY <1>3 DEF Consistent, FreeList
<1>5. Named(h, t) \cap ToSet(h.free) = {}
  <2>1. Unused(d) \cap ToSet(d.free) = {}
    BY DEF Consistent, FreeList, Unused
  <2> QED
    BY <1>2, <1>4, <2>1
<1>6. Whole(h.page, h.tables[t].root) /\ RowsOf(h, t) = rows
  BY DEF Finished, Grown, RowsOf, Below, Whole
<1>7. h.indexes[t] = Rebuilt(h.page, h.tables)[t]
  BY <1>6 DEF Finished, Rebuilt, RowsOf, Exists
<1>8. PagesKept(d, h, t)
  BY DEF PagesKept, Finished, Grown
<1>9. SharedTables(h)
  BY <1>3 DEF SharedTables, Consistent
<1>10. Changes(d, h, t)
  <2>1. \A u \in Table \ {t} : h.tables[u] = d.tables[u] /\ h.indexes[u] = d.indexes[u]
    BY DEF Finished, Grown
  <2> QED
    BY <1>2, <1>4, <1>5, <1>6, <1>7, <1>8, <1>9, <2>1 DEF Changes, Finished
<1> QED
  BY <1>3, <1>10, ChangesKeep DEF Keeps, Finished

(* The numbers of a table after one more row.                                *)
Grew(m, r) == [m EXCEPT !.count = @ + 1, !.next = IF @ > r THEN @ ELSE r + 1]

LEMMA GrewMeta ==
  ASSUME NEW m \in Meta, NEW r \in Nat, r # 0
  PROVE  /\ Grew(m, r) \in Meta /\ Grew(m, r) # Absent
         /\ Grew(m, r).root = m.root /\ Grew(m, r).index = m.index
         /\ Grew(m, r).count = m.count + 1
         /\ Grew(m, r).next = IF m.next > r THEN m.next ELSE r + 1
<1> DEFINE count == m.count + 1
           next  == IF m.next > r THEN m.next ELSE r + 1
           k     == [root |-> m.root, count |-> count, next |-> next, index |-> m.index]
<1>1. m.root \in PageNo /\ m.count \in Nat /\ m.next \in Nat \ {0} /\ m.index \in BOOLEAN
  BY DEF Meta
<1>2. Grew(m, r) = k
  <2>1. Grew(m, r) = [m EXCEPT !.count = count, !.next = next]
    BY DEF Grew
  <2> HIDE DEF count, next
  <2> QED
    BY <2>1 DEF Meta
<1>3. count \in Nat /\ next \in Nat \ {0}
  BY <1>1
<1>4. k \in Meta
  <2> HIDE DEF count, next
  <2> QED
    BY <1>1, <1>3 DEF Meta
<1> QED
  BY <1>2, <1>4, AbsentIsNone

(* One row of INSERT. *)
LEMMA InsertRowKeeps ==
  ASSUME NEW so_far, Consistent(so_far.db), NEW t \in Table, Exists(so_far.db, t),
         NEW row \in Rows, ~InsertRow(so_far, t, row).db.full
  PROVE  Keeps(so_far.db, InsertRow(so_far, t, row).db, t)
<1> DEFINE d == so_far.db
           r == IF row.rid = NoRid THEN d.tables[t].next ELSE row.rid
           rows == RowsOf(d, t)
           now == [rows EXCEPT ![r] = row.val]
           g == Holding(d, t, now)
           meta == [g.tables[t] EXCEPT !.count = @ + 1, !.next = IF @ > r THEN @ ELSE r + 1]
           tables == [g.tables EXCEPT ![t] = meta]
           c == [g EXCEPT !.tables[t].count = @ + 1, !.tables[t].next = IF @ > r THEN @ ELSE r + 1]
           pairs == IF row.val = Null THEN {} ELSE {<<row.val, r>>}
           h == IndexAdd(c, t, pairs)
<1>1. /\ d \in Databases /\ d.tables[t] \in Meta /\ rows \in Row
      /\ Whole(d.page, d.tables[t].root) /\ Counted(d.tables[t], rows)
      /\ d.indexes[t] = (IF d.tables[t].index THEN Pairs(rows) ELSE Absent)
      /\ (d.tables[t].index <=> d.indexes[t] # Absent)
  BY TableOf
<1>2. Keeps(d, d, t)
  BY DEF Keeps
<1>3. CASE ~so_far.ok
  BY <1>2, <1>3 DEF InsertRow
<1>4. CASE so_far.ok /\ r \notin Rid
  <2>1. InsertRow(so_far, t, row) = Done([d EXCEPT !.full = TRUE])
    BY <1>4 DEF InsertRow
  <2> QED
    BY <1>1, <2>1 DEF Done, Databases
<1>5. CASE so_far.ok /\ r \in Rid /\ rows[r] # Absent
  <2>1. InsertRow(so_far, t, row) = Raised(d)
    BY <1>5 DEF InsertRow
  <2> QED
    BY <1>2, <2>1 DEF Raised
<1>6. CASE so_far.ok /\ r \in Rid /\ rows[r] = Absent
  <2>1. InsertRow(so_far, t, row) = Done(h)
    BY <1>6 DEF InsertRow
  <2>2. row.val \in Column
    BY DEF Rows
  <2>3. /\ now \in Row /\ Rids(now) = Rids(rows) \cup {r}
        /\ Cardinality(Rids(now)) = Cardinality(Rids(rows)) + 1
        /\ Pairs(now) = Pairs(rows) \cup pairs
    BY <1>1, <1>6, <2>2, RowAdded
  <2>4. h.full = g.full
    BY DEF IndexAdd, Databases
  <2>5. Grown(d, g, t, now)
    <3>1. ~h.full
      <4> HIDE DEF h
      <4> QED
        BY <2>1 DEF Done
    <3>2. ~Holding(d, t, now).full
      BY <2>4, <3>1
    <3>3. now \in Row /\ d \in Databases /\ Exists(d, t) /\ Whole(d.page, d.tables[t].root)
      BY <1>1, <2>3
    <3> HIDE DEF now, d, r
    <3> QED
      BY <3>2, <3>3, HoldingTree
  <2>6. g \in Databases /\ g.tables \in Metas /\ g.tables[t] \in Meta
    BY <2>5, FieldsOf, MetaOf DEF Grown, Exists
  <2>7. /\ g.tables[t].count = d.tables[t].count /\ g.tables[t].next = d.tables[t].next
        /\ g.tables[t].index = d.tables[t].index /\ g.indexes = d.indexes
    BY <2>5 DEF Grown
  <2>8. r \in Nat /\ r # 0
    BY <1>6, CatalogAssumption DEF Rid
  <2>9. /\ meta \in Meta /\ meta # Absent /\ meta.root = g.tables[t].root
        /\ meta.index = g.tables[t].index
        /\ meta.count = g.tables[t].count + 1
        /\ meta.next = IF g.tables[t].next > r THEN g.tables[t].next ELSE r + 1
    <3> HIDE DEF g, r
    <3>1. meta = Grew(g.tables[t], r)
      BY DEF Grew
    <3> HIDE DEF meta
    <3> QED
      BY <2>6, <2>8, <3>1, GrewMeta
  <2>10. Counted(meta, now)
    <3>1. meta.count = Cardinality(Rids(now))
      BY <1>1, <2>3, <2>7, <2>9 DEF Counted
    <3>2. \A q \in Rids(rows) : q < d.tables[t].next /\ q \in Nat
      BY <1>1, CatalogAssumption DEF Counted, Rids, Rid
    <3>3. d.tables[t].next \in Nat
      BY <1>1 DEF Meta
    <3>4. meta.next = IF d.tables[t].next > r THEN d.tables[t].next ELSE r + 1
      BY <2>7, <2>9
    <3>5. Rids(now) = Rids(rows) \cup {r}
      BY <2>3
    <3> HIDE DEF meta, now, rows, d, r
    <3>6. \A q \in Rids(now) : q < meta.next
      BY <2>8, <3>2, <3>3, <3>4, <3>5
    <3> QED
      BY <3>1, <3>6 DEF Counted
  <2>11. tables \in Metas /\ tables[t] = meta /\ \A u \in Table \ {t} : tables[u] = g.tables[u]
    <3> HIDE DEF meta, g
    <3> QED
      BY <2>6, <2>9 DEF Metas
  <2>12. c = [g EXCEPT !.tables = tables]
    <3> HIDE DEF g, r
    <3> QED
      BY <2>6 DEF Databases, Metas, Meta
  <2> HIDE DEF tables, meta, c, g
  <2>13. /\ c \in Databases /\ c.page = g.page /\ c.free = g.free /\ c.snap = g.snap
         /\ c.tables = tables /\ c.indexes = g.indexes
    BY <2>6, <2>11, <2>12 DEF Databases
  <2>14. Exists(c, t) /\ c.tables[t].index = d.tables[t].index /\ c.indexes[t] = d.indexes[t]
    BY <2>7, <2>9, <2>11, <2>13 DEF Exists
  <2>15. pairs \in SUBSET (Value \X Rid)
    BY <1>6, <2>2 DEF Column
  <2> HIDE DEF pairs
  <2>16. /\ Reindexed(c, h, t)
         /\ h.indexes[t] = IF c.tables[t].index THEN c.indexes[t] \cup pairs ELSE Absent
    BY <1>1, <2>13, <2>14, <2>15, IndexAddOf
  <2> HIDE DEF h
  <2>17. h.indexes[t] = IF h.tables[t].index THEN Pairs(now) ELSE Absent
    BY <1>1, <2>3, <2>14, <2>16 DEF Reindexed
  <2>18. /\ h \in Databases /\ h.page = g.page /\ h.free = g.free /\ h.snap = g.snap
         /\ \A u \in Table \ {t} : h.tables[u] = g.tables[u] /\ h.indexes[u] = g.indexes[u]
         /\ h.tables[t] = meta
    BY <2>11, <2>13, <2>16 DEF Reindexed
  <2>19. Finished(g, h, t, now)
    BY <2>9, <2>10, <2>17, <2>18 DEF Finished, Exists
  <2>20. Keeps(d, h, t)
    <3> HIDE DEF now, d
    <3> QED
      BY <2>3, <2>5, <2>19, GrownKeeps DEF d
  <2> QED
    BY <2>1, <2>20 DEF Done
<1> QED
  BY <1>3, <1>4, <1>5, <1>6

(* What a statement about table t leaves alone, whether the table is there   *)
(* or not.                                                                   *)
Spares(d, h, t) ==
  /\ Consistent(h)
  /\ \A u \in Table \ {t} :
       Contents(h.page, h.tables)[u] = Contents(d.page, d.tables)[u]

SnapKept(d, h) ==
  /\ h.snap = Absent <=> d.snap = Absent
  /\ d.snap # Absent => h.snap.tables = d.snap.tables /\ h.snap.indexes = d.snap.indexes

LEMMA InsertSpares ==
  ASSUME NEW d, Consistent(d), NEW t \in Table, NEW row \in Rows, NEW twice \in BOOLEAN,
         ~Insert(d, t, row, twice).db.full
  PROVE  Spares(d, Insert(d, t, row, twice).db, t) /\ SnapKept(d, Insert(d, t, row, twice).db)
<1> DEFINE one == InsertRow(Done(d), t, row)
           two == InsertRow(one, t, row)
           h == Insert(d, t, row, twice).db
<1>1. CASE ~Exists(d, t)
  <2>1. h = d
    BY <1>1 DEF Insert, Raised
  <2> QED
    BY <2>1 DEF Spares, SnapKept
<1>2. CASE Exists(d, t)
  <2>0. Done(d).db = d
    BY DEF Done
  <2>1. ~one.db.full
    <3>1. CASE one.db.full
      BY <1>2, <3>1 DEF Insert
    <3> QED
      BY <3>1
  <2>2. Keeps(d, one.db, t)
    BY <1>2, <2>0, <2>1, InsertRowKeeps
  <2>3. CASE ~twice
    <3>1. h = one.db
      BY <1>2, <2>3 DEF Insert
    <3> QED
      BY <2>2, <3>1 DEF Keeps, Spares, SnapKept
  <2>4. CASE twice
    <3>1. h = two.db
      BY <1>2, <2>1, <2>4 DEF Insert
    <3>2. Keeps(one.db, two.db, t)
      <4> HIDE DEF one
      <4> QED
        BY <2>2, <3>1, InsertRowKeeps DEF Keeps
    <3> QED
      BY <2>2, <3>1, <3>2 DEF Keeps, Spares, SnapKept
  <2> QED
    BY <2>3, <2>4
<1> QED
  BY <1>1, <1>2

(* A table whose rows change, and its index with them.                       *)
LEMMA RewrittenTable ==
  ASSUME NEW d, Consistent(d), NEW t \in Table, Exists(d, t),
         NEW rids \in SUBSET Rids(RowsOf(d, t)), rids # {}, NEW v \in Column \cup {Absent},
         ~Rewritten(d, t, rids, v).full
  PROVE  LET now == Replaced(RowsOf(d, t), rids, v)
             h   == Rewritten(d, t, rids, v) IN
         \E g : /\ Grown(d, g, t, now) /\ Reindexed(g, h, t)
                /\ h.indexes[t] = IF d.tables[t].index THEN Pairs(now) ELSE Absent
<1> DEFINE rows == RowsOf(d, t)
           now  == Replaced(rows, rids, v)
           old  == PairsOf(rows, rids)
           new  == IF v = Absent THEN {} ELSE PairsOf(now, rids)
           g    == Holding(d, t, now)
           e    == IndexRemove(g, t, old)
           h    == IndexAdd(e, t, new)
<1>1. Rewritten(d, t, rids, v) = h
  BY DEF Rewritten, Replaced
<1>2. /\ d \in Databases /\ d.tables[t] \in Meta /\ rows \in Row
      /\ Whole(d.page, d.tables[t].root)
      /\ d.indexes[t] = (IF d.tables[t].index THEN Pairs(rows) ELSE Absent)
      /\ (d.tables[t].index <=> d.indexes[t] # Absent)
  BY TableOf
<1>3. now \in Row /\ Pairs(now) = (Pairs(rows) \ old) \cup new
  <2>1. CASE v = Absent
    BY <1>2, <2>1, RowsGone
  <2>2. CASE v \in Column
    <3>1. v # Absent
      BY <2>2, CatalogAssumption
    <3> QED
      BY <1>2, <2>2, <3>1, RowsChanged
  <2> QED
    BY <2>1, <2>2
<1>4. old \in SUBSET (Value \X Rid) /\ new \in SUBSET (Value \X Rid)
  <2>1. old \in SUBSET (Value \X Rid)
    BY <1>2, PairsTyped
  <2>2. CASE v = Absent
    BY <2>1, <2>2
  <2>3. CASE v # Absent
    <3>1. rids \subseteq Rids(now)
      BY <1>2, <1>3, <2>3, RowsChanged
    <3>2. PairsOf(now, rids) \in SUBSET (Value \X Rid)
      <4> HIDE DEF now
      <4> QED
        BY <1>3, <3>1, PairsTyped
    <3> QED
      BY <2>1, <2>3, <3>2
  <2> QED
    BY <2>2, <2>3
<1> HIDE DEF now, old, new
<1>5. e.full = g.full /\ h.full = e.full
  BY DEF IndexAdd, IndexRemove, Databases
<1>6. Grown(d, g, t, now)
  BY <1>1, <1>2, <1>3, <1>5, HoldingTree
<1> HIDE DEF g
<1>7. /\ g \in Databases /\ Exists(g, t) /\ g.tables[t].index = d.tables[t].index
      /\ g.indexes = d.indexes /\ (g.tables[t].index <=> g.indexes[t] # Absent)
  BY <1>2, <1>6 DEF Grown
<1>8. /\ Reindexed(g, e, t)
      /\ e.indexes[t] = IF g.tables[t].index THEN g.indexes[t] \ old ELSE Absent
  BY <1>4, <1>7, IndexRemoveOf
<1> HIDE DEF e
<1>9. e \in Databases /\ Exists(e, t) /\ e.tables = g.tables
  BY <1>7, <1>8 DEF Reindexed, Exists
<1>10. e.tables[t].index <=> e.indexes[t] # Absent
  <2>1. Pairs(rows) \ old \in SUBSET (Value \X Rid)
    BY <1>2, PairsTyped DEF Pairs
  <2> QED
    BY <1>2, <1>7, <1>8, <1>9, <2>1, AbsentIsNone
<1>11. /\ Reindexed(e, h, t)
       /\ h.indexes[t] = IF e.tables[t].index THEN e.indexes[t] \cup new ELSE Absent
  BY <1>4, <1>9, <1>10, IndexAddOf
<1> HIDE DEF h
<1>12. Reindexed(g, h, t)
  BY <1>8, <1>11 DEF Reindexed
<1>13. h.indexes[t] = IF d.tables[t].index THEN Pairs(now) ELSE Absent
  BY <1>2, <1>3, <1>7, <1>8, <1>9, <1>11
<1> QED
  BY <1>1, <1>6, <1>12, <1>13 DEF now

LEMMA MatchingRows ==
  ASSUME NEW d, NEW t, NEW v, NEW k
  PROVE  /\ Matching(d, t, v) \subseteq Rids(RowsOf(d, t))
         /\ First(k, Matching(d, t, v)) \subseteq Rids(RowsOf(d, t))
BY DEF Matching, First

(* UPDATE, up to the row whose writing raises. *)
LEMMA UpdateKeeps ==
  ASSUME NEW d, Consistent(d), NEW t \in Table, Exists(d, t),
         NEW rids \in SUBSET Rids(RowsOf(d, t)), NEW v \in Column,
         ~Rewritten(d, t, rids, v).full
  PROVE  Keeps(d, Rewritten(d, t, rids, v), t)
<1> DEFINE h == Rewritten(d, t, rids, v)
           rows == RowsOf(d, t)
           now == Replaced(rows, rids, v)
<1>1. CASE rids = {}
  <2>1. h = d
    BY <1>1 DEF Rewritten
  <2> QED
    BY <2>1 DEF Keeps
<1>2. CASE rids # {}
  <2>1. PICK g : /\ Grown(d, g, t, now) /\ Reindexed(g, h, t)
                 /\ h.indexes[t] = IF d.tables[t].index THEN Pairs(now) ELSE Absent
    BY <1>2, RewrittenTable
  <2>2. rows \in Row /\ Counted(d.tables[t], rows)
    BY TableOf
  <2>3. now \in Row /\ Rids(now) = Rids(rows)
    BY <2>2, RowsChanged
  <2> HIDE DEF h, now
  <2>4. h.tables = g.tables /\ Exists(h, t)
    BY <2>1 DEF Reindexed, Grown, Exists
  <2>5. Counted(h.tables[t], now)
    BY <2>1, <2>2, <2>3, <2>4 DEF Counted, Grown
  <2>6. h.indexes[t] = IF h.tables[t].index THEN Pairs(now) ELSE Absent
    BY <2>1, <2>4 DEF Grown
  <2>7. Finished(g, h, t, now)
    BY <2>1, <2>4, <2>5, <2>6 DEF Finished, Reindexed
  <2>8. Keeps(d, h, t)
    BY <2>1, <2>3, <2>7, GrownKeeps
  <2> QED
    BY <2>8 DEF h
<1> QED
  BY <1>1, <1>2

LEMMA UncountedFields ==
  ASSUME NEW d \in Databases, NEW t \in Table, Exists(d, t), NEW k \in Nat,
         d.tables[t].count - k \in Nat
  PROVE  LET h == Uncounted(d, t, k) IN
         /\ h \in Databases /\ h.full = d.full /\ h.page = d.page /\ h.free = d.free
         /\ h.snap = d.snap /\ h.indexes = d.indexes
         /\ \A u \in Table \ {t} : h.tables[u] = d.tables[u]
         /\ Exists(h, t) /\ h.tables[t].root = d.tables[t].root
         /\ h.tables[t].next = d.tables[t].next /\ h.tables[t].index = d.tables[t].index
         /\ h.tables[t].count = d.tables[t].count - k
<1> DEFINE h == Uncounted(d, t, k)
           c == d.tables[t].count - k
           meta == [d.tables[t] EXCEPT !.count = c]
           tables == [d.tables EXCEPT ![t] = meta]
<1>1. d.tables \in Metas /\ d.tables[t] \in Meta
  BY FieldsOf, MetaOf DEF Exists
<1> HIDE DEF c
<1>2. /\ meta \in Meta /\ meta.root = d.tables[t].root /\ meta.count = c
      /\ meta.next = d.tables[t].next /\ meta.index = d.tables[t].index
  BY <1>1 DEF Meta, c
<1>3. tables \in Metas /\ tables[t] = meta /\ \A u \in Table \ {t} : tables[u] = d.tables[u]
  BY <1>1, <1>2 DEF Metas
<1>4. meta # Absent
  BY <1>2, AbsentIsNone
<1>5. h = [d EXCEPT !.tables = tables]
  BY DEF Databases, Uncounted, c
<1> HIDE DEF tables, meta, h
<1>6. /\ h \in Databases /\ h.full = d.full /\ h.page = d.page /\ h.free = d.free
      /\ h.snap = d.snap /\ h.indexes = d.indexes /\ h.tables = tables
  BY <1>3, <1>5 DEF Databases
<1>7. /\ \A u \in Table \ {t} : h.tables[u] = d.tables[u]
      /\ Exists(h, t) /\ h.tables[t].root = d.tables[t].root
      /\ h.tables[t].next = d.tables[t].next /\ h.tables[t].index = d.tables[t].index
      /\ h.tables[t].count = c
  BY <1>2, <1>3, <1>4, <1>6 DEF Exists
<1> QED
  BY <1>6, <1>7 DEF h, c

(* DELETE. *)
LEMMA DeleteKeeps ==
  ASSUME NEW d, Consistent(d), NEW t \in Table, Exists(d, t),
         NEW rids \in SUBSET Rids(RowsOf(d, t)),
         ~Uncounted(Rewritten(d, t, rids, Absent), t, Cardinality(rids)).full
  PROVE  Keeps(d, Uncounted(Rewritten(d, t, rids, Absent), t, Cardinality(rids)), t)
<1> DEFINE rows == RowsOf(d, t)
           now == Replaced(rows, rids, Absent)
           e == Rewritten(d, t, rids, Absent)
           k == Cardinality(rids)
           h == Uncounted(e, t, k)
<1>1. /\ d \in Databases /\ rows \in Row /\ Counted(d.tables[t], rows)
      /\ d.indexes[t] = (IF d.tables[t].index THEN Pairs(rows) ELSE Absent)
      /\ Whole(d.page, d.tables[t].root)
  BY TableOf
<1>2. /\ now \in Row /\ Rids(now) = Rids(rows) \ rids
      /\ Cardinality(Rids(rows)) - k \in Nat
      /\ Cardinality(Rids(now)) = Cardinality(Rids(rows)) - k
      /\ k \in Nat
  <2>1. IsFiniteSet(rids)
    BY RidsFinite, FS_Subset
  <2> QED
    BY <1>1, <2>1, RowsGone, FS_CardinalityType
<1>3. d.tables[t].count = Cardinality(Rids(rows)) /\ \A r \in Rids(now) : r < d.tables[t].next
  BY <1>1, <1>2 DEF Counted
<1>4. CASE rids = {}
  <2>1. e = d
    BY <1>4 DEF Rewritten
  <2>2. k = 0
    BY <1>4, FS_EmptySet
  <2> HIDE DEF e, k
  <2>3. /\ h \in Databases /\ h.page = d.page /\ h.free = d.free /\ h.snap = d.snap
        /\ h.indexes = d.indexes
        /\ \A u \in Table \ {t} : h.tables[u] = d.tables[u]
        /\ Exists(h, t) /\ h.tables[t].root = d.tables[t].root
        /\ h.tables[t].next = d.tables[t].next /\ h.tables[t].index = d.tables[t].index
        /\ h.tables[t].count = d.tables[t].count - k
    BY <1>1, <1>2, <1>3, <2>1, UncountedFields
  <2>4. now = rows
    BY <1>1, <1>4 DEF Replaced, Row
  <2> HIDE DEF h, now
  <2>5. Counted(h.tables[t], rows)
    BY <1>2, <1>3, <2>3, <2>4 DEF Counted
  <2>6. Finished(d, h, t, rows)
    BY <1>1, <2>3, <2>5 DEF Finished
  <2>7. Grown(d, d, t, rows)
    BY <1>1 DEF Grown, RowsOf, Below, Whole
  <2>8. Keeps(d, h, t)
    BY <1>1, <2>6, <2>7, GrownKeeps
  <2> QED
    BY <2>8 DEF h, k, e
<1>5. CASE rids # {}
  <2>1. e.full = h.full
    BY DEF Uncounted
  <2>2. PICK g : /\ Grown(d, g, t, now) /\ Reindexed(g, e, t)
                 /\ e.indexes[t] = IF d.tables[t].index THEN Pairs(now) ELSE Absent
    BY <1>5, <2>1, RewrittenTable
  <2> HIDE DEF e, k, now
  <2>3. /\ e \in Databases /\ Exists(e, t) /\ e.tables = g.tables
        /\ e.tables[t].count = d.tables[t].count /\ e.tables[t].next = d.tables[t].next
        /\ e.tables[t].index = d.tables[t].index
    BY <2>2 DEF Reindexed, Grown, Exists
  <2>4. /\ h \in Databases /\ h.page = e.page /\ h.free = e.free /\ h.snap = e.snap
        /\ h.indexes = e.indexes
        /\ \A u \in Table \ {t} : h.tables[u] = e.tables[u]
        /\ Exists(h, t) /\ h.tables[t].root = e.tables[t].root
        /\ h.tables[t].next = e.tables[t].next /\ h.tables[t].index = e.tables[t].index
        /\ h.tables[t].count = e.tables[t].count - k
    BY <1>2, <1>3, <2>3, UncountedFields
  <2> HIDE DEF h
  <2>5. Counted(h.tables[t], now)
    BY <1>2, <1>3, <2>3, <2>4 DEF Counted
  <2>6. h.indexes[t] = IF h.tables[t].index THEN Pairs(now) ELSE Absent
    BY <2>2, <2>3, <2>4
  <2>7. Finished(g, h, t, now)
    BY <2>2, <2>4, <2>5, <2>6 DEF Finished, Reindexed
  <2>8. Keeps(d, h, t)
    BY <1>2, <2>2, <2>7, GrownKeeps
  <2> QED
    BY <2>8 DEF h, k, e
<1> QED
  BY <1>4, <1>5

(* VACUUM: the rows are the same, in another tree.                           *)
LEMMA VacuumKeeps ==
  ASSUME NEW d, Consistent(d), NEW t \in Table, Exists(d, t), ~Vacuumed(d, t).full
  PROVE  /\ Keeps(d, Vacuumed(d, t), t)
         /\ Contents(Vacuumed(d, t).page, Vacuumed(d, t).tables)[t]
              = Contents(d.page, d.tables)[t]
         /\ \A n \in PageNo : d.page[n] # Absent => Vacuumed(d, t).page[n] = d.page[n]
<1> DEFINE rows == RowsOf(d, t)
           h == Vacuumed(d, t)
<1>1. /\ d \in Databases /\ rows \in Row /\ Counted(d.tables[t], rows)
      /\ d.indexes[t] = (IF d.tables[t].index THEN Pairs(rows) ELSE Absent)
      /\ Whole(d.page, d.tables[t].root)
  BY TableOf
<1>2. /\ Grown(d, h, t, rows)
      /\ \A n \in PageNo : d.page[n] # Absent => h.page[n] = d.page[n]
  BY <1>1, VacuumedTree
<1> HIDE DEF h
<1>3. Counted(h.tables[t], rows)
  BY <1>1, <1>2 DEF Counted, Grown
<1>4. Finished(h, h, t, rows)
  BY <1>1, <1>2, <1>3 DEF Finished, Grown
<1>5. Keeps(d, h, t)
  BY <1>1, <1>2, <1>4, GrownKeeps
<1>6. Contents(h.page, h.tables)[t] = Contents(d.page, d.tables)[t]
  BY <1>1, <1>2 DEF Grown, Contents, Whole, Exists, RowsOf, Below
<1> QED
  BY <1>2, <1>5, <1>6 DEF h

-----------------------------------------------------------------------------
(* Statements that change the catalog *)

LEMMA SnapshotTaken ==
  ASSUME NEW d, Consistent(d)
  PROVE  /\ Consistent(Snapshotted(d)) /\ Snapshotted(d).snap # Absent
         /\ Snapshotted(d).page = d.page /\ Snapshotted(d).tables = d.tables
         /\ Snapshotted(d).free = d.free /\ Snapshotted(d).indexes = d.indexes
         /\ Snapshotted(d).full = d.full
         /\ IF d.snap # Absent THEN Snapshotted(d).snap = d.snap
            ELSE /\ Snapshotted(d).snap.tables = d.tables
                 /\ Snapshotted(d).snap.indexes = d.indexes
<1> DEFINE h == Snapshotted(d)
           snap == [tables |-> d.tables, indexes |-> d.indexes,
                    live |-> {t \in Table : Exists(d, t)}]
<1>1. d \in Databases /\ d.tables \in Metas /\ d.indexes \in Indexes
  BY FieldsOf DEF Consistent
<1>2. CASE d.snap # Absent
  BY <1>2 DEF Snapshotted
<1>3. CASE d.snap = Absent
  <2>1. snap \in Snapshots /\ snap # Absent
    <3>1. snap \in Snapshots
      BY <1>1 DEF Snapshots
    <3> QED
      BY <3>1, AbsentIsNone
  <2>2. h = [d EXCEPT !.snap = snap]
    BY <1>3 DEF Snapshotted
  <2>3. /\ snap.tables = d.tables /\ snap.indexes = d.indexes
        /\ \A t \in snap.live : snap.tables[t] # Absent
    BY DEF Exists
  <2> HIDE DEF snap
  <2>4. /\ h \in Databases /\ h.snap = snap /\ h.page = d.page /\ h.tables = d.tables
        /\ h.free = d.free /\ h.indexes = d.indexes /\ h.full = d.full
    BY <1>1, <2>1, <2>2 DEF Databases
  <2> HIDE DEF h
  <2>5. Consistent(h)
    BY <2>3, <2>4 DEF Consistent, FreeList, SharedTables, Named, Exists
  <2> QED
    BY <1>3, <2>1, <2>3, <2>4, <2>5 DEF h
<1> QED
  BY <1>2, <1>3

(* A page off the end of the free list.                                      *)
LEMMA FrontOfFree ==
  ASSUME NEW S, NEW s \in Seq(S), s # << >>, IsInjective(s)
  PROVE  /\ Last(s) \in ToSet(s) /\ Last(s) \in S
         /\ Front(s) \in Seq(S) /\ IsInjective(Front(s))
         /\ ToSet(Front(s)) \subseteq ToSet(s) \ {Last(s)}
<1>1. Len(s) \in Nat /\ Len(s) # 0 /\ DOMAIN s = 1 .. Len(s)
  OBVIOUS
<1>2. /\ Front(s) \in Seq(S) /\ Len(Front(s)) = Len(s) - 1
      /\ \A i \in 1 .. Len(s) - 1 : Front(s)[i] = s[i]
  BY <1>1 DEF Front
<1>3. DOMAIN Front(s) = 1 .. Len(s) - 1
  BY <1>2
<1>4. Last(s) = s[Len(s)] /\ Len(s) \in DOMAIN s
  BY <1>1 DEF Last
<1>5. Last(s) \in ToSet(s) /\ Last(s) \in S
  BY <1>1, <1>4 DEF ToSet
<1>6. IsInjective(Front(s))
  BY <1>1, <1>2, <1>3 DEF IsInjective
<1>7. \A i \in 1 .. Len(s) - 1 : s[i] # s[Len(s)] /\ s[i] \in ToSet(s)
  BY <1>1 DEF IsInjective, ToSet
<1>8. ToSet(Front(s)) \subseteq ToSet(s) \ {Last(s)}
  BY <1>2, <1>3, <1>4, <1>7 DEF ToSet
<1> QED
  BY <1>2, <1>5, <1>6, <1>8

(* More pages at the end of the free list.                                   *)
LEMMA MoreFree ==
  ASSUME NEW S, NEW s \in Seq(S), NEW q \in Seq(S), IsInjective(s), IsInjective(q),
         ToSet(s) \cap ToSet(q) = {}
  PROVE  /\ s \o q \in Seq(S) /\ IsInjective(s \o q)
         /\ ToSet(s \o q) = ToSet(s) \cup ToSet(q)
<1> DEFINE c == s \o q
<1>1. /\ c \in Seq(S) /\ Len(s) \in Nat /\ Len(q) \in Nat /\ Len(c) = Len(s) + Len(q)
      /\ DOMAIN s = 1 .. Len(s) /\ DOMAIN q = 1 .. Len(q) /\ DOMAIN c = 1 .. Len(c)
  OBVIOUS
<1>2. /\ \A i \in 1 .. Len(s) : c[i] = s[i]
      /\ \A i \in 1 .. Len(q) : c[Len(s) + i] = q[i]
  BY <1>1
<1> HIDE DEF c
<1>3. ASSUME NEW i \in DOMAIN c
      PROVE  \/ i \in DOMAIN s /\ c[i] = s[i] /\ c[i] \in ToSet(s)
             \/ i - Len(s) \in DOMAIN q /\ c[i] = q[i - Len(s)] /\ c[i] \in ToSet(q)
  <2>1. CASE i <= Len(s)
    BY <1>1, <1>2, <2>1 DEF ToSet
  <2>2. CASE i > Len(s)
    <3>1. i - Len(s) \in 1 .. Len(q) /\ Len(s) + (i - Len(s)) = i
      BY <1>1, <2>2
    <3>2. c[i] = q[i - Len(s)]
      BY <1>2, <3>1
    <3> QED
      BY <1>1, <3>1, <3>2 DEF ToSet
  <2> QED
    BY <1>1, <2>1, <2>2
<1>4. ASSUME NEW i \in DOMAIN c, NEW j \in DOMAIN c, c[i] = c[j]
      PROVE  i = j
  <2>1. i \in Nat /\ j \in Nat
    BY <1>1
  <2>2. CASE i \in DOMAIN s /\ j \in DOMAIN s /\ c[i] = s[i] /\ c[j] = s[j]
    BY <1>4, <2>2 DEF IsInjective
  <2>3. CASE /\ i - Len(s) \in DOMAIN q /\ j - Len(s) \in DOMAIN q
             /\ c[i] = q[i - Len(s)] /\ c[j] = q[j - Len(s)]
    <3>1. i - Len(s) = j - Len(s)
      BY <1>4, <2>3 DEF IsInjective
    <3> QED
      BY <1>1, <2>1, <3>1
  <2> QED
    BY <1>3, <1>4, <2>2, <2>3
<1>5. IsInjective(c)
  BY <1>4 DEF IsInjective
<1>6. ToSet(c) = ToSet(s) \cup ToSet(q)
  <2>1. ToSet(c) \subseteq ToSet(s) \cup ToSet(q)
    BY <1>3 DEF ToSet
  <2>2. ASSUME NEW i \in DOMAIN s PROVE s[i] \in ToSet(c)
    BY <1>1, <1>2 DEF ToSet
  <2>3. ASSUME NEW i \in DOMAIN q PROVE q[i] \in ToSet(c)
    <3>1. Len(s) + i \in DOMAIN c /\ c[Len(s) + i] = q[i]
      BY <1>1, <1>2
    <3> QED
      BY <3>1 DEF ToSet
  <2> QED
    BY <2>1, <2>2, <2>3 DEF ToSet
<1> QED
  BY <1>1, <1>5, <1>6 DEF c

(* A page for the root of a new table.                                       *)
RootedAt(d, h, n) ==
  /\ n \in PageNo /\ n \in Unused(d) \cup ToSet(d.free)
  /\ h \in Databases /\ h.full = d.full
  /\ h.page = [d.page EXCEPT ![n] = Leaf(NoRows)]
  /\ h.cat = d.cat /\ h.tables = d.tables /\ h.indexes = d.indexes /\ h.snap = d.snap
  /\ IsInjective(h.free) /\ ToSet(h.free) \subseteq ToSet(d.free) \ {n}

LEMMA EmptyLeaf == Leaf(NoRows) \in Node /\ Leaf(NoRows) # Absent /\ NoRows \in Row
<1>1. NoRows \in Row
  BY DEF NoRows, Row
<1> QED
  BY <1>1, LowIsRow, AbsentIsNone

LEMMA RootedPage ==
  ASSUME NEW d, Consistent(d), ~Rooted(d).db.full
  PROVE  RootedAt(d, Rooted(d).db, Rooted(d).root)
<1> DEFINE n == IF d.free = << >> THEN NewPage(d) ELSE Last(d.free)
           free == IF d.free = << >> THEN d.free ELSE Front(d.free)
           page == [d.page EXCEPT ![n] = Leaf(NoRows)]
           e == [d EXCEPT !.page[n] = Leaf(NoRows),
                          !.free = IF @ = << >> THEN @ ELSE Front(@)]
<1>1. d \in Databases /\ d.page \in Pages /\ d.free \in Seq(PageNo) /\ IsInjective(d.free)
  BY FieldsOf DEF Consistent, FreeList
<1>2. n # NoPage
  <2> SUFFICES ASSUME n = NoPage PROVE FALSE
    OBVIOUS
  <2>1. Rooted(d).db = [d EXCEPT !.full = TRUE]
    BY DEF Rooted
  <2> QED
    BY <1>1, <2>1 DEF Databases
<1>3. Rooted(d).db = Written(e, {n}) /\ Rooted(d).root = n
  BY <1>2 DEF Rooted
<1>4. /\ n \in PageNo /\ n \in Unused(d) \cup ToSet(d.free)
      /\ free \in Seq(PageNo) /\ IsInjective(free) /\ ToSet(free) \subseteq ToSet(d.free) \ {n}
  <2>1. CASE d.free = << >>
    <3>1. ToSet(d.free) = {}
      BY <2>1 DEF ToSet
    <3> QED
      BY <1>1, <1>2, <2>1, <3>1, NewPageUnused
  <2>2. CASE d.free # << >>
    BY <1>1, <2>2, FrontOfFree
  <2> QED
    BY <2>1, <2>2
<1>5. page \in Pages
  BY <1>1, <1>4, EmptyLeaf DEF Pages
<1>6. e = [d EXCEPT !.page = page, !.free = free]
  BY <1>1 DEF Databases
<1> HIDE DEF page, free, n
<1>7. /\ e \in Databases /\ e.full = d.full /\ e.page = page /\ e.free = free
      /\ e.cat = d.cat /\ e.tables = d.tables /\ e.indexes = d.indexes /\ e.snap = d.snap
  BY <1>1, <1>4, <1>5, <1>6 DEF Databases
<1>8. {n} \in SUBSET (0 .. MaxPages)
  BY <1>4, CatalogAssumption DEF PageNo
<1> HIDE DEF e
<1>9. RootedAt(d, Written(e, {n}), n)
  BY <1>4, <1>7, <1>8, WrittenFields DEF RootedAt, page
<1> QED
  BY <1>3, <1>9

(* A change that starts from the snapshot spares the other tables.           *)
LEMMA SnapshottedChange ==
  ASSUME NEW d, Consistent(d), NEW t \in Table, NEW h, Changes(Snapshotted(d), h, t)
  PROVE  Spares(d, h, t)
<1>1. /\ Consistent(Snapshotted(d)) /\ Snapshotted(d).page = d.page
      /\ Snapshotted(d).tables = d.tables
  BY SnapshotTaken
<1>2. Contents(Snapshotted(d).page, Snapshotted(d).tables) = Contents(d.page, d.tables)
  BY <1>1
<1> QED
  BY <1>1, <1>2, ChangesKeep DEF Spares

LEMMA NothingCounted ==
  /\ Cardinality(Rids(NoRows)) = 0 /\ Rids(NoRows) = {}
<1>1. Rids(NoRows) = {}
  BY DEF Rids, NoRows
<1> QED
  BY <1>1, FS_EmptySet

(* CREATE TABLE of a name that is taken: the page is lost to the free list.  *)
LEMMA RootedChange ==
  ASSUME NEW d, Consistent(d), NEW t \in Table, NEW h, NEW n, RootedAt(d, h, n)
  PROVE  Changes(d, h, t)
<1>1. d \in Databases /\ d.page \in Pages
  BY FieldsOf DEF Consistent
<1>2. /\ h.page[n] = Leaf(NoRows) /\ Leaf(NoRows) # Absent
      /\ \A m \in PageNo \ {n} : h.page[m] = d.page[m]
  BY <1>1, EmptyLeaf DEF RootedAt, Pages
<1>3. n \notin Named(d, t)
  BY NamedPages DEF Consistent, Unused, FreeList, RootedAt
<1>4. /\ Named(h, t) = Named(d, t)
      /\ Exists(h, t) => Whole(h.page, h.tables[t].root) /\ Counted(h.tables[t], RowsOf(h, t))
      /\ h.indexes[t] = Rebuilt(h.page, h.tables)[t]
  <2>1. h.tables = d.tables /\ h.indexes[t] = Rebuilt(d.page, d.tables)[t]
    BY DEF RootedAt, Consistent
  <2>2. CASE ~Exists(d, t)
    BY <2>1, <2>2 DEF Exists, Named, Rebuilt
  <2>3. CASE Exists(d, t)
    <3> DEFINE root == d.tables[t].root
    <3>1. Whole(d.page, root) /\ Named(d, t) = Tree(d.page, root)
      BY <2>3 DEF Consistent, Sound, Exists, Named
    <3>2. \A m \in Tree(d.page, root) : h.page[m] = d.page[m]
      BY <1>2, <1>3, <3>1, NamedPages DEF Consistent
    <3>3. Stands(d.page, h.page, root)
      <4> HIDE DEF root
      <4> QED
        BY <3>1, <3>2, SameTree
    <3>4. RowsOf(h, t) = RowsOf(d, t) /\ Counted(d.tables[t], RowsOf(d, t))
      BY <2>1, <2>3, <3>3, TableOf DEF Stands, RowsOf
    <3> QED
      BY <2>1, <2>3, <3>1, <3>3, <3>4 DEF Stands, Named, Exists, RowsOf, Rebuilt
  <2> QED
    BY <2>2, <2>3
<1>5. /\ ToSet(h.free) \subseteq ToSet(d.free) /\ IsInjective(h.free)
      /\ Named(h, t) \cap ToSet(h.free) = {}
  BY <1>4 DEF RootedAt, Consistent, FreeList
<1>6. PagesKept(d, h, t)
  BY <1>2 DEF PagesKept, RootedAt
<1>7. SharedTables(h)
  BY DEF RootedAt, Consistent, SharedTables
<1> QED
  BY <1>4, <1>5, <1>6, <1>7 DEF Changes, RootedAt

LEMMA CreateTableSpares ==
  ASSUME Consistent(db), NEW t \in Table, ~CreateTable(t).db.full
  PROVE  Spares(db, CreateTable(t).db, t) /\ SnapKept(Snapshotted(db), CreateTable(t).db)
<1> DEFINE d == Snapshotted(db)
           m == Rooted(d).db
           n == Rooted(d).root
           meta == [root |-> n, count |-> 0, next |-> 1, index |-> FALSE]
           tables == [m.tables EXCEPT ![t] = meta]
           h == [m EXCEPT !.tables = tables]
<1>1. Consistent(d) /\ d.tables = db.tables
  BY SnapshotTaken
<1>2. CASE Exists(db, t)
  <2>1. CreateTable(t).db = m
    BY <1>2 DEF CreateTable, Raised
  <2> HIDE DEF d
  <2>2. RootedAt(d, m, n)
    BY <1>1, <2>1, RootedPage
  <2>3. Changes(d, m, t)
    <3> HIDE DEF m, n
    <3> QED
      BY <1>1, <2>2, RootedChange
  <2> QED
    BY <2>1, <2>2, <2>3, SnapshottedChange DEF d, RootedAt, SnapKept
<1>3. CASE ~Exists(db, t)
  <2>1. CreateTable(t).db = [m EXCEPT !.tables[t] = meta]
    BY <1>3 DEF CreateTable, Done
  <2> HIDE DEF d, meta
  <2>2. m.full = CreateTable(t).db.full
    BY <2>1
  <2>3. RootedAt(d, m, n)
    BY <1>1, <2>2, RootedPage
  <2> HIDE DEF m, n
  <2>4. /\ m \in Databases /\ m.tables \in Metas /\ d.page \in Pages /\ n \in PageNo
        /\ m.tables = d.tables /\ m.indexes = d.indexes /\ m.snap = d.snap
        /\ m.page = [d.page EXCEPT ![n] = Leaf(NoRows)]
    BY <1>1, <2>3, FieldsOf DEF RootedAt, Consistent
  <2>5. CreateTable(t).db = h
    BY <2>1, <2>4 DEF Databases
  <2>6. /\ meta \in Meta /\ meta # Absent /\ meta.root = n /\ meta.count = 0
        /\ meta.next = 1 /\ ~meta.index
    <3>1. meta \in Meta
      BY <2>4 DEF Meta, meta
    <3> QED
      BY <3>1, AbsentIsNone DEF meta
  <2>7. tables \in Metas /\ tables[t] = meta /\ \A u \in Table \ {t} : tables[u] = d.tables[u]
    BY <2>4, <2>6 DEF Metas
  <2> HIDE DEF tables
  <2>8. /\ h \in Databases /\ h.tables = tables /\ h.page = m.page /\ h.free = m.free
        /\ h.indexes = d.indexes /\ h.snap = d.snap
    BY <2>4, <2>7 DEF Databases
  <2> HIDE DEF h
  <2>9. /\ h.page[n] = Leaf(NoRows) /\ Leaf(NoRows) # Absent
        /\ \A k \in PageNo \ {n} : h.page[k] = d.page[k]
    BY <2>4, <2>8, EmptyLeaf DEF Pages
  <2>10. Named(d, t) = {} /\ Named(h, t) = {n} /\ RowsOf(h, t) = NoRows
    <3>1. ~Exists(d, t) /\ Exists(h, t) /\ h.tables[t].root = n
      BY <1>1, <1>3, <2>6, <2>7, <2>8 DEF Exists
    <3>2. Leaf(NoRows).low = NoPage /\ Leaf(NoRows).rows = NoRows
      BY DEF Leaf
    <3> QED
      BY <2>9, <3>1, <3>2 DEF Named, Tree, RowsOf, Below
  <2>11. Whole(h.page, h.tables[t].root)
    BY <2>6, <2>7, <2>8, <2>9 DEF Whole, Leaf
  <2>12. Counted(h.tables[t], RowsOf(h, t))
    BY <2>6, <2>7, <2>8, <2>10, NothingCounted DEF Counted
  <2>13. h.indexes[t] = Rebuilt(h.page, h.tables)[t]
    <3>1. h.indexes[t] = Absent
      BY <1>1, <1>3, <2>8 DEF Consistent, Rebuilt, Exists
    <3> QED
      BY <2>6, <2>7, <2>8, <3>1 DEF Rebuilt
  <2>14. /\ n \in Unused(d) \cup ToSet(d.free) /\ ToSet(h.free) \subseteq ToSet(d.free) \ {n}
         /\ IsInjective(h.free)
    BY <2>3, <2>8 DEF RootedAt
  <2>15. PagesKept(d, h, t)
    BY <2>9, <2>14 DEF PagesKept
  <2>16. SharedTables(h)
    BY <1>1, <2>8 DEF Consistent, SharedTables
  <2>17. \A u \in Table \ {t} : h.tables[u] = d.tables[u] /\ h.indexes[u] = d.indexes[u]
    BY <2>7, <2>8
  <2>18. Changes(d, h, t)
    BY <2>8, <2>10, <2>11, <2>12, <2>13, <2>14, <2>15, <2>16, <2>17 DEF Changes
  <2> QED
    BY <2>5, <2>8, <2>18, SnapshottedChange DEF d, SnapKept
<1> QED
  BY <1>2, <1>3

(* The pages of a tree, in the order in which they come free.                *)
LEMMA FreedPages ==
  ASSUME NEW page \in Pages, NEW n \in PageNo, Whole(page, n)
  PROVE  /\ Freed(page, n) \in Seq(PageNo) /\ IsInjective(Freed(page, n))
         /\ ToSet(Freed(page, n)) = Tree(page, n)
<1> DEFINE low == page[n].low
<1>1. /\ Tree(page, n) \subseteq PageNo
      /\ Tree(page, n) = IF low = NoPage THEN {n} ELSE {n, low}
      /\ low # NoPage => low # n
  BY PagesOfTree DEF Whole
<1>2. \A a : ToSet(<<a>>) = {a} /\ IsInjective(<<a>>)
  BY DEF ToSet, IsInjective
<1>3. \A a, b : a # b => ToSet(<<a, b>>) = {a, b} /\ IsInjective(<<a, b>>)
  BY DEF ToSet, IsInjective
<1>4. Freed(page, n) = IF low = NoPage THEN <<n>>
                       ELSE IF low > n THEN <<low, n>> ELSE <<n, low>>
  BY DEF Freed
<1> HIDE DEF low
<1> QED
  BY <1>1, <1>2, <1>3, <1>4

(* The snapshot of a transaction forgets which dictionaries it shares.       *)
LEMMA Unshared ==
  ASSUME NEW s \in Snapshots, NEW t, \A u \in s.live : s.tables[u] # Absent
  PROVE  LET k == [s EXCEPT !.live = @ \ {t}] IN
         /\ k \in Snapshots /\ k # Absent /\ k.tables = s.tables /\ k.indexes = s.indexes
         /\ \A u \in k.live : k.tables[u] # Absent
<1> DEFINE k == [s EXCEPT !.live = @ \ {t}]
<1>1. /\ k \in Snapshots /\ k.tables = s.tables /\ k.indexes = s.indexes
      /\ k.live \subseteq s.live
  BY DEF Snapshots
<1> QED
  BY <1>1, AbsentIsNone

(* DROP TABLE. *)
LEMMA DropTableSpares ==
  ASSUME Consistent(db), NEW t \in Table, ~DropTable(t).db.full
  PROVE  Spares(db, DropTable(t).db, t) /\ SnapKept(Snapshotted(db), DropTable(t).db)
<1> DEFINE d == Snapshotted(db)
           snap == [d.snap EXCEPT !.live = @ \ {t}]
           more == Freed(d.page, d.tables[t].root)
           free == d.free \o more
           tables == [d.tables EXCEPT ![t] = Absent]
           indexes == [d.indexes EXCEPT ![t] = Absent]
           h == [d EXCEPT !.indexes = indexes, !.free = free, !.tables = tables, !.snap = snap]
<1>1. Consistent(d) /\ d.snap # Absent /\ d.page = db.page /\ d.tables = db.tables
  BY SnapshotTaken
<1>2. CASE ~Exists(d, t)
  <2>1. DropTable(t).db = d
    BY <1>2 DEF DropTable, Raised
  <2>2. Spares(db, d, t) /\ SnapKept(d, d)
    <3> HIDE DEF d
    <3> QED
      BY <1>1 DEF Spares, SnapKept
  <2> QED
    BY <2>1, <2>2
<1>3. CASE Exists(d, t)
  <2>1. DropTable(t).db = [d EXCEPT !.indexes[t] = Absent, !.free = @ \o more,
                                    !.tables[t] = Absent, !.snap.live = @ \ {t}]
    BY <1>3 DEF DropTable, Done
  <2> HIDE DEF d
  <2>2. /\ d \in Databases /\ d.page \in Pages /\ d.tables \in Metas /\ d.indexes \in Indexes
        /\ d.free \in Seq(PageNo) /\ d.snap \in Snapshots
    BY <1>1, FieldsOf DEF Consistent
  <2>3. DropTable(t).db = h
    BY <2>1, <2>2 DEF Databases
  <2>4. /\ d.tables[t].root \in PageNo /\ Whole(d.page, d.tables[t].root)
        /\ Named(d, t) = Tree(d.page, d.tables[t].root)
    BY <1>1, <1>3, <2>2, MetaOf DEF Consistent, Sound, Named, Exists
  <2>5. more \in Seq(PageNo) /\ IsInjective(more) /\ ToSet(more) = Named(d, t)
    BY <2>2, <2>4, FreedPages
  <2>6. IsInjective(d.free) /\ Named(d, t) \cap ToSet(d.free) = {}
    BY <1>1 DEF Consistent, FreeList
  <2> HIDE DEF more
  <2>7. /\ free \in Seq(PageNo) /\ IsInjective(free)
        /\ ToSet(free) = ToSet(d.free) \cup Named(d, t)
    BY <2>2, <2>5, <2>6, MoreFree
  <2>8. /\ tables \in Metas /\ tables[t] = Absent
        /\ \A u \in Table \ {t} : tables[u] = d.tables[u]
    BY <2>2 DEF Metas
  <2>9. /\ indexes \in Indexes /\ indexes[t] = Absent
        /\ \A u \in Table \ {t} : indexes[u] = d.indexes[u]
    BY <2>2 DEF Indexes
  <2>10. /\ snap \in Snapshots /\ snap # Absent
         /\ snap.tables = d.snap.tables /\ snap.indexes = d.snap.indexes
         /\ \A u \in snap.live : snap.tables[u] # Absent
    BY <1>1, <2>2, Unshared DEF Consistent, SharedTables
  <2> HIDE DEF free, tables, indexes, snap
  <2>11. /\ h \in Databases /\ h.page = d.page /\ h.free = free /\ h.tables = tables
         /\ h.indexes = indexes /\ h.snap = snap
    BY <2>2, <2>7, <2>8, <2>9, <2>10 DEF Databases
  <2> HIDE DEF h
  <2>12. ~Exists(h, t) /\ Named(h, t) = {}
    BY <2>8, <2>11 DEF Exists, Named
  <2>13. h.indexes[t] = Rebuilt(h.page, h.tables)[t]
    BY <2>8, <2>9, <2>11 DEF Rebuilt
  <2>14. PagesKept(d, h, t) /\ SharedTables(h)
    BY <2>10, <2>11 DEF PagesKept, SharedTables
  <2>15. \A u \in Table \ {t} : h.tables[u] = d.tables[u] /\ h.indexes[u] = d.indexes[u]
    BY <2>8, <2>9, <2>11
  <2>16. Changes(d, h, t)
    BY <2>7, <2>11, <2>12, <2>13, <2>14, <2>15 DEF Changes
  <2>17. SnapKept(d, h)
    BY <1>1, <2>10, <2>11 DEF SnapKept
  <2> QED
    BY <2>3, <2>16, <2>17, SnapshottedChange DEF d
<1> QED
  BY <1>2, <1>3

(* CREATE INDEX and DROP INDEX declare, and fill or forget, an index.        *)
LEMMA DeclaredFields ==
  ASSUME NEW d, Consistent(d), NEW t \in Table, Exists(d, t), NEW yes \in BOOLEAN
  PROVE  LET e == Declared(d, t, yes) IN
         /\ e \in Databases /\ e.full = d.full /\ e.page = d.page /\ e.free = d.free
         /\ e.indexes = d.indexes
         /\ \A u \in Table \ {t} : e.tables[u] = d.tables[u]
         /\ Exists(e, t) /\ e.tables[t] = [d.tables[t] EXCEPT !.index = yes]
         /\ SharedTables(e) /\ (e.snap = Absent <=> d.snap = Absent)
<1> DEFINE meta == [d.tables[t] EXCEPT !.index = yes]
           tables == [d.tables EXCEPT ![t] = meta]
           put == [d EXCEPT !.tables = tables]
           was == [d.snap.tables[t] EXCEPT !.index = yes]
           old == [d.snap.tables EXCEPT ![t] = was]
           snap == [d.snap EXCEPT !.tables = old]
           e == Declared(d, t, yes)
<1>1. d \in Databases /\ d.tables \in Metas /\ d.tables[t] \in Meta /\ d.snap \in Snapshots \cup {Absent}
  BY FieldsOf, MetaOf DEF Consistent, Exists
<1>2. meta \in Meta /\ meta # Absent
  <2>1. meta \in Meta
    BY <1>1 DEF Meta
  <2> QED
    BY <2>1, AbsentIsNone
<1>3. [d EXCEPT !.tables[t].index = yes] = put
  BY <1>1 DEF Databases
<1> HIDE DEF meta
<1>4. tables \in Metas /\ tables[t] = meta /\ \A u \in Table \ {t} : tables[u] = d.tables[u]
  BY <1>1, <1>2 DEF Metas
<1> HIDE DEF tables
<1>5. /\ put \in Databases /\ put.full = d.full /\ put.page = d.page /\ put.free = d.free
      /\ put.indexes = d.indexes /\ put.tables = tables /\ put.snap = d.snap
  BY <1>1, <1>4 DEF Databases
<1> HIDE DEF put
<1>6. Exists(put, t) /\ \A u \in Table \ {t} : put.tables[u] = d.tables[u]
  BY <1>2, <1>4, <1>5 DEF Exists
<1>7. CASE d.snap = Absent \/ t \notin d.snap.live
  <2>1. e = put
    BY <1>3, <1>7 DEF Declared
  <2>2. SharedTables(put)
    BY <1>5 DEF Consistent, SharedTables
  <2> QED
    BY <1>4, <1>5, <1>6, <2>1, <2>2 DEF meta
<1>8. CASE d.snap # Absent /\ t \in d.snap.live
  <2>1. d.snap \in Snapshots /\ d.snap.tables \in Metas /\ d.snap.tables[t] # Absent
    BY <1>1, <1>8 DEF Consistent, SharedTables, Snapshots
  <2>2. was \in Meta /\ was # Absent
    <3>1. was \in Meta
      BY <2>1, MetaOf DEF Meta
    <3> QED
      BY <3>1, AbsentIsNone
  <2>3. e = [put EXCEPT !.snap.tables[t].index = yes]
    BY <1>3, <1>8 DEF Declared
  <2>4. e = [put EXCEPT !.snap = snap]
    BY <1>5, <2>1, <2>3 DEF Databases, Snapshots
  <2> HIDE DEF was
  <2>5. /\ old \in Metas /\ old[t] = was
        /\ \A u \in Table \ {t} : old[u] = d.snap.tables[u]
    BY <2>1, <2>2 DEF Metas
  <2> HIDE DEF old
  <2>6. snap \in Snapshots /\ snap.tables = old /\ snap.live = d.snap.live
    BY <2>1, <2>5 DEF Snapshots
  <2> HIDE DEF snap
  <2>7. snap # Absent
    BY <2>6, AbsentIsNone
  <2>8. \A u \in snap.live : snap.tables[u] # Absent
    <3>1. \A u \in d.snap.live : u \in Table /\ d.snap.tables[u] # Absent
      BY <1>8, <2>1 DEF Consistent, SharedTables, Snapshots
    <3> QED
      BY <2>2, <2>5, <2>6, <3>1
  <2>9. /\ e \in Databases /\ e.full = put.full /\ e.page = put.page /\ e.free = put.free
        /\ e.indexes = put.indexes /\ e.tables = put.tables /\ e.snap = snap
    BY <1>5, <2>4, <2>6 DEF Databases
  <2> HIDE DEF e
  <2>10. Exists(e, t) /\ SharedTables(e)
    BY <1>6, <2>8, <2>9 DEF Exists, SharedTables
  <2> QED
    BY <1>4, <1>5, <1>6, <1>8, <2>7, <2>9, <2>10 DEF meta, e
<1> QED
  BY <1>7, <1>8

LEMMA IndexedChange ==
  ASSUME NEW d, Consistent(d), NEW t \in Table, Exists(d, t), NEW yes \in BOOLEAN,
         NEW pairs, pairs = IF yes THEN Pairs(RowsOf(d, t)) ELSE Absent
  PROVE  LET h == [Declared(d, t, yes) EXCEPT !.indexes[t] = pairs] IN
         Changes(d, h, t) /\ (h.snap = Absent <=> d.snap = Absent)
<1> DEFINE e == Declared(d, t, yes)
           indexes == [d.indexes EXCEPT ![t] = pairs]
           g == [e EXCEPT !.indexes[t] = pairs]
           h == [e EXCEPT !.indexes = indexes]
<1>1. /\ d \in Databases /\ d.tables[t] \in Meta /\ RowsOf(d, t) \in Row
      /\ Whole(d.page, d.tables[t].root) /\ Counted(d.tables[t], RowsOf(d, t))
  BY TableOf
<1>2. /\ e \in Databases /\ e.page = d.page /\ e.free = d.free /\ e.indexes = d.indexes
      /\ \A u \in Table \ {t} : e.tables[u] = d.tables[u]
      /\ Exists(e, t) /\ e.tables[t] = [d.tables[t] EXCEPT !.index = yes]
      /\ SharedTables(e) /\ (e.snap = Absent <=> d.snap = Absent)
  BY DeclaredFields
<1> HIDE DEF e
<1>3. pairs \in (SUBSET (Value \X Rid)) \cup {Absent}
  <2>1. Pairs(RowsOf(d, t)) \in SUBSET (Value \X Rid)
    BY <1>1, PairsTyped DEF Pairs
  <2> QED
    BY <2>1
<1>4. /\ indexes \in Indexes /\ indexes[t] = pairs
      /\ \A u \in Table \ {t} : indexes[u] = d.indexes[u]
  <2>1. d.indexes \in Indexes
    BY <1>1, FieldsOf
  <2> QED
    BY <1>3, <2>1 DEF Indexes
<1>5. g = h
  BY <1>2 DEF Databases
<1> HIDE DEF indexes
<1>6. /\ h \in Databases /\ h.page = d.page /\ h.free = d.free /\ h.indexes = indexes
      /\ h.tables = e.tables /\ h.snap = e.snap
  BY <1>2, <1>4 DEF Databases
<1> HIDE DEF h, g
<1>7. /\ h.tables[t].root = d.tables[t].root /\ h.tables[t].count = d.tables[t].count
      /\ h.tables[t].next = d.tables[t].next /\ h.tables[t].index = yes
  BY <1>1, <1>2, <1>6 DEF Meta
<1>8. /\ Exists(h, t) /\ Named(h, t) = Named(d, t) /\ RowsOf(h, t) = RowsOf(d, t)
      /\ Whole(h.page, h.tables[t].root) /\ Counted(h.tables[t], RowsOf(h, t))
  BY <1>1, <1>2, <1>6, <1>7 DEF Exists, Named, RowsOf, Counted
<1>9. h.indexes[t] = Rebuilt(h.page, h.tables)[t]
  <2>1. h.tables[t] # Absent
    BY <1>8 DEF Exists
  <2> QED
    BY <1>4, <1>6, <1>7, <1>8, <2>1 DEF Rebuilt, RowsOf
<1>10. PagesKept(d, h, t) /\ SharedTables(h)
  BY <1>2, <1>6 DEF PagesKept, SharedTables
<1>11. IsInjective(h.free) /\ Named(h, t) \cap ToSet(h.free) = {}
  BY <1>6, <1>8 DEF Consistent, FreeList
<1>12. \A u \in Table \ {t} : h.tables[u] = d.tables[u] /\ h.indexes[u] = d.indexes[u]
  BY <1>2, <1>4, <1>6
<1>13. Changes(d, h, t)
  BY <1>6, <1>8, <1>9, <1>10, <1>11, <1>12 DEF Changes
<1> QED
  BY <1>2, <1>5, <1>6, <1>13 DEF g, e

LEMMA CreateIndexSpares ==
  ASSUME Consistent(db), NEW t \in Table
  PROVE  Spares(db, CreateIndex(t).db, t) /\ CreateIndex(t).db.snap # Absent
<1> DEFINE d == Snapshotted(db)
           h == [Declared(d, t, TRUE) EXCEPT !.indexes[t] = Pairs(RowsOf(d, t))]
<1>1. Consistent(d) /\ d.snap # Absent /\ d.page = db.page /\ d.tables = db.tables
  BY SnapshotTaken
<1>2. CASE ~Exists(d, t) \/ d.tables[t].index
  <2>1. CreateIndex(t).db = d
    BY <1>2 DEF CreateIndex, Raised
  <2> HIDE DEF d
  <2> QED
    BY <1>1, <2>1 DEF Spares
<1>3. CASE Exists(d, t) /\ ~d.tables[t].index
  <2>1. CreateIndex(t).db = h
    BY <1>3 DEF CreateIndex, Done
  <2> HIDE DEF d
  <2>2. Changes(d, h, t) /\ (h.snap = Absent <=> d.snap = Absent)
    BY <1>1, <1>3, IndexedChange
  <2> HIDE DEF h
  <2> QED
    BY <1>1, <2>1, <2>2, SnapshottedChange DEF d
<1> QED
  BY <1>2, <1>3

LEMMA DropIndexSpares ==
  ASSUME Consistent(db), NEW t \in Table
  PROVE  Spares(db, DropIndex(t).db, t) /\ DropIndex(t).db.snap # Absent
<1> DEFINE d == Snapshotted(db)
           h == [Declared(d, t, FALSE) EXCEPT !.indexes[t] = Absent]
<1>1. Consistent(d) /\ d.snap # Absent /\ d.page = db.page /\ d.tables = db.tables
  BY SnapshotTaken
<1>2. CASE ~Exists(d, t) \/ ~d.tables[t].index
  <2>1. DropIndex(t).db = d
    BY <1>2 DEF DropIndex, Raised
  <2> HIDE DEF d
  <2> QED
    BY <1>1, <2>1 DEF Spares
<1>3. CASE Exists(d, t) /\ d.tables[t].index
  <2>1. DropIndex(t).db = h
    BY <1>3 DEF DropIndex, Done
  <2> HIDE DEF d
  <2>2. Changes(d, h, t) /\ (h.snap = Absent <=> d.snap = Absent)
    BY <1>1, <1>3, IndexedChange
  <2> HIDE DEF h
  <2> QED
    BY <1>1, <2>1, <2>2, SnapshottedChange DEF d
<1> QED
  BY <1>2, <1>3

-----------------------------------------------------------------------------
(* What a statement makes of the session, and of the rollback to come        *)

(* Row, index and bulk statements differ in what they do to the snapshot.    *)
Makes(h, t, risk) ==
  /\ Spares(db, h, t)
  /\ \/ risk = {"bulk"} /\ h.snap = Absent
     \/ risk = {"index"} /\ h.snap # Absent
     \/ risk = {} /\ h.snap # Absent /\ SnapKept(Snapshotted(db), h)

LEMMA SpareChain ==
  ASSUME NEW d, NEW e, NEW h, NEW t,
         e.page = d.page, e.tables = d.tables, Spares(e, h, t)
  PROVE  Spares(d, h, t)
<1>1. Contents(e.page, e.tables) = Contents(d.page, d.tables)
  OBVIOUS
<1> QED
  BY <1>1 DEF Spares

LEMMA SnapshotStays ==
  ASSUME NEW d, NEW h, SnapKept(Snapshotted(d), h), Snapshotted(d).snap # Absent
  PROVE  h.snap # Absent
BY DEF SnapKept

(* A statement that changes rows, after the snapshot of it.                  *)
LEMMA SqlMakes ==
  ASSUME Consistent(db), NEW t \in Table, NEW h,
         Spares(Snapshotted(db), h, t), SnapKept(Snapshotted(db), h)
  PROVE  Makes(h, t, {})
<1>1. /\ Snapshotted(db).snap # Absent
      /\ Snapshotted(db).page = db.page /\ Snapshotted(db).tables = db.tables
  BY SnapshotTaken
<1>2. Spares(db, h, t)
  BY <1>1, SpareChain
<1>3. h.snap # Absent
  BY <1>1, SnapshotStays
<1> QED
  BY <1>2, <1>3 DEF Makes

(* One that takes none.                                                      *)
LEMMA BulkMakes ==
  ASSUME NEW t \in Table, NEW h, Spares(db, h, t), SnapKept(db, h)
  PROVE  Makes(h, t, Quiet)
<1>1. CASE db.snap = Absent
  BY <1>1 DEF Makes, Quiet, SnapKept
<1>2. CASE db.snap # Absent
  <2>1. Snapshotted(db) = db
    BY <1>2 DEF Snapshotted
  <2> QED
    BY <1>2, <2>1 DEF Makes, Quiet, SnapKept
<1> QED
  BY <1>1, <1>2

LEMMA KeepsSpares ==
  ASSUME NEW d, NEW h, NEW t, Keeps(d, h, t)
  PROVE  Spares(d, h, t) /\ SnapKept(d, h)
BY DEF Keeps, Spares, SnapKept

LEMMA NothingMade ==
  ASSUME NEW d, Consistent(d), NEW t
  PROVE  Spares(d, d, t) /\ SnapKept(d, d)
BY DEF Spares, SnapKept

LEMMA UpdateMakes ==
  ASSUME Consistent(db), NEW t \in Table, NEW where, NEW v \in Column, NEW stop,
         ~Update(t, where, v, stop).db.full
  PROVE  Makes(Update(t, where, v, stop).db, t, {})
<1> DEFINE d == Snapshotted(db)
           rids == First(stop, Matching(d, t, where))
           h == Rewritten(d, t, rids, v)
           made == Update(t, where, v, stop).db
<1>1. Consistent(d)
  BY SnapshotTaken
<1>2. Spares(d, made, t) /\ SnapKept(d, made)
  <2>1. CASE ~Exists(d, t)
    <3>1. made = d
      BY <2>1 DEF Update, Raised
    <3> HIDE DEF made, d
    <3> QED
      BY <1>1, <3>1, NothingMade
  <2>2. CASE Exists(d, t)
    <3>1. made = h
      BY <2>2 DEF Update
    <3>2. rids \in SUBSET Rids(RowsOf(d, t))
      BY MatchingRows
    <3> HIDE DEF d, rids, made
    <3>3. Keeps(d, h, t)
      BY <1>1, <2>2, <3>1, <3>2, UpdateKeeps DEF made
    <3> QED
      BY <3>1, <3>3, KeepsSpares
  <2> QED
    BY <2>1, <2>2
<1> QED
  BY <1>2, SqlMakes

LEMMA DeleteMakes ==
  ASSUME Consistent(db), NEW t \in Table, NEW where, ~Delete(t, where).db.full
  PROVE  Makes(Delete(t, where).db, t, {})
<1> DEFINE d == Snapshotted(db)
           rids == Matching(d, t, where)
           h == Uncounted(Rewritten(d, t, rids, Absent), t, Cardinality(rids))
           made == Delete(t, where).db
<1>1. Consistent(d)
  BY SnapshotTaken
<1>2. Spares(d, made, t) /\ SnapKept(d, made)
  <2>1. CASE ~Exists(d, t)
    <3>1. made = d
      BY <2>1 DEF Delete, Raised
    <3> HIDE DEF made, d
    <3> QED
      BY <1>1, <3>1, NothingMade
  <2>2. CASE Exists(d, t)
    <3>1. made = h
      BY <2>2 DEF Delete, Done
    <3>2. rids \in SUBSET Rids(RowsOf(d, t))
      BY MatchingRows
    <3> HIDE DEF d, rids, made
    <3>3. Keeps(d, h, t)
      BY <1>1, <2>2, <3>1, <3>2, DeleteKeeps DEF made
    <3> QED
      BY <3>1, <3>3, KeepsSpares
  <2> QED
    BY <2>1, <2>2
<1> QED
  BY <1>2, SqlMakes

LEMMA VacuumMakes ==
  ASSUME Consistent(db), NEW t \in Table, ~VacuumTable(t).db.full
  PROVE  Makes(VacuumTable(t).db, t, Quiet)
<1>1. Spares(db, VacuumTable(t).db, t) /\ SnapKept(db, VacuumTable(t).db)
  <2>1. CASE ~Exists(db, t)
    <3>1. VacuumTable(t).db = db
      BY <2>1 DEF VacuumTable, Raised
    <3> QED
      BY <3>1, NothingMade
  <2>2. CASE Exists(db, t)
    <3>1. VacuumTable(t).db = Vacuumed(db, t)
      BY <2>2 DEF VacuumTable, Done
    <3>2. Keeps(db, Vacuumed(db, t), t)
      BY <2>2, <3>1, VacuumKeeps
    <3> QED
      BY <3>1, <3>2, KeepsSpares
  <2> QED
    BY <2>1, <2>2
<1> QED
  BY <1>1, BulkMakes

-----------------------------------------------------------------------------
(* The invariant, action by action                                           *)

(* The same trees hold the same rows, and give the same indexes.             *)
LEMMA SameTreesAgree ==
  ASSUME NEW d, NEW s, d \in Databases, Sound(d.page, d.tables), SameTrees(d, s)
  PROVE  /\ Contents(d.page, d.tables) = Contents(s.page, s.cat)
         /\ Rebuilt(d.page, d.tables) = Rebuilt(s.page, s.cat)
<1>1. d.tables = s.cat
  BY DEF SameTrees
<1>2. ASSUME NEW t \in Table, d.tables[t] # Absent
      PROVE  d.page[d.tables[t].root] = s.page[d.tables[t].root]
  <2>1. d.tables[t].root \in Tree(d.page, d.tables[t].root)
    BY DEF Tree
  <2> QED
    BY <1>2, <2>1 DEF SameTrees, Exists
<1>3. Contents(d.page, d.tables) = Contents(s.page, s.cat)
  BY <1>1, <1>2 DEF Contents
<1>4. \A t \in Table : d.tables[t] # Absent =>
        Below(d.page, d.tables[t].root) = Below(s.page, d.tables[t].root)
  BY <1>2 DEF Below
<1>5. Rebuilt(d.page, d.tables) = Rebuilt(s.page, s.cat)
  BY <1>1, <1>4 DEF Rebuilt
<1> QED
  BY <1>3, <1>5

LEMMA SavedFields ==
  ASSUME NEW d \in Databases
  PROVE  /\ Saved(d) \in Databases /\ Saved(d).full = d.full /\ Saved(d).page = d.page
         /\ Saved(d).cat = d.tables /\ Saved(d).tables = d.tables
         /\ Saved(d).free = d.free /\ Saved(d).indexes = d.indexes /\ Saved(d).snap = d.snap
<1>1. {0} \in SUBSET (0 .. MaxPages)
  BY CatalogAssumption
<1> QED
  BY <1>1, FieldsOf DEF Saved, Databases

LEMMA SavedKeeps ==
  ASSUME NEW d, Consistent(d)
  PROVE  Consistent(Saved(d))
<1> DEFINE h == Saved(d)
<1>1. /\ h \in Databases /\ h.page = d.page /\ h.tables = d.tables
      /\ h.free = d.free /\ h.indexes = d.indexes /\ h.snap = d.snap
  BY SavedFields DEF Consistent
<1> HIDE DEF h
<1>2. Consistent(h)
  BY <1>1 DEF Consistent, FreeList, SharedTables, Named, Exists
<1> QED
  BY <1>2 DEF h

(* What every statement comes to, whether it gets through or not.            *)
Stated(t) ==
  /\ mode \notin Idle /\ mode' \notin Idle
  /\ stored' = stored /\ loose = Absent /\ loose' = Absent
  /\ Spares(db, db', t)

LEMMA StatementKeeps ==
  ASSUME Inv, Disciplined, NEW t \in Table, NEW result, NEW risk,
         Makes(result.db, t, risk), Statement(result, risk)
  PROVE  Inv' /\ Stated(t)
<1> DEFINE h == result.db
           ok == result.ok /\ Fits(h)
<1>1. /\ mode \in {"auto", "txn"} /\ mode' \in {"txn", "passed", "raised"}
      /\ mode \notin Idle /\ mode' \notin Idle
      /\ stored' = stored /\ loose' = loose /\ loose = Absent /\ logged' = logged
      /\ ~h.full
      /\ db' = (IF ok THEN Saved(h) ELSE h)
      /\ risks' = risks \cup risk \cup (IF ok THEN {} ELSE {"failed"})
  BY DEF Statement, Inv, TwoSets, Idle
<1>2. calls' \in 0 .. MaxCalls
  <2>1. calls \in 0 .. MaxCalls /\ MaxCalls \in Nat
    BY CatalogAssumption DEF Inv
  <2>2. mode = "txn" => calls < MaxCalls
    BY DEF Statement
  <2>3. calls' = IF mode = "txn" THEN calls + 1 ELSE calls
    BY DEF Statement
  <2> QED
    BY <2>1, <2>2, <2>3
<1>3. risk \subseteq {"bulk", "index"} /\ risks \subseteq Discipline /\ risks' \subseteq Discipline
  BY <1>1 DEF Inv, Makes, Discipline
<1>4. Consistent(h) /\ Spares(db, h, t)
  BY DEF Makes, Spares
<1>5. /\ Consistent(db') /\ ~db'.full /\ db'.page = h.page /\ db'.tables = h.tables
      /\ db'.snap = h.snap /\ (ok => db'.cat = db'.tables)
  <2>1. CASE ok
    <3>1. db' = Saved(h) /\ h \in Databases
      BY <1>1, <1>4, <2>1 DEF Consistent
    <3> HIDE DEF h
    <3> QED
      BY <1>1, <1>4, <3>1, SavedFields, SavedKeeps
  <2>2. CASE ~ok
    BY <1>1, <1>4, <2>2
  <2> QED
    BY <2>1, <2>2
<1>6. Spares(db, db', t)
  BY <1>4, <1>5 DEF Spares
<1>7. "failed" \notin risks' => db'.cat = db'.tables
  BY <1>1, <1>5
<1>8. db'.snap = Absent => "bulk" \in risks'
  BY <1>1, <1>5 DEF Makes
<1>9. ASSUME db'.snap # Absent, risks' \cap {"index", "bulk"} = {}
      PROVE  db'.snap.tables = stored.cat /\ db'.snap.indexes = Rebuilt(stored.page, stored.cat)
  <2>1. risk = {} /\ SnapKept(Snapshotted(db), h) /\ risks \cap {"index", "bulk"} = {}
    BY <1>1, <1>9 DEF Makes
  <2>2. CASE db.snap # Absent
    <3>1. Snapshotted(db) = db
      BY <2>2 DEF Snapshotted
    <3>2. db.snap.tables = stored.cat /\ db.snap.indexes = Rebuilt(stored.page, stored.cat)
      BY <2>1, <2>2 DEF Inv
    <3> QED
      BY <1>5, <2>1, <2>2, <3>1, <3>2 DEF SnapKept
  <2>3. CASE db.snap = Absent
    <3>1. SameTrees(db, stored)
      BY <1>1, <2>1, <2>3 DEF Inv, Base
    <3>2. Snapshotted(db).snap # Absent /\ Snapshotted(db).snap.tables = db.tables
          /\ Snapshotted(db).snap.indexes = db.indexes
      BY <2>3, SnapshotTaken DEF Inv
    <3>3. db \in Databases /\ Sound(db.page, db.tables) /\ db.indexes = Rebuilt(db.page, db.tables)
      BY DEF Inv, Consistent
    <3>4. db.tables = stored.cat /\ db.indexes = Rebuilt(stored.page, stored.cat)
      BY <3>1, <3>3, SameTreesAgree DEF SameTrees
    <3> QED
      BY <1>5, <2>1, <3>2, <3>4 DEF SnapKept
  <2> QED
    BY <2>2, <2>3
<1>10. stored \in Contained /\ Sound(stored.page, stored.cat) /\ logged' \in BOOLEAN
  BY <1>1 DEF Inv
<1> HIDE DEF ok, h
<1>11. Inv'
  BY <1>1, <1>2, <1>3, <1>5, <1>7, <1>8, <1>9, <1>10 DEF Inv, Idle
<1> QED
  BY <1>1, <1>6, <1>11 DEF Stated

(* A sound set of trees stands where its pages do.                           *)
LEMMA StandsThere ==
  ASSUME NEW page, NEW other, NEW tables, Sound(page, tables), other \in Pages,
         \A n \in NamedBy(page, tables) : other[n] = page[n]
  PROVE  /\ Sound(other, tables) /\ NamedBy(other, tables) = NamedBy(page, tables)
         /\ Contents(other, tables) = Contents(page, tables)
<1>1. ASSUME NEW t \in Table, tables[t] # Absent
      PROVE  /\ Stands(page, other, tables[t].root) /\ Whole(page, tables[t].root)
             /\ Counted(tables[t], page[tables[t].root].rows)
  <2>1. Whole(page, tables[t].root) /\ Counted(tables[t], page[tables[t].root].rows)
    BY <1>1 DEF Sound
  <2>2. \A n \in Tree(page, tables[t].root) : other[n] = page[n]
    BY <1>1 DEF NamedBy
  <2> QED
    BY <2>1, <2>2, SameTree
<1>2. ASSUME NEW t \in Table, tables[t] # Absent
      PROVE  /\ Whole(other, tables[t].root) /\ other[tables[t].root] = page[tables[t].root]
             /\ Counted(tables[t], other[tables[t].root].rows)
             /\ Tree(other, tables[t].root) = Tree(page, tables[t].root)
  BY <1>1, <1>2 DEF Stands
<1>3. Sound(other, tables)
  BY <1>2 DEF Sound
<1>4. NamedBy(other, tables) = NamedBy(page, tables)
  BY <1>2 DEF NamedBy
<1>5. Contents(other, tables) = Contents(page, tables)
  BY <1>2 DEF Contents
<1> QED
  BY <1>3, <1>4, <1>5

LEMMA PagesNamedBy ==
  ASSUME NEW page, NEW tables, Sound(page, tables)
  PROVE  \A n \in NamedBy(page, tables) : n \in PageNo /\ page[n] # Absent
<1>1. ASSUME NEW t \in Table, tables[t] # Absent
      PROVE  \A n \in Tree(page, tables[t].root) : n \in PageNo /\ page[n] # Absent
  BY <1>1, MetaOf, PagesOfTree DEF Sound
<1> QED
  BY <1>1 DEF NamedBy

LEMMA NothingNamed ==
  ASSUME NEW page
  PROVE  NamedBy(page, NoTables) = {}
BY DEF NamedBy, NoTables

(* Between transactions: what Tidied is given, and what it leaves.           *)
Settled(d) ==
  /\ d \in Databases /\ d.snap = Absent
  /\ Sound(d.page, d.tables) /\ d.indexes = Rebuilt(d.page, d.tables)
  /\ IsInjective(d.free)
  /\ \A t \in Table : Named(d, t) \cap ToSet(d.free) = {}

Tidies(d, h) ==
  /\ Consistent(h) /\ h.full = d.full /\ h.snap = Absent
  /\ h.cat = d.cat /\ h.tables = d.tables
  /\ \A t \in Table : Exists(d, t) =>
       \A n \in Tree(d.page, d.tables[t].root) : h.page[n] = d.page[n]
  /\ Contents(h.page, h.tables) = Contents(d.page, d.tables)

LEMMA TidyKeeps ==
  ASSUME NEW d, Settled(d), NEW others,
         \A n \in NamedBy(d.page, others) : n \in PageNo /\ d.page[n] # Absent
  PROVE  /\ Tidies(d, Tidied(d, others))
         /\ \A n \in NamedBy(d.page, others) : Tidied(d, others).page[n] = d.page[n]
<1> DEFINE own == UNION {Named(d, t) : t \in Table}
           trees == (UNION {Named(d, t) : t \in Table}) \cup NamedBy(d.page, others)
           page == [n \in PageNo |-> CASE n \in trees -> d.page[n]
                                       [] n \in ToSet(d.free) \ trees -> Leaf(NoRows)
                                       [] OTHER -> Absent]
           h == Tidied(d, others)
<1>1. d \in Databases /\ d.page \in Pages /\ d.tables \in Metas /\ d.free \in Seq(PageNo)
  BY FieldsOf DEF Settled
<1>2. h = [d EXCEPT !.page = page]
  BY <1>1 DEF Tidied, Databases
<1>3. \A n \in PageNo : d.page[n] \in Node \cup {Absent}
  BY <1>1 DEF Pages
<1>4. \A t \in Table : Named(d, t) \subseteq trees /\ Named(d, t) \subseteq PageNo
  BY NamedPages DEF Settled
<1>17. \A n \in own : n \notin ToSet(d.free)
  BY DEF Settled
<1>22. trees = own \cup NamedBy(d.page, others)
  OBVIOUS
<1> HIDE DEF own, trees
<1>20. NamedBy(d.page, others) \subseteq trees
  BY <1>22
<1>21. \A n \in trees : n \in own \/ n \in NamedBy(d.page, others)
  BY <1>22
<1>5. page \in Pages
  BY <1>3, EmptyLeaf DEF Pages
<1>6. \A n \in PageNo : n \in trees => page[n] = d.page[n]
  OBVIOUS
<1>7. \A n \in PageNo : n \in ToSet(d.free) /\ n \notin trees => page[n] # Absent
  BY EmptyLeaf
<1>18. \A n \in NamedBy(d.page, others) : page[n] = d.page[n] /\ page[n] # Absent
  BY <1>6, <1>20
<1> HIDE DEF page
<1>8. /\ h \in Databases /\ h.page = page /\ h.tables = d.tables /\ h.cat = d.cat
      /\ h.full = d.full /\ h.free = d.free /\ h.indexes = d.indexes /\ h.snap = d.snap
  BY <1>1, <1>2, <1>5 DEF Databases
<1> HIDE DEF h
<1>9. ASSUME NEW t \in Table, Exists(d, t)
      PROVE  /\ Stands(d.page, h.page, d.tables[t].root) /\ Whole(d.page, d.tables[t].root)
             /\ \A n \in Tree(d.page, d.tables[t].root) : h.page[n] = d.page[n]
  <2>1. Whole(d.page, d.tables[t].root) /\ Named(d, t) = Tree(d.page, d.tables[t].root)
    BY <1>9 DEF Settled, Sound, Exists, Named
  <2>2. \A n \in Tree(d.page, d.tables[t].root) : h.page[n] = d.page[n]
    BY <1>4, <1>6, <1>8, <2>1
  <2> QED
    BY <2>1, <2>2, SameTree
<1>10. \A t \in Table : Named(h, t) = Named(d, t)
  BY <1>8, <1>9 DEF Named, Exists, Stands
<1>11. ASSUME NEW t \in Table, Exists(d, t)
       PROVE  /\ Whole(h.page, d.tables[t].root)
              /\ h.page[d.tables[t].root] = d.page[d.tables[t].root]
              /\ RowsOf(h, t) = RowsOf(d, t)
              /\ Counted(d.tables[t], h.page[d.tables[t].root].rows)
  <2>1. Counted(d.tables[t], d.page[d.tables[t].root].rows)
    BY <1>11 DEF Settled, Sound, Exists
  <2> QED
    BY <1>8, <1>9, <1>11, <2>1 DEF Stands, RowsOf
<1>12. Sound(h.page, h.tables)
  <2>1. \A t, u \in Table : t # u => Named(d, t) \cap Named(d, u) = {}
    BY DEF Settled, Sound, Named, Exists
  <2> QED
    BY <1>1, <1>5, <1>8, <1>10, <1>11, <2>1 DEF Sound, Named, Exists
<1>13. h.indexes = Rebuilt(h.page, h.tables)
  BY <1>8, <1>11 DEF Settled, Rebuilt, RowsOf, Exists
<1>14. FreeList(h)
  <2>1. ASSUME NEW n \in ToSet(h.free) PROVE h.page[n] # Absent
    <3>1. n \in PageNo /\ n \in ToSet(d.free)
      BY <1>1, <1>8, <2>1 DEF ToSet
    <3>2. n \in trees => n \in NamedBy(d.page, others)
      BY <1>17, <1>21, <3>1
    <3> QED
      BY <1>7, <1>8, <1>18, <3>1, <3>2
  <2> QED
    BY <1>8, <1>10, <2>1 DEF Settled, FreeList
<1>15. h.snap = Absent /\ SharedTables(h)
  BY <1>8 DEF Settled, SharedTables
<1>16. Contents(h.page, h.tables) = Contents(d.page, d.tables)
  BY <1>8, <1>11 DEF Contents, Exists
<1>19. Tidies(d, h)
  BY <1>8, <1>9, <1>12, <1>13, <1>14, <1>15, <1>16 DEF Tidies, Consistent
<1> QED
  BY <1>8, <1>18, <1>19 DEF h

(* No other tree is to be spared.                                            *)
LEMMA TidyAlone ==
  ASSUME NEW d, Settled(d)
  PROVE  Tidies(d, Tidied(d, NoTables))
BY TidyKeeps, NothingNamed

(* What is on the pages and the catalog page after Tidy is what is stored.   *)
LEMMA TidiedStored ==
  ASSUME NEW d, NEW h, Tidies(d, h), h.cat = h.tables
  PROVE  LET s == [page |-> h.page, cat |-> h.cat] IN
         s \in Contained /\ s # Absent /\ Sound(s.page, s.cat) /\ SameTrees(h, s)
<1>1. h \in Databases /\ Sound(h.page, h.tables)
  BY DEF Tidies, Consistent
<1>2. h.page \in Pages /\ h.cat \in Metas
  BY <1>1, FieldsOf
<1>3. [page |-> h.page, cat |-> h.cat] \in Contained
  BY <1>2 DEF Contained
<1> QED
  BY <1>1, <1>3, AbsentIsNone DEF SameTrees

(* A session keeps the pages and the catalog it had, or goes back to them.   *)
LEMMA TidiedBack ==
  ASSUME NEW d, NEW h, NEW s, Tidies(d, h), SameTrees(d, s)
  PROVE  SameTrees(h, s)
BY DEF Tidies, SameTrees, Exists, Tree

LEMMA Unwritten ==
  ASSUME NEW d, NEW g, Tidies(d, g)
  PROVE  Tidies(d, [g EXCEPT !.wrote = {}])
<1> DEFINE h == [g EXCEPT !.wrote = {}]
<1>1. /\ h \in Databases /\ h.page = g.page /\ h.cat = g.cat /\ h.tables = g.tables
      /\ h.full = g.full /\ h.free = g.free /\ h.indexes = g.indexes /\ h.snap = g.snap
  BY DEF Databases, Tidies, Consistent
<1> HIDE DEF h
<1>2. Consistent(h)
  BY <1>1 DEF Tidies, Consistent, FreeList, SharedTables, Named, Exists
<1>3. Tidies(d, h)
  BY <1>1, <1>2 DEF Tidies
<1> QED
  BY <1>3 DEF h

(* BEGIN. *)
LEMMA BeginKeeps ==
  ASSUME Inv, Disciplined, NEW how \in {"auto", "txn"}, Begin(how)
  PROVE  /\ Inv' /\ mode' \notin Idle /\ loose' = Absent
         /\ db' = db /\ SameTrees(db, stored') /\ mode \in Idle
<1>1. /\ mode \in Idle /\ mode' = how /\ loose = Absent /\ mode' \notin Idle
      /\ db' = db /\ stored' = stored /\ loose' = loose /\ calls' = calls /\ risks' = risks
      /\ logged' = logged
  BY DEF Begin, Disciplined, Discipline, Idle
<1>2. /\ db.snap = Absent /\ risks = {} /\ SameTrees(db, stored)
      /\ Sound(stored.page, stored.cat)
  BY <1>1 DEF Inv, Base
<1>3. Inv'
  BY <1>1, <1>2 DEF Inv, Base
<1> QED
  BY <1>1, <1>2, <1>3

LEMMA CommitKeeps ==
  ASSUME Inv, Disciplined, Commit
  PROVE  /\ Inv' /\ mode \notin Idle /\ mode' = "committed"
         /\ Contents(db'.page, db'.tables) = Contents(db.page, db.tables)
<1> DEFINE d == [db EXCEPT !.snap = Absent, !.wrote = {}]
           now == [page |-> db'.page, cat |-> db'.cat]
<1>1. /\ mode \in {"txn", "passed"} /\ mode \notin Idle /\ "failed" \notin risks
      /\ db' = Tidy(d) /\ mode' = "committed" /\ calls' = 0 /\ risks' = {}
      /\ logged' \in BOOLEAN
  BY DEF Commit, Disciplined, Discipline, Idle, Inv
<1>2. loose = Absent /\ loose' = Absent /\ stored' = now /\ Tidy(d) = Tidied(d, NoTables)
  <2>1. loose = Absent
    BY <1>1 DEF Inv, TwoSets
  <2> QED
    BY <2>1 DEF Commit, Batched, Tidy
<1>3. /\ d \in Databases /\ d.page = db.page /\ d.cat = db.cat /\ d.tables = db.tables
      /\ d.free = db.free /\ d.indexes = db.indexes /\ d.snap = Absent /\ d.full = db.full
  BY DEF Inv, Consistent, Databases
<1> HIDE DEF d
<1>4. Settled(d)
  BY <1>3 DEF Inv, Consistent, FreeList, Settled, Named, Exists
<1>5. Tidies(d, db')
  BY <1>1, <1>2, <1>4, TidyAlone
<1>6. db.cat = db.tables /\ db'.cat = db'.tables
  BY <1>1, <1>3, <1>5 DEF Inv, Tidies
<1>7. now \in Contained /\ Sound(now.page, now.cat) /\ SameTrees(db', now)
  BY <1>5, <1>6, TidiedStored
<1> HIDE DEF now
<1>8. Consistent(db') /\ ~db'.full /\ db'.snap = Absent
  BY <1>3, <1>5 DEF Tidies, Inv
<1>9. Inv'
  BY <1>1, <1>2, <1>6, <1>7, <1>8, CatalogAssumption DEF Inv, Base, Idle
<1> QED
  BY <1>1, <1>3, <1>5, <1>9 DEF Tidies

(* The session that a rollback leaves is settled.                            *)
LEMMA RestoredIs ==
  ASSUME Inv, mode \notin Idle, risks \cap {"index", "bulk"} = {}
  PROVE  /\ Settled(Restored(db)) /\ SameTrees(Restored(db), stored)
         /\ Restored(db).cat = stored.cat /\ ~Restored(db).full
<1> DEFINE r == Restored(db)
           back == [db EXCEPT !.page = stored.page, !.cat = stored.cat, !.snap = Absent]
<1>1. /\ loose = Absent /\ stored.page \in Pages /\ stored.cat \in Metas
      /\ Sound(stored.page, stored.cat)
  BY DEF Inv, TwoSets, Contained
<1>2. db \in Databases /\ db.full = FALSE /\ db.snap \in Snapshots \cup {Absent}
  BY FieldsOf DEF Inv, Consistent, Databases
<1>3. CASE db.snap = Absent
  <2>1. SameTrees(db, stored)
    BY <1>1, <1>3 DEF Inv, Base
  <2>2. r = back
    BY <1>1, <1>3 DEF Restored, Base
  <2>3. /\ r \in Databases /\ r.page = stored.page /\ r.cat = stored.cat /\ r.snap = Absent
        /\ r.tables = stored.cat /\ r.tables = db.tables /\ r.free = db.free
        /\ r.indexes = db.indexes /\ ~r.full
    BY <1>1, <1>2, <2>1, <2>2 DEF Databases, SameTrees
  <2> HIDE DEF r
  <2>4. /\ db \in Databases /\ Sound(db.page, db.tables)
        /\ db.indexes = Rebuilt(db.page, db.tables) /\ FreeList(db)
    BY DEF Inv, Consistent
  <2>5. r.indexes = Rebuilt(r.page, r.tables)
    BY <2>1, <2>3, <2>4, SameTreesAgree
  <2>6. ASSUME NEW t \in Table PROVE Named(r, t) = Named(db, t)
    <3>1. CASE ~Exists(db, t)
      BY <2>3, <3>1 DEF Named, Exists
    <3>2. CASE Exists(db, t)
      <4>1. db.tables[t].root \in Tree(db.page, db.tables[t].root)
        BY DEF Tree
      <4>2. r.page[db.tables[t].root] = db.page[db.tables[t].root]
        BY <2>1, <2>3, <3>2, <4>1 DEF SameTrees
      <4> QED
        BY <2>3, <3>2, <4>2 DEF Named, Exists, Tree
    <3> QED
      BY <3>1, <3>2
  <2>7. Settled(r)
    BY <1>1, <2>3, <2>4, <2>5, <2>6 DEF Settled, FreeList
  <2>8. SameTrees(r, stored)
    BY <2>3 DEF SameTrees
  <2> QED
    BY <2>3, <2>7, <2>8 DEF r
<1>4. CASE db.snap # Absent
  <2>1. db.snap.tables = stored.cat /\ db.snap.indexes = Rebuilt(stored.page, stored.cat)
    BY <1>4 DEF Inv
  <2>2. db.snap.indexes \in Indexes
    BY <1>2, <1>4 DEF Snapshots
  <2>3. r = [back EXCEPT !.tables = stored.cat, !.indexes = db.snap.indexes, !.free = << >>]
    BY <1>1, <1>4, <2>1 DEF Restored, Base
  <2>4. << >> \in Seq(PageNo) /\ IsInjective(<< >>) /\ ToSet(<< >>) = {}
    BY DEF IsInjective, ToSet
  <2>5. /\ back \in Databases /\ back.page = stored.page /\ back.cat = stored.cat
        /\ back.snap = Absent /\ ~back.full
    BY <1>1, <1>2 DEF Databases
  <2> HIDE DEF back
  <2>6. /\ r \in Databases /\ r.page = stored.page /\ r.cat = stored.cat /\ r.snap = Absent
        /\ r.tables = stored.cat /\ r.free = << >> /\ r.indexes = db.snap.indexes /\ ~r.full
    BY <1>1, <2>2, <2>3, <2>4, <2>5 DEF Databases
  <2> HIDE DEF r
  <2>7. Settled(r)
    BY <1>1, <2>1, <2>4, <2>6 DEF Settled
  <2>8. SameTrees(r, stored)
    BY <2>6 DEF SameTrees
  <2> QED
    BY <2>6, <2>7, <2>8 DEF r
<1> QED
  BY <1>3, <1>4

LEMMA RollbackKeeps ==
  ASSUME Inv, Disciplined, Rollback
  PROVE  /\ Inv' /\ mode \notin Idle /\ mode' = "rolledback" /\ loose = Absent
         /\ SameTrees(db', stored) /\ stored' = stored
<1>1. /\ mode \in {"txn", "raised"} /\ mode \notin Idle /\ risks \cap {"index", "bulk"} = {}
      /\ db' = [Tidy(Restored(db)) EXCEPT !.wrote = {}]
      /\ mode' = "rolledback" /\ calls' = 0 /\ risks' = {}
      /\ stored' = stored /\ loose' = loose /\ logged' = logged
  BY DEF Rollback, Disciplined, Discipline, Idle
<1>8. loose = Absent /\ Tidy(Restored(db)) = Tidied(Restored(db), NoTables)
  BY <1>1 DEF Inv, TwoSets, Tidy
<1>2. /\ Settled(Restored(db)) /\ SameTrees(Restored(db), stored)
      /\ Restored(db).cat = stored.cat /\ ~Restored(db).full
  BY <1>1, RestoredIs
<1>3. Tidies(Restored(db), db')
  BY <1>1, <1>2, <1>8, TidyAlone, Unwritten
<1>4. SameTrees(db', stored)
  BY <1>2, <1>3, TidiedBack
<1>5. Consistent(db') /\ ~db'.full /\ db'.snap = Absent /\ db'.cat = db'.tables
  BY <1>2, <1>3 DEF Tidies, SameTrees
<1>6. /\ loose = Absent /\ stored \in Contained /\ Sound(stored.page, stored.cat)
      /\ logged \in BOOLEAN
  BY <1>8 DEF Inv
<1>7. Inv'
  BY <1>1, <1>4, <1>5, <1>6, CatalogAssumption DEF Inv, Base, Idle
<1> QED
  BY <1>1, <1>4, <1>6, <1>7

LEMMA RebuiltTyped ==
  ASSUME NEW page, NEW tables, Sound(page, tables)
  PROVE  Rebuilt(page, tables) \in Indexes
<1>1. ASSUME NEW t \in Table, tables[t] # Absent
      PROVE  Pairs(Below(page, tables[t].root)) \in SUBSET (Value \X Rid)
  <2>1. page \in Pages /\ tables[t].root \in PageNo /\ Whole(page, tables[t].root)
    BY <1>1, MetaOf DEF Sound
  <2>2. Below(page, tables[t].root) \in Row
    BY <2>1, NodeAt DEF Whole, Below
  <2> QED
    BY <2>2, PairsTyped DEF Pairs
<1> QED
  BY <1>1 DEF Rebuilt, Indexes

(* What is stored survives a death, and has the rows of the session.         *)
LEMMA StoredStands ==
  ASSUME Inv, Survives
  PROVE  /\ stored \in Contained /\ Sound(stored.page, stored.cat)
         /\ mode \in Idle =>
              Contents(stored.page, stored.cat) = Contents(db.page, db.tables)
<1>1. stored \in Contained /\ stored.page \in Pages
  BY DEF Inv, Contained
<1>2. CASE loose = Absent
  <2>1. db \in Databases /\ Sound(db.page, db.tables)
    BY DEF Inv, Consistent
  <2>2. mode \in Idle => SameTrees(db, stored)
    BY <1>2 DEF Inv, Base
  <2> QED
    BY <1>1, <1>2, <2>1, <2>2, SameTreesAgree DEF Inv
<1>3. CASE loose # Absent
  <2>1. TwoSets
    BY <1>3 DEF Inv
  <2>2. Standing(db.page, stored.cat)
    BY <1>3, <2>1 DEF Survives, TwoSets
  <2>3. /\ Sound(stored.page, stored.cat)
        /\ Contents(stored.page, stored.cat) = Contents(db.page, stored.cat)
    BY <1>1, <2>1, <2>2, StandsThere DEF TwoSets, Standing
  <2> QED
    BY <1>1, <2>1, <2>3 DEF TwoSets
<1> QED
  BY <1>2, <1>3

(* A session that opens.                                                     *)
LEMMA ReloadedIs ==
  ASSUME stored \in Contained, Sound(stored.page, stored.cat)
  PROVE  /\ Settled(Reloaded(stored)) /\ SameTrees(Reloaded(stored), stored)
         /\ Reloaded(stored).cat = stored.cat /\ ~Reloaded(stored).full
<1> DEFINE r == Reloaded(stored)
<1>1. stored.page \in Pages /\ stored.cat \in Metas /\ Sound(stored.page, stored.cat)
  BY DEF Contained
<1>2. Rebuilt(stored.page, stored.cat) \in Indexes
  BY <1>1, RebuiltTyped
<1>3. << >> \in Seq(PageNo) /\ IsInjective(<< >>) /\ ToSet(<< >>) = {}
  BY DEF IsInjective, ToSet
<1>4. /\ r \in Databases /\ r.page = stored.page /\ r.cat = stored.cat /\ r.tables = stored.cat
      /\ r.free = << >> /\ r.indexes = Rebuilt(stored.page, stored.cat)
      /\ r.snap = Absent /\ ~r.full
  BY <1>1, <1>2, <1>3 DEF Reloaded, Fresh, Databases
<1> HIDE DEF r
<1>5. Settled(r) /\ SameTrees(r, stored)
  BY <1>1, <1>3, <1>4 DEF Settled, SameTrees
<1> QED
  BY <1>4, <1>5 DEF r

LEMMA ReopenKeeps ==
  ASSUME Inv, Disciplined, Reopen
  PROVE  /\ Inv' /\ SameTrees(db', stored) /\ stored' = stored /\ Survives
         /\ mode' = IF mode \in Idle THEN mode ELSE "rolledback"
<1>1. /\ db' = Tidied(Reloaded(stored), NoTables)
      /\ mode' = (IF mode \in Idle THEN mode ELSE "rolledback")
      /\ calls' = 0 /\ risks' = {} /\ loose' = Absent /\ stored' = stored /\ logged' = FALSE
      /\ Survives
  BY DEF Reopen, Disciplined, Discipline
<1>5. stored \in Contained /\ Sound(stored.page, stored.cat)
  BY <1>1, StoredStands
<1>2. Tidies(Reloaded(stored), db') /\ SameTrees(db', stored)
  BY <1>1, <1>5, ReloadedIs, TidyAlone, TidiedBack
<1>3. Consistent(db') /\ ~db'.full /\ db'.snap = Absent /\ db'.cat = db'.tables
  BY <1>2, <1>5, ReloadedIs DEF Tidies, SameTrees
<1>4. mode' \in Idle
  BY <1>1 DEF Idle
<1>6. Base' = stored' /\ SameTrees(db', stored')
  BY <1>1, <1>2 DEF Base
<1>7. db.cat' = db.tables'
  BY <1>3
<1>8. (stored \in Contained /\ Sound(stored.page, stored.cat) /\ logged \in BOOLEAN)'
  BY <1>1, <1>5
<1>9. 0 \in 0 .. MaxCalls
  BY CatalogAssumption
<1>10. Inv'
  BY <1>1, <1>3, <1>4, <1>6, <1>7, <1>8, <1>9 DEF Inv
<1> QED
  BY <1>1, <1>2, <1>10

(* Before VACUUM outside a transaction, and after another, the trees of the  *)
(* stored catalog page are among the pages of the session.                   *)
LEMMA IdleTrees ==
  ASSUME Inv, mode \in Idle
  PROVE  /\ Sound(db.page, stored.cat)
         /\ Contents(db.page, stored.cat) = Contents(db.page, db.tables)
         /\ logged => Standing(db.page, stored.cat)
<1>1. CASE loose = Absent
  <2>1. SameTrees(db, stored) /\ Sound(db.page, db.tables)
    BY <1>1 DEF Inv, Base, Consistent
  <2>2. stored.cat = db.tables
    BY <2>1 DEF SameTrees
  <2>3. Standing(db.page, db.tables)
    BY <2>1 DEF SameTrees, Standing, NamedBy, Exists
  <2> QED
    BY <2>1, <2>2, <2>3
<1>2. CASE loose # Absent
  BY <1>2 DEF Inv, TwoSets
<1> QED
  BY <1>1, <1>2

(* VACUUM outside a transaction: the rows stay, the trees change.            *)
LEMMA VacuumActionKeeps ==
  ASSUME Inv, NEW t \in Table, Vacuum(t)
  PROVE  /\ Inv' /\ mode \in Idle /\ mode' = mode
         /\ Contents(db'.page, db'.tables) = Contents(db.page, db.tables)
<1> DEFINE v == Vacuumed(db, t)
           d == Saved(v)
           now == [page |-> db'.page, cat |-> db'.cat]
<1>1. /\ mode \in Idle /\ Exists(db, t) /\ ~v.full
      /\ db' = [Tidied(d, stored.cat) EXCEPT !.wrote = {}] /\ loose' = now
      /\ stored' = stored /\ logged' = logged
      /\ mode' = mode /\ calls' = calls /\ risks' = risks
  BY DEF Vacuum
<1>2. db.snap = Absent /\ risks = {} /\ Consistent(db)
  BY <1>1 DEF Inv
<1>3. /\ Keeps(db, v, t) /\ Contents(v.page, v.tables)[t] = Contents(db.page, db.tables)[t]
      /\ \A n \in PageNo : db.page[n] # Absent => v.page[n] = db.page[n]
  BY <1>1, <1>2, VacuumKeeps
<1> HIDE DEF v
<1>4. Consistent(v) /\ v.snap = Absent
  BY <1>2, <1>3 DEF Keeps
<1>5. Contents(v.page, v.tables) = Contents(db.page, db.tables)
  <2>1. \A u \in Table : Contents(v.page, v.tables)[u] = Contents(db.page, db.tables)[u]
    BY <1>3 DEF Keeps
  <2> QED
    BY <2>1 DEF Contents
<1>6. /\ Consistent(d) /\ d.full = v.full /\ d.page = v.page /\ d.cat = v.tables
      /\ d.tables = v.tables /\ d.snap = Absent
  BY <1>4, SavedFields, SavedKeeps DEF Consistent
<1> HIDE DEF d
<1>7. Settled(d)
  BY <1>6 DEF Settled, Consistent, FreeList
<1>8. /\ Sound(v.page, stored.cat) /\ NamedBy(v.page, stored.cat) = NamedBy(db.page, stored.cat)
      /\ Contents(v.page, stored.cat) = Contents(db.page, stored.cat)
  <2>1. \A n \in NamedBy(db.page, stored.cat) : v.page[n] = db.page[n]
    BY <1>1, <1>3, IdleTrees, PagesNamedBy
  <2>2. v.page \in Pages
    BY <1>4, FieldsOf DEF Consistent
  <2> QED
    BY <1>1, <2>1, <2>2, IdleTrees, StandsThere
<1> DEFINE g == Tidied(d, stored.cat)
<1>9. /\ Tidies(d, g)
      /\ \A n \in NamedBy(d.page, stored.cat) : g.page[n] = d.page[n]
  BY <1>6, <1>7, <1>8, PagesNamedBy, TidyKeeps
<1>10. db'.page = g.page /\ Tidies(d, db')
  <2> HIDE DEF g
  <2>1. g \in Databases
    BY <1>9 DEF Tidies, Consistent
  <2>2. db' = [g EXCEPT !.wrote = {}]
    BY <1>1 DEF g
  <2> QED
    BY <1>9, <2>1, <2>2, Unwritten DEF Databases
<1> HIDE DEF g
<1>11. /\ Consistent(db') /\ ~db'.full /\ db'.snap = Absent /\ db'.cat = db'.tables
       /\ Contents(db'.page, db'.tables) = Contents(db.page, db.tables)
  BY <1>1, <1>5, <1>6, <1>10 DEF Tidies
<1>12. now \in Contained /\ now # Absent /\ Sound(now.page, now.cat) /\ SameTrees(db', now)
  BY <1>10, <1>11, TidiedStored
<1>13. /\ Sound(db'.page, stored.cat)
       /\ NamedBy(db'.page, stored.cat) = NamedBy(db.page, stored.cat)
       /\ Contents(db'.page, stored.cat) = Contents(db.page, stored.cat)
  <2>1. db'.page \in Pages
    BY <1>11, FieldsOf DEF Consistent
  <2>2. \A n \in NamedBy(v.page, stored.cat) : db'.page[n] = v.page[n]
    BY <1>6, <1>9, <1>10
  <2> QED
    BY <1>8, <2>1, <2>2, StandsThere
<1>14. ASSUME logged PROVE Standing(db'.page, stored.cat)
  <2>1. \A n \in NamedBy(db.page, stored.cat) : stored.page[n] = db.page[n]
    BY <1>1, <1>14, IdleTrees DEF Standing
  <2>2. \A n \in NamedBy(db.page, stored.cat) : db'.page[n] = db.page[n]
    BY <1>1, <1>3, <1>6, <1>8, <1>9, <1>10, IdleTrees, PagesNamedBy
  <2> QED
    BY <1>13, <2>1, <2>2 DEF Standing
<1>15. TwoSets'
  <2>1. mode' \in Idle /\ loose' \in Contained /\ loose'.page = db'.page /\ loose'.cat = db'.tables
    BY <1>1, <1>11, <1>12
  <2>2. Contents(db'.page, stored.cat) = Contents(db'.page, db'.tables)
    BY <1>1, <1>11, <1>13, IdleTrees
  <2>3. logged' => (Standing(db.page, stored.cat))'
    BY <1>1, <1>14 DEF Standing
  <2> QED
    BY <1>1, <1>13, <2>1, <2>2, <2>3 DEF TwoSets
<1> HIDE DEF now
<1>16. Inv'
  BY <1>1, <1>2, <1>11, <1>12, <1>15 DEF Inv, Base
<1> QED
  BY <1>1, <1>11, <1>16

(* A page of the session comes to the file.                                  *)
LEMMA FlushPageKeeps ==
  ASSUME Inv, NEW n \in PageNo, FlushPage(n)
  PROVE  Inv' /\ mode \in Idle /\ mode' = mode /\ db' = db
<1>1. /\ mode \in Idle /\ loose # Absent
      /\ stored' = [stored EXCEPT !.page[n] = loose.page[n]]
      /\ db' = db /\ logged' = logged /\ loose' = loose
      /\ mode' = mode /\ calls' = calls /\ risks' = risks
  BY DEF FlushPage
<1>2. TwoSets /\ stored \in Contained /\ loose.page \in Pages
  BY <1>1 DEF Inv, TwoSets, Contained
<1>3. /\ stored' \in Contained /\ stored'.cat = stored.cat
      /\ \A m \in PageNo : stored'.page[m] = IF m = n THEN loose.page[n] ELSE stored.page[m]
  <2>1. stored.page \in Pages /\ loose.page[n] \in Node \cup {Absent}
    BY <1>2 DEF Contained, Pages
  <2> QED
    BY <1>1, <1>2, <2>1 DEF Contained, Pages
<1>4. ASSUME logged PROVE (Standing(db.page, stored.cat))'
  <2>1. \A m \in NamedBy(db.page, stored.cat) : m \in PageNo /\ stored.page[m] = db.page[m]
    BY <1>2, <1>4, PagesNamedBy DEF TwoSets, Standing
  <2>2. \A m \in NamedBy(db.page, stored.cat) : stored'.page[m] = db.page[m]
    BY <1>2, <1>3, <2>1 DEF TwoSets
  <2> QED
    BY <1>1, <1>3, <2>2 DEF Standing
<1>5. TwoSets'
  BY <1>1, <1>2, <1>3, <1>4 DEF TwoSets
<1>6. Inv'
  BY <1>1, <1>3, <1>5 DEF Inv, Base
<1> QED
  BY <1>1, <1>6

LEMMA FlushCatalogKeeps ==
  ASSUME Inv, FlushCatalog
  PROVE  Inv' /\ mode \in Idle /\ mode' = mode /\ db' = db
<1>1. /\ mode \in Idle /\ loose # Absent /\ ~logged
      /\ stored' = [stored EXCEPT !.cat = loose.cat]
      /\ db' = db /\ logged' = logged /\ loose' = loose
      /\ mode' = mode /\ calls' = calls /\ risks' = risks
  BY DEF FlushCatalog
<1>2. TwoSets /\ stored \in Contained /\ loose.cat \in Metas /\ Sound(db.page, db.tables)
  BY <1>1 DEF Inv, TwoSets, Contained, Consistent
<1>3. stored' \in Contained /\ stored'.cat = db.tables
  BY <1>1, <1>2 DEF Contained, TwoSets
<1>4. TwoSets'
  BY <1>1, <1>2, <1>3 DEF TwoSets
<1>5. Inv'
  BY <1>1, <1>3, <1>4 DEF Inv, Base
<1> QED
  BY <1>1, <1>5

(* All pages are in the file: what the log held is not needed any more.      *)
LEMMA CheckpointKeeps ==
  ASSUME Inv, Checkpoint
  PROVE  /\ Inv' /\ mode \in Idle /\ mode' = mode
         /\ Contents(db'.page, db'.tables) = Contents(db.page, db.tables)
<1>1. /\ mode \in Idle /\ logged' = FALSE
      /\ mode' = mode /\ calls' = calls /\ risks' = risks
  BY DEF Checkpoint
<1>2. CASE loose = Absent
  <2>1. db' = db /\ stored' = stored /\ loose' = loose
    BY <1>2 DEF Checkpoint
  <2>2. Inv'
    BY <1>1, <1>2, <2>1 DEF Inv, Base
  <2> QED
    BY <1>1, <2>1, <2>2
<1>3. CASE loose # Absent
  <2> DEFINE now == [page |-> db'.page, cat |-> db'.cat]
  <2>1. /\ db' = Tidied(db, NoTables) /\ stored' = [page |-> db'.page, cat |-> loose.cat]
        /\ loose' = Absent
    BY <1>3 DEF Checkpoint
  <2>2. /\ TwoSets /\ Consistent(db) /\ db.snap = Absent /\ risks = {} /\ ~db.full
        /\ db.cat = db.tables
    BY <1>1, <1>3 DEF Inv
  <2>3. Settled(db)
    BY <2>2 DEF Settled, Consistent, FreeList
  <2>4. Tidies(db, db')
    BY <2>1, <2>3, TidyAlone
  <2>5. /\ Consistent(db') /\ ~db'.full /\ db'.snap = Absent
        /\ db'.cat = db'.tables /\ db'.cat = loose.cat
        /\ Contents(db'.page, db'.tables) = Contents(db.page, db.tables)
    BY <2>2, <2>4 DEF Tidies, TwoSets
  <2>6. now \in Contained /\ Sound(now.page, now.cat) /\ SameTrees(db', now)
    BY <2>4, <2>5, TidiedStored
  <2>7. stored' = now
    BY <2>1, <2>5
  <2> HIDE DEF now
  <2>8. Inv'
    BY <1>1, <2>1, <2>2, <2>5, <2>6, <2>7 DEF Inv, Base
  <2> QED
    BY <1>1, <2>5, <2>8
<1> QED
  BY <1>2, <1>3

LEMMA InitKeeps ==
  ASSUME Init
  PROVE  Inv
<1>1. /\ db = Fresh /\ stored = [page |-> Fresh.page, cat |-> Fresh.cat] /\ loose = Absent
      /\ mode = "committed" /\ calls = 0 /\ risks = {} /\ logged = FALSE
  BY DEF Init
<1>2. /\ Fresh.page \in Pages /\ NoTables \in Metas /\ NoTables \in Indexes
      /\ << >> \in Seq(PageNo) /\ IsInjective(<< >>) /\ ToSet(<< >>) = {}
  BY DEF Fresh, Pages, Metas, Indexes, NoTables, IsInjective, ToSet
<1>3. /\ Fresh \in Databases /\ Fresh.cat = NoTables /\ Fresh.tables = NoTables
      /\ Fresh.free = << >> /\ Fresh.indexes = NoTables /\ Fresh.snap = Absent /\ ~Fresh.full
  BY <1>2 DEF Fresh, Databases
<1>4. \A t \in Table : NoTables[t] = Absent
  BY DEF NoTables
<1>5. Sound(Fresh.page, NoTables)
  BY <1>2, <1>4 DEF Sound
<1>6. Rebuilt(Fresh.page, NoTables) = NoTables
  BY <1>4 DEF Rebuilt, NoTables
<1>7. Consistent(Fresh)
  BY <1>2, <1>3, <1>5, <1>6 DEF Consistent, FreeList, SharedTables
<1>8. stored \in Contained /\ Sound(stored.page, stored.cat) /\ SameTrees(db, stored)
  BY <1>1, <1>2, <1>3, <1>5 DEF Contained, SameTrees
<1>9. Base = stored /\ 0 \in 0 .. MaxCalls /\ mode \in Idle
  BY <1>1, CatalogAssumption DEF Base, Idle
<1>10. Consistent(db) /\ ~db.full /\ db.snap = Absent /\ db.cat = db.tables
  BY <1>1, <1>3, <1>7
<1> QED
  BY <1>1, <1>8, <1>9, <1>10 DEF Inv

LEMMA StutterKeeps ==
  ASSUME Inv, UNCHANGED vars
  PROVE  Inv'
<1>1. /\ db' = db /\ stored' = stored /\ loose' = loose
      /\ mode' = mode /\ calls' = calls /\ risks' = risks /\ logged' = logged
  BY DEF vars
<1>2. TwoSets' <=> TwoSets
  BY <1>1 DEF TwoSets, Standing
<1> QED
  BY <1>1, <1>2 DEF Inv, Base

(* Every statement of Next is one that StatementKeeps is about.              *)
LEMMA EveryStatement ==
  ASSUME Inv, Disciplined, Next
  PROVE  \/ \E how \in {"auto", "txn"} : Begin(how)
         \/ Commit \/ Rollback \/ Reopen \/ FlushCatalog \/ Checkpoint
         \/ \E n \in PageNo : FlushPage(n)
         \/ \E t \in Table : Vacuum(t)
         \/ \E t \in Table : Inv' /\ Stated(t)
<1>1. Consistent(db) /\ Consistent(Snapshotted(db))
  BY SnapshotTaken DEF Inv
<1>2. ASSUME NEW t \in Table, Statement(CreateTable(t), {})
      PROVE  Inv' /\ Stated(t)
  <2>1. Makes(CreateTable(t).db, t, {})
    <3>1. Spares(db, CreateTable(t).db, t) /\ SnapKept(Snapshotted(db), CreateTable(t).db)
      BY <1>1, <1>2, CreateTableSpares DEF Statement
    <3> QED
      BY <1>1, <3>1, SnapshotTaken, SnapshotStays DEF Makes
  <2> QED
    BY <1>2, <2>1, StatementKeeps
<1>3. ASSUME NEW t \in Table, Statement(DropTable(t), {})
      PROVE  Inv' /\ Stated(t)
  <2>1. Makes(DropTable(t).db, t, {})
    <3>1. Spares(db, DropTable(t).db, t) /\ SnapKept(Snapshotted(db), DropTable(t).db)
      BY <1>1, <1>3, DropTableSpares DEF Statement
    <3> QED
      BY <1>1, <3>1, SnapshotTaken, SnapshotStays DEF Makes
  <2> QED
    BY <1>3, <2>1, StatementKeeps
<1>4. ASSUME NEW t \in Table, Statement(CreateIndex(t), {"index"})
      PROVE  Inv' /\ Stated(t)
  <2>1. Makes(CreateIndex(t).db, t, {"index"})
    BY <1>1, CreateIndexSpares DEF Makes
  <2> QED
    BY <1>4, <2>1, StatementKeeps
<1>5. ASSUME NEW t \in Table, Statement(DropIndex(t), {"index"})
      PROVE  Inv' /\ Stated(t)
  <2>1. Makes(DropIndex(t).db, t, {"index"})
    BY <1>1, DropIndexSpares DEF Makes
  <2> QED
    BY <1>5, <2>1, StatementKeeps
<1>6. ASSUME NEW t \in Table, NEW row \in Rows, NEW twice \in BOOLEAN,
             Statement(Insert(Snapshotted(db), t, row, twice), {})
      PROVE  Inv' /\ Stated(t)
  <2>1. Makes(Insert(Snapshotted(db), t, row, twice).db, t, {})
    <3> DEFINE d == Snapshotted(db)
    <3>1. Spares(d, Insert(d, t, row, twice).db, t) /\ SnapKept(d, Insert(d, t, row, twice).db)
      BY <1>1, <1>6, InsertSpares DEF Statement
    <3> QED
      BY <1>1, <3>1, SqlMakes
  <2> QED
    BY <1>6, <2>1, StatementKeeps
<1>7. ASSUME NEW t \in Table, NEW row \in Rows, NEW twice \in BOOLEAN, BulkInsert(t, row, twice)
      PROVE  Inv' /\ Stated(t)
  <2>1. Statement(Insert(db, t, row, twice), Quiet)
    BY <1>7 DEF BulkInsert
  <2>2. Makes(Insert(db, t, row, twice).db, t, Quiet)
    BY <1>1, <2>1, InsertSpares, BulkMakes DEF Statement
  <2> QED
    BY <2>1, <2>2, StatementKeeps
<1>8. ASSUME NEW t \in Table, VacuumInTxn(t)
      PROVE  Inv' /\ Stated(t)
  <2>1. Statement(VacuumTable(t), Quiet)
    BY <1>8 DEF VacuumInTxn
  <2>2. Makes(VacuumTable(t).db, t, Quiet)
    BY <1>1, <2>1, VacuumMakes DEF Statement
  <2> QED
    BY <2>1, <2>2, StatementKeeps
<1>9. ASSUME NEW t \in Table, NEW where, NEW v \in Column, NEW stop,
             Statement(Update(t, where, v, stop), {})
      PROVE  Inv' /\ Stated(t)
  <2>1. Makes(Update(t, where, v, stop).db, t, {})
    BY <1>1, <1>9, UpdateMakes DEF Statement
  <2> QED
    BY <1>9, <2>1, StatementKeeps
<1>10. ASSUME NEW t \in Table, NEW where, Statement(Delete(t, where), {})
       PROVE  Inv' /\ Stated(t)
  <2>1. Makes(Delete(t, where).db, t, {})
    BY <1>1, <1>10, DeleteMakes DEF Statement
  <2> QED
    BY <1>10, <2>1, StatementKeeps
<1> QED
  BY <1>2, <1>3, <1>4, <1>5, <1>6, <1>7, <1>8, <1>9, <1>10 DEF Next

LEMMA Invariance ==
  ASSUME Disciplined
  PROVE  Spec => []Inv
<1>1. Init => Inv
  BY InitKeeps
<1>2. Inv /\ [Next]_vars => Inv'
  <2>1. ASSUME Inv, Next PROVE Inv'
    BY <2>1, EveryStatement, BeginKeeps, CommitKeeps, RollbackKeeps, ReopenKeeps,
       FlushPageKeeps, FlushCatalogKeeps, CheckpointKeeps, VacuumActionKeeps
  <2> QED
    BY <2>1, StutterKeeps
<1> QED
  BY <1>1, <1>2, PTL DEF Spec

(* As long as the callers keep the disciplines, memory and stored pages are  *)
(* ever of their types, and a table's root is never an unused page: what a   *)
(* rollback (engine.py:417) or a reload (catalog.py:93) brings back can be   *)
(* read.                                                                     *)
THEOREM TypeCorrect ==
  ASSUME Disciplined
  PROVE  Spec => []TypeOK
<1>1. Inv => TypeOK
  <2> SUFFICES ASSUME Inv PROVE TypeOK
    OBVIOUS
  <2>1. Sound(db.page, db.tables) /\ Sound(Base.page, Base.cat)
    BY DEF Inv, TwoSets, Consistent, Base
  <2>3. loose \in Contained \cup {Absent}
    BY DEF Inv, TwoSets
  <2>2. \A t \in Table : /\ Exists(db, t) => db.page[db.tables[t].root] # Absent
                         /\ Base.cat[t] # Absent => Base.page[Base.cat[t].root] # Absent
    BY <2>1 DEF Sound, Whole, Exists
  <2> QED
    BY <2>2, <2>3 DEF Inv, TypeOK, Consistent
<1> QED
  BY <1>1, Invariance, PTL

(* Between transactions the catalog in memory, and the trees it names, are   *)
(* those on the pages a reopened session would read: after commit            *)
(* (engine.py:399), rollback (engine.py:417) and reload (catalog.py:93).     *)
THEOREM CatalogStaysStored ==
  ASSUME Disciplined
  PROVE  Spec => []CatalogIsStored
<1>1. Inv => CatalogIsStored
  BY DEF Inv, CatalogIsStored, SameTrees
<1> QED
  BY <1>1, Invariance, PTL

(* A declared index holds exactly the rows with a value, however statements  *)
(* fail and transactions end: a query by index (engine.py:683) finds what a  *)
(* scan finds.                                                               *)
THEOREM IndexesStayRight ==
  ASSUME Disciplined
  PROVE  Spec => []IndexesAgree
<1>1. Inv => IndexesAgree
  <2> SUFFICES ASSUME Inv PROVE IndexesAgree
    OBVIOUS
  <2>1. db.indexes = Rebuilt(db.page, db.tables)
    BY DEF Inv, Consistent
  <2> QED
    BY <2>1 DEF IndexesAgree, Rebuilt, Exists, RowsOf
<1> QED
  BY <1>1, Invariance, PTL

(* The row count is the number of rows, and no row has the next row id or a  *)
(* larger one (engine.py:564), so that INSERT never takes one twice.         *)
THEOREM CountsStayRight ==
  ASSUME Disciplined
  PROVE  Spec => []CountsRight
<1>1. Inv => CountsRight
  <2> SUFFICES ASSUME Inv, NEW t \in Table, Exists(db, t)
               PROVE  /\ db.tables[t].count = Cardinality(Rids(RowsOf(db, t)))
                      /\ \A r \in Rids(RowsOf(db, t)) : r < db.tables[t].next
    BY DEF CountsRight
  <2>1. Counted(db.tables[t], RowsOf(db, t))
    BY TableOf DEF Inv
  <2> QED
    BY <2>1 DEF Counted
<1> QED
  BY <1>1, Invariance, PTL

(* Pages that DROP TABLE frees and CREATE TABLE takes again (engine.py:453,  *)
(* 494) are never in two trees, nor in a tree and on the free list.          *)
THEOREM PagesStayOwnedOnce ==
  ASSUME Disciplined
  PROVE  Spec => []PagesOwnedOnce
<1>1. Inv => PagesOwnedOnce
  <2> SUFFICES ASSUME Inv PROVE PagesOwnedOnce
    OBVIOUS
  <2>1. Sound(db.page, db.tables) /\ FreeList(db)
    BY DEF Inv, Consistent
  <2>2. \A t, u \in Table : t # u => Named(db, t) \cap Named(db, u) = {}
    BY <2>1 DEF Sound, Named, Exists
  <2> QED
    BY <2>1, <2>2 DEF FreeList, PagesOwnedOnce
<1> QED
  BY <1>1, Invariance, PTL

-----------------------------------------------------------------------------
(* The session is a map from tables to rows                                  *)

Mapped == Contents(db.page, db.tables)
Found  == IF mode \in Idle THEN NoTables ELSE Contents(Base.page, Base.cat)
Txn    == IF mode \in Idle THEN mode ELSE "open"

LEMMA ContentsTyped ==
  ASSUME NEW d, Consistent(d), NEW t \in Table
  PROVE  Contents(d.page, d.tables)[t] \in Row \cup {Absent}
<1>1. CASE ~Exists(d, t)
  BY <1>1 DEF Contents, Exists
<1>2. CASE Exists(d, t)
  <2>1. RowsOf(d, t) \in Row /\ Whole(d.page, d.tables[t].root)
    BY <1>2, TableOf
  <2> QED
    BY <1>2, <2>1 DEF Contents, Exists, RowsOf, Below, Whole
<1> QED
  BY <1>1, <1>2

(* What the transaction found is what is stored.                             *)
LEMMA FoundIsStored ==
  ASSUME Inv, mode \notin Idle
  PROVE  Found = Contents(stored.page, stored.cat) /\ loose = Absent
BY DEF Inv, TwoSets, Found, Base

LEMMA BeginMaps ==
  ASSUME Inv, Disciplined, NEW how \in {"auto", "txn"}, Begin(how)
  PROVE  Txn \in Idle /\ Txn' = "open" /\ Found' = Mapped /\ Mapped' = Mapped
<1>1. /\ Inv' /\ mode' \notin Idle /\ loose' = Absent
      /\ db' = db /\ SameTrees(db, stored') /\ mode \in Idle
  BY BeginKeeps
<1>2. db \in Databases /\ Sound(db.page, db.tables)
  BY DEF Inv, Consistent
<1>3. Contents(db.page, db.tables) = Contents(stored'.page, stored'.cat)
  BY <1>1, <1>2, SameTreesAgree
<1> QED
  BY <1>1, <1>3 DEF Mapped, Found, Txn, Base

LEMMA CommitMaps ==
  ASSUME Inv, Disciplined, Commit
  PROVE  Txn = "open" /\ Txn' = "committed" /\ Found' = NoTables /\ Mapped' = Mapped
<1>1. /\ Inv' /\ mode \notin Idle /\ mode' = "committed"
      /\ Contents(db'.page, db'.tables) = Contents(db.page, db.tables)
  BY CommitKeeps
<1> QED
  BY <1>1 DEF Mapped, Found, Txn, Idle

LEMMA RollbackMaps ==
  ASSUME Inv, Disciplined, Rollback
  PROVE  Txn = "open" /\ Txn' = "rolledback" /\ Found' = NoTables /\ Mapped' = Found
<1>1. /\ Inv' /\ mode \notin Idle /\ mode' = "rolledback" /\ SameTrees(db', stored)
  BY RollbackKeeps
<1>2. db' \in Databases /\ Sound(db'.page, db'.tables)
  BY <1>1 DEF Inv, Consistent
<1>3. Contents(db'.page, db'.tables) = Contents(stored.page, stored.cat)
  BY <1>1, <1>2, SameTreesAgree
<1>4. Found = Contents(stored.page, stored.cat)
  BY <1>1, FoundIsStored
<1> QED
  BY <1>1, <1>3, <1>4 DEF Mapped, Found, Txn, Idle

(* A session that opens in the place of another rolls its transaction back,  *)
(* if it had one.                                                            *)
LEMMA ReopenMaps ==
  ASSUME Inv, Disciplined, Reopen
  PROVE  /\ mode \in Idle => Txn' = Txn /\ Found' = Found /\ Mapped' = Mapped
         /\ mode \notin Idle => /\ Txn = "open" /\ Txn' = "rolledback"
                                /\ Found' = NoTables /\ Mapped' = Found
<1>1. /\ Inv' /\ SameTrees(db', stored) /\ Survives
      /\ mode' = IF mode \in Idle THEN mode ELSE "rolledback"
  BY ReopenKeeps
<1>2. db' \in Databases /\ Sound(db'.page, db'.tables)
  BY <1>1 DEF Inv, Consistent
<1>3. Mapped' = Contents(stored.page, stored.cat)
  BY <1>1, <1>2, SameTreesAgree DEF Mapped
<1>4. CASE mode \in Idle
  BY <1>1, <1>3, <1>4, StoredStands DEF Mapped, Found, Txn
<1>5. CASE mode \notin Idle
  <2>1. Found = Contents(stored.page, stored.cat)
    BY <1>5, FoundIsStored
  <2> QED
    BY <1>1, <1>3, <1>5, <2>1 DEF Found, Txn, Idle
<1> QED
  BY <1>4, <1>5

LEMMA StatementMaps ==
  ASSUME Inv, NEW t \in Table, Inv', Stated(t)
  PROVE  /\ Txn = "open" /\ Txn' = Txn /\ Found' = Found
         /\ Mapped'[t] \in Row \cup {Absent}
         /\ \A u \in Table \ {t} : Mapped'[u] = Mapped[u]
<1>1. Found' = Found /\ Txn = "open" /\ Txn' = Txn
  BY DEF Stated, Found, Txn, Base
<1>2. Consistent(db')
  BY DEF Inv
<1>3. Mapped'[t] \in Row \cup {Absent}
  BY <1>2, ContentsTyped DEF Mapped
<1> QED
  BY <1>1, <1>3 DEF Stated, Spares, Mapped

(* The whole of it - statements that fail half-way, indexes, the free list,  *)
(* snapshots, crashes - shows its users a map from tables to rows: one table *)
(* changes at a time, a rollback (engine.py:417) is the map that BEGIN       *)
(* found, and a session that opens (engine.py:57) finds what was committed.  *)
THEOREM SessionIsDictionary ==
  ASSUME Disciplined
  PROVE  Spec => ImplementsTables
<1>1. Init => Tables!Init
  <2> SUFFICES ASSUME Init PROVE Tables!Init
    OBVIOUS
  <2>1. db = Fresh /\ mode = "committed"
    BY DEF Init
  <2>2. Fresh.tables = NoTables
    BY DEF Fresh
  <2>3. Mapped = NoTables
    BY <2>1, <2>2 DEF Mapped, Contents, NoTables
  <2> QED
    BY <2>1, <2>3 DEF Tables!Init, Tables!NoRows, NoTables, Idle, Mapped
<1>2. Inv /\ [Next]_vars => [Tables!Next]_Tables!vars
  <2> SUFFICES ASSUME Inv, [Next]_vars
               PROVE  [Tables!Next]_Tables!vars
    OBVIOUS
  <2>1. ASSUME Txn' = Txn, Found' = Found, Mapped' = Mapped
        PROVE  UNCHANGED Tables!vars
    BY <2>1 DEF Tables!vars, Txn, Found, Mapped
  <2>2. ASSUME Txn = "open", Txn' = "rolledback", Found' = NoTables, Mapped' = Found
        PROVE  Tables!Rollback
    BY <2>2 DEF Tables!Rollback, Tables!NoRows, NoTables, Txn, Found, Mapped
  <2>3. ASSUME NEW how \in {"auto", "txn"}, Begin(how)
        PROVE  Tables!Begin
    <3>1. Txn \in Idle /\ Txn' = "open" /\ Found' = Mapped /\ Mapped' = Mapped
      BY <2>3, BeginMaps
    <3> QED
      BY <3>1 DEF Tables!Begin, Tables!Ended, Idle, Txn, Found, Mapped
  <2>4. CASE Commit
    <3>1. Txn = "open" /\ Txn' = "committed" /\ Found' = NoTables /\ Mapped' = Mapped
      BY <2>4, CommitMaps
    <3>2. Tables!Commit
      BY <3>1 DEF Tables!Commit, Tables!NoRows, NoTables, Txn, Found, Mapped
    <3> QED
      BY <3>2 DEF Tables!Next
  <2>5. CASE Rollback
    BY <2>2, <2>5, RollbackMaps DEF Tables!Next
  <2>6. CASE Reopen
    BY <2>1, <2>2, <2>6, ReopenMaps DEF Tables!Next
  <2>7. CASE Checkpoint
    <3>1. /\ Inv' /\ mode \in Idle /\ mode' = mode
          /\ Contents(db'.page, db'.tables) = Contents(db.page, db.tables)
      BY <2>7, CheckpointKeeps
    <3> QED
      BY <2>1, <3>1 DEF Mapped, Found, Txn
  <2>8. ASSUME NEW t \in Table, Vacuum(t)
        PROVE  UNCHANGED Tables!vars
    <3>1. /\ Inv' /\ mode \in Idle /\ mode' = mode
          /\ Contents(db'.page, db'.tables) = Contents(db.page, db.tables)
      BY <2>8, VacuumActionKeeps
    <3> QED
      BY <2>1, <3>1 DEF Mapped, Found, Txn
  <2>9. ASSUME NEW t \in Table, Inv', Stated(t)
        PROVE  Tables!Set(t)
    <3>1. /\ Txn = "open" /\ Txn' = Txn /\ Found' = Found
          /\ Mapped'[t] \in Row \cup {Absent}
          /\ \A u \in Table \ {t} : Mapped'[u] = Mapped[u]
      BY <2>9, StatementMaps
    <3> QED
      BY <3>1 DEF Tables!Set, Txn, Found, Mapped
  <2>11. CASE FlushCatalog \/ \E n \in PageNo : FlushPage(n)
    <3>1. mode \in Idle /\ mode' = mode /\ db' = db
      BY <2>11, FlushCatalogKeeps, FlushPageKeeps
    <3> QED
      BY <2>1, <3>1 DEF Mapped, Found, Txn
  <2>10. CASE UNCHANGED vars
    <3>1. Txn' = Txn /\ Found' = Found /\ Mapped' = Mapped
      BY <2>10 DEF vars, Txn, Found, Mapped, Base
    <3> QED
      BY <2>1, <3>1
  <2> QED
    BY <2>3, <2>4, <2>5, <2>6, <2>7, <2>8, <2>9, <2>10, <2>11, EveryStatement DEF Tables!Next
<1> QED
  BY <1>1, <1>2, Invariance, PTL DEF Spec, ImplementsTables, Tables!Spec
=============================================================================
