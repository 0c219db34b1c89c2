------------------------------- MODULE BTree -------------------------------
(***************************************************************************)
(* The B+ tree of one table (src/leafdb/btree.py) over the pages of one     *)
(* session, with the session's cache of parsed nodes, inside transactions   *)
(* that commit or roll back (src/leafdb/pager.py).                          *)
(*                                                                          *)
(* A row is the length of its encoding: lengths decide every split, borrow  *)
(* and merge.  The sizes of the page format are kept, the page is scaled.   *)
(*                                                                          *)
(* _load caches a parsed node next to the bytes object it was parsed from   *)
(* and uses it while the pool still holds that very object; the tree edits  *)
(* these nodes in place before it writes their page.  An entry whose node   *)
(* says what its bytes say is as good as no entry, so only the others are   *)
(* kept: `altered' for the bytes the pool holds, `spoiled' for the bytes    *)
(* that a rollback would bring back.                                        *)
(***************************************************************************)
EXTENDS Integers, Sequences, FiniteSets, SequencesExt

CONSTANTS MaxKey,      \* bound: keys 1 .. MaxKey
          Lengths,     \* lengths of encoded rows
          PageSize, SpareBytes, LoadSlack, Fanout,   \* 4096, 64, 16, 32 in the code
          MaxPages,    \* bound: pages in use at once
          MaxCalls,    \* bound: calls of the tree in a transaction
          Queries,     \* bound: the sets of keys that queries look for
          Assumed,     \* what is assumed of the callers, see Discipline
          Absent       \* no node here

Key    == 1 .. MaxKey
PageNo == 1 .. MaxPages     \* page 0 is the catalog's
NoPage == 0
NoRow  == 0
NoKey  == 0                 \* an open end of a range scan

Larger(a, b) == IF a >= b THEN a ELSE b

Discipline == {"reread",    \* what a transaction wrote it reads again before it rolls back
               "fits",      \* no call raises
               "still"}     \* nobody vacuums

ASSUME SizesAssumption ==
  /\ MaxKey \in Nat \ {0} /\ MaxPages \in Nat \ {0} /\ MaxCalls \in Nat
  /\ PageSize \in Nat /\ PageSize >= 42     \* a page holds any one cell, or two children
  /\ SpareBytes \in Nat /\ LoadSlack \in Nat /\ Fanout \in Nat \ {0, 1}
  /\ Lengths \subseteq 1 .. (PageSize \div 2)          \* MAX_VALUE_SIZE
  /\ Queries \subseteq SUBSET Key
  /\ Assumed \subseteq Discipline

VARIABLES
  tree,     \* the pages and the node cache, see EmptyTree
  root,     \* TableMeta.root_page
  calls,    \* calls of the tree since the transaction began
  txn,      \* "open", or how the last transaction ended
  oldRoot,  \* the root that Database._snapshot holds
  found     \* history: the rows the transaction found

vars == <<tree, root, calls, txn, oldRoot, found>>

-----------------------------------------------------------------------------
(* Nodes *)

Cell(k, len) == [key |-> k, len |-> len]
Leaf(cells, next) == [leaf |-> TRUE, cells |-> cells, next |-> next]
Internal(keys, kids) == [leaf |-> FALSE, keys |-> keys, kids |-> kids]

Cells        == [key : Key, len : Lengths]
LeafNode     == [leaf : {TRUE}, cells : Seq(Cells), next : PageNo \cup {NoPage}]
InternalNode == [leaf : {FALSE}, keys : Seq(Key), kids : Seq(PageNo)]
Node         == LeafNode \cup InternalNode
Pages        == [PageNo -> Node \cup {Absent}]

ASSUME AbsentAssumption == Absent \notin Node

serialized_size(node) ==
  IF node.leaf THEN FoldLeft(LAMBDA sum, c : sum + 12 + c.len, 9, node.cells)
  ELSE 9 + 8 * Len(node.keys) + 4 * Len(node.kids)

Fits(node) == serialized_size(node) <= PageSize

MinBytes == PageSize \div 3

Underflow(node) ==
  \/ IF node.leaf THEN node.cells = << >> ELSE Len(node.kids) < 2
  \/ serialized_size(node) < MinBytes

(* The operators named *_Mutant are mutated forms; nothing here uses them.  *)
CanSpare_Mutant(node) == serialized_size(node) >= MinBytes
CanSpare(node) == serialized_size(node) - MinBytes > SpareBytes

ChildIndex_Mutant(node, key) == Cardinality({i \in DOMAIN node.keys : node.keys[i] < key}) + 1
ChildIndex(node, key) == Cardinality({i \in DOMAIN node.keys : node.keys[i] <= key}) + 1

CellIndex(node, key) == Cardinality({i \in DOMAIN node.cells : node.cells[i].key < key}) + 1

Has(node, key) == \E i \in DOMAIN node.cells : node.cells[i].key = key

-----------------------------------------------------------------------------
(* Pages and the node cache *)

NoNodes == [n \in PageNo |-> Absent]

NodeAt(t, n) == IF t.altered[n] # Absent THEN t.altered[n] ELSE t.page[n]

(* _load parses the bytes in the pool and forgets a node of older ones. *)
Loaded(t, S) == [t EXCEPT !.spoiled = [n \in PageNo |-> IF n \in S THEN Absent ELSE @[n]]]

(* After an exception nothing happens. *)
Stopped(t) == t.raised \/ t.full

(* A loaded node is edited in place. *)
Edited(t, n, node) ==
  IF Stopped(t) THEN t
  ELSE [t EXCEPT !.altered[n] = IF node = t.page[n] THEN Absent ELSE node]

(* Pager.write; a page a transaction has not touched goes to the shadow.    *)
Put_Mutant(t, n, node) ==
  LET first == t.inTxn /\ n \notin t.touched
  IN  [t EXCEPT !.page[n] = node, !.altered[n] = Absent,
                !.shadow[n]  = IF first THEN t.page[n] ELSE @,
                !.spoiled[n] = IF first THEN t.altered[n] ELSE @]

Put(t, n, node) ==
  LET first == t.inTxn /\ n \notin t.touched
  IN  [t EXCEPT !.page[n] = node, !.altered[n] = Absent,
                !.touched    = IF first THEN @ \cup {n} ELSE @,
                !.shadow[n]  = IF first THEN t.page[n] ELSE @,
                !.spoiled[n] = IF first THEN t.altered[n] ELSE @]

Written(t, n, node) ==
  CASE Stopped(t) -> t
    [] ~Stopped(t) /\ n = NoPage -> [t EXCEPT !.full = TRUE]
    [] ~Stopped(t) /\ n # NoPage /\ ~Fits(node) -> [t EXCEPT !.raised = TRUE]
    [] OTHER -> Put(t, n, node)

(* An edited node is written where it is. *)
Rewritten_Mutant(t, n) == t
Rewritten(t, n) == Written(t, n, NodeAt(t, n))

(* Pager.allocate.  A page is only a name: one that nothing refers to any   *)
(* more is as good as one never used.                                       *)
NewPage(t) ==
  LET unused == {n \in PageNo : t.page[n] = Absent /\ n \notin t.touched}
  IN  IF unused = {} THEN NoPage ELSE CHOOSE n \in unused : \A m \in unused : n <= m

(* From page n down to the leaf where key belongs, at most h pages below.   *)
Way(t, key) ==
  LET Down[h \in 0 .. MaxPages] ==
        [n \in PageNo |->
           LET node == NodeAt(t, n)
           IN  IF node.leaf \/ h = 0 THEN <<n>>
               ELSE <<n>> \o Down[h - 1][node.kids[ChildIndex(node, key)]]]
  IN  Down

Path(t, r, key) == Way(t, key)[MaxPages][r]

Search(t, r, key) ==
  LET node == NodeAt(t, Last(Path(t, r, key)))
  IN  IF Has(node, key) THEN node.cells[CellIndex(node, key)].len ELSE NoRow

-----------------------------------------------------------------------------
(* insert *)

NoSplit == [key |-> NoKey, page |-> NoPage]

SplitLeaf(t, n, node) ==
  LET mid   == Len(node.cells) \div 2
      p     == NewPage(t)
      right == Leaf(SubSeq(node.cells, mid + 1, Len(node.cells)), node.next)
      left  == Leaf(SubSeq(node.cells, 1, mid), p)
  IN  [tree  |-> Written(Written(t, p, right), n, left),
       split |-> [key |-> right.cells[1].key, page |-> p]]

(* The separator that goes up. *)
Promoted_Mutant(keys, mid) == keys[mid]
Promoted(keys, mid) == keys[mid + 1]

SplitInternal(t, n, node) ==
  LET mid   == Len(node.keys) \div 2
      p     == NewPage(t)
      right == Internal(SubSeq(node.keys, mid + 2, Len(node.keys)),
                        SubSeq(node.kids, mid + 2, Len(node.kids)))
      left  == Internal(SubSeq(node.keys, 1, mid), SubSeq(node.kids, 1, mid + 1))
  IN  [tree  |-> Written(Written(t, p, right), n, left),
       split |-> [key |-> Promoted(node.keys, mid), page |-> p]]

(* A node that has grown in place is written, or split. *)
Grown(t, n, node) ==
  LET edited == Edited(t, n, node)
  IN  CASE Fits(node) -> [tree |-> Written(edited, n, node), split |-> NoSplit]
        [] ~Fits(node) /\ node.leaf -> SplitLeaf(edited, n, node)
        [] ~Fits(node) /\ ~node.leaf -> SplitInternal(edited, n, node)

(* Node n takes in the page that a split of its child has made. *)
TakenIn(key, below, n) ==
  LET node == NodeAt(below.tree, n)
      i    == ChildIndex(node, key)
  IN  IF below.split = NoSplit \/ Stopped(below.tree) THEN below
      ELSE Grown(below.tree, n, Internal(InsertAt(node.keys, i, below.split.key),
                                         InsertAt(node.kids, i + 1, below.split.page)))

(* From the leaf up to the root. *)
Grows(first, path, key) ==
  LET Up[i \in DOMAIN path] == IF i = 1 THEN first
                               ELSE TakenIn(key, Up[i - 1], path[Len(path) + 1 - i])
  IN  Up

(* A root that has been split is a child of a new one. *)
NewRoot(done, r) ==
  LET p == NewPage(done.tree)
  IN  IF done.split = NoSplit THEN [tree |-> done.tree, root |-> r]
      ELSE [tree |-> Written(done.tree, p, Internal(<<done.split.key>>, <<r, done.split.page>>)),
            root |-> p]

(* Every operator from here on gives the tree and its root. *)
Insert(t, r, key, len) ==
  LET path  == Path(t, r, key)
      leaf  == NodeAt(t, Last(path))
      first == Grown(Loaded(t, ToSet(path)), Last(path),
                     Leaf(InsertAt(leaf.cells, CellIndex(leaf, key), Cell(key, len)), leaf.next))
  IN  NewRoot(Grows(first, path, key)[Len(path)], r)

(* upsert of a key that is there: the new row takes the old one's place,    *)
(* and the leaf is written as it is.                                        *)
Replace(t, r, key, len) ==
  LET path == Path(t, r, key)
      leaf == NodeAt(t, Last(path))
      new  == Leaf(ReplaceAt(leaf.cells, CellIndex(leaf, key), Cell(key, len)), leaf.next)
  IN  [tree |-> Written(Edited(Loaded(t, ToSet(path)), Last(path), new), Last(path), new),
       root |-> r]

-----------------------------------------------------------------------------
(* delete *)

BorrowFromLeft(t, pn, i) ==
  LET parent == NodeAt(t, pn)
      lp == parent.kids[i - 1]
      cp == parent.kids[i]
      l  == NodeAt(t, lp)
      c  == NodeAt(t, cp)
      left  == IF l.leaf THEN Leaf(Front(l.cells), l.next)
               ELSE Internal(Front(l.keys), Front(l.kids))
      child == IF c.leaf THEN Leaf(<<Last(l.cells)>> \o c.cells, c.next)
               ELSE Internal(<<parent.keys[i - 1]>> \o c.keys, <<Last(l.kids)>> \o c.kids)
      sep   == IF c.leaf THEN Last(l.cells).key ELSE Last(l.keys)
      above == Internal(ReplaceAt(parent.keys, i - 1, sep), parent.kids)
      edited == Edited(Edited(Edited(t, lp, left), cp, child), pn, above)
  IN  Written(Written(Written(edited, lp, left), cp, child), pn, above)

(* A right leaf that had a single cell is left empty, and asking for its    *)
(* first key raises: the two leaves have been edited, nothing is written.   *)
BorrowFromRight(t, pn, i) ==
  LET parent == NodeAt(t, pn)
      cp == parent.kids[i]
      rp == parent.kids[i + 1]
      c  == NodeAt(t, cp)
      r  == NodeAt(t, rp)
      right == IF r.leaf THEN Leaf(Tail(r.cells), r.next) ELSE Internal(Tail(r.keys), Tail(r.kids))
      child == IF c.leaf THEN Leaf(Append(c.cells, Head(r.cells)), c.next)
               ELSE Internal(Append(c.keys, parent.keys[i]), Append(c.kids, Head(r.kids)))
      edited == Edited(Edited(t, cp, child), rp, right)
      sep   == IF c.leaf THEN right.cells[1].key ELSE Head(r.keys)
      above == Internal(ReplaceAt(parent.keys, i, sep), parent.kids)
  IN  IF r.leaf /\ right.cells = << >> THEN [edited EXCEPT !.raised = TRUE]
      ELSE Written(Written(Written(Edited(edited, pn, above), rp, right), cp, child), pn, above)

MergedNext_Mutant(low, high) == low.next
MergedNext(low, high) == high.next

(* The children i and i + 1 become one: a new leaf, or the low node itself  *)
(* with the high one's entries and the separator between them.              *)
Merge(t, pn, i) ==
  LET parent == NodeAt(t, pn)
      lp   == parent.kids[i]
      low  == NodeAt(t, lp)
      high == NodeAt(t, parent.kids[i + 1])
      merged == IF low.leaf THEN Leaf(low.cells \o high.cells, MergedNext(low, high))
                ELSE Internal(low.keys \o <<parent.keys[i]>> \o high.keys, low.kids \o high.kids)
      edited == IF low.leaf THEN t ELSE Edited(t, lp, merged)
  IN  Edited(Written(edited, lp, merged), pn,
             Internal(RemoveAt(parent.keys, i), RemoveAt(parent.kids, i + 1)))

(* The left sibling is asked first.  An only child has no sibling, and      *)
(* asking for one raises.                                                   *)
Rebalance(t, pn, i) ==
  LET kids == NodeAt(t, pn).kids
      Spares(j) == j \in DOMAIN kids /\ CanSpare(NodeAt(t, kids[j]))
      here == Loaded(t, {kids[j] : j \in {i - 1, i} \cap DOMAIN kids})
      both == Loaded(here, {kids[j] : j \in {i + 1} \cap DOMAIN kids})
  IN  CASE Spares(i - 1) -> BorrowFromLeft(here, pn, i)
        [] ~Spares(i - 1) /\ Spares(i + 1) -> BorrowFromRight(both, pn, i)
        [] ~Spares(i - 1) /\ ~Spares(i + 1) /\ Len(kids) > 1 -> Merge(both, pn, Larger(i - 1, 1))
        [] OTHER -> [here EXCEPT !.raised = TRUE]

(* A root without a separator gives way to its only child. *)
Collapse(t, r) ==
  LET At[i \in 0 .. MaxPages] ==
        IF i = 0 THEN r
        ELSE LET n    == At[i - 1]
                 node == NodeAt(t, n)
             IN  IF ~node.leaf /\ node.keys = << >> THEN node.kids[1] ELSE n
  IN  At

Collapsed(t, r) == Collapse(t, r)[MaxPages]

(* Node n on the way to key, after its child has lost a cell or a child. *)
Settled(key, u, n) ==
  LET i     == ChildIndex(NodeAt(u, n), key)
      child == NodeAt(u, n).kids[i]
  IN  CASE Stopped(u) -> u
        [] ~Stopped(u) /\ Underflow(NodeAt(u, child)) -> Rewritten(Rebalance(u, n, i), n)
        [] OTHER -> Loaded(u, {child})

Settles(first, path, key) ==
  LET Up[i \in DOMAIN path] == IF i = 1 THEN first
                               ELSE Settled(key, Up[i - 1], path[Len(path) + 1 - i])
  IN  Up

Delete(t, r, key) ==
  LET path == Path(t, r, key)
      leaf == NodeAt(t, Last(path))
      cut  == Leaf(RemoveAt(leaf.cells, CellIndex(leaf, key)), leaf.next)
      first == Written(Edited(Loaded(t, ToSet(path)), Last(path), cut), Last(path), cut)
      top  == Settles(first, path, key)[Len(path)]
      new  == IF top.raised THEN r ELSE Collapsed(top, r)
  IN  IF ~Has(leaf, key) THEN [tree |-> Loaded(t, ToSet(path)), root |-> r]
      ELSE [tree |-> IF top.raised THEN top ELSE Loaded(top, {r, new}), root |-> new]

-----------------------------------------------------------------------------
(* range_scan and vacuum *)

(* The cells of leaf n and of those after it, at most h leaves further on.  *)
Chain(t) ==
  LET From[h \in 0 .. MaxPages] ==
        [n \in PageNo |->
           LET node == NodeAt(t, n)
           IN  IF node.next = NoPage \/ h = 0 THEN node.cells
               ELSE node.cells \o From[h - 1][node.next]]
  IN  From

(* Of the last i cells: those from lo on, up to the first one beyond hi.    *)
Yields(cells, lo, hi) ==
  LET From[i \in 0 .. Len(cells)] ==
        LET c == cells[Len(cells) + 1 - i]
        IN  CASE i = 0 -> << >>
              [] i > 0 /\ c.key < lo -> From[i - 1]
              [] i > 0 /\ c.key >= lo /\ hi # NoKey /\ c.key > hi -> << >>
              [] OTHER -> <<c>> \o From[i - 1]
  IN  From

(* From the leaf where lo belongs along the chain.  NoKey is below all keys:*)
(* the way to it leads to the first leaf, and no cell is below it.          *)
RangeScan(t, r, lo, hi) ==
  LET cells == Chain(t)[MaxPages][Last(Path(t, r, lo))]
  IN  Yields(cells, lo, hi)[Len(cells)]

(* The cells left over make one more leaf, and no cells at all make one.    *)
WithLast_Mutant(full, cur) == IF full # << >> THEN full ELSE <<cur>>
WithLast(full, cur) == IF cur = << >> /\ full # << >> THEN full ELSE Append(full, cur)

(* bulk_load fills a leaf until it has grown beyond PageSize - LoadSlack.   *)
Packed(cells) ==
  LET Add(done, c) ==
        LET cur == Append(done.cur, c)
        IN  IF serialized_size(Leaf(cur, NoPage)) > PageSize - LoadSlack
            THEN [full |-> Append(done.full, cur), cur |-> << >>]
            ELSE [full |-> done.full, cur |-> cur]
      all == FoldLeft(Add, [full |-> << >>, cur |-> << >>], cells)
  IN  WithLast(all.full, all.cur)

(* One page after the other; gives the pages too. *)
WrittenNew(t, nodes) ==
  FoldLeft(LAMBDA done, node : [tree |-> Written(done.tree, NewPage(done.tree), node),
                                pages |-> Append(done.pages, NewPage(done.tree))],
           [tree |-> t, pages |-> << >>], nodes)

Linked_Mutant(t, pages) == t
Linked(t, pages) ==
  FoldLeft(LAMBDA u, i : LET n == pages[i]
                             next == IF i < Len(pages) THEN pages[i + 1] ELSE NoPage
                         IN  IF Stopped(u) THEN u
                             ELSE Written(u, n, Leaf(u.page[n].cells, next)),
           t, [i \in DOMAIN pages |-> i])

(* One level of parents over a level of children, Fanout to a parent. *)
Groups(s) == [g \in 1 .. ((Len(s) + Fanout - 1) \div Fanout) |->
                SubSeq(s, (g - 1) * Fanout + 1, IF g * Fanout < Len(s) THEN g * Fanout ELSE Len(s))]

Separators_Mutant(group) == [i \in 1 .. (Len(group) - 1) |-> group[i].low]
Separators(group) == [i \in 1 .. (Len(group) - 1) |-> group[i + 1].low]

Parents(level) ==
  LET groups == Groups(level.kids)
      made   == WrittenNew(level.tree, [g \in DOMAIN groups |->
                  Internal(Separators(groups[g]), [i \in DOMAIN groups[g] |-> groups[g][i].page])])
  IN  [tree |-> made.tree,
       kids |-> [g \in DOMAIN groups |-> [page |-> made.pages[g], low |-> groups[g][1].low]]]

BulkLoad(t, cells) ==
  LET packed == Packed(cells)
      made   == WrittenNew(t, [i \in DOMAIN packed |-> Leaf(packed[i], NoPage)])
      linked == Linked(made.tree, made.pages)
      leaves == [i \in DOMAIN packed |->
                   [page |-> made.pages[i], low |-> IF cells = << >> THEN NoKey ELSE packed[i][1].key]]
      top    == FoldLeft(LAMBDA level, step : IF Len(level.kids) = 1 THEN level ELSE Parents(level),
                         [tree |-> linked, kids |-> leaves], packed)
  IN  [tree |-> top.tree, root |-> top.kids[1].page]

-----------------------------------------------------------------------------
(* The table: calls of the tree inside transactions *)

Top == 1   \* the root of a tidy tree

EmptyTree == [page |-> [n \in PageNo |-> IF n = Top THEN Leaf(<< >>, NoPage) ELSE Absent],
              altered |-> NoNodes, inTxn |-> FALSE, touched |-> {},
              shadow |-> NoNodes, spoiled |-> NoNodes, raised |-> FALSE, full |-> FALSE]

NoRows == [k \in Key |-> NoRow]
Found(t, r) == [k \in Key |-> Search(t, r, k)]

Init == /\ tree = EmptyTree
        /\ root = Top /\ oldRoot = NoPage
        /\ calls = 0 /\ txn = "committed"
        /\ found = NoRows

(* The pages of the tree of root r, level by level.                         *)
KidsOf(t, n) == IF NodeAt(t, n).leaf THEN << >> ELSE NodeAt(t, n).kids

Visited(t, r) ==
  LET After[i \in 0 .. MaxPages] ==
        IF i = 0 THEN <<r>>
        ELSE LET pages == After[i - 1]
             IN  IF i \in DOMAIN pages THEN pages \o KidsOf(t, pages[i]) ELSE pages
  IN  After

Order(t, r) == Visited(t, r)[MaxPages]

(* Between transactions page numbers are names that only the tree uses: the *)
(* pages it has left behind are dropped and the others numbered anew, the   *)
(* root first.  (A chain into a dropped page would have no successor here.) *)
Tidy(t, r) ==
  LET order == Order(t, r)
      Name(n) == IF n \notin ToSet(order) THEN NoPage ELSE CHOOSE i \in DOMAIN order : order[i] = n
      Renamed(node) == CASE node = Absent -> Absent
                         [] node # Absent /\ node.leaf -> Leaf(node.cells, Name(node.next))
                         [] node # Absent /\ ~node.leaf ->
                              Internal(node.keys, [i \in DOMAIN node.kids |-> Name(node.kids[i])])
      All(v) == [n \in PageNo |-> IF n \in DOMAIN order THEN Renamed(v[order[n]]) ELSE Absent]
  IN  [t EXCEPT !.page = All(@), !.altered = All(@)]

Begin ==
  /\ txn # "open"
  /\ txn' = "open" /\ UNCHANGED calls
  /\ tree' = [tree EXCEPT !.inTxn = TRUE, !.raised = FALSE]
  /\ oldRoot' = root /\ found' = Found(tree, root)
  /\ UNCHANGED root

(* A call that raises leaves what it has done so far, but not a new root.   *)
Call(result) ==
  /\ txn = "open" /\ calls < MaxCalls
  /\ ~result.tree.full
  /\ "fits" \in Assumed => ~result.tree.raised
  /\ tree' = result.tree
  /\ root' = IF result.tree.raised THEN root ELSE result.root
  /\ calls' = calls + 1
  /\ UNCHANGED <<txn, oldRoot, found>>

Ready == [tree EXCEPT !.raised = FALSE]

InsertRow(k, len) == Search(tree, root, k) = NoRow /\ Call(Insert(Ready, root, k, len))
UpdateRow(k, len) == Search(tree, root, k) # NoRow /\ Call(Replace(Ready, root, k, len))
DeleteRow(k)      == Search(tree, root, k) # NoRow /\ Call(Delete(Ready, root, k))

(* A query loads the nodes on its way to the keys it looks for. *)
Read(keys) ==
  /\ txn = "open"
  /\ tree' = Loaded(tree, UNION {ToSet(Path(tree, root, k)) : k \in keys})
  /\ UNCHANGED <<root, calls, txn, oldRoot, found>>

(* The node cache is emptied when it has grown beyond 512 nodes. *)
CacheCleared ==
  /\ tree' = [tree EXCEPT !.altered = NoNodes, !.spoiled = NoNodes]
  /\ UNCHANGED <<root, calls, txn, oldRoot, found>>

Ended(t, r) == [Tidy(t, r) EXCEPT !.inTxn = FALSE, !.touched = {}, !.shadow = NoNodes,
                                  !.spoiled = NoNodes, !.raised = FALSE]

Closed == oldRoot' = NoPage /\ found' = NoRows /\ calls' = 0

Commit ==
  /\ txn = "open"
  /\ txn' = "committed" /\ tree' = Ended(tree, root)
  /\ Closed
  /\ root' = Top

(* The shadow's bytes come back, and with them the nodes cached for them.   *)
Restored(t) ==
  LET Back(v, old) == [n \in PageNo |-> IF n \in t.touched THEN old[n] ELSE v[n]]
  IN  [t EXCEPT !.page = Back(@, t.shadow), !.altered = Back(@, t.spoiled)]

Rollback ==
  /\ txn = "open"
  /\ "reread" \in Assumed => tree.spoiled = NoNodes
  /\ txn' = "rolledback" /\ root' = Top
  /\ tree' = Ended(Restored(tree), oldRoot)
  /\ Closed

(* .vacuum between transactions. *)
Vacuum ==
  /\ txn # "open" /\ "still" \notin Assumed
  /\ LET loaded == BulkLoad(Ready, RangeScan(tree, root, NoKey, NoKey))
         new    == IF loaded.tree.raised THEN root ELSE loaded.root
     IN  /\ ~loaded.tree.full
         /\ "fits" \in Assumed => ~loaded.tree.raised
         /\ root' = Top /\ tree' = Tidy(loaded.tree, new)
  /\ UNCHANGED <<calls, txn, oldRoot, found>>

Next == \/ Begin \/ Commit \/ Rollback \/ Vacuum \/ CacheCleared
        \/ \E k \in Key : DeleteRow(k)
        \/ \E keys \in Queries : Read(keys)
        \/ \E k \in Key, len \in Lengths : InsertRow(k, len) \/ UpdateRow(k, len)

Spec == Init /\ [][Next]_vars

-----------------------------------------------------------------------------
(* Properties *)

TypeOK ==
  /\ tree.page \in Pages /\ tree.altered \in Pages
  /\ \A n \in PageNo : tree.page[n] # Absent => Fits(tree.page[n])
  /\ tree.touched \subseteq PageNo /\ {n \in PageNo : tree.shadow[n] # Absent} \subseteq tree.touched
  /\ root \in PageNo /\ tree.page[root] # Absent
  /\ txn \in {"open", "committed", "rolledback"} /\ tree.inTxn = (txn = "open")
  /\ calls \in 0 .. MaxCalls /\ ~tree.full

(* The tree is the map its users take it for (btree.py:136-255): a step      *)
(* changes the row of one key and no other, whatever it splits, borrows and  *)
(* merges, a call that raises changes nothing, commit keeps the rows, and    *)
(* rollback (pager.py:116) brings back those the transaction found.          *)
Map == INSTANCE Dictionary WITH Row <- Lengths, rows <- Found(tree, root), saved <- found
ImplementsMap == Map!Spec

(* In every state a transaction can reach, each call the engine may make     *)
(* next (engine.py:560, 594, 607) raises or does what it is called for: the  *)
(* searches that follow find the row written, do not find the one deleted,   *)
(* and find all others as they were.                                         *)
CallsTakeEffect ==
  LET here == Found(tree, root)
      Gives(result, k, row) == \/ Stopped(result.tree)
                               \/ Found(result.tree, result.root) = [here EXCEPT ![k] = row]
  IN  txn = "open" =>
        \A k \in Key :
          IF here[k] = NoRow
          THEN \A len \in Lengths : Gives(Insert(Ready, root, k, len), k, len)
          ELSE /\ \A len \in Lengths : Gives(Replace(Ready, root, k, len), k, len)
               /\ Gives(Delete(Ready, root, k), k, NoRow)

(* Every range scan (btree.py:318) along the chain of leaves gives the rows  *)
(* that searches from the root (btree.py:136) find for the keys from lo up   *)
(* to hi, each of them once and in order, wherever the scan begins and ends. *)
ScanAgreesWithSearch ==
  LET here == Found(tree, root)
      Gives(lo, hi) ==
        LET rows == RangeScan(tree, root, lo, hi)
            Asked(k) == here[k] # NoRow /\ lo <= k /\ (hi # NoKey => k <= hi)
        IN  /\ \A i \in DOMAIN rows : rows[i].key \in Key /\ Asked(rows[i].key)
                                     /\ rows[i].len = here[rows[i].key]
            /\ \A i, j \in DOMAIN rows : i < j => rows[i].key < rows[j].key
            /\ \A k \in Key : Asked(k) => \E i \in DOMAIN rows : rows[i].key = k
  IN  \A lo, hi \in Key \cup {NoKey} : Gives(lo, hi)

(* The pages i levels below page r, and all pages from r downwards.         *)
Level(t, r) ==
  LET At[i \in 0 .. MaxPages] == IF i = 0 THEN {r} ELSE UNION {ToSet(KidsOf(t, n)) : n \in At[i - 1]}
  IN  At

InTree(t, r) == UNION {Level(t, r)[i] : i \in 0 .. MaxPages}

KeysBelow(t, r) ==
  {k \in Key : \E n \in InTree(t, r) : NodeAt(t, n).leaf /\ Has(NodeAt(t, n), k)}

(* The leaves at the two ends of what is below page r.                      *)
FirstLeaf(t, r) == Last(Path(t, r, NoKey))
LastLeaf(t, r)  == Last(Path(t, r, MaxKey))

(* What BTree.check (btree.py:363) asserts of the shape: a separator between *)
(* any two children, above all keys to its left and no key to its right; all *)
(* leaves at one depth; the chain visits the leaves in the order of the tree.*)
Balanced ==
  /\ \A n \in InTree(tree, root) : ~NodeAt(tree, n).leaf =>
       LET node == NodeAt(tree, n) IN
       /\ Len(node.kids) = Len(node.keys) + 1
       /\ \A i \in DOMAIN node.keys :
            /\ \A k \in KeysBelow(tree, node.kids[i]) : k < node.keys[i]
            /\ \A k \in KeysBelow(tree, node.kids[i + 1]) : node.keys[i] <= k
            /\ NodeAt(tree, LastLeaf(tree, node.kids[i])).next = FirstLeaf(tree, node.kids[i + 1])
  /\ NodeAt(tree, LastLeaf(tree, root)).next = NoPage
  /\ \A i \in 0 .. MaxPages : \A m, n \in Level(tree, root)[i] : NodeAt(tree, m).leaf = NodeAt(tree, n).leaf

(* The occupancy BTree.check asserts (btree.py:410): no node but the root    *)
(* stays below a third of a page, whatever has been deleted and merged.      *)
WellFilled == \A n \in InTree(tree, root) \ {root} : ~Underflow(NodeAt(tree, n))

(* No call raises: every page written fits (pager.py:89), every underfull    *)
(* node has a sibling (btree.py:285), no sibling is borrowed empty           *)
(* (btree.py:305).                                                           *)
NeverRaises == ~tree.raised

(* Whatever _load (btree.py:114) finds cached for the bytes in the pool says *)
(* what these bytes say, when no call is running: every node edited in place *)
(* has been written, every write made the cached node stale.  Only for       *)
(* `reread': a rollback of pages written and not read again breaks it, for   *)
(* the bytes that come back are those the edited node was parsed from.       *)
CacheIsTrue == tree.altered = NoNodes
=============================================================================
