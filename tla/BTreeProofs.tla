---------------------------- MODULE BTreeProofs ----------------------------
(* The B+ tree of BTree is the map its users take it for, for every number  *)
(* of keys and pages and all lengths of rows, as long as the callers keep   *)
(* the disciplines.                                                         *)
EXTENDS BTreeShapes

(* What the callers keep to: see Discipline.                                 *)
Disciplined == Assumed = Discipline

-----------------------------------------------------------------------------
(* What the tree reads and writes                                            *)

Trees == [page : Pages, altered : Pages, inTxn : BOOLEAN, touched : SUBSET PageNo,
          shadow : Pages, spoiled : Pages, raised : BOOLEAN, full : BOOLEAN]

(* The nodes that the tree reads, and the pages that a rollback brings back. *)
View(t)  == [n \in PageNo |-> NodeAt(t, n)]
Saved(t) == [n \in PageNo |-> IF n \in t.touched THEN t.shadow[n] ELSE t.page[n]]

(* In a transaction that has raised nothing and would bring the pages S back *)
(* only nodes of D differ from their pages.                                  *)
Kept(t, S, D) ==
  /\ t \in Trees /\ t.inTxn /\ ~Stopped(t)
  /\ \A n \in PageNo : t.altered[n] # Absent => n \in D /\ t.page[n] # Absent
  /\ \A n \in PageNo : t.page[n] # Absent => Fits(t.page[n])
  /\ \A n \in PageNo : t.shadow[n] # Absent => n \in t.touched
  /\ Saved(t) = S

(* Node n is another one, and nothing else changes.                          *)
Changed(V, n, node, V2) ==
  /\ V2 \in Pages /\ V2[n] = node
  /\ \A x \in PageNo : x # n => V2[x] = V[x]

LEMMA Viewed ==
  ASSUME NEW t, NEW S, NEW D, Kept(t, S, D)
  PROVE  /\ View(t) \in Pages
         /\ \A n \in PageNo : View(t)[n] = NodeAt(t, n)
         /\ \A n \in PageNo : View(t)[n] = Absent <=> t.page[n] = Absent
<1>1. t \in Trees /\ \A n \in PageNo : t.altered[n] # Absent => t.page[n] # Absent
  BY DEF Kept
<1>2. ASSUME NEW n \in PageNo PROVE t.page[n] \in Node \cup {Absent} /\ t.altered[n] \in Node \cup {Absent}
  BY <1>1 DEF Trees, Pages
<1> QED
  BY <1>1, <1>2 DEF View, NodeAt, Pages

LEMMA LoadedKeeps ==
  ASSUME NEW t, NEW S, NEW D, Kept(t, S, D), NEW X
  PROVE  Kept(Loaded(t, X), S, D) /\ View(Loaded(t, X)) = View(t)
<1> DEFINE u == Loaded(t, X)
<1>1. t \in Trees
  BY DEF Kept
<1>2. u \in Trees /\ u.page = t.page /\ u.altered = t.altered /\ u.inTxn = t.inTxn
      /\ u.touched = t.touched /\ u.shadow = t.shadow /\ u.raised = t.raised /\ u.full = t.full
  BY <1>1 DEF Loaded, Trees, Pages
<1> HIDE DEF u
<1>3. View(u) = View(t) /\ Saved(u) = Saved(t)
  BY <1>2 DEF View, NodeAt, Saved
<1>4. Kept(u, S, D)
  BY <1>2, <1>3 DEF Kept, Stopped
<1> QED
  BY <1>3, <1>4 DEF u

LEMMA EditedKeeps ==
  ASSUME NEW t, NEW S, NEW D, Kept(t, S, D), NEW n \in PageNo, View(t)[n] # Absent, NEW node \in Node,
         NEW E, n \in E, D \subseteq E
  PROVE  Kept(Edited(t, n, node), S, E) /\ Changed(View(t), n, node, View(Edited(t, n, node)))
<1> DEFINE u == Edited(t, n, node)
           new == IF node = t.page[n] THEN Absent ELSE node
<1>1. t \in Trees /\ ~Stopped(t) /\ t.page[n] # Absent /\ t.page \in Pages /\ t.altered \in Pages
  BY Viewed DEF Kept, Trees
<1>2. u = [t EXCEPT !.altered[n] = new]
  BY <1>1 DEF Edited
<1>3. new \in Node \cup {Absent} /\ node # Absent
  BY AbsentAssumption
<1>4. [t.altered EXCEPT ![n] = new] \in Pages
  BY <1>1, <1>3 DEF Pages
<1> HIDE DEF new
<1>5. u \in Trees /\ u.page = t.page /\ u.altered = [t.altered EXCEPT ![n] = new] /\ u.inTxn = t.inTxn
      /\ u.touched = t.touched /\ u.shadow = t.shadow /\ u.raised = t.raised /\ u.full = t.full
  BY <1>1, <1>2, <1>4 DEF Trees
<1> HIDE DEF u
<1>6. Saved(u) = Saved(t)
  BY <1>5 DEF Saved
<1>7. \A x \in PageNo : u.altered[x] = IF x = n THEN new ELSE t.altered[x]
  BY <1>1, <1>5 DEF Pages
<1>8. Kept(u, S, E)
  BY <1>1, <1>5, <1>6, <1>7 DEF Kept, Stopped
<1>9. Changed(View(t), n, node, View(u))
  <2>1. \A x \in PageNo : NodeAt(u, x) = IF x = n THEN node ELSE NodeAt(t, x)
    BY <1>3, <1>5, <1>7 DEF NodeAt, new
  <2>2. View(u) \in Pages
    BY <1>8, Viewed
  <2> QED
    BY <2>1, <2>2 DEF View, Changed
<1> QED
  BY <1>8, <1>9 DEF u

(* A write that does not raise.                                              *)
LEMMA WrittenKeeps ==
  ASSUME NEW t, NEW S, NEW D, Kept(t, S, D), NEW n \in PageNo \cup {NoPage}, NEW node \in Node,
         ~Stopped(Written(t, n, node)), NEW E, D \subseteq E \cup {n}
  PROVE  /\ n \in PageNo
         /\ Kept(Written(t, n, node), S, E) /\ Changed(View(t), n, node, View(Written(t, n, node)))
<1> DEFINE u == Written(t, n, node)
<1>1. /\ t \in Trees /\ ~Stopped(t) /\ t.page \in Pages /\ t.altered \in Pages /\ t.inTxn = TRUE
      /\ t.touched \in SUBSET PageNo /\ t.shadow \in Pages /\ t.spoiled \in Pages
  BY DEF Kept, Trees
<1>2. n # NoPage /\ n \in PageNo /\ Fits(node)
  <2>1. CASE n = NoPage
    <3>1. u = [t EXCEPT !.full = TRUE]
      BY <1>1, <2>1 DEF Written
    <3> QED
      BY <1>1, <3>1 DEF Stopped, Trees
  <2>2. CASE n # NoPage /\ ~Fits(node)
    <3>1. u = [t EXCEPT !.raised = TRUE]
      BY <1>1, <2>2 DEF Written
    <3> QED
      BY <1>1, <3>1 DEF Stopped, Trees
  <2> QED
    BY <2>1, <2>2
<1>3. node # Absent
  BY AbsentAssumption
<1>4. /\ [t.page EXCEPT ![n] = node] \in Pages /\ [t.altered EXCEPT ![n] = Absent] \in Pages
      /\ [t.shadow EXCEPT ![n] = IF n \notin t.touched THEN t.page[n] ELSE t.shadow[n]] \in Pages
      /\ [t.spoiled EXCEPT ![n] = IF n \notin t.touched THEN t.altered[n] ELSE t.spoiled[n]] \in Pages
  BY <1>1, <1>2 DEF Pages
<1>5. /\ u \in Trees /\ u.page = [t.page EXCEPT ![n] = node]
      /\ u.altered = [t.altered EXCEPT ![n] = Absent] /\ u.inTxn = TRUE
      /\ u.touched = t.touched \cup {n}
      /\ u.shadow = [t.shadow EXCEPT ![n] = IF n \notin t.touched THEN t.page[n] ELSE t.shadow[n]]
      /\ u.raised = t.raised /\ u.full = t.full
  <2>1. u = Put(t, n, node)
    BY <1>1, <1>2 DEF Written
  <2> HIDE DEF u
  <2> QED
    <3> DEFINE sh == [t.shadow EXCEPT ![n] = IF n \notin t.touched THEN t.page[n] ELSE t.shadow[n]]
               sp == [t.spoiled EXCEPT ![n] = IF n \notin t.touched THEN t.altered[n] ELSE t.spoiled[n]]
               pg == [t.page EXCEPT ![n] = node]
               al == [t.altered EXCEPT ![n] = Absent]
               to == IF n \notin t.touched THEN t.touched \cup {n} ELSE t.touched
    <3>1. u = [t EXCEPT !.page = pg, !.altered = al, !.touched = to, !.shadow = sh, !.spoiled = sp]
      BY <1>1, <2>1, Zenon DEF Put
    <3>2. pg \in Pages /\ al \in Pages /\ sh \in Pages /\ sp \in Pages
      BY <1>4
    <3>3. to = t.touched \cup {n} /\ to \in SUBSET PageNo
      BY <1>1, <1>2
    <3> HIDE DEF pg, al, sh, sp, to
    <3>4. /\ u \in Trees /\ u.page = pg /\ u.altered = al /\ u.inTxn = t.inTxn
          /\ u.touched = to /\ u.shadow = sh /\ u.raised = t.raised /\ u.full = t.full
      BY <1>1, <3>1, <3>2, <3>3 DEF Trees
    <3> QED
      BY <1>1, <3>3, <3>4 DEF pg, al, sh
<1> HIDE DEF u
<1>6. \A x \in PageNo : /\ u.page[x] = IF x = n THEN node ELSE t.page[x]
                        /\ u.altered[x] = IF x = n THEN Absent ELSE t.altered[x]
                        /\ x \in u.touched <=> (x = n \/ x \in t.touched)
                        /\ u.shadow[x] = IF x = n /\ x \notin t.touched THEN t.page[x] ELSE t.shadow[x]
  BY <1>1, <1>5 DEF Pages
<1>7. Saved(u) = Saved(t)
  <2>1. \A x \in PageNo : (IF x \in u.touched THEN u.shadow[x] ELSE u.page[x])
                          = IF x \in t.touched THEN t.shadow[x] ELSE t.page[x]
    BY <1>6
  <2> QED
    BY <2>1 DEF Saved
<1>8. Kept(u, S, E)
  <2>1. \A x \in PageNo : u.altered[x] # Absent => x \in E /\ u.page[x] # Absent
    BY <1>6 DEF Kept
  <2>2. \A x \in PageNo : u.page[x] # Absent => Fits(u.page[x])
    BY <1>2, <1>6 DEF Kept
  <2>3. \A x \in PageNo : u.shadow[x] # Absent => x \in u.touched
    BY <1>6 DEF Kept
  <2>4. Saved(u) = S /\ ~Stopped(u)
    BY <1>1, <1>5, <1>7 DEF Kept, Stopped
  <2> QED
    BY <1>5, <2>1, <2>2, <2>3, <2>4 DEF Kept
<1>9. Changed(View(t), n, node, View(u))
  <2>1. \A x \in PageNo : NodeAt(u, x) = IF x = n THEN node ELSE NodeAt(t, x)
    BY <1>3, <1>6 DEF NodeAt
  <2>2. View(u) \in Pages
    BY <1>8, Viewed
  <2> QED
    BY <1>2, <2>1, <2>2 DEF View, Changed
<1> QED
  BY <1>2, <1>8, <1>9 DEF u

(* After an exception nothing happens.                                       *)
LEMMA StoppedStays ==
  ASSUME NEW t, Stopped(t)
  PROVE  \A n, node : Edited(t, n, node) = t /\ Written(t, n, node) = t
<1>1. \A n, node : Edited(t, n, node) = t
  BY DEF Edited
<1>2. \A n, node : Written(t, n, node) = t
  BY Zenon DEF Written
<1> QED
  BY <1>1, <1>2

(* A new page is one that nothing refers to.                                 *)
LEMMA NewPageFree ==
  ASSUME NEW t, NEW S, NEW D, Kept(t, S, D)
  PROVE  /\ NewPage(t) \in PageNo \cup {NoPage}
         /\ NewPage(t) \in PageNo => View(t)[NewPage(t)] = Absent
<1> DEFINE unused == {n \in PageNo : t.page[n] = Absent /\ n \notin t.touched}
<1>1. CASE unused = {}
  BY <1>1, Sizes DEF NewPage
<1>2. CASE unused # {}
  <2>1. unused \in SUBSET Nat
    BY Sizes
  <2>2. \E n \in unused : \A m \in unused : n <= m
    BY <1>2, <2>1, SmallestInSet
  <2>3. NewPage(t) = CHOOSE n \in unused : \A m \in unused : n <= m
    BY <1>2 DEF NewPage
  <2> HIDE DEF unused
  <2>4. NewPage(t) \in unused
    BY <2>2, <2>3, Zenon
  <2> USE DEF unused
  <2>5. NewPage(t) \in PageNo /\ t.page[NewPage(t)] = Absent
    BY <2>4
  <2> QED
    BY <2>5, Viewed
<1> QED
  BY <1>1, <1>2

-----------------------------------------------------------------------------
(* Splits                                                                    *)

LEMMA Half == \A L \in Nat : L # 0 => L \div 2 \in 0 .. (L - 1)
OBVIOUS

LEMMA LeafKind ==
  ASSUME NEW cells \in Seq(Cells), NEW next \in PageNo \cup {NoPage}
  PROVE  /\ Leaf(cells, next) \in Node /\ Leaf(cells, next).leaf = TRUE
         /\ Leaf(cells, next).cells = cells /\ Leaf(cells, next).next = next
BY NodeKinds

LEMMA InternalKind ==
  ASSUME NEW keys \in Seq(Key), NEW kids \in Seq(PageNo)
  PROVE  /\ Internal(keys, kids) \in Node /\ Internal(keys, kids).leaf = FALSE
         /\ Internal(keys, kids).keys = keys /\ Internal(keys, kids).kids = kids
BY NodeKinds

(* Node n is cut in two, and page p takes what is above s.                   *)
Torn(V, n, V2, p, m, left, right, s) ==
  /\ Cut(V[n], m, left, right, s) /\ s \in Key
  /\ V[n].leaf => left.next = p /\ right.next = V[n].next
  /\ p \in PageNo /\ p # n /\ V[p] = Absent
  /\ V2 \in Pages /\ V2[n] = left /\ V2[p] = right
  /\ \A x \in PageNo : x # n /\ x # p => V2[x] = V[x]

(* Only node n may differ from its page.                                     *)
KeptBut(t, S, n) == Kept(t, S, {n})

(* What both kinds of split write.                                           *)
WritesBoth(t, n, p, left, right, u) ==
  /\ left \in Node /\ right \in Node /\ p = NewPage(t)
  /\ u = Written(Written(t, p, right), n, left) /\ ~Stopped(u)

LEMMA TwoWritten ==
  ASSUME NEW t, NEW S, NEW n \in PageNo, KeptBut(t, S, n), View(t)[n] # Absent,
         NEW p, NEW left, NEW right, NEW u, WritesBoth(t, n, p, left, right, u)
  PROVE  /\ p \in PageNo /\ p # n /\ View(t)[p] = Absent /\ Kept(u, S, {})
         /\ View(u) \in Pages /\ View(u)[n] = left /\ View(u)[p] = right
         /\ \A x \in PageNo : x # n /\ x # p => View(u)[x] = View(t)[x]
<1> DEFINE w == Written(t, p, right)
<1>0. /\ left \in Node /\ right \in Node /\ p = NewPage(t)
      /\ u = Written(w, n, left) /\ ~Stopped(u)
  BY DEF WritesBoth
<1> DEFINE D == {n}
<1>00. Kept(t, S, D) /\ \A x \in D : x = n
  BY DEF KeptBut
<1> HIDE DEF D
<1>1. p \in PageNo \cup {NoPage} /\ (p \in PageNo => View(t)[p] = Absent)
  BY <1>0, <1>00, NewPageFree
<1>2. ~Stopped(w)
  BY <1>0, StoppedStays
<1>3. p \in PageNo /\ Kept(w, S, D) /\ Changed(View(t), p, right, View(w))
  <2>1. D \subseteq D \cup {p}
    OBVIOUS
  <2> QED
    BY <1>0, <1>00, <1>1, <1>2, <2>1, WrittenKeeps
<1>4. p # n
  BY <1>1, <1>3
<1>5. n \in PageNo \cup {NoPage} /\ D \subseteq {} \cup {n} /\ ~Stopped(Written(w, n, left))
  BY <1>0, <1>00
<1> HIDE DEF w
<1>6. Kept(Written(w, n, left), S, {}) /\ Changed(View(w), n, left, View(Written(w, n, left)))
  BY <1>0, <1>3, <1>5, WrittenKeeps
<1>8. Kept(u, S, {}) /\ Changed(View(w), n, left, View(u))
  BY <1>0, <1>6
<1> QED
  BY <1>1, <1>3, <1>4, <1>8 DEF Changed

(* What SplitLeaf and SplitInternal make of an edited node.                  *)
SplitOf(t, n, S, g) ==
  /\ Kept(g.tree, S, {}) /\ g.split # NoSplit
  /\ \E m, left, right : Torn(View(t), n, View(g.tree), g.split.page, m, left, right, g.split.key)

LEMMA SplitLeafDoes ==
  ASSUME NEW t, NEW S, NEW n \in PageNo, KeptBut(t, S, n), NEW node \in Node, View(t)[n] = node,
         node.leaf, ~Fits(node), ~Stopped(SplitLeaf(t, n, node).tree)
  PROVE  SplitOf(t, n, S, SplitLeaf(t, n, node))
<1> DEFINE cells == node.cells
           mid   == Len(cells) \div 2
           p     == NewPage(t)
           right == Leaf(SubSeq(cells, mid + 1, Len(cells)), node.next)
           left  == Leaf(SubSeq(cells, 1, mid), p)
           s     == right.cells[1].key
           g     == SplitLeaf(t, n, node)
<1>1. cells \in Seq(Cells) /\ Len(cells) \in Nat /\ node.next \in PageNo \cup {NoPage}
  BY NodeKinds
<1>2. cells # << >>
  <2>1. SUFFICES ASSUME cells = << >> PROVE serialized_size(node) = 9
    BY Sizes DEF Fits
  <2>2. serialized_size(node) = serialized_size(Leaf(<< >>, NoPage))
    BY <2>1 DEF serialized_size, Leaf
  <2> QED
    BY <2>2, EmptySize
<1>3. Len(cells) # 0
  BY <1>1, <1>2
<1>4. mid \in 0 .. (Len(cells) - 1)
  BY <1>1, <1>3, Half
<1>5. p \in PageNo \cup {NoPage}
  BY NewPageFree DEF KeptBut
<1>6. /\ g.tree = Written(Written(t, p, right), n, left)
      /\ g.split = [key |-> s, page |-> p]
  BY DEF SplitLeaf
<1>7. ~Stopped(g.tree)
  OBVIOUS
<1> HIDE DEF cells, mid, p, g
<1>8. /\ SubSeq(cells, 1, mid) \in Seq(Cells)
      /\ SubSeq(cells, mid + 1, Len(cells)) \in Seq(Cells)
      /\ SubSeq(cells, mid + 1, Len(cells))[1] = cells[mid + 1]
  BY <1>1, <1>4, CutSeq
<1>9. /\ left \in Node /\ left.leaf = TRUE /\ left.cells = SubSeq(cells, 1, mid)
      /\ right \in Node /\ right.leaf = TRUE /\ right.cells = SubSeq(cells, mid + 1, Len(cells))
      /\ left.next = p /\ right.next = node.next
  BY <1>1, <1>5, <1>8, LeafKind
<1>10. s = cells[mid + 1].key /\ s \in Key
  <2>1. mid + 1 \in 1 .. Len(cells)
    BY <1>1, <1>4
  <2> QED
    BY <1>1, <1>8, <1>9, <2>1, CellsOf
<1> HIDE DEF left, right, s
<1>11. View(t)[n] # Absent
  BY AbsentAssumption
<1>12. /\ p \in PageNo /\ p # n /\ View(t)[p] = Absent /\ Kept(g.tree, S, {})
       /\ View(g.tree) \in Pages /\ View(g.tree)[n] = left /\ View(g.tree)[p] = right
       /\ \A x \in PageNo : x # n /\ x # p => View(g.tree)[x] = View(t)[x]
  <2>1. WritesBoth(t, n, p, left, right, g.tree)
    BY <1>6, <1>7, <1>9 DEF p, WritesBoth
  <2> QED
    BY <1>11, <2>1, TwoWritten
<1>13. Cut(node, mid, left, right, s)
  BY <1>4, <1>9, <1>10 DEF Cut, cells
<1>14. Torn(View(t), n, View(g.tree), p, mid, left, right, s)
  BY <1>9, <1>10, <1>12, <1>13 DEF Torn
<1>15. g.split.page = p /\ g.split.key = s /\ g.split # NoSplit
  BY <1>6, <1>10, Sizes DEF NoSplit
<1> QED
  BY <1>12, <1>14, <1>15 DEF SplitOf, g

LEMMA SplitInternalDoes ==
  ASSUME NEW t, NEW S, NEW n \in PageNo, KeptBut(t, S, n), NEW node \in Node, View(t)[n] = node,
         ~node.leaf, Len(node.kids) = Len(node.keys) + 1,
         ~Fits(node), ~Stopped(SplitInternal(t, n, node).tree)
  PROVE  SplitOf(t, n, S, SplitInternal(t, n, node))
<1> DEFINE keys  == node.keys
           kids  == node.kids
           mid   == Len(keys) \div 2
           p     == NewPage(t)
           right == Internal(SubSeq(keys, mid + 2, Len(keys)), SubSeq(kids, mid + 2, Len(kids)))
           left  == Internal(SubSeq(keys, 1, mid), SubSeq(kids, 1, mid + 1))
           s     == keys[mid + 1]
           g     == SplitInternal(t, n, node)
<1>1. /\ keys \in Seq(Key) /\ Len(keys) \in Nat
      /\ kids \in Seq(PageNo) /\ Len(kids) \in Nat /\ Len(kids) = Len(keys) + 1
  BY NodeKinds
<1>2. Len(keys) # 0
  <2>1. SUFFICES ASSUME Len(keys) = 0 PROVE serialized_size(node) = 13
    BY Sizes DEF Fits
  <2>2. serialized_size(node) = 9 + 8 * Len(keys) + 4 * Len(kids)
    BY DEF serialized_size
  <2> HIDE DEF keys, kids
  <2> QED
    BY <1>1, <2>1, <2>2
<1>0. node.leaf = FALSE
  BY NodeKinds
<1>3. mid \in 0 .. (Len(keys) - 1) /\ mid \in Nat /\ mid + 1 \in 1 .. Len(keys)
  <2> DEFINE L == Len(keys)
  <2>1. L \in Nat /\ L # 0 /\ mid = L \div 2
    BY <1>1, <1>2
  <2> HIDE DEF L, mid, keys
  <2>2. mid \in 0 .. (L - 1)
    BY <2>1, Half
  <2> QED
    BY <2>1, <2>2 DEF L
<1>4. p \in PageNo \cup {NoPage}
  BY NewPageFree DEF KeptBut
<1>5. /\ g.tree = Written(Written(t, p, right), n, left)
      /\ g.split = [key |-> s, page |-> p]
  BY DEF SplitInternal, Promoted
<1>6. ~Stopped(g.tree)
  OBVIOUS
<1> HIDE DEF keys, kids, mid, p, g
<1>7. /\ SubSeq(keys, 1, mid) \in Seq(Key) /\ SubSeq(kids, 1, mid + 1) \in Seq(PageNo)
      /\ SubSeq(keys, mid + 2, Len(keys)) \in Seq(Key)
      /\ SubSeq(kids, mid + 2, Len(kids)) \in Seq(PageNo)
  <2>1. mid + 2 = (mid + 1) + 1 /\ mid \in 0 .. Len(keys) /\ mid + 1 \in 0 .. Len(keys) /\ mid + 1 \in 0 .. Len(kids)
    BY <1>1, <1>3
  <2> QED
    BY <1>1, <2>1, CutSeq
<1>8. /\ left \in Node /\ left.leaf = FALSE
      /\ left.keys = SubSeq(keys, 1, mid) /\ left.kids = SubSeq(kids, 1, mid + 1)
      /\ right \in Node /\ right.leaf = FALSE
      /\ right.keys = SubSeq(keys, mid + 2, Len(keys)) /\ right.kids = SubSeq(kids, mid + 2, Len(kids))
  BY <1>7, InternalKind
<1>9. s \in Key
  BY <1>1, <1>3
<1> HIDE DEF left, right, s
<1>10. View(t)[n] # Absent
  BY AbsentAssumption
<1>11. /\ p \in PageNo /\ p # n /\ View(t)[p] = Absent /\ Kept(g.tree, S, {})
       /\ View(g.tree) \in Pages /\ View(g.tree)[n] = left /\ View(g.tree)[p] = right
       /\ \A x \in PageNo : x # n /\ x # p => View(g.tree)[x] = View(t)[x]
  <2>1. WritesBoth(t, n, p, left, right, g.tree)
    BY <1>5, <1>6, <1>8 DEF p, WritesBoth
  <2> QED
    BY <1>10, <2>1, TwoWritten
<1>12. Cut(node, mid + 1, left, right, s)
  <2> DEFINE m == mid + 1
  <2>1. m - 1 = mid /\ m + 1 = mid + 2 /\ m \in 1 .. Len(keys) /\ s = keys[m]
    BY <1>3 DEF s
  <2>2. left.kids = SubSeq(kids, 1, m)
    BY <1>8
  <2> HIDE DEF m
  <2>3. /\ left.keys = SubSeq(keys, 1, m - 1)
        /\ right.keys = SubSeq(keys, m + 1, Len(keys)) /\ right.kids = SubSeq(kids, m + 1, Len(kids))
    BY <1>8, <2>1
  <2>4. Cut(node, m, left, right, s)
    BY <1>0, <1>8, <2>1, <2>2, <2>3 DEF Cut, keys, kids
  <2> QED
    BY <2>4 DEF m
<1>13. Torn(View(t), n, View(g.tree), p, mid + 1, left, right, s)
  BY <1>0, <1>9, <1>11, <1>12 DEF Torn
<1>14. g.split.page = p /\ g.split.key = s /\ g.split # NoSplit
  BY <1>5, <1>9, Sizes DEF NoSplit
<1> QED
  BY <1>11, <1>13, <1>14 DEF SplitOf, g

LEMMA ChangedSame ==
  ASSUME NEW V \in Pages, NEW n \in PageNo, NEW node, NEW V1, NEW V2,
         Changed(V, n, node, V1), Changed(V, n, node, V2)
  PROVE  V1 = V2
BY DEF Changed, Pages

(* V is what would be there if every node fitted.                            *)
GrowsTo(V, n, S, g) ==
  /\ Kept(g.tree, S, {})
  /\ \/ g.split = NoSplit /\ View(g.tree) = V
     \/ /\ g.split # NoSplit
        /\ \E m, left, right : Torn(V, n, View(g.tree), g.split.page, m, left, right, g.split.key)

LEMMA GrownDoes ==
  ASSUME NEW t, NEW S, Kept(t, S, {}), NEW n \in PageNo, View(t)[n] # Absent, NEW node \in Node,
         ~node.leaf => Len(node.kids) = Len(node.keys) + 1,
         ~Stopped(Grown(t, n, node).tree), NEW V, Changed(View(t), n, node, V)
  PROVE  GrowsTo(V, n, S, Grown(t, n, node))
<1> DEFINE u == Edited(t, n, node)
           g == Grown(t, n, node)
           D == {n}
<1>1. n \in D /\ {} \subseteq D
  OBVIOUS
<1> HIDE DEF D
<1>2. Kept(u, S, D) /\ Changed(View(t), n, node, View(u))
  BY <1>1, EditedKeeps
<1>3. View(u) = V /\ V[n] = node
  <2>1. View(t) \in Pages
    BY Viewed
  <2> QED
    BY <1>2, <2>1, ChangedSame DEF Changed
<1>4. ~Stopped(g.tree) /\ g = Grown(t, n, node)
  OBVIOUS
<1>5. KeptBut(u, S, n)
  BY <1>2 DEF KeptBut, D
<1> HIDE DEF u
<1>6. CASE Fits(node)
  <2>1. g.tree = Written(u, n, node) /\ g.split = NoSplit
    BY <1>6 DEF Grown, u
  <2>2. n \in PageNo \cup {NoPage} /\ D \subseteq {} \cup {n}
    BY DEF D
  <2>3. ~Stopped(Written(u, n, node))
    BY <1>4, <2>1
  <2> HIDE DEF g
  <2>4. Kept(Written(u, n, node), S, {}) /\ Changed(View(u), n, node, View(Written(u, n, node)))
    BY <1>2, <2>2, <2>3, WrittenKeeps
  <2>5. Kept(g.tree, S, {}) /\ Changed(V, n, node, View(g.tree))
    BY <1>3, <2>1, <2>4
  <2>6. Changed(V, n, node, V) /\ V \in Pages
    BY <1>3 DEF Changed
  <2>7. View(g.tree) = V
    BY <2>5, <2>6, ChangedSame
  <2> QED
    BY <1>4, <2>1, <2>5, <2>7 DEF GrowsTo
<1>7. CASE ~Fits(node)
  <2>1. SplitOf(u, n, S, g)
    <3>1. CASE node.leaf
      <4>1. g = SplitLeaf(u, n, node)
        BY <1>7, <3>1 DEF Grown, u
      <4> HIDE DEF g
      <4>2. ~Stopped(SplitLeaf(u, n, node).tree) /\ View(u)[n] = node
        BY <1>3, <1>4, <4>1
      <4> QED
        BY <1>5, <1>7, <3>1, <4>1, <4>2, SplitLeafDoes
    <3>2. CASE ~node.leaf
      <4>1. g = SplitInternal(u, n, node)
        BY <1>7, <3>2 DEF Grown, u
      <4> HIDE DEF g
      <4>2. ~Stopped(SplitInternal(u, n, node).tree) /\ View(u)[n] = node
        BY <1>3, <1>4, <4>1
      <4> QED
        BY <1>5, <1>7, <3>2, <4>1, <4>2, SplitInternalDoes
    <3> QED
      BY <3>1, <3>2
  <2> HIDE DEF g
  <2> QED
    BY <1>3, <1>4, <2>1 DEF GrowsTo, SplitOf
<1> QED
  BY <1>6, <1>7

-----------------------------------------------------------------------------
(* From the leaf up to the root                                              *)

(* The first j pages of the path lead from one to the next.                  *)
OnWay(V, live, lev, path, j, key) ==
  \A x \in 1 .. j : /\ path[x] \in live /\ lev[path[x]] = Len(path) - x
                    /\ x < j => V[path[x]].kids[ChildIndex(V[path[x]], key)] = path[x + 1]

(* The rows are in the tree of root r.                                       *)
Stands(t, r, rows, S) == Kept(t, S, {}) /\ \E live, lev : TreeOf(View(t), r, live, lev, rows)

Risen(g, r, rows, S) == Stands(g.tree, r, rows, S) /\ g.split = NoSplit

(* They are but for the page that a split of node j of the path has made.    *)
Rising(g, path, j, key, r, rows, S) ==
  /\ Kept(g.tree, S, {}) /\ g.split # NoSplit
  /\ \E V, live, lev, m, left, right :
       /\ TreeOf(V, r, live, lev, rows) /\ g.split.page \notin live
       /\ Torn(V, path[j], View(g.tree), g.split.page, m, left, right, g.split.key)
       /\ OnWay(V, live, lev, path, j, key)

(* What an internal node, and any node, is to those above.                   *)
InnerIs(node, n, live, lev) ==
  /\ node.keys \in Seq(Key) /\ node.kids \in Seq(PageNo)
  /\ Len(node.keys) \in Nat /\ Len(node.kids) = Len(node.keys) + 1
  /\ \A i \in 1 .. Len(node.kids) : node.kids[i] \in live /\ lev[node.kids[i]] + 1 = lev[n]
  /\ \A key \in Key : ChildIndex(node, key) \in 1 .. Len(node.kids)

NodeIs(node, n, live, lev) ==
  /\ n \in PageNo /\ node \in Node /\ node # Absent /\ lev[n] \in Nat
  /\ lev[n] = 0 <=> node.leaf
  /\ ~node.leaf => InnerIs(node, n, live, lev)

LEMMA InnerAtIs ==
  ASSUME NEW node, NEW n, NEW live, NEW lev, NEW lo, NEW hi, NEW up, lo[n] \in Ends, hi[n] \in Ends,
         InnerAt(node, n, live, lev, lo, hi, up),
         \A i \in 1 .. Len(node.kids) : lo[node.kids[i]] <= hi[node.kids[i]]
  PROVE  InnerIs(node, n, live, lev)
<1>1. Parts(node.keys, node.kids, lo[n], hi[n], lo, hi)
  BY DEF InnerAt
<1>2. \A i \in 1 .. Len(node.kids) : node.kids[i] \in live /\ lev[node.kids[i]] + 1 = lev[n]
  BY DEF InnerAt
<1>3. \A key \in Key : ChildIndex(node, key) \in 1 .. Len(node.kids)
  BY <1>1, ChildPlace
<1>4. /\ node.keys \in Seq(Key) /\ node.kids \in Seq(PageNo)
      /\ Len(node.keys) \in Nat /\ Len(node.kids) = Len(node.keys) + 1
  BY <1>1, PartsTyped
<1> QED
  BY <1>2, <1>3, <1>4 DEF InnerIs

LEMMA TreeOfNode ==
  ASSUME NEW P, NEW r, NEW live, NEW lev, NEW rows, TreeOf(P, r, live, lev, rows)
  PROVE  /\ P \in Pages /\ r \in live /\ live \subseteq PageNo /\ lev \in [PageNo -> Nat] /\ rows \in Rows
         /\ \A n \in live : NodeIs(P[n], n, live, lev)
<1>1. PICK lo, hi, up : Tree(P, r, live, lev, lo, hi, up, rows)
  BY DEF TreeOf
<1>2. /\ P \in Pages /\ r \in live /\ live \subseteq PageNo /\ lev \in [PageNo -> Nat]
      /\ rows \in Rows
  BY <1>1 DEF Tree
<1>3. ASSUME NEW n \in live PROVE NodeIs(P[n], n, live, lev)
  <2>1. /\ n \in PageNo /\ P[n] \in Node /\ P[n] # Absent /\ lev[n] \in Nat
        /\ lev[n] = 0 <=> P[n].leaf
        /\ lo[n] \in Ends /\ hi[n] \in Ends
    BY <1>1, TreeNode
  <2>2. ASSUME ~P[n].leaf PROVE InnerIs(P[n], n, live, lev)
    <3>1. InnerAt(P[n], n, live, lev, lo, hi, up)
      BY <1>1, <2>2, TreeNode
    <3>2. \A i \in 1 .. Len(P[n].kids) : lo[P[n].kids[i]] <= hi[P[n].kids[i]]
      BY <1>1, <2>2, TreeNode
    <3> QED
      BY <2>1, <3>1, <3>2, InnerAtIs
  <2> QED
    BY <2>1, <2>2 DEF NodeIs
<1> QED
  BY <1>2, <1>3

(* A node of the path has grown: V says what it holds now.                   *)
GrownTo(t, path, j, key, r, rows, S, node, V, live, lev) ==
  /\ Kept(t, S, {}) /\ View(t)[path[j]] # Absent
  /\ Changed(View(t), path[j], node, V)
  /\ TreeOf(V, r, live, lev, rows) /\ OnWay(V, live, lev, path, j, key)

LEMMA GrownRises ==
  ASSUME NEW t, NEW path, NEW j \in Nat \ {0}, NEW key, NEW r, NEW rows, NEW S, NEW node, NEW V, NEW live,
         NEW lev, GrownTo(t, path, j, key, r, rows, S, node, V, live, lev),
         NEW g, g = Grown(t, path[j], node), ~Stopped(g.tree)
  PROVE  Risen(g, r, rows, S) \/ Rising(g, path, j, key, r, rows, S)
<1> DEFINE n == path[j]
<1>1. /\ Kept(t, S, {}) /\ View(t)[n] # Absent /\ Changed(View(t), n, node, V)
      /\ TreeOf(V, r, live, lev, rows) /\ OnWay(V, live, lev, path, j, key)
  BY DEF GrownTo
<1>2. n \in live /\ j \in 1 .. j
  BY <1>1 DEF OnWay
<1>3. n \in PageNo /\ V[n] = node
  BY <1>1, <1>2, TreeOfNode DEF Changed
<1>4. NodeIs(node, n, live, lev)
  BY <1>1, <1>2, <1>3, TreeOfNode
<1>5. node \in Node /\ (~node.leaf => Len(node.kids) = Len(node.keys) + 1)
  BY <1>4 DEF NodeIs, InnerIs
<1>6. GrowsTo(V, n, S, g)
  <2>1. ~Stopped(Grown(t, n, node).tree)
    OBVIOUS
  <2> HIDE DEF n
  <2>2. GrowsTo(V, n, S, Grown(t, n, node))
    BY <1>1, <1>3, <1>5, <2>1, GrownDoes
  <2> QED
    BY <2>2 DEF n
<1>7. CASE g.split = NoSplit /\ View(g.tree) = V
  <2>1. Kept(g.tree, S, {})
    BY <1>6 DEF GrowsTo
  <2>2. TreeOf(View(g.tree), r, live, lev, rows)
    BY <1>1, <1>7
  <2> QED
    BY <1>7, <2>1, <2>2 DEF Risen, Stands
<1>8. CASE /\ g.split # NoSplit
           /\ \E m, left, right : Torn(V, n, View(g.tree), g.split.page, m, left, right, g.split.key)
  <2>1. Kept(g.tree, S, {}) /\ g.split # NoSplit
    BY <1>6, <1>8 DEF GrowsTo
  <2>2. PICK m, left, right : Torn(V, n, View(g.tree), g.split.page, m, left, right, g.split.key)
    BY <1>8
  <2>3. V[g.split.page] = Absent
    BY <2>2 DEF Torn
  <2>4. ASSUME g.split.page \in live PROVE FALSE
    <3>1. NodeIs(V[g.split.page], g.split.page, live, lev)
      BY <1>1, <2>4, TreeOfNode
    <3> QED
      BY <2>3, <3>1 DEF NodeIs
  <2>5. \E m0, left0, right0 :
          /\ TreeOf(V, r, live, lev, rows) /\ g.split.page \notin live
          /\ Torn(V, n, View(g.tree), g.split.page, m0, left0, right0, g.split.key)
          /\ OnWay(V, live, lev, path, j, key)
    BY <1>1, <2>2, <2>4
  <2> QED
    BY <2>1, <2>5 DEF Rising
<1> QED
  BY <1>6, <1>7, <1>8 DEF GrowsTo

LEMMA TakenInRises ==
  ASSUME NEW g, NEW path \in Seq(PageNo), NEW j \in 1 .. (Len(path) - 1), NEW key \in Key, NEW r, NEW rows, NEW S,
         Rising(g, path, j + 1, key, r, rows, S),
         NEW h, h = TakenIn(key, g, path[j]), ~Stopped(h.tree)
  PROVE  Risen(h, r, rows, S) \/ Rising(h, path, j, key, r, rows, S)
<1> DEFINE P1 == View(g.tree)
           q == path[j]
           n == path[j + 1]
           p == g.split.page
           s == g.split.key
<1>1. PICK V, live, lev, m, left, right :
        /\ TreeOf(V, r, live, lev, rows) /\ p \notin live
        /\ Torn(V, n, P1, p, m, left, right, s)
        /\ OnWay(V, live, lev, path, j + 1, key)
  BY DEF Rising
<1>2. Kept(g.tree, S, {}) /\ g.split # NoSplit /\ ~Stopped(g.tree)
  BY DEF Rising, Kept
<1>3. Len(path) \in Nat /\ j \in Nat \ {0} /\ j \in 1 .. (j + 1) /\ j + 1 \in 1 .. (j + 1) /\ j < j + 1
  OBVIOUS
<1> DEFINE i == ChildIndex(V[q], key)
<1>4. /\ q \in live /\ n \in live /\ lev[q] = Len(path) - j /\ lev[n] = Len(path) - (j + 1)
      /\ V[q].kids[i] = n
  BY <1>1, <1>3 DEF OnWay
<1>5. live \subseteq PageNo /\ V \in Pages /\ NodeIs(V[q], q, live, lev) /\ lev \in [PageNo -> Nat]
  BY <1>1, <1>4, TreeOfNode
<1>6. ~V[q].leaf /\ lev[q] = lev[n] + 1 /\ q # n
  BY <1>3, <1>4, <1>5 DEF NodeIs
<1>7. InnerIs(V[q], q, live, lev)
  BY <1>5, <1>6 DEF NodeIs
<1>8. /\ Cut(V[n], m, left, right, s) /\ s \in Key /\ p \in PageNo /\ p # n
      /\ V[n].leaf => left.next = p /\ right.next = V[n].next
      /\ P1 \in Pages /\ P1[n] = left /\ P1[p] = right
      /\ \A x \in PageNo : x # n /\ x # p => P1[x] = V[x]
  BY <1>1 DEF Torn
<1>9. p # q /\ P1[q] = V[q] /\ q \in PageNo /\ n \in PageNo
  BY <1>1, <1>4, <1>5, <1>6, <1>8
<1> DEFINE keys == V[q].keys
           kids == V[q].kids
           node == Internal(InsertAt(keys, i, s), InsertAt(kids, i + 1, p))
           V2 == [P1 EXCEPT ![q] = node]
<1>10. /\ keys \in Seq(Key) /\ kids \in Seq(PageNo) /\ Len(keys) \in Nat /\ Len(kids) = Len(keys) + 1
       /\ i \in 1 .. Len(kids)
  BY <1>7 DEF InnerIs
<1>11. h = Grown(g.tree, q, node)
  <2>1. NodeAt(g.tree, q) = V[q]
    BY <1>2, <1>9, Viewed
  <2> QED
    BY <1>2, <2>1 DEF TakenIn
<1> HIDE DEF keys, kids, i, p, s
<1>12. InsertAt(keys, i, s) \in Seq(Key) /\ InsertAt(kids, i + 1, p) \in Seq(PageNo)
  <2>1. i \in 1 .. (Len(keys) + 1) /\ i + 1 \in 1 .. (Len(kids) + 1) /\ Len(kids) \in Nat
    BY <1>10
  <2> QED
    BY <1>8, <1>10, <2>1, Inserted
<1>13. node \in Node
  BY <1>12, InternalKind
<1> HIDE DEF node, P1
<1>14. /\ V2 \in Pages /\ V2[q] = node /\ \A x \in PageNo : x # q => V2[x] = P1[x]
  BY <1>8, <1>9, <1>13 DEF Pages
<1> HIDE DEF V2
<1>15. Changed(P1, q, node, V2)
  BY <1>14 DEF Changed
<1> DEFINE live2 == live \cup {p}
           lev2 == [lev EXCEPT ![p] = lev[n]]
<1>16. TreeOf(V2, r, live2, lev2, rows)
  <2>1. PICK lo, hi, up : Tree(V, r, live, lev, lo, hi, up, rows)
    BY <1>1 DEF TreeOf
  <2>2. /\ V2[n] = left /\ V2[p] = right /\ \A x \in live : x # n /\ x # q => V2[x] = V[x]
    BY <1>1, <1>5, <1>6, <1>8, <1>9, <1>14 DEF p
  <2>3. V2[q] = Internal(InsertAt(V[q].keys, i, s), InsertAt(V[q].kids, i + 1, p))
    BY <1>14 DEF node, keys, kids
  <2>4. i \in 1 .. Len(V[q].kids) /\ V[q].kids[i] = n
    BY <1>4, <1>10 DEF kids, i
  <2>5. p \notin live
    BY <1>1 DEF p
  <2>6. SplitTo(V, live, q, i, n, p, m, left, right, s, V2)
    BY <1>4, <1>6, <1>8, <1>14, <2>2, <2>3, <2>4, <2>5 DEF SplitTo
  <2> QED
    BY <2>1, <2>6, TreeSplit
<1>17. OnWay(V2, live2, lev2, path, j, key)
  <2> SUFFICES ASSUME NEW x \in 1 .. j
               PROVE  /\ path[x] \in live2 /\ lev2[path[x]] = Len(path) - x
                      /\ x < j => V2[path[x]].kids[ChildIndex(V2[path[x]], key)] = path[x + 1]
    BY DEF OnWay
  <2>1. x \in 1 .. (j + 1) /\ x < j + 1
    BY <1>3
  <2>2. /\ path[x] \in live /\ lev[path[x]] = Len(path) - x
        /\ V[path[x]].kids[ChildIndex(V[path[x]], key)] = path[x + 1]
    BY <1>1, <2>1 DEF OnWay
  <2>3. path[x] # p /\ path[x] \in PageNo
    BY <1>1, <1>5, <2>2 DEF p
  <2>4. path[x] \in live2 /\ lev2[path[x]] = Len(path) - x
    BY <1>5, <1>8, <2>2, <2>3
  <2>5. ASSUME x < j PROVE V2[path[x]] = V[path[x]]
    <3>1. path[x] # q /\ path[x] # n
      BY <1>3, <1>4, <2>1, <2>2, <2>5
    <3> QED
      BY <1>8, <1>14, <2>3, <3>1
  <2> QED
    BY <2>2, <2>4, <2>5
<1>18. P1[q] # Absent
  BY <1>5, <1>9 DEF NodeIs
<1> HIDE DEF live2, lev2
<1>19. GrownTo(g.tree, path, j, key, r, rows, S, node, V2, live2, lev2)
  BY <1>2, <1>15, <1>16, <1>17, <1>18 DEF GrownTo, P1
<1> QED
  BY <1>3, <1>11, <1>19, GrownRises

LEMMA Singles ==
  ASSUME NEW s \in Key, NEW r \in PageNo, NEW p \in PageNo
  PROVE  InsertAt(<< >>, 1, s) = <<s>> /\ InsertAt(<<r>>, 2, p) = <<r, p>>
<1>1. ASSUME NEW S, NEW e \in S, NEW z \in Seq(S), Len(z) = 0 PROVE InsertAt(z, 1, e) = <<e>>
  <2>1. /\ InsertAt(z, 1, e) \in Seq(S) /\ Len(InsertAt(z, 1, e)) = Len(z) + 1
        /\ \A x \in 1 .. (Len(z) + 1) :
             InsertAt(z, 1, e)[x] = IF x < 1 THEN z[x] ELSE IF x = 1 THEN e ELSE z[x - 1]
    <3>1. 1 \in 1 .. (Len(z) + 1)
      BY <1>1
    <3> QED
      BY <3>1, Inserted
  <2> QED
    BY <1>1, <2>1
<1>2. ASSUME NEW S, NEW d \in S, NEW e \in S, NEW z \in Seq(S), Len(z) = 1, z[1] = d
      PROVE  InsertAt(z, 2, e) = <<d, e>>
  <2>1. /\ InsertAt(z, 2, e) \in Seq(S) /\ Len(InsertAt(z, 2, e)) = Len(z) + 1
        /\ \A x \in 1 .. (Len(z) + 1) :
             InsertAt(z, 2, e)[x] = IF x < 2 THEN z[x] ELSE IF x = 2 THEN e ELSE z[x - 1]
    <3>1. 2 \in 1 .. (Len(z) + 1)
      BY <1>2
    <3> QED
      BY <3>1, Inserted
  <2> QED
    BY <1>2, <2>1
<1>3. << >> \in Seq(Key) /\ Len(<< >>) = 0
  OBVIOUS
<1>4. <<r>> \in Seq(PageNo) /\ Len(<<r>>) = 1 /\ <<r>>[1] = r
  OBVIOUS
<1> QED
  BY <1>1, <1>2, <1>3, <1>4

LEMMA RootRises ==
  ASSUME NEW g, NEW path \in Seq(PageNo), path # << >>, NEW key \in Key, NEW rows, NEW S,
         NEW r, path[1] = r, Risen(g, r, rows, S) \/ Rising(g, path, 1, key, r, rows, S),
         NEW d, d = NewRoot(g, r), ~Stopped(d.tree)
  PROVE  Stands(d.tree, d.root, rows, S)
<1>1. CASE g.split = NoSplit
  <2>1. d.tree = g.tree /\ d.root = r
    BY <1>1 DEF NewRoot
  <2>2. Risen(g, r, rows, S)
    BY <1>1 DEF Rising
  <2> QED
    BY <2>1, <2>2 DEF Risen
<1>2. CASE g.split # NoSplit
  <2> DEFINE P1 == View(g.tree)
             p  == g.split.page
             s  == g.split.key
             q  == NewPage(g.tree)
             top == Internal(<<s>>, <<r, p>>)
             P2 == View(d.tree)
  <2>1. Rising(g, path, 1, key, r, rows, S)
    BY <1>2 DEF Risen
  <2>2. PICK V, live, lev, m, left, right :
          /\ TreeOf(V, r, live, lev, rows) /\ p \notin live
          /\ Torn(V, r, P1, p, m, left, right, s)
    BY <2>1 DEF Rising
  <2>3. Kept(g.tree, S, {})
    BY <2>1 DEF Rising
  <2>4. /\ Cut(V[r], m, left, right, s) /\ s \in Key /\ p \in PageNo /\ p # r
        /\ V[r].leaf => left.next = p /\ right.next = V[r].next
        /\ P1 \in Pages /\ P1[r] = left /\ P1[p] = right
        /\ \A x \in PageNo : x # r /\ x # p => P1[x] = V[x]
    BY <2>2 DEF Torn
  <2>5. V \in Pages /\ r \in live /\ live \subseteq PageNo /\ lev \in [PageNo -> Nat]
    BY <2>2, TreeOfNode
  <2>6. q \in PageNo \cup {NoPage} /\ (q \in PageNo => P1[q] = Absent)
    BY <2>3, NewPageFree
  <2>7. d.tree = Written(g.tree, q, top) /\ d.root = q
    BY <1>2 DEF NewRoot
  <2> HIDE DEF p, s, q
  <2>8. <<s>> \in Seq(Key) /\ <<r, p>> \in Seq(PageNo) /\ << >> \in Seq(Key) /\ <<r>> \in Seq(PageNo)
    BY <2>4, <2>5
  <2>9. top \in Node
    BY <2>8, InternalKind
  <2> HIDE DEF top, P1
  <2>10. q \in PageNo /\ Kept(d.tree, S, {}) /\ Changed(P1, q, top, P2)
    <3>1. ~Stopped(Written(g.tree, q, top)) /\ {} \subseteq {} \cup {q}
      BY <2>7
    <3>2. q \in PageNo /\ Kept(Written(g.tree, q, top), S, {})
          /\ Changed(View(g.tree), q, top, View(Written(g.tree, q, top)))
      BY <2>3, <2>6, <2>9, <3>1, WrittenKeeps
    <3> QED
      BY <2>7, <3>2 DEF P1
  <2> HIDE DEF P2
  <2>11. P2 \in Pages /\ P2[q] = top /\ \A x \in PageNo : x # q => P2[x] = P1[x]
    BY <2>10 DEF Changed
  <2>12. left # Absent /\ right # Absent
    BY <2>4, AbsentAssumption DEF Cut
  <2>13. q # p /\ q # r
    BY <2>4, <2>6, <2>10, <2>12
  <2>14. q \notin live
    <3> SUFFICES ASSUME q \in live PROVE FALSE
      OBVIOUS
    <3>1. NodeIs(V[q], q, live, lev)
      BY <2>2, TreeOfNode
    <3> QED
      BY <2>4, <2>6, <2>10, <2>13, <3>1 DEF NodeIs
  <2> DEFINE only == Internal(<< >>, <<r>>)
             V1 == [V EXCEPT ![q] = only]
             live1 == live \cup {q}
             lev1 == [lev EXCEPT ![q] = lev[r] + 1]
  <2>15. only \in Node /\ only.leaf = FALSE /\ only.keys = << >> /\ only.kids = <<r>>
    BY <2>8, InternalKind
  <2> HIDE DEF only
  <2>16. V1 \in Pages /\ V1[q] = only /\ \A x \in PageNo : x # q => V1[x] = V[x]
    BY <2>5, <2>10, <2>15 DEF Pages
  <2> HIDE DEF V1
  <2>17. TreeOf(V1, q, live1, lev1, rows)
    <3>1. PICK lo, hi, up : Tree(V, r, live, lev, lo, hi, up, rows)
      BY <2>2 DEF TreeOf
    <3>2. V1[q] = Internal(<< >>, <<r>>) /\ \A x \in live : V1[x] = V[x]
      BY <2>5, <2>14, <2>16 DEF only
    <3> QED
      BY <2>10, <2>14, <2>16, <3>1, <3>2, TreeAddRoot
  <2> DEFINE live2 == live1 \cup {p}
             lev2 == [lev1 EXCEPT ![p] = lev1[r]]
  <2>18. r \in live1 /\ q \in live1 /\ p \notin live1 /\ live1 \subseteq PageNo /\ \A x \in live1 : x = q \/ x \in live
    BY <2>2, <2>5, <2>10, <2>13 DEF p
  <2> HIDE DEF live1, lev1
  <2>19. TreeOf(P2, q, live2, lev2, rows)
    <3>1. PICK lo, hi, up : Tree(V1, q, live1, lev1, lo, hi, up, rows)
      BY <2>17 DEF TreeOf
    <3>2. V1[q].kids = <<r>> /\ V1[q].keys = << >> /\ ~V1[q].leaf
      BY <2>15, <2>16
    <3>3. 1 \in 1 .. Len(V1[q].kids) /\ V1[q].kids[1] = r
      BY <3>2
    <3>4. P2[q] = Internal(InsertAt(V1[q].keys, 1, s), InsertAt(V1[q].kids, 1 + 1, p))
      <4>1. InsertAt(<< >>, 1, s) = <<s>> /\ InsertAt(<<r>>, 2, p) = <<r, p>> /\ 1 + 1 = 2
        BY <2>4, <2>5, Singles
      <4> QED
        BY <2>11, <3>2, <4>1 DEF top
    <3>5. P2[r] = left /\ P2[p] = right /\ V1[r] = V[r]
      BY <2>4, <2>5, <2>11, <2>13, <2>16
    <3>6. \A x \in live1 : x # r /\ x # q => P2[x] = V1[x]
      BY <2>4, <2>11, <2>16, <2>18
    <3>7. SplitTo(V1, live1, q, 1, r, p, m, left, right, s, P2)
      BY <2>4, <2>11, <2>18, <3>2, <3>3, <3>4, <3>5, <3>6 DEF SplitTo
    <3> QED
      BY <3>1, <3>7, TreeSplit
  <2>20. \E live0, lev0 : TreeOf(View(d.tree), d.root, live0, lev0, rows)
    BY <2>7, <2>19 DEF P2
  <2> QED
    BY <2>10, <2>20 DEF Stands
<1> QED
  BY <1>1, <1>2

-----------------------------------------------------------------------------
(* The way down                                                              *)

LEMMA WayIs ==
  ASSUME NEW t, NEW key
  PROVE  \A h \in 0 .. MaxPages : \A n \in PageNo :
           Way(t, key)[h][n] = IF NodeAt(t, n).leaf \/ h = 0 THEN <<n>>
                               ELSE <<n>> \o Way(t, key)[h - 1][NodeAt(t, n).kids[ChildIndex(NodeAt(t, n), key)]]
<1> DEFINE Body(h, d) == [n \in PageNo |->
             LET node == NodeAt(t, n)
             IN  IF node.leaf \/ h = 0 THEN <<n>> ELSE <<n>> \o d[node.kids[ChildIndex(node, key)]]]
           D == {i \in 0 .. MaxPages : \E g : g = [h \in 0 .. i |-> Body(h, g[h - 1])]}
<1>1. MaxPages \in Nat
  BY Sizes
<1>2. \A h, d : \A n \in PageNo :
        Body(h, d)[n] = IF NodeAt(t, n).leaf \/ h = 0 THEN <<n>>
                        ELSE <<n>> \o d[NodeAt(t, n).kids[ChildIndex(NodeAt(t, n), key)]]
  OBVIOUS
<1>3. \A c, d : Body(0, c) = Body(0, d)
  OBVIOUS
<1>4. Way(t, key) = CHOOSE g : g = [h \in 0 .. MaxPages |-> Body(h, g[h - 1])]
  BY DEF Way
<1> HIDE DEF Body
<1>5. 0 \in D
  <2> DEFINE g == [h \in 0 .. 0 |-> Body(0, 0)]
  <2>1. \A h \in 0 .. 0 : Body(0, 0) = Body(h, g[h - 1])
    BY <1>3
  <2>2. g = [h \in 0 .. 0 |-> Body(h, g[h - 1])]
    BY <2>1
  <2> QED
    BY <1>1, <2>2
<1>6. ASSUME NEW i \in 1 .. MaxPages, i - 1 \in D PROVE i \in D
  <2>1. PICK g : g = [h \in 0 .. (i - 1) |-> Body(h, g[h - 1])]
    BY <1>6
  <2> DEFINE f == [h \in 0 .. i |-> IF h = i THEN Body(i, g[i - 1]) ELSE g[h]]
  <2>2. ASSUME NEW h \in 0 .. i PROVE f[h] = Body(h, f[h - 1])
    <3>1. CASE h = i
      BY <1>1, <3>1
    <3>2. CASE h # i /\ h # 0
      <4>1. h \in 0 .. (i - 1) /\ h - 1 \in 0 .. i /\ h - 1 # i
        BY <1>1, <3>2
      <4> QED
        BY <2>1, <3>2, <4>1
    <3>3. CASE h # i /\ h = 0
      <4>1. 0 \in 0 .. (i - 1) /\ f[0] = g[0]
        BY <1>1, <3>3
      <4>2. g[0] = Body(0, g[0 - 1])
        BY <2>1, <4>1
      <4> QED
        BY <1>3, <3>3, <4>1, <4>2
    <3> QED
      BY <3>1, <3>2, <3>3
  <2>3. f = [h \in 0 .. i |-> f[h]]
    OBVIOUS
  <2> HIDE DEF f
  <2>4. f = [h \in 0 .. i |-> Body(h, f[h - 1])]
    BY <2>2, <2>3
  <2> QED
    BY <1>1, <2>4
<1>7. MaxPages \in D
  <2> HIDE DEF D
  <2> QED
    BY <1>1, <1>5, <1>6, UpTo
<1>8. Way(t, key) = [h \in 0 .. MaxPages |-> Body(h, Way(t, key)[h - 1])]
  BY <1>4, <1>7, Zenon
<1>9. \A h \in 0 .. MaxPages : Way(t, key)[h] = Body(h, Way(t, key)[h - 1])
  BY <1>8
<1> HIDE DEF D
<1> QED
  <2> SUFFICES ASSUME NEW h \in 0 .. MaxPages, NEW n \in PageNo
               PROVE  Way(t, key)[h][n] = IF NodeAt(t, n).leaf \/ h = 0 THEN <<n>>
                        ELSE <<n>> \o Way(t, key)[h - 1][NodeAt(t, n).kids[ChildIndex(NodeAt(t, n), key)]]
    OBVIOUS
  <2> DEFINE d == Way(t, key)[h - 1]
  <2>1. Way(t, key)[h] = Body(h, d)
    BY <1>9
  <2> HIDE DEF d
  <2>2. Body(h, d)[n] = IF NodeAt(t, n).leaf \/ h = 0 THEN <<n>>
                        ELSE <<n>> \o d[NodeAt(t, n).kids[ChildIndex(NodeAt(t, n), key)]]
    BY <1>2
  <2>3. Way(t, key)[h][n] = IF NodeAt(t, n).leaf \/ h = 0 THEN <<n>>
                        ELSE <<n>> \o d[NodeAt(t, n).kids[ChildIndex(NodeAt(t, n), key)]]
    BY <2>1, <2>2
  <2> QED
    BY <2>3 DEF d

(* There are no more than MaxPages pages.                                    *)
LEMMA FewPages ==
  ASSUME NEW N \in Nat, NEW f \in [1 .. N -> PageNo],
         \A x, y \in 1 .. N : f[x] = f[y] => x = y
  PROVE  N <= MaxPages
<1> SUFFICES ASSUME N > MaxPages PROVE FALSE
  BY Sizes
<1>1. IsFiniteSet(1 .. N) /\ Cardinality(1 .. N) = N
  BY FS_Interval
<1>2. IsFiniteSet(PageNo) /\ Cardinality(PageNo) = MaxPages
  BY Sizes, FS_Interval
<1>3. Cardinality(PageNo) < Cardinality(1 .. N)
  BY <1>1, <1>2, Sizes
<1>4. \E x, y \in 1 .. N : x # y /\ f[x] = f[y]
  BY <1>1, <1>2, <1>3, FS_PigeonHole
<1> QED
  BY <1>4

(* No leaf is as many steps away as there are pages: every level has a page. *)
LEMMA TreeHeight ==
  ASSUME NEW P, NEW r, NEW live, NEW lev, NEW rows, TreeOf(P, r, live, lev, rows)
  PROVE  lev[r] + 1 <= MaxPages /\ \A n \in live : lev[n] <= MaxPages
<1>1. /\ r \in live /\ live \subseteq PageNo /\ lev \in [PageNo -> Nat]
      /\ \A n \in live : NodeIs(P[n], n, live, lev)
  BY TreeOfNode
<1>2. lev[r] \in Nat
  BY <1>1
<1> DEFINE D == {i \in 0 .. lev[r] : \E n \in live : lev[n] = lev[r] - i}
<1>3. 0 \in D
  BY <1>1, <1>2
<1>4. ASSUME NEW i \in 1 .. lev[r], i - 1 \in D PROVE i \in D
  <2>1. PICK n \in live : lev[n] = lev[r] - (i - 1)
    BY <1>4
  <2>2. NodeIs(P[n], n, live, lev)
    BY <1>1
  <2>3. ~P[n].leaf
    BY <1>2, <2>1, <2>2 DEF NodeIs
  <2>4. InnerIs(P[n], n, live, lev)
    BY <2>2, <2>3 DEF NodeIs
  <2>5. 1 \in 1 .. Len(P[n].kids)
    BY <2>4 DEF InnerIs
  <2>6. P[n].kids[1] \in live /\ lev[P[n].kids[1]] + 1 = lev[n]
    BY <2>4, <2>5 DEF InnerIs
  <2>7. lev[P[n].kids[1]] = lev[r] - i
    BY <1>1, <1>2, <2>1, <2>6
  <2> QED
    BY <1>2, <2>6, <2>7
<1>5. \A i \in 0 .. lev[r] : \E n \in live : lev[n] = lev[r] - i
  <2> HIDE DEF D
  <2>1. \A i \in 0 .. lev[r] : i \in D
    BY <1>2, <1>3, <1>4, UpTo
  <2> QED
    BY <2>1 DEF D
<1> HIDE DEF D
<1> DEFINE N == lev[r] + 1
           f == [i \in 1 .. N |-> CHOOSE n \in live : lev[n] = lev[r] - (i - 1)]
<1>6. \A i \in 1 .. N : f[i] \in live /\ lev[f[i]] = lev[r] - (i - 1)
  <2> SUFFICES ASSUME NEW i \in 1 .. N PROVE f[i] \in live /\ lev[f[i]] = lev[r] - (i - 1)
    OBVIOUS
  <2>1. i - 1 \in 0 .. lev[r]
    BY <1>2
  <2>2. \E n \in live : lev[n] = lev[r] - (i - 1)
    BY <1>5, <2>1
  <2> QED
    BY <2>2
<1>7. f \in [1 .. N -> PageNo]
  BY <1>1, <1>6
<1> HIDE DEF f
<1>8. \A x, y \in 1 .. N : f[x] = f[y] => x = y
  BY <1>2, <1>6
<1>9. N <= MaxPages /\ N \in Nat
  BY <1>2, <1>7, <1>8, FewPages
<1>10. \A n \in live : lev[n] <= lev[r]
  <2>1. PICK lo, hi, up : Tree(P, r, live, lev, lo, hi, up, rows)
    BY DEF TreeOf
  <2>2. \A n \in live : n # r => lev[n] < lev[r]
    BY <2>1 DEF Tree
  <2> QED
    BY <1>1, <2>2
<1> QED
  BY <1>1, <1>2, <1>9, <1>10, Sizes

LEMMA Prepended ==
  ASSUME NEW S, NEW n \in S, NEW w \in Seq(S)
  PROVE  /\ <<n>> \o w \in Seq(S) /\ Len(<<n>> \o w) = Len(w) + 1 /\ (<<n>> \o w)[1] = n
         /\ \A x \in 2 .. (Len(w) + 1) : (<<n>> \o w)[x] = w[x - 1]
OBVIOUS

(* A path leads from page n to the leaf where the key belongs.               *)
Route(P, path, n, key, live, lev, lo, hi) ==
  /\ path \in Seq(PageNo) /\ Len(path) = lev[n] + 1 /\ path[1] = n
  /\ OnWay(P, live, lev, path, Len(path), key)
  /\ lo[path[Len(path)]] <= key /\ key < hi[path[Len(path)]]

LEMMA RouteOn ==
  ASSUME NEW P, NEW n \in PageNo, NEW key, NEW live, NEW lev, NEW lo, NEW hi, NEW w,
         n \in live, lev[n] \in Nat,
         NEW c, c = P[n].kids[ChildIndex(P[n], key)], lev[c] \in Nat, lev[c] + 1 = lev[n],
         Route(P, w, c, key, live, lev, lo, hi)
  PROVE  Route(P, <<n>> \o w, n, key, live, lev, lo, hi)
<1> DEFINE path == <<n>> \o w
<1>1. /\ w \in Seq(PageNo) /\ Len(w) = lev[c] + 1 /\ w[1] = c /\ Len(w) \in Nat
      /\ OnWay(P, live, lev, w, Len(w), key)
      /\ lo[w[Len(w)]] <= key /\ key < hi[w[Len(w)]]
  BY DEF Route
<1>2. /\ path \in Seq(PageNo) /\ Len(path) = Len(w) + 1 /\ path[1] = n
      /\ \A x \in 2 .. (Len(w) + 1) : path[x] = w[x - 1]
  BY <1>1, Prepended
<1> HIDE DEF path
<1>0. Len(w) \in Nat /\ Len(w) = lev[c] + 1 /\ Len(path) = Len(w) + 1 /\ Len(w) = lev[n]
  BY <1>1, <1>2
<1>3. path[Len(path)] = w[Len(w)] /\ path[2] = c /\ Len(path) = lev[n] + 1
  <2>1. Len(w) >= 1 /\ Len(path) = lev[n] + 1
    BY <1>0
  <2>2. 2 \in 2 .. (Len(w) + 1) /\ Len(path) \in 2 .. (Len(w) + 1) /\ Len(path) - 1 = Len(w) /\ 2 - 1 = 1
    BY <1>0, <2>1
  <2>3. path[2] = w[2 - 1] /\ path[Len(path)] = w[Len(path) - 1]
    BY <1>2, <2>2
  <2> QED
    BY <1>1, <2>1, <2>2, <2>3
<1>4. OnWay(P, live, lev, path, Len(path), key)
  <2> SUFFICES ASSUME NEW x \in 1 .. Len(path)
               PROVE  /\ path[x] \in live /\ lev[path[x]] = Len(path) - x
                      /\ x < Len(path) => P[path[x]].kids[ChildIndex(P[path[x]], key)] = path[x + 1]
    BY DEF OnWay
  <2>1. CASE x = 1
    <3>1. x + 1 = 2 /\ lev[n] = Len(path) - x
      BY <1>3, <2>1
    <3>2. path[x] = n /\ path[x + 1] = c
      BY <1>2, <1>3, <2>1, <3>1
    <3> QED
      BY <3>1, <3>2
  <2>2. CASE x # 1
    <3> DEFINE y == x - 1
               z == x + 1
    <3>1. /\ x \in 2 .. (Len(w) + 1) /\ y \in 1 .. Len(w) /\ Len(path) - x = Len(w) - y
          /\ x < Len(path) => y < Len(w) /\ z \in 2 .. (Len(w) + 1) /\ z - 1 = y + 1
      <4>1. Len(w) \in Nat /\ Len(path) = Len(w) + 1
        BY <1>0
      <4>2. x \in 1 .. (Len(w) + 1)
        BY <4>1
      <4>3. x \in 2 .. (Len(w) + 1) /\ y \in 1 .. Len(w) /\ (Len(w) + 1) - x = Len(w) - y
        BY <2>2, <4>1, <4>2
      <4>4. x < Len(w) + 1 => y < Len(w) /\ z \in 2 .. (Len(w) + 1) /\ z - 1 = y + 1
        BY <4>1, <4>3
      <4> QED
        BY <4>1, <4>3, <4>4
    <3> HIDE DEF z
    <3>2. path[x] = w[y]
      BY <1>2, <3>1
    <3>3. x < Len(path) => path[z] = w[y + 1]
      BY <1>2, <3>1
    <3> HIDE DEF y
    <3>4. /\ w[y] \in live /\ lev[w[y]] = Len(w) - y
          /\ y < Len(w) => P[w[y]].kids[ChildIndex(P[w[y]], key)] = w[y + 1]
      BY <1>1, <3>1 DEF OnWay
    <3>5. /\ path[x] \in live /\ lev[path[x]] = Len(path) - x
          /\ x < Len(path) => P[path[x]].kids[ChildIndex(P[path[x]], key)] = path[z]
      BY <3>1, <3>2, <3>3, <3>4
    <3> QED
      BY <3>5 DEF z
  <2> QED
    BY <2>1, <2>2
<1>5. Route(P, path, n, key, live, lev, lo, hi)
  BY <1>1, <1>2, <1>3, <1>4 DEF Route
<1> QED
  BY <1>5 DEF path

(* From every page of a tree the way leads to the leaf of the key.           *)
Leads(t, h, key, live, lev, lo, hi) ==
  \A n \in live : lev[n] <= h /\ lo[n] <= key /\ key < hi[n] =>
    Route(View(t), Way(t, key)[h][n], n, key, live, lev, lo, hi)

LEMMA LeafRoute ==
  ASSUME NEW P, NEW n \in PageNo, NEW key, NEW live, NEW lev, NEW lo, NEW hi,
         n \in live, lev[n] = 0, lo[n] <= key, key < hi[n]
  PROVE  Route(P, <<n>>, n, key, live, lev, lo, hi)
<1> DEFINE path == <<n>>
<1>1. path \in Seq(PageNo) /\ Len(path) = 1 /\ path[1] = n
  OBVIOUS
<1> HIDE DEF path
<1>2. OnWay(P, live, lev, path, Len(path), key)
  <2> SUFFICES ASSUME NEW x \in 1 .. Len(path)
               PROVE  /\ path[x] \in live /\ lev[path[x]] = Len(path) - x
                      /\ x < Len(path) => P[path[x]].kids[ChildIndex(P[path[x]], key)] = path[x + 1]
    BY DEF OnWay
  <2>1. x = 1 /\ Len(path) - x = 0 /\ ~(x < Len(path))
    BY <1>1
  <2> QED
    BY <1>1, <2>1
<1>3. Len(path) = lev[n] + 1 /\ path[Len(path)] = n
  BY <1>1
<1>4. Route(P, path, n, key, live, lev, lo, hi)
  BY <1>1, <1>2, <1>3 DEF Route
<1> QED
  BY <1>4 DEF path

LEMMA WayLeads ==
  ASSUME NEW t, NEW r, NEW live, NEW lev, NEW lo, NEW hi, NEW up, NEW rows,
         Tree(View(t), r, live, lev, lo, hi, up, rows), NEW key \in Key
  PROVE  \A h \in 0 .. MaxPages : Leads(t, h, key, live, lev, lo, hi)
<1> DEFINE P == View(t)
<1>0. live \subseteq PageNo
  BY DEF Tree
<1>1. \A n \in live : NodeAt(t, n) = P[n]
  BY <1>0 DEF View
<1> HIDE DEF P
<1>2. ASSUME NEW h \in 0 .. MaxPages, NEW n \in live, lev[n] = 0, lo[n] <= key, key < hi[n]
      PROVE  Route(P, Way(t, key)[h][n], n, key, live, lev, lo, hi)
  <2>1. P[n].leaf /\ n \in PageNo
    BY <1>2, TreeNode DEF P
  <2>2. NodeAt(t, n).leaf
    BY <1>1, <2>1
  <2>3. Way(t, key)[h][n] = <<n>>
    BY <2>1, <2>2, WayIs
  <2> QED
    BY <1>2, <2>1, <2>3, LeafRoute
<1>3. Leads(t, 0, key, live, lev, lo, hi)
  <2> SUFFICES ASSUME NEW n \in live, lev[n] <= 0, lo[n] <= key, key < hi[n]
               PROVE  Route(P, Way(t, key)[0][n], n, key, live, lev, lo, hi)
    BY DEF Leads, P
  <2>1. lev[n] \in Nat
    BY TreeNode
  <2>2. lev[n] = 0 /\ 0 \in 0 .. MaxPages
    BY <2>1, Sizes
  <2> QED
    BY <1>2, <2>2
<1>4. ASSUME NEW h \in 1 .. MaxPages, Leads(t, h - 1, key, live, lev, lo, hi)
      PROVE  Leads(t, h, key, live, lev, lo, hi)
  <2> SUFFICES ASSUME NEW n \in live, lev[n] <= h, lo[n] <= key, key < hi[n]
               PROVE  Route(P, Way(t, key)[h][n], n, key, live, lev, lo, hi)
    BY DEF Leads, P
  <2>0. h \in 0 .. MaxPages /\ h # 0 /\ h \in Nat
    BY Sizes
  <2>1. CASE P[n].leaf
    <3>1. lev[n] = 0
      BY <2>1, TreeNode DEF P
    <3> QED
      BY <1>2, <2>0, <3>1
  <2>2. CASE ~P[n].leaf
    <3> DEFINE c == P[n].kids[ChildIndex(P[n], key)]
               w == Way(t, key)[h - 1][c]
    <3>1. /\ n \in PageNo /\ lev[n] \in Nat /\ lo[n] \in Ends /\ hi[n] \in Ends
          /\ InnerAt(P[n], n, live, lev, lo, hi, up)
          /\ \A i \in 1 .. Len(P[n].kids) :
               /\ P[n].kids[i] \in live /\ lo[P[n].kids[i]] <= hi[P[n].kids[i]]
               /\ lev[P[n].kids[i]] + 1 = lev[n] /\ up[P[n].kids[i]] = n
      BY <2>2, TreeNode DEF P
    <3>2. Parts(P[n].keys, P[n].kids, lo[n], hi[n], lo, hi)
      BY <3>1 DEF InnerAt
    <3>3. ChildIndex(P[n], key) \in 1 .. Len(P[n].kids) /\ lo[c] <= key /\ key < hi[c]
      BY <3>1, <3>2, ChildPlace
    <3>4. c \in live /\ lev[c] + 1 = lev[n]
      BY <3>1, <3>3
    <3>5. lev[c] \in Nat
      BY <3>4, TreeNode
    <3>6. lev[c] <= h - 1
      BY <2>0, <3>1, <3>4, <3>5
    <3>7. Route(P, w, c, key, live, lev, lo, hi)
      BY <1>4, <3>3, <3>4, <3>6 DEF Leads, P
    <3>8. Way(t, key)[h][n] = <<n>> \o w
      <4>1. ~NodeAt(t, n).leaf /\ ~(NodeAt(t, n).leaf \/ h = 0) /\ NodeAt(t, n) = P[n]
        BY <1>1, <2>0, <2>2
      <4>2. Way(t, key)[h][n] = <<n>> \o Way(t, key)[h - 1][NodeAt(t, n).kids[ChildIndex(NodeAt(t, n), key)]]
        BY <2>0, <3>1, <4>1, WayIs, Zenon
      <4> QED
        BY <4>1, <4>2
    <3> HIDE DEF w
    <3>9. Route(P, <<n>> \o w, n, key, live, lev, lo, hi)
      BY <3>1, <3>4, <3>5, <3>7, RouteOn
    <3> QED
      BY <3>8, <3>9
  <2> QED
    BY <2>1, <2>2
<1> DEFINE D == {h \in 0 .. MaxPages : Leads(t, h, key, live, lev, lo, hi)}
<1>5. MaxPages \in Nat
  BY Sizes
<1>6. 0 \in D
  BY <1>3, <1>5
<1>7. ASSUME NEW h \in 1 .. MaxPages, h - 1 \in D PROVE h \in D
  BY <1>4, <1>5, <1>7
<1>8. \A h \in 0 .. MaxPages : h \in D
  <2> HIDE DEF D
  <2> QED
    BY <1>5, <1>6, <1>7, UpTo
<1> QED
  BY <1>8

(* The path of a key leads from the root to the leaf where the key belongs,  *)
(* and what is searched for is found there.                                  *)
LEMMA PathLeads ==
  ASSUME NEW t, NEW r, NEW live, NEW lev, NEW lo, NEW hi, NEW up, NEW rows,
         Tree(View(t), r, live, lev, lo, hi, up, rows), NEW key \in Key
  PROVE  Route(View(t), Path(t, r, key), r, key, live, lev, lo, hi)
<1>1. r \in live /\ lo[r] = 1 /\ hi[r] = MaxKey + 1
  BY DEF Tree
<1>2. TreeOf(View(t), r, live, lev, rows)
  BY DEF TreeOf
<1>3. lev[r] <= MaxPages
  BY <1>1, <1>2, TreeHeight
<1>4. lo[r] <= key /\ key < hi[r] /\ MaxPages \in 0 .. MaxPages
  BY <1>1, Sizes
<1>5. Leads(t, MaxPages, key, live, lev, lo, hi)
  BY <1>4, WayLeads
<1> QED
  BY <1>1, <1>3, <1>4, <1>5 DEF Leads, Path

LEMMA RouteEnds ==
  ASSUME NEW t, NEW r, NEW live, NEW lev, NEW lo, NEW hi, NEW up, NEW rows,
         Tree(View(t), r, live, lev, lo, hi, up, rows), NEW key \in Key
  PROVE  LET path == Path(t, r, key)
             n    == Last(path)
         IN  /\ path \in Seq(PageNo) /\ Len(path) \in Nat /\ Len(path) >= 1 /\ path[1] = r
             /\ n = path[Len(path)] /\ n \in live /\ n \in PageNo /\ View(t)[n].leaf
             /\ NodeAt(t, n) = View(t)[n] /\ lo[n] <= key /\ key < hi[n]
             /\ Holds(View(t)[n].cells, lo[n], hi[n], rows)
             /\ OnWay(View(t), live, lev, path, Len(path), key)
<1> DEFINE path == Path(t, r, key)
           n == path[Len(path)]
<1>1. Route(View(t), path, r, key, live, lev, lo, hi)
  BY PathLeads
<1>0. r \in live
  BY DEF Tree
<1> HIDE DEF path
<1>2. /\ path \in Seq(PageNo) /\ Len(path) = lev[r] + 1 /\ path[1] = r
      /\ OnWay(View(t), live, lev, path, Len(path), key)
      /\ lo[n] <= key /\ key < hi[n]
  BY <1>1 DEF Route
<1>3. Len(path) \in Nat /\ Len(path) >= 1 /\ Len(path) \in 1 .. Len(path)
  <2>1. lev[r] \in Nat
    BY <1>0, TreeNode
  <2> QED
    BY <1>2, <2>1
<1>4. n \in live /\ lev[n] = Len(path) - Len(path)
  BY <1>2, <1>3 DEF OnWay
<1>5. n \in PageNo /\ View(t)[n].leaf
  <2>1. lev[n] = 0
    BY <1>3, <1>4
  <2> HIDE DEF n
  <2> QED
    BY <1>4, <2>1, TreeNode
<1>6. Holds(View(t)[n].cells, lo[n], hi[n], rows)
  <2> HIDE DEF n
  <2> QED
    BY <1>4, <1>5, TreeNode
<1>7. Last(path) = n
  BY DEF Last
<1> QED
  BY <1>2, <1>3, <1>4, <1>5, <1>6, <1>7 DEF path, View

LEMMA SearchFinds ==
  ASSUME NEW t, NEW r, NEW live, NEW lev, NEW rows, TreeOf(View(t), r, live, lev, rows)
  PROVE  /\ \A key \in Key : Search(t, r, key) = rows[key]
         /\ Found(t, r) = rows
<1>1. PICK lo, hi, up : Tree(View(t), r, live, lev, lo, hi, up, rows)
  BY DEF TreeOf
<1>2. rows \in Rows
  BY <1>1 DEF Tree
<1>3. ASSUME NEW key \in Key PROVE Search(t, r, key) = rows[key]
  <2> DEFINE n == Last(Path(t, r, key))
             node == NodeAt(t, n)
  <2>1. /\ node = View(t)[n] /\ lo[n] <= key /\ key < hi[n]
        /\ Holds(View(t)[n].cells, lo[n], hi[n], rows)
    BY <1>1, RouteEnds
  <2>2. Search(t, r, key) = IF Has(node, key) THEN node.cells[CellIndex(node, key)].len ELSE NoRow
    BY DEF Search
  <2> HIDE DEF node, n
  <2>3. Holds(node.cells, lo[n], hi[n], rows)
    BY <2>1
  <2>4. /\ Has(node, key) <=> rows[key] # NoRow
        /\ Has(node, key) => node.cells[CellIndex(node, key)].len = rows[key]
    <3> DEFINE a == lo[n]
               b == hi[n]
    <3>1. Holds(node.cells, a, b, rows) /\ a <= key /\ key < b
      BY <2>1, <2>3
    <3> HIDE DEF a, b
    <3> QED
      BY <1>2, <3>1, LeafFinds
  <2> QED
    BY <2>2, <2>4
<1>4. Found(t, r) = rows
  BY <1>2, <1>3 DEF Found, Rows
<1> QED
  BY <1>3, <1>4

(* Each step up the path takes in what the step below has made.              *)
LEMMA GrowsIs ==
  ASSUME NEW path \in Seq(PageNo), NEW first, NEW key
  PROVE  \A i \in 1 .. Len(path) :
           Grows(first, path, key)[i] = IF i = 1 THEN first ELSE TakenIn(key, Grows(first, path, key)[i - 1], path[Len(path) + 1 - i])
<1> DEFINE N == Len(path)
           Body(h, d) == IF h = 1 THEN first ELSE TakenIn(key, d, path[Len(path) + 1 - h])
           D == {i \in 0 .. N : \E g : g = [h \in 1 .. i |-> Body(h, g[h - 1])]}
<1>1. N \in Nat /\ DOMAIN path = 1 .. N
  OBVIOUS
<1>2. \A i \in 1 .. N : \A d : Body(i, d) = IF i = 1 THEN first ELSE TakenIn(key, d, path[Len(path) + 1 - i])
  OBVIOUS
<1>3. \A c, d : Body(1, c) = Body(1, d)
  OBVIOUS
<1>4. Grows(first, path, key) = CHOOSE g : g = [h \in 1 .. N |-> Body(h, g[h - 1])]
  BY <1>1 DEF Grows
<1> HIDE DEF Body, N
<1>5. 0 \in D
  <2> DEFINE g == [h \in 1 .. 0 |-> 0]
  <2>1. g = [h \in 1 .. 0 |-> Body(h, g[h - 1])]
    OBVIOUS
  <2>2. \E c : c = [h \in 1 .. 0 |-> Body(h, c[h - 1])]
    BY <2>1, Zenon
  <2>3. 0 \in 0 .. N
    BY <1>1
  <2> QED
    BY <2>2, <2>3, Zenon
<1>6. ASSUME NEW i \in 1 .. N, i - 1 \in D PROVE i \in D
  <2>1. PICK g : g = [h \in 1 .. (i - 1) |-> Body(h, g[h - 1])]
    BY <1>6
  <2> DEFINE f == [h \in 1 .. i |-> IF h = i THEN Body(i, g[i - 1]) ELSE g[h]]
  <2>2. ASSUME NEW h \in 1 .. i PROVE f[h] = Body(h, f[h - 1])
    <3>1. CASE h = i /\ h # 1
      <4>1. h - 1 \in 1 .. i /\ h - 1 # i
        BY <1>1, <3>1
      <4> QED
        BY <3>1, <4>1
    <3>2. CASE h = i /\ h = 1
      BY <1>3, <3>2
    <3>3. CASE h # i /\ h # 1
      <4>1. h \in 1 .. (i - 1) /\ h - 1 \in 1 .. i /\ h - 1 # i
        BY <1>1, <3>3
      <4> QED
        BY <2>1, <3>3, <4>1
    <3>4. CASE h # i /\ h = 1
      <4>1. 1 \in 1 .. (i - 1) /\ f[1] = g[1]
        BY <1>1, <3>4
      <4>2. g[1] = Body(1, g[1 - 1])
        BY <2>1, <4>1
      <4> QED
        BY <1>3, <3>4, <4>1, <4>2
    <3> QED
      BY <3>1, <3>2, <3>3, <3>4
  <2>3. f = [h \in 1 .. i |-> f[h]]
    OBVIOUS
  <2> HIDE DEF f
  <2>4. f = [h \in 1 .. i |-> Body(h, f[h - 1])]
    BY <2>2, <2>3
  <2> QED
    BY <1>1, <2>4
<1>7. N \in D
  <2> HIDE DEF D
  <2> QED
    BY <1>1, <1>5, <1>6, UpTo
<1>8. Grows(first, path, key) = [h \in 1 .. N |-> Body(h, Grows(first, path, key)[h - 1])]
  BY <1>4, <1>7, Zenon
<1>9. \A i \in 1 .. N : Grows(first, path, key)[i] = Body(i, Grows(first, path, key)[i - 1])
  BY <1>8
<1>10. \A i \in 1 .. N :
           Grows(first, path, key)[i] = IF i = 1 THEN first ELSE TakenIn(key, Grows(first, path, key)[i - 1], path[Len(path) + 1 - i])
  BY <1>2, <1>9
<1> QED
  BY <1>10 DEF N

(* What has come of the rows when the step from node j of the path is done.  *)
Grew(g, path, j, key, r, rows, S) ==
  Stopped(g.tree) \/ Risen(g, r, rows, S) \/ Rising(g, path, j, key, r, rows, S)

LEMMA GrowsRise ==
  ASSUME NEW path \in Seq(PageNo), Len(path) >= 1, NEW key \in Key, NEW r, NEW rows, NEW S, NEW first,
         Grew(first, path, Len(path), key, r, rows, S)
  PROVE  Grew(Grows(first, path, key)[Len(path)], path, 1, key, r, rows, S)
<1> DEFINE N == Len(path)
           f == Grows(first, path, key)
           At(i) == Grew(f[i], path, N + 1 - i, key, r, rows, S)
           D == {i \in 0 .. N : i = 0 \/ At(i)}
<1>1. N \in Nat /\ N >= 1
  OBVIOUS
<1>2. \A i \in 1 .. N : f[i] = IF i = 1 THEN first ELSE TakenIn(key, f[i - 1], path[N + 1 - i])
  BY GrowsIs
<1> HIDE DEF f
<1>3. At(1)
  <2>1. f[1] = first
    BY <1>1, <1>2
  <2>2. N + 1 - 1 = N
    BY <1>1
  <2> QED
    BY <2>1, <2>2
<1>4. ASSUME NEW i \in 1 .. N, i # 1, At(i - 1) PROVE At(i)
  <2> DEFINE j == N + 1 - i
             g == f[i - 1]
             h == f[i]
  <2>1. j \in 1 .. (Len(path) - 1) /\ N + 1 - (i - 1) = j + 1
    BY <1>1, <1>4
  <2>2. h = TakenIn(key, g, path[j])
    BY <1>2, <1>4
  <2>3. Grew(g, path, j + 1, key, r, rows, S)
    BY <1>4, <2>1
  <2> HIDE DEF g, h, j, N
  <2>4. CASE Stopped(g.tree)
    <3>1. h = g
      BY <2>2, <2>4 DEF TakenIn
    <3> QED
      BY <2>4, <3>1 DEF Grew, h, j
  <2>5. CASE Risen(g, r, rows, S)
    <3>1. h = g
      BY <2>2, <2>5 DEF TakenIn, Risen
    <3> QED
      BY <2>5, <3>1 DEF Grew, h, j
  <2>6. CASE Rising(g, path, j + 1, key, r, rows, S)
    <3>1. ~Stopped(h.tree) => Risen(h, r, rows, S) \/ Rising(h, path, j, key, r, rows, S)
      BY <2>1, <2>2, <2>6, TakenInRises
    <3> QED
      BY <3>1 DEF Grew, h, j
  <2> QED
    BY <2>3, <2>4, <2>5, <2>6 DEF Grew
<1>5. 0 \in D
  BY <1>1
<1>6. ASSUME NEW i \in 1 .. N, i - 1 \in D PROVE i \in D
  <2> HIDE DEF At
  <2> QED
    BY <1>1, <1>3, <1>4, <1>6
<1>7. N \in D
  <2> HIDE DEF D
  <2>1. \A i \in 0 .. N : i \in D
    BY <1>1, <1>5, <1>6, UpTo
  <2> QED
    BY <1>1, <2>1
<1>8. At(N) /\ N + 1 - N = 1
  BY <1>1, <1>7
<1> QED
  BY <1>8 DEF f

(* A row changes in the leaf at the end of the path.                         *)
LeafTakes(t, r, rows, S, key, row, n, node, path) ==
  /\ Kept(t, S, {}) /\ n = Last(path) /\ n \in PageNo /\ View(t)[n] # Absent /\ View(t)[n].leaf
  /\ node \in Node /\ node.leaf
  /\ \E live, lev, V : /\ Changed(View(t), n, node, V)
                       /\ TreeOf(V, r, live, lev, [rows EXCEPT ![key] = row])
                       /\ OnWay(V, live, lev, path, Len(path), key)

LEMMA LeafChanges ==
  ASSUME NEW t, NEW r, NEW live, NEW lev, NEW lo, NEW hi, NEW up, NEW rows, NEW S,
         Tree(View(t), r, live, lev, lo, hi, up, rows), Kept(t, S, {}),
         NEW key \in Key, NEW row \in Lengths \cup {NoRow}, NEW path, path = Path(t, r, key),
         NEW n, n = Last(path), NEW node \in Node, node.leaf, node.next = View(t)[n].next,
         Holds(node.cells, lo[n], hi[n], [rows EXCEPT ![key] = row])
  PROVE  LeafTakes(t, r, rows, S, key, row, n, node, path)
<1> DEFINE V == [View(t) EXCEPT ![n] = node]
<1>1. /\ path \in Seq(PageNo) /\ Len(path) \in Nat /\ Len(path) >= 1
      /\ n = path[Len(path)] /\ n \in live /\ n \in PageNo /\ View(t)[n].leaf
      /\ lo[n] <= key /\ key < hi[n]
      /\ OnWay(View(t), live, lev, path, Len(path), key)
  BY RouteEnds
<1>2. Tree(V, r, live, lev, lo, hi, up, [rows EXCEPT ![key] = row])
  <2> HIDE DEF V
  <2> QED
    BY <1>1, TreeLeaf DEF V
<1>3. TreeOf(V, r, live, lev, [rows EXCEPT ![key] = row])
  BY <1>2 DEF TreeOf
<1>4. View(t) \in Pages /\ View(t)[n] # Absent
  <2>1. View(t)[n] # Absent
    BY <1>1, TreeNode
  <2> QED
    BY <2>1, Viewed
<1>5. V \in Pages /\ V[n] = node /\ \A x \in PageNo : x # n => V[x] = View(t)[x]
  BY <1>1, <1>4 DEF Pages
<1> HIDE DEF V
<1>6. OnWay(V, live, lev, path, Len(path), key)
  <2> SUFFICES ASSUME NEW x \in 1 .. Len(path)
               PROVE  /\ path[x] \in live /\ lev[path[x]] = Len(path) - x
                      /\ x < Len(path) => V[path[x]].kids[ChildIndex(V[path[x]], key)] = path[x + 1]
    BY DEF OnWay
  <2>1. /\ path[x] \in live /\ lev[path[x]] = Len(path) - x
        /\ x < Len(path) => View(t)[path[x]].kids[ChildIndex(View(t)[path[x]], key)] = path[x + 1]
    BY <1>1 DEF OnWay
  <2>2. lev[n] = 0
    BY <1>1, TreeNode
  <2>3. x < Len(path) => path[x] # n
    BY <1>1, <2>1, <2>2
  <2>4. path[x] \in PageNo
    BY <1>1
  <2> QED
    BY <1>5, <2>1, <2>3, <2>4
<1>7. Changed(View(t), n, node, V)
  BY <1>5 DEF Changed
<1> QED
  BY <1>1, <1>3, <1>4, <1>6, <1>7 DEF LeafTakes

LEMMA StandsParts ==
  ASSUME NEW t, NEW r, NEW rows, NEW S, Stands(t, r, rows, S)
  PROVE  Kept(t, S, {}) /\ \E live, lev, lo, hi, up : Tree(View(t), r, live, lev, lo, hi, up, rows)
BY DEF Stands, TreeOf

(* An insert does what it is called for, unless it raises.                   *)
LEMMA InsertDoes ==
  ASSUME NEW t, NEW r, NEW rows, NEW S, Stands(t, r, rows, S), NEW key \in Key, rows[key] = NoRow,
         NEW len \in Lengths, NEW d, d = Insert(t, r, key, len), ~Stopped(d.tree)
  PROVE  Stands(d.tree, d.root, [rows EXCEPT ![key] = len], S)
<1> DEFINE path == Path(t, r, key)
           n    == Last(path)
           leaf == NodeAt(t, n)
           u    == Loaded(t, ToSet(path))
           node == Leaf(InsertAt(leaf.cells, CellIndex(leaf, key), Cell(key, len)), leaf.next)
           first == Grown(u, n, node)
           last == Grows(first, path, key)[Len(path)]
           rows2 == [rows EXCEPT ![key] = len]
<1>1. PICK live, lev, lo, hi, up : Tree(View(t), r, live, lev, lo, hi, up, rows)
  BY StandsParts
<1>2. Kept(t, S, {})
  BY StandsParts
<1>3. d = NewRoot(last, r)
  BY DEF Insert
<1>4. Kept(u, S, {}) /\ View(u) = View(t)
  BY <1>2, LoadedKeeps
<1>5. rows \in Rows
  BY <1>1 DEF Tree
<1>6. /\ path \in Seq(PageNo) /\ Len(path) \in Nat /\ Len(path) >= 1 /\ path[1] = r
      /\ leaf = View(t)[n] /\ lo[n] <= key /\ key < hi[n]
      /\ Holds(View(t)[n].cells, lo[n], hi[n], rows)
      /\ View(t)[n].leaf /\ View(t)[n] \in Node
      /\ n = path[Len(path)]
  <2>1. n \in live
    BY <1>1, RouteEnds
  <2> QED
    BY <1>1, <2>1, RouteEnds, TreeNode
<1> HIDE DEF path, u, last
<1>7. Holds(InsertAt(leaf.cells, CellIndex(leaf, key), Cell(key, len)), lo[n], hi[n], rows2)
  <2> DEFINE a == lo[n]
             b == hi[n]
  <2>1. Holds(leaf.cells, a, b, rows) /\ a <= key /\ key < b
    BY <1>6
  <2> HIDE DEF a, b, leaf
  <2>2. Holds(InsertAt(leaf.cells, CellIndex(leaf, key), Cell(key, len)), a, b, rows2)
    BY <1>5, <2>1, HoldsInserted
  <2> QED
    BY <2>2 DEF a, b
<1>8. /\ node \in Node /\ node.leaf /\ Holds(node.cells, lo[n], hi[n], rows2)
      /\ node.next = leaf.next
  <2>1. leaf.next \in PageNo \cup {NoPage}
    BY <1>6, NodeKinds
  <2>2. InsertAt(leaf.cells, CellIndex(leaf, key), Cell(key, len)) \in Seq(Cells)
    BY <1>7 DEF Holds
  <2> HIDE DEF leaf, n
  <2>3. node \in Node /\ node.leaf = TRUE
        /\ node.cells = InsertAt(leaf.cells, CellIndex(leaf, key), Cell(key, len))
        /\ node.next = leaf.next
    BY <2>1, <2>2, LeafKind
  <2> HIDE DEF node
  <2> QED
    BY <1>7, <2>3
<1> HIDE DEF node, first, rows2
<1>9. LeafTakes(t, r, rows, S, key, len, n, node, path)
  BY <1>1, <1>2, <1>6, <1>8, LeafChanges DEF path, rows2
<1>10. Grew(first, path, Len(path), key, r, rows2, S)
  <2>1. PICK live2, lev2, V : /\ Changed(View(t), n, node, V)
                              /\ TreeOf(V, r, live2, lev2, rows2)
                              /\ OnWay(V, live2, lev2, path, Len(path), key)
    BY <1>9 DEF LeafTakes, rows2
  <2>2. View(t)[n] # Absent
    BY <1>9 DEF LeafTakes
  <2>3. GrownTo(u, path, Len(path), key, r, rows2, S, node, V, live2, lev2)
    BY <1>4, <1>6, <2>1, <2>2 DEF GrownTo
  <2>4. Len(path) \in Nat \ {0} /\ first = Grown(u, path[Len(path)], node)
    BY <1>6 DEF first
  <2> QED
    BY <2>3, <2>4, GrownRises DEF Grew
<1>11. Grew(last, path, 1, key, r, rows2, S)
  BY <1>6, <1>10, GrowsRise DEF last
<1>12. ~Stopped(last.tree)
  <2> SUFFICES ASSUME Stopped(last.tree) PROVE FALSE
    OBVIOUS
  <2>1. CASE last.split = NoSplit
    BY <1>3, <2>1 DEF NewRoot
  <2>2. CASE last.split # NoSplit
    <3>1. \E p, top : d.tree = Written(last.tree, p, top)
      BY <1>3, <2>2 DEF NewRoot
    <3>2. d.tree = last.tree
      BY <3>1, StoppedStays
    <3> QED
      BY <3>2
  <2> QED
    BY <2>1, <2>2
<1>13. path # << >>
  BY <1>6
<1>14. Stands(d.tree, d.root, rows2, S)
  BY <1>3, <1>6, <1>11, <1>12, <1>13, RootRises DEF Grew
<1> QED
  BY <1>14 DEF rows2

(* So does an upsert of a key that is there.                                 *)
LEMMA ReplaceDoes ==
  ASSUME NEW t, NEW r, NEW rows, NEW S, Stands(t, r, rows, S), NEW key \in Key, rows[key] # NoRow,
         NEW len \in Lengths, NEW d, d = Replace(t, r, key, len), ~Stopped(d.tree)
  PROVE  Stands(d.tree, d.root, [rows EXCEPT ![key] = len], S)
<1> DEFINE path == Path(t, r, key)
           n    == Last(path)
           leaf == NodeAt(t, n)
           u    == Loaded(t, ToSet(path))
           node == Leaf(ReplaceAt(leaf.cells, CellIndex(leaf, key), Cell(key, len)), leaf.next)
           rows2 == [rows EXCEPT ![key] = len]
<1>1. PICK live, lev, lo, hi, up : Tree(View(t), r, live, lev, lo, hi, up, rows)
  BY StandsParts
<1>2. Kept(t, S, {})
  BY StandsParts
<1>3. d.tree = Written(Edited(u, n, node), n, node) /\ d.root = r
  BY DEF Replace
<1>4. Kept(u, S, {}) /\ View(u) = View(t)
  BY <1>2, LoadedKeeps
<1>5. rows \in Rows
  BY <1>1 DEF Tree
<1>6. /\ leaf = View(t)[n] /\ lo[n] <= key /\ key < hi[n]
      /\ Holds(View(t)[n].cells, lo[n], hi[n], rows)
      /\ View(t)[n].leaf /\ View(t)[n] \in Node /\ n \in PageNo
  <2>1. n \in live
    BY <1>1, RouteEnds
  <2> QED
    BY <1>1, <2>1, RouteEnds, TreeNode
<1> HIDE DEF path, u
<1>7. Holds(ReplaceAt(leaf.cells, CellIndex(leaf, key), Cell(key, len)), lo[n], hi[n], rows2)
  <2> DEFINE a == lo[n]
             b == hi[n]
  <2>1. Holds(leaf.cells, a, b, rows) /\ a <= key /\ key < b
    BY <1>6
  <2> HIDE DEF a, b, leaf
  <2>2. Holds(ReplaceAt(leaf.cells, CellIndex(leaf, key), Cell(key, len)), a, b, rows2)
    BY <1>5, <2>1, HoldsReplaced
  <2> QED
    BY <2>2 DEF a, b
<1>8. /\ node \in Node /\ node.leaf /\ Holds(node.cells, lo[n], hi[n], rows2)
      /\ node.next = leaf.next
  <2>1. leaf.next \in PageNo \cup {NoPage}
    BY <1>6, NodeKinds
  <2>2. ReplaceAt(leaf.cells, CellIndex(leaf, key), Cell(key, len)) \in Seq(Cells)
    BY <1>7 DEF Holds
  <2> HIDE DEF leaf, n
  <2>3. node \in Node /\ node.leaf = TRUE
        /\ node.cells = ReplaceAt(leaf.cells, CellIndex(leaf, key), Cell(key, len))
        /\ node.next = leaf.next
    BY <2>1, <2>2, LeafKind
  <2> HIDE DEF node
  <2> QED
    BY <1>7, <2>3
<1> HIDE DEF node, rows2, n
<1>9. LeafTakes(t, r, rows, S, key, len, n, node, path)
  BY <1>1, <1>2, <1>6, <1>8, LeafChanges DEF path, rows2, n
<1>10. PICK live2, lev2, V : Changed(View(t), n, node, V) /\ TreeOf(V, r, live2, lev2, rows2)
  BY <1>9 DEF LeafTakes, rows2
<1>11. View(t)[n] # Absent
  BY <1>9 DEF LeafTakes
<1> DEFINE w == Edited(u, n, node)
           E == {n}
<1>12. n \in E /\ {} \subseteq E /\ E \subseteq {} \cup {n}
  OBVIOUS
<1> HIDE DEF E
<1>13. Kept(w, S, E) /\ Changed(View(t), n, node, View(w))
  <2>1. View(u)[n] # Absent
    BY <1>4, <1>11
  <2> QED
    BY <1>4, <1>6, <1>8, <1>12, <2>1, EditedKeeps
<1>14. View(t) \in Pages
  BY <1>2, Viewed
<1>15. View(w) = V
  BY <1>6, <1>10, <1>13, <1>14, ChangedSame
<1> HIDE DEF w
<1>16. Kept(d.tree, S, {}) /\ Changed(V, n, node, View(d.tree))
  <2>1. n \in PageNo \cup {NoPage} /\ ~Stopped(Written(w, n, node))
    BY <1>3, <1>6 DEF w
  <2>2. Kept(Written(w, n, node), S, {}) /\ Changed(View(w), n, node, View(Written(w, n, node)))
    BY <1>8, <1>12, <1>13, <2>1, WrittenKeeps
  <2> QED
    BY <1>3, <1>15, <2>2 DEF w
<1>17. View(d.tree) = V
  <2>1. V \in Pages /\ Changed(V, n, node, V)
    BY <1>10 DEF Changed
  <2> QED
    BY <1>6, <1>16, <2>1, ChangedSame
<1>18. Stands(d.tree, d.root, rows2, S)
  BY <1>3, <1>10, <1>16, <1>17 DEF Stands
<1> QED
  BY <1>18 DEF rows2

-----------------------------------------------------------------------------
(* Borrowing and merging                                                     *)

(* Two sequences one after the other, cut at the seam and next to it.        *)
LEMMA Joints ==
  ASSUME NEW T, NEW a \in Seq(T), NEW b \in Seq(T)
  PROVE  /\ a \o b \in Seq(T) /\ Len(a \o b) = Len(a) + Len(b)
         /\ SubSeq(a \o b, 1, Len(a)) = a /\ SubSeq(a \o b, Len(a) + 1, Len(a) + Len(b)) = b
         /\ \A x \in 1 .. Len(a) : (a \o b)[x] = a[x]
<1>1. /\ a \o b \in Seq(T) /\ Len(a \o b) = Len(a) + Len(b)
      /\ \A x \in 1 .. Len(a) : (a \o b)[x] = a[x]
      /\ \A x \in (Len(a) + 1) .. (Len(a) + Len(b)) : (a \o b)[x] = b[x - Len(a)]
  OBVIOUS
<1> DEFINE c == a \o b
<1>2. Len(a) \in 0 .. Len(c) /\ Len(a) \in Nat /\ Len(b) \in Nat
  BY <1>1
<1> HIDE DEF c
<1>3. SubSeq(c, 1, Len(a)) = a
  BY <1>1, <1>2, CutSeq DEF c
<1>4. SubSeq(c, Len(a) + 1, Len(a) + Len(b)) = b
  <2> DEFINE d == SubSeq(c, Len(a) + 1, Len(c))
  <2>1. d \in Seq(T) /\ Len(d) = Len(b) /\ \A x \in 1 .. Len(b) : d[x] = c[Len(a) + x]
    BY <1>1, <1>2, CutSeq DEF c
  <2>2. \A x \in 1 .. Len(b) : c[Len(a) + x] = b[x]
    <3> SUFFICES ASSUME NEW x \in 1 .. Len(b) PROVE c[Len(a) + x] = b[x]
      OBVIOUS
    <3> DEFINE y == Len(a) + x
    <3>1. y \in (Len(a) + 1) .. (Len(a) + Len(b)) /\ y - Len(a) = x
      BY <1>2
    <3> HIDE DEF y
    <3>2. c[y] = b[x]
      BY <1>1, <3>1 DEF c
    <3> QED
      BY <3>2 DEF y
  <2> HIDE DEF d
  <2>3. d = b
    BY <2>1, <2>2
  <2> QED
    BY <1>1, <2>3 DEF d, c
<1> QED
  BY <1>1, <1>3, <1>4 DEF c

LEMMA Foremost ==
  ASSUME NEW T, NEW a \in Seq(T), NEW b \in Seq(T), Len(a) = 1
  PROVE  (a \o b)[1] = a[1]
<1>1. \A x \in 1 .. Len(a) : (a \o b)[x] = a[x]
  BY Joints
<1>2. 1 \in 1 .. Len(a)
  OBVIOUS
<1> QED
  BY <1>1, <1>2

LEMMA Ends1 ==
  ASSUME NEW T, NEW a \in Seq(T), Len(a) >= 1
  PROVE  /\ Front(a) \in Seq(T) /\ Len(Front(a)) = Len(a) - 1 /\ a = Front(a) \o <<Last(a)>>
         /\ Tail(a) \in Seq(T) /\ Len(Tail(a)) = Len(a) - 1 /\ a = <<Head(a)>> \o Tail(a)
         /\ Last(a) \in T /\ Head(a) \in T /\ Last(a) = a[Len(a)] /\ Head(a) = a[1]
         /\ \A e \in T : Append(a, e) = a \o <<e>>
<1>1. a # << >>
  OBVIOUS
<1>2. Front(a) = SubSeq(a, 1, Len(a) - 1) /\ Last(a) = a[Len(a)]
  BY DEF Front, Last
<1>3. Len(a) - 1 \in 0 .. Len(a)
  OBVIOUS
<1>4. /\ Front(a) \in Seq(T) /\ Len(Front(a)) = Len(a) - 1
      /\ \A x \in 1 .. (Len(a) - 1) : Front(a)[x] = a[x]
  <2> DEFINE m == Len(a) - 1
  <2>1. m \in 0 .. Len(a) /\ Front(a) = SubSeq(a, 1, m)
    BY <1>2, <1>3
  <2> HIDE DEF m
  <2>2. /\ SubSeq(a, 1, m) \in Seq(T) /\ Len(SubSeq(a, 1, m)) = m
        /\ \A x \in 1 .. m : SubSeq(a, 1, m)[x] = a[x]
    BY <2>1, CutSeq
  <2> QED
    BY <2>1, <2>2 DEF m
<1>5. Last(a) \in T
  BY <1>2
<1> DEFINE f == Front(a)
           z == f \o <<Last(a)>>
<1> HIDE DEF f
<1>6. f \in Seq(T) /\ Len(f) = Len(a) - 1 /\ \A x \in 1 .. (Len(a) - 1) : f[x] = a[x]
  BY <1>4 DEF f
<1>7. z \in Seq(T) /\ Len(z) = Len(a) /\ \A x \in 1 .. Len(a) : z[x] = a[x]
  BY <1>2, <1>5, <1>6
<1>8. a = z
  <2> HIDE DEF z
  <2> QED
    BY <1>7
<1>9. Tail(a) \in Seq(T) /\ Len(Tail(a)) = Len(a) - 1 /\ Head(a) \in T /\ Head(a) = a[1]
  BY <1>1
<1>10. a = <<Head(a)>> \o Tail(a)
  <2> DEFINE y == <<Head(a)>> \o Tail(a)
  <2>1. y \in Seq(T) /\ Len(y) = Len(a) /\ \A x \in 1 .. Len(a) : y[x] = a[x]
    BY <1>9
  <2> HIDE DEF y
  <2>2. a = y
    BY <2>1
  <2> QED
    BY <2>2 DEF y
<1>11. \A e \in T : Append(a, e) = a \o <<e>>
  OBVIOUS
<1> QED
  BY <1>2, <1>4, <1>5, <1>8, <1>9, <1>10, <1>11 DEF f

LEMMA Regrouped ==
  ASSUME NEW T, NEW a \in Seq(T), NEW b \in Seq(T), NEW c \in Seq(T)
  PROVE  (a \o b) \o c = a \o (b \o c)
<1> DEFINE y == (a \o b) \o c
           z == a \o (b \o c)
<1>1. /\ Len(a) \in Nat /\ Len(b) \in Nat /\ Len(c) \in Nat
      /\ a \o b \in Seq(T) /\ Len(a \o b) = Len(a) + Len(b)
      /\ b \o c \in Seq(T) /\ Len(b \o c) = Len(b) + Len(c)
  OBVIOUS
<1>2. /\ y \in Seq(T) /\ Len(y) = Len(a) + Len(b) + Len(c)
      /\ z \in Seq(T) /\ Len(z) = Len(a) + Len(b) + Len(c)
  BY <1>1
<1>3. ASSUME NEW x \in 1 .. (Len(a) + Len(b) + Len(c)) PROVE y[x] = z[x]
  OBVIOUS
<1> HIDE DEF y, z
<1>4. y = z
  BY <1>2, <1>3
<1> QED
  BY <1>4 DEF y, z

(* Neighbours hold together what they have held.                             *)
Sides(low, s0, high, left, s, right) ==
  /\ low \in Node /\ high \in Node /\ left \in Node /\ right \in Node
  /\ high.leaf = low.leaf /\ left.leaf = low.leaf /\ right.leaf = low.leaf
  /\ low.leaf => /\ left.cells \o right.cells = low.cells \o high.cells
                 /\ right.cells # << >> /\ s = right.cells[1].key
                 /\ left.next = low.next /\ right.next = high.next
  /\ ~low.leaf => /\ s0 \in Key /\ s \in Key /\ Len(left.kids) = Len(left.keys) + 1
                  /\ (left.keys \o <<s>>) \o right.keys = (low.keys \o <<s0>>) \o high.keys
                  /\ left.kids \o right.kids = low.kids \o high.kids

LEMMA SidesCut ==
  ASSUME NEW low, NEW s0, NEW high, NEW left, NEW s, NEW right, Sides(low, s0, high, left, s, right)
  PROVE  /\ s \in Key
         /\ \E joined, m : Join(low, s0, high, joined) /\ Cut(joined, m, left, right, s)
<1>1. /\ low \in Node /\ high \in Node /\ left \in Node /\ right \in Node
      /\ high.leaf = low.leaf /\ left.leaf = low.leaf /\ right.leaf = low.leaf
  BY DEF Sides
<1>2. CASE low.leaf
  <2> DEFINE a == left.cells
             b == right.cells
             z == high.next
             joined == Leaf(a \o b, z)
  <2>0. high.leaf = TRUE
    BY <1>1, <1>2, NodeKinds
  <2>0a. z \in PageNo \cup {NoPage}
    BY <1>1, <2>0, NodeKinds
  <2>1. a \in Seq(Cells) /\ b \in Seq(Cells) /\ low.leaf = TRUE /\ Len(a) \in Nat /\ Len(b) \in Nat
    <3>1. low.leaf = TRUE
      BY <1>1, <1>2, NodeKinds
    <3>2. left.leaf = TRUE /\ right.leaf = TRUE
      BY <1>1, <3>1
    <3>3. a \in Seq(Cells) /\ b \in Seq(Cells)
      BY <1>1, <3>2, NodeKinds
    <3> HIDE DEF a, b
    <3> QED
      BY <3>1, <3>3
  <2>2. a \o b = low.cells \o high.cells /\ b # << >> /\ s = b[1].key
    BY <1>2 DEF Sides
  <2> HIDE DEF a, b, z
  <2>3. Len(b) >= 1
    BY <2>1, <2>2
  <2>4. /\ a \o b \in Seq(Cells) /\ Len(a \o b) = Len(a) + Len(b)
        /\ SubSeq(a \o b, 1, Len(a)) = a /\ SubSeq(a \o b, Len(a) + 1, Len(a) + Len(b)) = b
    BY <2>1, Joints
  <2>5. joined \in Node /\ joined.leaf = TRUE /\ joined.cells = a \o b /\ joined.next = z
    BY <2>0a, <2>4, LeafKind
  <2> HIDE DEF joined
  <2>6. s = joined.cells[Len(a) + 1].key
    <3>1. Len(a) + 1 \in (Len(a) + 1) .. (Len(a) + Len(b)) /\ Len(a) + 1 - Len(a) = 1
      BY <2>1, <2>3
    <3>2. (a \o b)[Len(a) + 1] = b[1]
      BY <2>1, <3>1
    <3> QED
      BY <2>2, <2>5, <3>2
  <2>7. s \in Key
    <3>1. 1 \in 1 .. Len(b)
      BY <2>1, <2>3
    <3> QED
      BY <2>1, <2>2, <3>1, CellsOf
  <2>8. Join(low, s0, high, joined)
    BY <2>1, <2>2, <2>5 DEF Join, z
  <2>9. Len(a) \in 0 .. (Len(joined.cells) - 1)
    BY <2>1, <2>3, <2>4, <2>5
  <2>10. left.cells = SubSeq(joined.cells, 1, Len(a))
         /\ right.cells = SubSeq(joined.cells, Len(a) + 1, Len(joined.cells))
    BY <2>4, <2>5 DEF a, b
  <2>11. Cut(joined, Len(a), left, right, s)
    BY <1>1, <2>1, <2>5, <2>6, <2>9, <2>10 DEF Cut
  <2> QED
    BY <2>7, <2>8, <2>11
<1>3. CASE ~low.leaf
  <2> DEFINE ka == left.keys
             kb == right.keys
             ca == left.kids
             cb == right.kids
             ks == Append(ka, s)
             keys == ks \o kb
             kids == ca \o cb
             joined == Internal(keys, kids)
             m == Len(ca)
  <2>0. s \in Key /\ m = Len(ka) + 1
        /\ (ka \o <<s>>) \o kb = (low.keys \o <<s0>>) \o high.keys /\ kids = low.kids \o high.kids
    BY <1>3 DEF Sides
  <2>1. /\ ka \in Seq(Key) /\ kb \in Seq(Key) /\ ca \in Seq(PageNo) /\ cb \in Seq(PageNo)
        /\ low.leaf = FALSE /\ Len(ka) \in Nat /\ Len(kb) \in Nat /\ Len(ca) \in Nat /\ Len(cb) \in Nat
    BY <1>1, <1>3, NodeKinds
  <2> HIDE DEF ka, kb, ca, cb
  <2>2. ks = ka \o <<s>> /\ ks \in Seq(Key) /\ Len(ks) = m /\ ks[m] = s
    BY <2>0, <2>1
  <2> HIDE DEF ks
  <2>3. /\ keys \in Seq(Key) /\ Len(keys) = m + Len(kb)
        /\ SubSeq(keys, 1, m) = ks /\ SubSeq(keys, m + 1, m + Len(kb)) = kb
    <3>1. /\ ks \o kb \in Seq(Key) /\ Len(ks \o kb) = Len(ks) + Len(kb)
          /\ SubSeq(ks \o kb, 1, Len(ks)) = ks
          /\ SubSeq(ks \o kb, Len(ks) + 1, Len(ks) + Len(kb)) = kb
      BY <2>1, <2>2, Joints
    <3> HIDE DEF m
    <3> QED
      BY <2>2, <3>1
  <2>4. /\ kids \in Seq(PageNo) /\ Len(kids) = m + Len(cb)
        /\ SubSeq(kids, 1, m) = ca /\ SubSeq(kids, m + 1, m + Len(cb)) = cb
    BY <2>1, Joints
  <2>5. joined \in Node /\ joined.leaf = FALSE /\ joined.keys = keys /\ joined.kids = kids
    BY <2>3, <2>4, InternalKind
  <2>5a. keys[m] = s
    BY <2>0, <2>1, <2>2
  <2>6. SubSeq(keys, 1, m - 1) = ka
    <3> DEFINE j == m - 1
               z == SubSeq(keys, 1, j)
    <3>1. j = Len(ka) /\ j \in 0 .. Len(keys)
      BY <2>0, <2>1, <2>3
    <3>2. \A x \in 1 .. j : keys[x] = ka[x]
      BY <2>0, <2>1, <2>2
    <3> HIDE DEF j, keys
    <3>3. z \in Seq(Key) /\ Len(z) = j /\ \A x \in 1 .. j : z[x] = keys[x]
      BY <2>3, <3>1, CutSeq
    <3> HIDE DEF z
    <3>4. z = ka
      BY <2>1, <3>1, <3>2, <3>3
    <3> QED
      BY <3>4 DEF z, j
  <2>7. m \in 1 .. Len(keys)
    BY <2>0, <2>1, <2>3
  <2> HIDE DEF joined, keys, kids, m
  <2>8. Join(low, s0, high, joined)
    BY <2>0, <2>1, <2>2, <2>5 DEF Join, keys
  <2>9. Cut(joined, m, left, right, s)
    <3>1. left.keys = SubSeq(joined.keys, 1, m - 1) /\ left.kids = SubSeq(joined.kids, 1, m)
      BY <2>4, <2>5, <2>6 DEF ka, ca
    <3>2. right.keys = SubSeq(joined.keys, m + 1, Len(joined.keys))
          /\ right.kids = SubSeq(joined.kids, m + 1, Len(joined.kids))
      BY <2>3, <2>4, <2>5 DEF kb, cb
    <3> QED
      BY <1>1, <2>1, <2>5, <2>5a, <2>7, <3>1, <3>2 DEF Cut
  <2> QED
    BY <2>0, <2>8, <2>9
<1> QED
  BY <1>2, <1>3

(* What is there already is written.                                         *)
LEMMA WrittenSame ==
  ASSUME NEW t, NEW S, NEW D, Kept(t, S, D), NEW n \in PageNo, NEW node \in Node, View(t)[n] = node,
         ~Stopped(Written(t, n, node)), NEW E, D \subseteq E \cup {n}
  PROVE  Kept(Written(t, n, node), S, E) /\ View(Written(t, n, node)) = View(t)
<1>1. n \in PageNo \cup {NoPage}
  OBVIOUS
<1>2. Kept(Written(t, n, node), S, E) /\ Changed(View(t), n, node, View(Written(t, n, node)))
  BY <1>1, WrittenKeeps
<1>3. View(t) \in Pages
  BY Viewed
<1>4. Changed(View(t), n, node, View(t))
  BY <1>3 DEF Changed
<1> QED
  BY <1>2, <1>3, <1>4, ChangedSame

(* Three nodes are edited, and then written.                                 *)
Three(V, a, x, b, y, c, z, V2) ==
  /\ a \in PageNo /\ b \in PageNo /\ c \in PageNo /\ a # b /\ a # c /\ b # c
  /\ V[a] # Absent /\ V[b] # Absent /\ V[c] # Absent
  /\ x \in Node /\ y \in Node /\ z \in Node
  /\ V2 \in Pages /\ V2[a] = x /\ V2[b] = y /\ V2[c] = z
  /\ \A n \in PageNo : n # a /\ n # b /\ n # c => V2[n] = V[n]

LEMMA EditedThree ==
  ASSUME NEW t, NEW S, Kept(t, S, {}), NEW a, NEW x, NEW b, NEW y, NEW c, NEW z,
         NEW V2, Three(View(t), a, x, b, y, c, z, V2),
         NEW E, a \in E, b \in E, c \in E
  PROVE  LET e == Edited(Edited(Edited(t, a, x), b, y), c, z)
         IN  Kept(e, S, E) /\ View(e) = V2
<1> DEFINE e1 == Edited(t, a, x)
           e2 == Edited(e1, b, y)
           e3 == Edited(e2, c, z)
<1>0. /\ a \in PageNo /\ b \in PageNo /\ c \in PageNo /\ a # b /\ a # c /\ b # c
      /\ View(t)[a] # Absent /\ View(t)[b] # Absent /\ View(t)[c] # Absent
      /\ x \in Node /\ y \in Node /\ z \in Node
      /\ V2 \in Pages /\ V2[a] = x /\ V2[b] = y /\ V2[c] = z
      /\ \A n \in PageNo : n # a /\ n # b /\ n # c => V2[n] = View(t)[n]
  BY DEF Three
<1>1. Kept(e1, S, E) /\ Changed(View(t), a, x, View(e1))
  BY <1>0, EditedKeeps
<1>2. View(e1)[b] # Absent /\ View(e1)[c] # Absent /\ E \subseteq E
  BY <1>0, <1>1 DEF Changed
<1> HIDE DEF e1
<1>3. Kept(e2, S, E) /\ Changed(View(e1), b, y, View(e2))
  BY <1>0, <1>1, <1>2, EditedKeeps
<1>4. View(e2)[c] # Absent
  BY <1>0, <1>2, <1>3 DEF Changed
<1> HIDE DEF e2
<1>5. Kept(e3, S, E) /\ Changed(View(e2), c, z, View(e3))
  BY <1>0, <1>2, <1>3, <1>4, EditedKeeps
<1> HIDE DEF e3
<1>6. View(e3) \in Pages /\ \A n \in PageNo : View(e3)[n] = V2[n]
  BY <1>0, <1>1, <1>3, <1>5 DEF Changed
<1>7. View(e3) = V2
  BY <1>0, <1>6 DEF Pages
<1> QED
  BY <1>5, <1>7 DEF e1, e2, e3

LEMMA WrittenThree ==
  ASSUME NEW t, NEW S, NEW E, Kept(t, S, E), NEW a, NEW x, NEW b, NEW y, NEW c, NEW z,
         a \in PageNo, b \in PageNo, c \in PageNo, \A n \in E : n = a \/ n = b \/ n = c,
         x \in Node, y \in Node, z \in Node, View(t)[a] = x, View(t)[b] = y, View(t)[c] = z,
         ~Stopped(Written(Written(Written(t, a, x), b, y), c, z))
  PROVE  LET w == Written(Written(Written(t, a, x), b, y), c, z)
         IN  Kept(w, S, {}) /\ View(w) = View(t)
<1> DEFINE w1 == Written(t, a, x)
           w2 == Written(w1, b, y)
           w3 == Written(w2, c, z)
           E1 == {b, c}
           E2 == {c}
<1>1. E \subseteq E1 \cup {a} /\ E1 \subseteq E2 \cup {b} /\ E2 \subseteq {} \cup {c}
  OBVIOUS
<1> HIDE DEF E1, E2
<1>2. ~Stopped(w3)
  OBVIOUS
<1> HIDE DEF w3
<1>3. ~Stopped(w2)
  BY <1>2, StoppedStays DEF w3
<1> HIDE DEF w2
<1>4. ~Stopped(w1)
  BY <1>3, StoppedStays DEF w2
<1>5. Kept(w1, S, E1) /\ View(w1) = View(t)
  BY <1>1, <1>4, WrittenSame
<1> HIDE DEF w1
<1>6. Kept(w2, S, E2) /\ View(w2) = View(t)
  <2>1. View(w1)[b] = y /\ ~Stopped(Written(w1, b, y))
    BY <1>3, <1>5 DEF w2
  <2>2. Kept(Written(w1, b, y), S, E2) /\ View(Written(w1, b, y)) = View(w1)
    BY <1>1, <1>5, <2>1, WrittenSame
  <2> QED
    BY <1>5, <2>2 DEF w2
<1>7. Kept(w3, S, {}) /\ View(w3) = View(t)
  <2>1. View(w2)[c] = z /\ ~Stopped(Written(w2, c, z))
    BY <1>2, <1>6 DEF w3
  <2>2. Kept(Written(w2, c, z), S, {}) /\ View(Written(w2, c, z)) = View(w2)
    BY <1>1, <1>6, <2>1, WrittenSame
  <2> QED
    BY <1>6, <2>2 DEF w3
<1> QED
  BY <1>7 DEF w1, w2, w3

(* A node that can spare something is not empty.                             *)
LEMMA SpareHas ==
  ASSUME NEW node \in Node, CanSpare(node)
  PROVE  /\ node.leaf => Len(node.cells) >= 1
         /\ ~node.leaf /\ Len(node.kids) = Len(node.keys) + 1 => Len(node.keys) >= 1
<1>0. MinBytes >= 13 /\ MinBytes \in Int
  BY Sizes DEF MinBytes
<1>1. ASSUME node.leaf, ~(Len(node.cells) >= 1) PROVE FALSE
  <2>1. node.cells = << >>
    BY <1>1, NodeKinds
  <2>2. serialized_size(node) = serialized_size(Leaf(<< >>, NoPage))
    BY <1>1, <2>1 DEF serialized_size, Leaf
  <2>3. serialized_size(node) = 9
    BY <2>2, EmptySize
  <2> QED
    BY <1>0, <2>3, Sizes DEF CanSpare
<1>2. ASSUME ~node.leaf, Len(node.kids) = Len(node.keys) + 1, ~(Len(node.keys) >= 1) PROVE FALSE
  <2>1. Len(node.keys) \in Nat
    BY <1>2, NodeKinds
  <2>2. serialized_size(node) = 9 + 8 * Len(node.keys) + 4 * Len(node.kids)
    BY <1>2 DEF serialized_size
  <2>3. Len(node.keys) = 0 /\ Len(node.kids) = 1
    BY <1>2, <2>1
  <2>4. serialized_size(node) = 13
    BY <2>2, <2>3
  <2> QED
    BY <1>0, <2>4, Sizes DEF CanSpare
<1> QED
  BY <1>1, <1>2

(* Neighbours n and p of a tree share anew what they have.                   *)
Shares(V, live, q, j, n, p, left, s, right, above, V2) ==
  /\ q \in live /\ ~V[q].leaf /\ j \in 1 .. Len(V[q].keys)
  /\ n = V[q].kids[j] /\ p = V[q].kids[j + 1]
  /\ Sides(V[n], V[q].keys[j], V[p], left, s, right)
  /\ above = Internal(ReplaceAt(V[q].keys, j, s), V[q].kids)
  /\ V2 \in Pages /\ V2[n] = left /\ V2[p] = right /\ V2[q] = above
  /\ \A x \in live : x # n /\ x # q /\ x # p => V2[x] = V[x]

LEMMA SharesTree ==
  ASSUME NEW V, NEW r, NEW live, NEW lev, NEW rows, TreeOf(V, r, live, lev, rows),
         NEW q, NEW j, NEW n, NEW p, NEW left, NEW s, NEW right, NEW above, NEW V2,
         Shares(V, live, q, j, n, p, left, s, right, above, V2)
  PROVE  TreeOf(V2, r, live, lev, rows)
<1>1. PICK lo, hi, up : Tree(V, r, live, lev, lo, hi, up, rows)
  BY DEF TreeOf
<1>2. s \in Key /\ \E joined, m : Join(V[n], V[q].keys[j], V[p], joined) /\ Cut(joined, m, left, right, s)
  BY SidesCut DEF Shares
<1>3. PICK joined, m : Join(V[n], V[q].keys[j], V[p], joined) /\ Cut(joined, m, left, right, s)
  BY <1>2
<1>4. V[n].leaf => left.next = V[n].next /\ right.next = V[p].next
  BY DEF Shares, Sides
<1>5. ShiftTo(V, live, q, j, n, p, joined, m, left, right, s, V2)
  BY <1>2, <1>3, <1>4 DEF ShiftTo, Shares
<1> QED
  BY <1>1, <1>5, TreeShift

(* The children j and j + 1 of page q.                                       *)
PairAt(V, live, q, j, n, p) ==
  /\ n = V[q].kids[j] /\ p = V[q].kids[j + 1]
  /\ V[q].keys \in Seq(Key) /\ V[q].kids \in Seq(PageNo) /\ Len(V[q].kids) = Len(V[q].keys) + 1
  /\ j \in 1 .. Len(V[q].keys) /\ V[q].keys[j] \in Key
  /\ n \in live /\ p \in live /\ n \in PageNo /\ p \in PageNo /\ q \in PageNo /\ n # p /\ n # q /\ p # q
  /\ V[n] \in Node /\ V[p] \in Node /\ V[n] # Absent /\ V[p] # Absent /\ V[q] # Absent
  /\ V[p].leaf = V[n].leaf

FullNode(node) == node \in Node /\ (~node.leaf => Len(node.kids) = Len(node.keys) + 1)

LEMMA PairIs ==
  ASSUME NEW V, NEW r, NEW live, NEW lev, NEW rows, TreeOf(V, r, live, lev, rows),
         NEW q \in live, ~V[q].leaf, NEW j \in 1 .. Len(V[q].keys)
  PROVE  /\ PairAt(V, live, q, j, V[q].kids[j], V[q].kids[j + 1])
         /\ FullNode(V[V[q].kids[j]]) /\ FullNode(V[V[q].kids[j + 1]])
         /\ lev[V[q].kids[j + 1]] + 1 = lev[q]
<1> DEFINE n == V[q].kids[j]
           p == V[q].kids[j + 1]
<1>1. PICK lo, hi, up : Tree(V, r, live, lev, lo, hi, up, rows)
  BY DEF TreeOf
<1>2. /\ n \in live /\ p \in live /\ n # p /\ n # q /\ p # q /\ V[q].keys[j] \in Key
      /\ V[n].leaf = V[p].leaf /\ lev[n] + 1 = lev[q] /\ lev[p] = lev[n]
  BY <1>1, Neighbours
<1>3. NodeIs(V[q], q, live, lev)
  BY TreeOfNode
<1>4. InnerIs(V[q], q, live, lev)
  BY <1>3 DEF NodeIs
<1>5. V[q].keys \in Seq(Key) /\ V[q].kids \in Seq(PageNo) /\ Len(V[q].kids) = Len(V[q].keys) + 1
  BY <1>4 DEF InnerIs
<1> HIDE DEF n, p
<1>6. NodeIs(V[n], n, live, lev) /\ NodeIs(V[p], p, live, lev)
  BY <1>2, TreeOfNode
<1>7. PairAt(V, live, q, j, n, p)
  BY <1>2, <1>3, <1>5, <1>6 DEF PairAt, NodeIs, n, p
<1>8. FullNode(V[n]) /\ FullNode(V[p])
  BY <1>6 DEF FullNode, NodeIs, InnerIs
<1> QED
  BY <1>2, <1>7, <1>8 DEF n, p

(* The lower neighbour's last entry goes to the upper one.                   *)
LowGives(low, s0, high, left, s, right) ==
  /\ left = IF low.leaf THEN Leaf(Front(low.cells), low.next)
            ELSE Internal(Front(low.keys), Front(low.kids))
  /\ right = IF high.leaf THEN Leaf(<<Last(low.cells)>> \o high.cells, high.next)
             ELSE Internal(<<s0>> \o high.keys, <<Last(low.kids)>> \o high.kids)
  /\ s = IF high.leaf THEN Last(low.cells).key ELSE Last(low.keys)

LEMMA SidesLeft ==
  ASSUME NEW low, NEW high, FullNode(low), FullNode(high), high.leaf = low.leaf, NEW s0 \in Key,
         CanSpare(low), NEW left, NEW s, NEW right, LowGives(low, s0, high, left, s, right)
  PROVE  Sides(low, s0, high, left, s, right)
<1>0. low \in Node /\ high \in Node
  BY DEF FullNode
<1>1. CASE low.leaf
  <2> DEFINE a == low.cells
             b == high.cells
             c == <<Last(a)>>
             d == Front(a)
  <2>1. low.leaf = TRUE /\ high.leaf = TRUE
    BY <1>0, <1>1, NodeKinds
  <2>2. /\ a \in Seq(Cells) /\ low.next \in PageNo \cup {NoPage}
        /\ b \in Seq(Cells) /\ high.next \in PageNo \cup {NoPage}
    BY <1>0, <2>1, NodeKinds
  <2>3. Len(a) >= 1
    BY <1>0, <2>1, SpareHas
  <2>4. /\ d \in Seq(Cells) /\ a = d \o c /\ Last(a) \in Cells
    <3> HIDE DEF a
    <3> QED
      BY <2>2, <2>3, Ends1
  <2>5. left = Leaf(d, low.next) /\ right = Leaf(c \o b, high.next) /\ s = Last(a).key
    BY <2>1 DEF LowGives
  <2> HIDE DEF a, b, d
  <2>6. c \in Seq(Cells) /\ c[1] = Last(a) /\ Len(c) = 1
    BY <2>4
  <2> HIDE DEF c
  <2>7. c \o b \in Seq(Cells) /\ (c \o b)[1] = c[1] /\ c \o b # << >>
    <3> DEFINE e == c \o b
    <3>0. 1 \in 1 .. Len(c) /\ Len(b) \in Nat
      BY <2>2, <2>6
    <3>1a. e \in Seq(Cells) /\ Len(e) = Len(c) + Len(b)
      BY <2>2, <2>6, Joints
    <3>1b. e[1] = c[1]
      BY <2>2, <2>6, Foremost
    <3>1. e \in Seq(Cells) /\ Len(e) = 1 + Len(b) /\ Len(b) \in Nat /\ e[1] = c[1]
      BY <2>6, <3>0, <3>1a, <3>1b
    <3> HIDE DEF e
    <3>2. e # << >>
      BY <3>1
    <3> QED
      BY <3>1, <3>2 DEF e
  <2>8. (d \o c) \o b = d \o (c \o b)
    BY <2>2, <2>4, <2>6, Regrouped
  <2>9. /\ left \in Node /\ left.leaf = TRUE /\ left.cells = d
        /\ right \in Node /\ right.leaf = TRUE /\ right.cells = c \o b
        /\ left.next = low.next /\ right.next = high.next
    BY <2>2, <2>4, <2>5, <2>7, LeafKind
  <2> QED
    BY <1>0, <2>1, <2>4, <2>5, <2>6, <2>7, <2>8, <2>9 DEF Sides, a, b
<1>2. CASE ~low.leaf
  <2> DEFINE ka == low.keys
             kb == high.keys
             ca == low.kids
             cb == high.kids
  <2>1. low.leaf = FALSE /\ high.leaf = FALSE
    BY <1>0, <1>2, NodeKinds
  <2>2. /\ ka \in Seq(Key) /\ ca \in Seq(PageNo) /\ kb \in Seq(Key) /\ cb \in Seq(PageNo)
        /\ Len(ka) \in Nat /\ Len(ca) = Len(ka) + 1
    BY <1>0, <2>1, NodeKinds DEF FullNode
  <2>3. Len(ka) >= 1
    BY <1>0, <2>1, SpareHas DEF FullNode
  <2>4. left = Internal(Front(ka), Front(ca)) /\ right = Internal(<<s0>> \o kb, <<Last(ca)>> \o cb)
        /\ s = Last(ka)
    BY <2>1 DEF LowGives
  <2> HIDE DEF ka, kb, ca, cb
  <2>5. Len(ca) >= 1
    BY <2>2, <2>3
  <2> DEFINE fk == Front(ka)
             lk == Last(ka)
             fc == Front(ca)
             lc == Last(ca)
  <2>6. /\ fk \in Seq(Key) /\ Len(fk) = Len(ka) - 1 /\ ka = fk \o <<lk>> /\ lk \in Key
        /\ fc \in Seq(PageNo) /\ Len(fc) = Len(ca) - 1 /\ ca = fc \o <<lc>> /\ lc \in PageNo
    BY <2>2, <2>3, <2>5, Ends1
  <2> HIDE DEF fk, lk, fc, lc
  <2>7. /\ <<lk>> \in Seq(Key) /\ <<s0>> \in Seq(Key) /\ <<lc>> \in Seq(PageNo)
        /\ <<s0>> \o kb \in Seq(Key) /\ <<lc>> \o cb \in Seq(PageNo)
    BY <2>2, <2>6
  <2>8. Len(fc) = Len(fk) + 1
    BY <2>2, <2>6
  <2>9. (fk \o <<lk>>) \o (<<s0>> \o kb) = (ka \o <<s0>>) \o kb
    <3> DEFINE one == <<s0>>
    <3>1. ka \in Seq(Key) /\ one \in Seq(Key) /\ kb \in Seq(Key)
      BY <2>2, <2>7
    <3>2. ka = fk \o <<lk>>
      BY <2>6
    <3> HIDE DEF one
    <3>3. (ka \o one) \o kb = ka \o (one \o kb)
      BY <3>1, Regrouped
    <3>4. (fk \o <<lk>>) \o (one \o kb) = (ka \o one) \o kb
      BY <3>2, <3>3, Zenon
    <3> QED
      BY <3>4 DEF one
  <2>10. fc \o (<<lc>> \o cb) = ca \o cb
    BY <2>2, <2>6, <2>7, Regrouped
  <2>11. /\ left \in Node /\ left.leaf = FALSE /\ left.keys = fk /\ left.kids = fc
         /\ right \in Node /\ right.leaf = FALSE
         /\ right.keys = <<s0>> \o kb /\ right.kids = <<lc>> \o cb
    <3> DEFINE rk == <<s0>> \o kb
               rc == <<lc>> \o cb
    <3>1. fk \in Seq(Key) /\ fc \in Seq(PageNo) /\ rk \in Seq(Key) /\ rc \in Seq(PageNo)
      BY <2>6, <2>7
    <3>2. left = Internal(fk, fc) /\ right = Internal(rk, rc)
      BY <2>4 DEF fk, fc, lc
    <3> HIDE DEF rk, rc
    <3>3. left \in Node /\ left.leaf = FALSE /\ left.keys = fk /\ left.kids = fc
      BY <3>1, <3>2, InternalKind, Zenon
    <3>4. right \in Node /\ right.leaf = FALSE /\ right.keys = rk /\ right.kids = rc
      BY <3>1, <3>2, InternalKind, Zenon
    <3> QED
      BY <3>3, <3>4 DEF rk, rc
  <2>12. s = lk
    BY <2>4 DEF lk
  <2> QED
    BY <1>0, <2>1, <2>6, <2>8, <2>9, <2>10, <2>11, <2>12 DEF Sides, ka, kb, ca, cb
<1> QED
  BY <1>1, <1>2

(* The upper neighbour's first entry goes to the lower one.                  *)
HighGives(low, s0, high, left, s, right) ==
  /\ right = IF high.leaf THEN Leaf(Tail(high.cells), high.next)
             ELSE Internal(Tail(high.keys), Tail(high.kids))
  /\ left = IF low.leaf THEN Leaf(Append(low.cells, Head(high.cells)), low.next)
            ELSE Internal(Append(low.keys, s0), Append(low.kids, Head(high.kids)))
  /\ s = IF low.leaf THEN right.cells[1].key ELSE Head(high.keys)
  /\ ~(high.leaf /\ right.cells = << >>)

LEMMA SidesRight ==
  ASSUME NEW low, NEW high, FullNode(low), FullNode(high), high.leaf = low.leaf, NEW s0 \in Key,
         CanSpare(high), NEW left, NEW s, NEW right, HighGives(low, s0, high, left, s, right)
  PROVE  Sides(low, s0, high, left, s, right)
<1>0. low \in Node /\ high \in Node
  BY DEF FullNode
<1>1. CASE low.leaf
  <2> DEFINE a == low.cells
             b == high.cells
             c == <<Head(b)>>
             d == Tail(b)
  <2>1. low.leaf = TRUE /\ high.leaf = TRUE
    BY <1>0, <1>1, NodeKinds
  <2>2. /\ a \in Seq(Cells) /\ low.next \in PageNo \cup {NoPage}
        /\ b \in Seq(Cells) /\ high.next \in PageNo \cup {NoPage}
    BY <1>0, <2>1, NodeKinds
  <2>3. Len(b) >= 1
    BY <1>0, <2>1, SpareHas
  <2>5. left = Leaf(Append(a, Head(b)), low.next) /\ right = Leaf(d, high.next)
        /\ s = right.cells[1].key /\ right.cells # << >>
    BY <2>1 DEF HighGives
  <2> HIDE DEF a, b
  <2>4. /\ d \in Seq(Cells) /\ b = c \o d /\ Head(b) \in Cells
    BY <2>2, <2>3, Ends1
  <2> HIDE DEF d
  <2>6. c \in Seq(Cells) /\ Append(a, Head(b)) = a \o c /\ a \o c \in Seq(Cells)
    BY <2>2, <2>4
  <2> HIDE DEF c
  <2>8. (a \o c) \o d = a \o (c \o d)
    BY <2>2, <2>4, <2>6, Regrouped
  <2>9. /\ left \in Node /\ left.leaf = TRUE /\ left.cells = a \o c
        /\ right \in Node /\ right.leaf = TRUE /\ right.cells = d
        /\ left.next = low.next /\ right.next = high.next
    <3> DEFINE e == a \o c
    <3>1. e \in Seq(Cells) /\ left = Leaf(e, low.next) /\ right = Leaf(d, high.next)
      BY <2>5, <2>6
    <3> HIDE DEF e
    <3>2. left \in Node /\ left.leaf = TRUE /\ left.cells = e /\ left.next = low.next
      BY <2>2, <3>1, LeafKind
    <3>3. right \in Node /\ right.leaf = TRUE /\ right.cells = d /\ right.next = high.next
      BY <2>2, <2>4, <3>1, LeafKind
    <3> QED
      BY <3>2, <3>3 DEF e
  <2> QED
    BY <1>0, <2>1, <2>4, <2>5, <2>8, <2>9 DEF Sides, a, b
<1>2. CASE ~low.leaf
  <2> DEFINE ka == low.keys
             kb == high.keys
             ca == low.kids
             cb == high.kids
  <2>1. low.leaf = FALSE /\ high.leaf = FALSE
    BY <1>0, <1>2, NodeKinds
  <2>2. /\ ka \in Seq(Key) /\ ca \in Seq(PageNo) /\ kb \in Seq(Key) /\ cb \in Seq(PageNo)
        /\ Len(kb) \in Nat /\ Len(cb) = Len(kb) + 1
        /\ Len(ka) \in Nat /\ Len(ca) = Len(ka) + 1
    BY <1>0, <2>1, NodeKinds DEF FullNode
  <2>3. Len(kb) >= 1
    BY <1>0, <2>1, SpareHas DEF FullNode
  <2>4. left = Internal(Append(ka, s0), Append(ca, Head(cb))) /\ right = Internal(Tail(kb), Tail(cb))
        /\ s = Head(kb)
    BY <2>1 DEF HighGives
  <2> HIDE DEF ka, kb, ca, cb
  <2>5. Len(cb) >= 1
    BY <2>2, <2>3
  <2> DEFINE tk == Tail(kb)
             hk == Head(kb)
             tc == Tail(cb)
             hc == Head(cb)
  <2>6. /\ tk \in Seq(Key) /\ kb = <<hk>> \o tk /\ hk \in Key
        /\ tc \in Seq(PageNo) /\ cb = <<hc>> \o tc /\ hc \in PageNo
    BY <2>2, <2>3, <2>5, Ends1
  <2> HIDE DEF tk, hk, tc, hc
  <2>7. /\ <<hk>> \in Seq(Key) /\ <<s0>> \in Seq(Key) /\ <<hc>> \in Seq(PageNo)
        /\ Append(ka, s0) = ka \o <<s0>> /\ Append(ca, hc) = ca \o <<hc>>
        /\ ka \o <<s0>> \in Seq(Key) /\ ca \o <<hc>> \in Seq(PageNo)
    BY <2>2, <2>6
  <2>8. Len(ca \o <<hc>>) = Len(ka \o <<s0>>) + 1
    BY <2>2, <2>6
  <2>9. ((ka \o <<s0>>) \o <<hk>>) \o tk = (ka \o <<s0>>) \o kb
    <3> DEFINE w == ka \o <<s0>>
    <3> HIDE DEF w
    <3>1. w \in Seq(Key) /\ (w \o <<hk>>) \o tk = w \o (<<hk>> \o tk)
      BY <2>6, <2>7, Regrouped DEF w
    <3> QED
      BY <2>6, <3>1 DEF w
  <2>10. (ca \o <<hc>>) \o tc = ca \o cb
    BY <2>2, <2>6, <2>7, Regrouped
  <2>11. /\ left \in Node /\ left.leaf = FALSE
         /\ left.keys = ka \o <<s0>> /\ left.kids = ca \o <<hc>>
         /\ right \in Node /\ right.leaf = FALSE /\ right.keys = tk /\ right.kids = tc
    <3> DEFINE e == ka \o <<s0>>
               f == ca \o <<hc>>
    <3>1. e \in Seq(Key) /\ f \in Seq(PageNo) /\ left = Internal(e, f) /\ right = Internal(tk, tc)
      BY <2>4, <2>7 DEF tk, tc, hc
    <3> HIDE DEF e, f
    <3>2. left \in Node /\ left.leaf = FALSE /\ left.keys = e /\ left.kids = f
      BY <3>1, InternalKind, Zenon
    <3>3. right \in Node /\ right.leaf = FALSE /\ right.keys = tk /\ right.kids = tc
      BY <2>6, <3>1, InternalKind, Zenon
    <3> QED
      BY <3>2, <3>3 DEF e, f
  <2>12. s = hk
    BY <2>4 DEF hk
  <2> QED
    BY <1>0, <2>1, <2>6, <2>8, <2>9, <2>10, <2>11, <2>12 DEF Sides, ka, kb, ca, cb
<1> QED
  BY <1>1, <1>2

(* A tree with the rows, and what may differ from the pages.                 *)
Stable(t, S, D, r, live, lev, rows) == Kept(t, S, D) /\ TreeOf(View(t), r, live, lev, rows)

(* Neighbours n and p below q share anew: both are edited, and written.      *)
SharedTo(t, live, q, j, n, p, left, s, right, above, V2) ==
  /\ Shares(View(t), live, q, j, n, p, left, s, right, above, V2)
  /\ Three(View(t), n, left, p, right, q, above, V2)

LEMMA SharedHow ==
  ASSUME NEW t, NEW S, NEW r, NEW live, NEW lev, NEW rows, Stable(t, S, {}, r, live, lev, rows),
         NEW q, NEW j, NEW n, NEW p, NEW left, NEW s, NEW right, PairAt(View(t), live, q, j, n, p),
         q \in live, ~View(t)[q].leaf,
         Sides(View(t)[n], View(t)[q].keys[j], View(t)[p], left, s, right),
         NEW above, above = Internal(ReplaceAt(View(t)[q].keys, j, s), View(t)[q].kids)
  PROVE  \E V2 : SharedTo(t, live, q, j, n, p, left, s, right, above, V2)
<1> DEFINE V == View(t)
           V1 == [V EXCEPT ![n] = left]
           V2 == [V1 EXCEPT ![p] = right]
           V3 == [V2 EXCEPT ![q] = above]
<1>1. V \in Pages /\ live \subseteq PageNo
  BY TreeOfNode DEF Stable
<1> HIDE DEF V
<1>2. /\ n = V[q].kids[j] /\ p = V[q].kids[j + 1]
      /\ V[q].keys \in Seq(Key) /\ V[q].kids \in Seq(PageNo)
      /\ j \in 1 .. Len(V[q].keys)
      /\ n \in live /\ p \in live /\ n \in PageNo /\ p \in PageNo /\ q \in PageNo /\ n # p /\ n # q /\ p # q
      /\ V[n] # Absent /\ V[p] # Absent /\ V[q] # Absent
  BY DEF PairAt, V
<1>3. left \in Node /\ right \in Node /\ s \in Key
  BY SidesCut DEF Sides
<1>4. above \in Node
  <2>1. ReplaceAt(V[q].keys, j, s) \in Seq(Key)
    BY <1>2, <1>3 DEF ReplaceAt
  <2> QED
    BY <1>2, <2>1, InternalKind DEF V
<1>5. V1 \in Pages /\ V1[n] = left /\ \A x \in PageNo : x # n => V1[x] = V[x]
  BY <1>1, <1>2, <1>3 DEF Pages
<1> HIDE DEF V1
<1>6. V2 \in Pages /\ V2[p] = right /\ \A x \in PageNo : x # p => V2[x] = V1[x]
  BY <1>2, <1>3, <1>5 DEF Pages
<1> HIDE DEF V2
<1>7. V3 \in Pages /\ V3[q] = above /\ \A x \in PageNo : x # q => V3[x] = V2[x]
  BY <1>2, <1>4, <1>6 DEF Pages
<1> HIDE DEF V3
<1>8. /\ V3[n] = left /\ V3[p] = right /\ V3[q] = above
      /\ \A x \in PageNo : x # n /\ x # p /\ x # q => V3[x] = V[x]
  BY <1>2, <1>5, <1>6, <1>7
<1>9. Shares(V, live, q, j, n, p, left, s, right, above, V3)
  BY <1>1, <1>2, <1>7, <1>8 DEF Shares, V
<1>10. Three(V, n, left, p, right, q, above, V3)
  BY <1>2, <1>3, <1>4, <1>7, <1>8 DEF Three
<1> QED
  BY <1>9, <1>10 DEF V, SharedTo

(* In whatever order the nodes are edited and written.                       *)
LEMMA SharedKeeps ==
  ASSUME NEW t, NEW S, NEW r, NEW live, NEW lev, NEW rows, Stable(t, S, {}, r, live, lev, rows),
         NEW q, NEW j, NEW n, NEW p, NEW left, NEW s, NEW right, NEW above, NEW V2,
         SharedTo(t, live, q, j, n, p, left, s, right, above, V2),
         NEW e, e = Edited(Edited(Edited(t, n, left), p, right), q, above),
         NEW w, \/ w = Written(Written(Written(e, n, left), p, right), q, above)
                \/ w = Written(Written(Written(e, p, right), n, left), q, above),
         ~Stopped(w)
  PROVE  Stable(w, S, {}, r, live, lev, rows)
<1> DEFINE E == {n, p, q}
<1>0. n \in E /\ p \in E /\ q \in E /\ \A x \in E : x = n \/ x = p \/ x = q
  OBVIOUS
<1> HIDE DEF E
<1>1. Kept(t, S, {}) /\ TreeOf(View(t), r, live, lev, rows)
  BY DEF Stable
<1>2. /\ Shares(View(t), live, q, j, n, p, left, s, right, above, V2)
      /\ Three(View(t), n, left, p, right, q, above, V2)
  BY DEF SharedTo
<1>3. Kept(e, S, E) /\ View(e) = V2
  BY <1>0, <1>1, <1>2, EditedThree
<1>4. /\ n \in PageNo /\ p \in PageNo /\ q \in PageNo
      /\ left \in Node /\ right \in Node /\ above \in Node
      /\ View(e)[n] = left /\ View(e)[p] = right /\ View(e)[q] = above
  BY <1>2, <1>3 DEF Three
<1>5. Kept(w, S, {}) /\ View(w) = View(e)
  <2>1. CASE w = Written(Written(Written(e, n, left), p, right), q, above)
    BY <1>0, <1>3, <1>4, <2>1, WrittenThree
  <2>2. CASE w = Written(Written(Written(e, p, right), n, left), q, above)
    BY <1>0, <1>3, <1>4, <2>2, WrittenThree
  <2> QED
    BY <2>1, <2>2
<1>6. TreeOf(V2, r, live, lev, rows)
  BY <1>1, <1>2, SharesTree
<1> QED
  BY <1>3, <1>5, <1>6 DEF Stable

LEMMA NodesSeen ==
  ASSUME NEW t
  PROVE  \A n \in PageNo : NodeAt(t, n) = View(t)[n]
BY DEF View

LEMMA BorrowLeftDoes ==
  ASSUME NEW t, NEW S, NEW r, NEW live, NEW lev, NEW rows, Stable(t, S, {}, r, live, lev, rows),
         NEW q \in live, ~View(t)[q].leaf, NEW i, i - 1 \in 1 .. Len(View(t)[q].keys), i \in Nat,
         CanSpare(NodeAt(t, View(t)[q].kids[i - 1])),
         NEW w, w = BorrowFromLeft(t, q, i), ~Stopped(w)
  PROVE  Stable(w, S, {}, r, live, lev, rows)
<1> DEFINE V == View(t)
           j == i - 1
           n == V[q].kids[j]
           p == V[q].kids[i]
           l == V[n]
           c == V[p]
           left  == IF l.leaf THEN Leaf(Front(l.cells), l.next)
                    ELSE Internal(Front(l.keys), Front(l.kids))
           child == IF c.leaf THEN Leaf(<<Last(l.cells)>> \o c.cells, c.next)
                    ELSE Internal(<<V[q].keys[j]>> \o c.keys, <<Last(l.kids)>> \o c.kids)
           sep   == IF c.leaf THEN Last(l.cells).key ELSE Last(l.keys)
           above == Internal(ReplaceAt(V[q].keys, j, sep), V[q].kids)
           e     == Edited(Edited(Edited(t, n, left), p, child), q, above)
<1>1. j + 1 = i /\ j \in 1 .. Len(V[q].keys)
  OBVIOUS
<1>0. TreeOf(V, r, live, lev, rows)
  BY DEF Stable
<1> HIDE DEF V, j
<1>2. PairAt(V, live, q, j, n, p) /\ FullNode(l) /\ FullNode(c)
  <2>1. ~V[q].leaf
    BY DEF V
  <2> QED
    BY <1>0, <1>1, <2>1, PairIs
<1>3. /\ n \in PageNo /\ p \in PageNo /\ q \in PageNo /\ V[q].keys[j] \in Key /\ c.leaf = l.leaf
  BY <1>2 DEF PairAt
<1>4. NodeAt(t, q) = V[q] /\ NodeAt(t, n) = l /\ NodeAt(t, p) = c
  BY <1>3, NodesSeen DEF V
<1>5. w = Written(Written(Written(e, n, left), p, child), q, above)
  <2>1. NodeAt(t, q).kids[i - 1] = n /\ NodeAt(t, q).kids[i] = p /\ NodeAt(t, q).keys[i - 1] = V[q].keys[j]
    BY <1>4 DEF j
  <2> HIDE DEF n, p, l, c
  <2> QED
    BY <1>4, <2>1 DEF BorrowFromLeft, j
<1>6. CanSpare(l)
  BY <1>4 DEF V, j
<1>7. LowGives(l, V[q].keys[j], c, left, sep, child)
  BY DEF LowGives
<1> HIDE DEF n, p, l, c, left, child, sep, e
<1>8. Sides(l, V[q].keys[j], c, left, sep, child)
  BY <1>2, <1>3, <1>6, <1>7, SidesLeft
<1>9. PICK V2 : SharedTo(t, live, q, j, n, p, left, sep, child, above, V2)
  BY <1>2, <1>8, SharedHow DEF V, l, c
<1> HIDE DEF above
<1> QED
  BY <1>5, <1>9, SharedKeeps DEF e

LEMMA BorrowRightDoes ==
  ASSUME NEW t, NEW S, NEW r, NEW live, NEW lev, NEW rows, Stable(t, S, {}, r, live, lev, rows),
         NEW q \in live, ~View(t)[q].leaf, NEW j \in 1 .. Len(View(t)[q].keys),
         CanSpare(NodeAt(t, View(t)[q].kids[j + 1])),
         NEW w, w = BorrowFromRight(t, q, j), ~Stopped(w)
  PROVE  Stable(w, S, {}, r, live, lev, rows)
<1> DEFINE V == View(t)
           n == V[q].kids[j]
           p == V[q].kids[j + 1]
           c == V[n]
           h == V[p]
           right == IF h.leaf THEN Leaf(Tail(h.cells), h.next) ELSE Internal(Tail(h.keys), Tail(h.kids))
           child == IF c.leaf THEN Leaf(Append(c.cells, Head(h.cells)), c.next)
                    ELSE Internal(Append(c.keys, V[q].keys[j]), Append(c.kids, Head(h.kids)))
           sep   == IF c.leaf THEN right.cells[1].key ELSE Head(h.keys)
           above == Internal(ReplaceAt(V[q].keys, j, sep), V[q].kids)
           e2    == Edited(Edited(t, n, child), p, right)
           e     == Edited(e2, q, above)
<1>0. TreeOf(V, r, live, lev, rows)
  BY DEF Stable
<1> HIDE DEF V
<1>2. PairAt(V, live, q, j, n, p) /\ FullNode(c) /\ FullNode(h)
  <2>1. ~V[q].leaf /\ j \in 1 .. Len(V[q].keys)
    BY DEF V
  <2> QED
    BY <1>0, <2>1, PairIs
<1>3. /\ n \in PageNo /\ p \in PageNo /\ q \in PageNo /\ V[q].keys[j] \in Key /\ h.leaf = c.leaf
  BY <1>2 DEF PairAt
<1>4. NodeAt(t, q) = V[q] /\ NodeAt(t, n) = c /\ NodeAt(t, p) = h
  BY <1>3, NodesSeen DEF V
<1>5. w = IF h.leaf /\ right.cells = << >> THEN [e2 EXCEPT !.raised = TRUE]
          ELSE Written(Written(Written(e, p, right), n, child), q, above)
  <2>1. NodeAt(t, q).kids[j] = n /\ NodeAt(t, q).kids[j + 1] = p /\ NodeAt(t, q).keys[j] = V[q].keys[j]
    BY <1>4
  <2> HIDE DEF n, p, c, h
  <2> QED
    BY <1>4, <2>1 DEF BorrowFromRight
<1>6. CanSpare(h)
  BY <1>4 DEF V
<1> HIDE DEF n, p, c, h, e2, child, right
<1>7. ~(h.leaf /\ right.cells = << >>)
  <2> SUFFICES ASSUME h.leaf, right.cells = << >> PROVE FALSE
    OBVIOUS
  <2>1. w = [e2 EXCEPT !.raised = TRUE]
    BY <1>5
  <2> DEFINE E == {n, p}
  <2>2. n \in E /\ p \in E /\ {} \subseteq E /\ E \subseteq E
    OBVIOUS
  <2> HIDE DEF E
  <2>3. View(t)[n] # Absent /\ View(t)[p] # Absent /\ n # p
    BY <1>2 DEF PairAt, V
  <2> USE DEF right, child
  <2>4. \A t0 : Edited(t0, n, child) = t0 \/ \E x : Edited(t0, n, child) = [t0 EXCEPT !.altered[n] = x]
    BY DEF Edited
  <2>5. \A t0 : Edited(t0, p, right) = t0 \/ \E x : Edited(t0, p, right) = [t0 EXCEPT !.altered[p] = x]
    BY DEF Edited
  <2> HIDE DEF right, child
  <2>6. t \in Trees
    BY DEF Stable, Kept
  <2>7. "raised" \in DOMAIN t
    BY <2>6 DEF Trees
  <2>8. DOMAIN Edited(t, n, child) = DOMAIN t
    BY <2>4
  <2>9. DOMAIN e2 = DOMAIN t
    BY <2>5, <2>8 DEF e2
  <2>10. w.raised = TRUE
    BY <2>1, <2>7, <2>9
  <2> QED
    BY <2>10 DEF Stopped
<1>8. HighGives(c, V[q].keys[j], h, child, sep, right)
  BY <1>7 DEF HighGives, right, child
<1>9. w = Written(Written(Written(e, p, right), n, child), q, above)
  BY <1>5, <1>7
<1> HIDE DEF sep, e
<1>10. Sides(c, V[q].keys[j], h, child, sep, right)
  BY <1>2, <1>3, <1>6, <1>8, SidesRight
<1>11. PICK V2 : SharedTo(t, live, q, j, n, p, child, sep, right, above, V2)
  BY <1>2, <1>10, SharedHow DEF V, c, h
<1> HIDE DEF above
<1> QED
  BY <1>9, <1>11, SharedKeeps DEF e, e2

(* The children of node q have settled: only pages below it have gone.       *)
Settling(t, S, D, q, r, live, lev, rows) ==
  \E live2 : /\ Stable(t, S, D, r, live2, lev, rows)
             /\ live2 \subseteq live /\ \A x \in live : lev[x] >= lev[q] => x \in live2

LEMMA JoinMade ==
  ASSUME NEW low \in Node, NEW high \in Node, high.leaf = low.leaf, NEW s \in Key,
         NEW node, node = IF low.leaf THEN Leaf(low.cells \o high.cells, MergedNext(low, high))
                          ELSE Internal(low.keys \o <<s>> \o high.keys, low.kids \o high.kids)
  PROVE  node \in Node /\ Join(low, s, high, node)
<1>1. CASE low.leaf
  <2>1. low.leaf = TRUE /\ high.leaf = TRUE
    BY <1>1, NodeKinds
  <2> DEFINE a == low.cells
             b == high.cells
             z == high.next
  <2>2. a \in Seq(Cells) /\ b \in Seq(Cells) /\ z \in PageNo \cup {NoPage}
    BY <2>1, NodeKinds
  <2>3. node = Leaf(a \o b, z)
    BY <2>1 DEF MergedNext
  <2> HIDE DEF a, b, z
  <2>4. a \o b \in Seq(Cells)
    BY <2>2
  <2>5. node \in Node /\ node.leaf = TRUE /\ node.cells = a \o b /\ node.next = z
    <3> DEFINE e == a \o b
    <3>1. e \in Seq(Cells) /\ node = Leaf(e, z)
      BY <2>3, <2>4
    <3> HIDE DEF e
    <3>2. Leaf(e, z) \in Node /\ Leaf(e, z).leaf = TRUE /\ Leaf(e, z).cells = e
          /\ Leaf(e, z).next = z
      BY <2>2, <3>1, LeafKind
    <3> QED
      BY <3>1, <3>2 DEF e
  <2> QED
    BY <2>1, <2>5 DEF Join, a, b, z
<1>2. CASE ~low.leaf
  <2>1. low.leaf = FALSE /\ high.leaf = FALSE
    BY <1>2, NodeKinds
  <2> DEFINE a == low.keys
             b == high.keys
             c == low.kids
             d == high.kids
  <2>2. a \in Seq(Key) /\ b \in Seq(Key) /\ c \in Seq(PageNo) /\ d \in Seq(PageNo)
    BY <2>1, NodeKinds
  <2>3. node = Internal(a \o <<s>> \o b, c \o d)
    BY <2>1
  <2> HIDE DEF a, b, c, d
  <2>4. a \o <<s>> \o b \in Seq(Key) /\ c \o d \in Seq(PageNo)
    <3>1. <<s>> \in Seq(Key)
      OBVIOUS
    <3> QED
      BY <2>2, <3>1
  <2>5. node \in Node /\ node.leaf = FALSE /\ node.keys = a \o <<s>> \o b /\ node.kids = c \o d
    <3> DEFINE e == a \o <<s>> \o b
               f == c \o d
    <3>1. e \in Seq(Key) /\ f \in Seq(PageNo) /\ node = Internal(e, f)
      BY <2>3, <2>4
    <3> HIDE DEF e, f
    <3>2. /\ Internal(e, f) \in Node /\ Internal(e, f).leaf = FALSE
          /\ Internal(e, f).keys = e /\ Internal(e, f).kids = f
      BY <3>1, InternalKind
    <3> QED
      BY <3>1, <3>2 DEF e, f
  <2> QED
    BY <2>1, <2>5 DEF Join, a, b, c, d
<1> QED
  BY <1>1, <1>2

LEMMA MergeDoes ==
  ASSUME NEW t, NEW S, NEW r, NEW live, NEW lev, NEW rows, Stable(t, S, {}, r, live, lev, rows),
         NEW q \in live, ~View(t)[q].leaf, NEW j \in 1 .. Len(View(t)[q].keys),
         NEW w, w = Merge(t, q, j), ~Stopped(w), NEW E, q \in E
  PROVE  Settling(w, S, E, q, r, live, lev, rows)
<1> DEFINE V == View(t)
           n == V[q].kids[j]
           p == V[q].kids[j + 1]
           low == V[n]
           high == V[p]
           merged == IF low.leaf THEN Leaf(low.cells \o high.cells, MergedNext(low, high))
                     ELSE Internal(low.keys \o <<V[q].keys[j]>> \o high.keys, low.kids \o high.kids)
           above == Internal(RemoveAt(V[q].keys, j), RemoveAt(V[q].kids, j + 1))
           e == IF low.leaf THEN t ELSE Edited(t, n, merged)
           w1 == Written(e, n, merged)
           D == {n}
<1>0. TreeOf(V, r, live, lev, rows) /\ Kept(t, S, {})
  BY DEF Stable
<1>00. n \in D /\ D \subseteq E \cup {n} /\ {} \subseteq D
  OBVIOUS
<1> HIDE DEF V, D
<1>1. ~V[q].leaf /\ j \in 1 .. Len(V[q].keys)
  BY DEF V
<1>2. PairAt(V, live, q, j, n, p) /\ lev[p] + 1 = lev[q]
  BY <1>0, <1>1, PairIs
<1>3. /\ n \in PageNo /\ p \in PageNo /\ q \in PageNo /\ V[q].keys[j] \in Key /\ high.leaf = low.leaf
      /\ low \in Node /\ high \in Node /\ n # p /\ n # q /\ p # q
      /\ V[q].keys \in Seq(Key) /\ V[q].kids \in Seq(PageNo) /\ Len(V[q].kids) = Len(V[q].keys) + 1
      /\ V[n] # Absent /\ V[q] # Absent
  BY <1>2 DEF PairAt
<1>4. NodeAt(t, q) = V[q] /\ NodeAt(t, n) = low /\ NodeAt(t, p) = high
  BY <1>3, NodesSeen DEF V
<1>5. w = Edited(w1, q, above)
  <2>1. NodeAt(t, q).kids[j] = n /\ NodeAt(t, q).kids[j + 1] = p
        /\ NodeAt(t, q).keys = V[q].keys /\ NodeAt(t, q).kids = V[q].kids
    BY <1>4
  <2> HIDE DEF n, p, low, high
  <2> QED
    BY <1>4, <2>1 DEF Merge
<1>6. merged \in Node /\ Join(low, V[q].keys[j], high, merged)
  <2> HIDE DEF low, high, n, p
  <2> QED
    BY <1>3, JoinMade
<1>7. above \in Node
  <2>1. j \in 1 .. Len(V[q].keys) /\ j + 1 \in 1 .. Len(V[q].kids)
    BY <1>1, <1>3
  <2>2. RemoveAt(V[q].keys, j) \in Seq(Key) /\ RemoveAt(V[q].kids, j + 1) \in Seq(PageNo)
    BY <1>3, <2>1, Removed
  <2> QED
    BY <2>2, InternalKind
<1> HIDE DEF merged, above, low, high, n, p
<1>8. Kept(e, S, D) /\ (View(e) = V \/ Changed(V, n, merged, View(e)))
  <2>1. CASE low.leaf
    <3>1. e = t
      BY <2>1
    <3>2. Kept(t, S, D)
      BY <1>0, <1>00 DEF Kept
    <3> QED
      BY <3>1, <3>2 DEF V
  <2>2. CASE ~low.leaf
    <3>1. e = Edited(t, n, merged)
      BY <2>2
    <3>2. Kept(Edited(t, n, merged), S, D) /\ Changed(View(t), n, merged, View(Edited(t, n, merged)))
      <4>1. View(t)[n] # Absent
        BY <1>3 DEF V
      <4> QED
        BY <1>0, <1>00, <1>3, <1>6, <4>1, EditedKeeps
    <3> QED
      BY <3>1, <3>2 DEF V
  <2> QED
    BY <2>1, <2>2
<1> HIDE DEF e
<1>9. ~Stopped(w1)
  BY <1>5, StoppedStays
<1>10. Kept(w1, S, E) /\ Changed(View(e), n, merged, View(w1))
  <2>1. n \in PageNo \cup {NoPage}
    BY <1>3
  <2> QED
    BY <1>00, <1>6, <1>8, <1>9, <2>1, WrittenKeeps
<1> HIDE DEF w1
<1>11. Kept(w, S, E) /\ Changed(View(w1), q, above, View(w))
  <2>1. View(w1)[q] # Absent /\ E \subseteq E
    BY <1>3, <1>8, <1>10 DEF Changed
  <2> QED
    BY <1>3, <1>5, <1>7, <1>10, <2>1, EditedKeeps
<1> DEFINE V2 == View(w)
<1>12. /\ V2 \in Pages /\ V2[n] = merged /\ V2[q] = above
       /\ \A x \in PageNo : x # n /\ x # q => V2[x] = V[x]
  BY <1>3, <1>8, <1>10, <1>11 DEF Changed
<1>13. live \subseteq PageNo
  BY <1>0, TreeOfNode
<1>14. MergedTo(V, live, q, j, n, p, merged, V2)
  <2> HIDE DEF V2
  <2> QED
    BY <1>1, <1>6, <1>12, <1>13 DEF MergedTo, n, p, low, high, above
<1>15. TreeOf(V2, r, live \ {p}, lev, rows)
  <2>1. PICK lo, hi, up : Tree(V, r, live, lev, lo, hi, up, rows)
    BY <1>0 DEF TreeOf
  <2> HIDE DEF V2
  <2> QED
    BY <1>14, <2>1, TreeMerge
<1>16. lev[p] \in Nat
  <2>1. p \in live
    BY <1>2 DEF PairAt
  <2> QED
    BY <1>0, <2>1, TreeOfNode
<1>17. Stable(w, S, E, r, live \ {p}, lev, rows)
  BY <1>11, <1>15 DEF Stable
<1>18. ASSUME NEW x \in live, lev[x] >= lev[q] PROVE x \in live \ {p}
  BY <1>2, <1>16, <1>18
<1>19. live \ {p} \subseteq live
  OBVIOUS
<1> QED
  BY <1>17, <1>18, <1>19 DEF Settling

LEMMA RebalanceDoes ==
  ASSUME NEW t, NEW S, NEW r, NEW live, NEW lev, NEW rows, Stable(t, S, {}, r, live, lev, rows),
         NEW q \in live, ~View(t)[q].leaf, NEW i \in 1 .. Len(View(t)[q].kids),
         NEW w, w = Rebalance(t, q, i), ~Stopped(w), NEW E, q \in E
  PROVE  Settling(w, S, E, q, r, live, lev, rows)
<1> DEFINE V == View(t)
           kids == NodeAt(t, q).kids
           Spares(j) == j \in DOMAIN kids /\ CanSpare(NodeAt(t, kids[j]))
           here == Loaded(t, {kids[j] : j \in {i - 1, i} \cap DOMAIN kids})
           both == Loaded(here, {kids[j] : j \in {i + 1} \cap DOMAIN kids})
<1>0. TreeOf(V, r, live, lev, rows) /\ Kept(t, S, {})
  BY DEF Stable
<1>1. \A X : Kept(Loaded(t, X), S, {}) /\ View(Loaded(t, X)) = V
  BY <1>0, LoadedKeeps
<1>2. Kept(here, S, {}) /\ View(here) = V
  BY <1>1
<1> HIDE DEF V
<1>3. Kept(both, S, {}) /\ View(both) = V
  <2> HIDE DEF here
  <2> QED
    BY <1>2, LoadedKeeps
<1>4. NodeIs(V[q], q, live, lev) /\ ~V[q].leaf
  BY <1>0, TreeOfNode DEF V
<1>5. InnerIs(V[q], q, live, lev) /\ q \in PageNo
  BY <1>4 DEF NodeIs
<1>6. kids = V[q].kids
  BY <1>5, NodesSeen DEF V
<1>7. /\ V[q].keys \in Seq(Key) /\ V[q].kids \in Seq(PageNo)
      /\ Len(V[q].keys) \in Nat /\ Len(V[q].kids) = Len(V[q].keys) + 1
      /\ i \in 1 .. Len(V[q].kids)
  BY <1>5 DEF InnerIs, V
<1>8. DOMAIN kids = 1 .. Len(V[q].kids) /\ \A j \in DOMAIN kids : kids[j] \in PageNo
  BY <1>6, <1>7
<1> HIDE DEF kids
<1>9. \A j \in DOMAIN kids : NodeAt(here, kids[j]) = NodeAt(t, kids[j]) /\ NodeAt(both, kids[j]) = NodeAt(t, kids[j])
  BY <1>2, <1>3, <1>8, NodesSeen DEF V
<1>10. Stable(here, S, {}, r, live, lev, rows) /\ Stable(both, S, {}, r, live, lev, rows)
  BY <1>0, <1>2, <1>3 DEF Stable
<1>11. w = CASE Spares(i - 1) -> BorrowFromLeft(here, q, i)
             [] ~Spares(i - 1) /\ Spares(i + 1) -> BorrowFromRight(both, q, i)
             [] ~Spares(i - 1) /\ ~Spares(i + 1) /\ Len(kids) > 1 -> Merge(both, q, Larger(i - 1, 1))
             [] OTHER -> [here EXCEPT !.raised = TRUE]
  BY DEF Rebalance, kids
<1> HIDE DEF here, both
<1>12. \A t0 : Stable(t0, S, {}, r, live, lev, rows) => Stable(t0, S, E, r, live, lev, rows)
  BY DEF Stable, Kept
<1>13. ASSUME Stable(w, S, {}, r, live, lev, rows) PROVE Settling(w, S, E, q, r, live, lev, rows)
  BY <1>12, <1>13 DEF Settling
<1>14. CASE Spares(i - 1)
  <2>1. i - 1 \in 1 .. Len(V[q].kids) /\ CanSpare(NodeAt(t, kids[i - 1]))
    BY <1>8, <1>14
  <2>2. i - 1 \in 1 .. Len(V[q].keys) /\ i \in Nat
    BY <1>7, <2>1
  <2>3. CanSpare(NodeAt(here, View(here)[q].kids[i - 1]))
    BY <1>2, <1>6, <1>8, <1>9, <2>1
  <2>4. w = BorrowFromLeft(here, q, i)
    BY <1>11, <1>14
  <2> HIDE DEF Spares
  <2>5. ~View(here)[q].leaf /\ i - 1 \in 1 .. Len(View(here)[q].keys)
    BY <1>2, <1>4, <2>2
  <2>6. Stable(w, S, {}, r, live, lev, rows)
    BY <1>10, <2>2, <2>3, <2>4, <2>5, BorrowLeftDoes
  <2> QED
    BY <1>13, <2>6
<1>15. CASE ~Spares(i - 1) /\ Spares(i + 1)
  <2>1. i + 1 \in 1 .. Len(V[q].kids) /\ CanSpare(NodeAt(t, kids[i + 1]))
    BY <1>8, <1>15
  <2>2. i \in 1 .. Len(V[q].keys)
    BY <1>7, <2>1
  <2>3. CanSpare(NodeAt(both, View(both)[q].kids[i + 1]))
    BY <1>3, <1>6, <1>8, <1>9, <2>1
  <2>4. w = BorrowFromRight(both, q, i)
    BY <1>11, <1>15
  <2> HIDE DEF Spares
  <2>5. ~View(both)[q].leaf /\ i \in 1 .. Len(View(both)[q].keys)
    BY <1>3, <1>4, <2>2
  <2>6. Stable(w, S, {}, r, live, lev, rows)
    BY <1>10, <2>3, <2>4, <2>5, BorrowRightDoes
  <2> QED
    BY <1>13, <2>6
<1>16. CASE ~Spares(i - 1) /\ ~Spares(i + 1) /\ Len(kids) > 1
  <2> DEFINE j == Larger(i - 1, 1)
  <2>1. w = Merge(both, q, j)
    BY <1>11, <1>16
  <2> HIDE DEF Spares
  <2>2. j \in 1 .. Len(V[q].keys)
    BY <1>6, <1>7, <1>16 DEF Larger
  <2> HIDE DEF j
  <2>3. ~View(both)[q].leaf /\ j \in 1 .. Len(View(both)[q].keys)
    BY <1>3, <1>4, <2>2
  <2> QED
    BY <1>10, <2>1, <2>3, MergeDoes
<1>17. CASE ~Spares(i - 1) /\ ~Spares(i + 1) /\ ~(Len(kids) > 1)
  <2>1. w = [here EXCEPT !.raised = TRUE]
    BY <1>11, <1>17
  <2>2. here \in Trees
    BY <1>2 DEF Kept
  <2>3. w.raised = TRUE
    BY <2>1, <2>2 DEF Trees
  <2> QED
    BY <2>3 DEF Stopped
<1> QED
  BY <1>14, <1>15, <1>16, <1>17

-----------------------------------------------------------------------------
(* From the leaf up to the root, and a root that gives way                   *)

(* Each step up the path settles a node of it.                               *)
LEMMA SettlesIs ==
  ASSUME NEW path \in Seq(PageNo), NEW first, NEW key
  PROVE  \A i \in 1 .. Len(path) :
           Settles(first, path, key)[i] = IF i = 1 THEN first ELSE Settled(key, Settles(first, path, key)[i - 1], path[Len(path) + 1 - i])
<1> DEFINE N == Len(path)
           Body(h, d) == IF h = 1 THEN first ELSE Settled(key, d, path[Len(path) + 1 - h])
           D == {i \in 0 .. N : \E g : g = [h \in 1 .. i |-> Body(h, g[h - 1])]}
<1>1. N \in Nat /\ DOMAIN path = 1 .. N
  OBVIOUS
<1>2. \A i \in 1 .. N : \A d : Body(i, d) = IF i = 1 THEN first ELSE Settled(key, d, path[Len(path) + 1 - i])
  OBVIOUS
<1>3. \A c, d : Body(1, c) = Body(1, d)
  OBVIOUS
<1>4. Settles(first, path, key) = CHOOSE g : g = [h \in 1 .. N |-> Body(h, g[h - 1])]
  BY <1>1 DEF Settles
<1> HIDE DEF Body, N
<1>5. 0 \in D
  <2> DEFINE g == [h \in 1 .. 0 |-> 0]
  <2>1. g = [h \in 1 .. 0 |-> Body(h, g[h - 1])]
    OBVIOUS
  <2>2. \E c : c = [h \in 1 .. 0 |-> Body(h, c[h - 1])]
    BY <2>1, Zenon
  <2>3. 0 \in 0 .. N
    BY <1>1
  <2> QED
    BY <2>2, <2>3, Zenon
<1>6. ASSUME NEW i \in 1 .. N, i - 1 \in D PROVE i \in D
  <2>1. PICK g : g = [h \in 1 .. (i - 1) |-> Body(h, g[h - 1])]
    BY <1>6
  <2> DEFINE f == [h \in 1 .. i |-> IF h = i THEN Body(i, g[i - 1]) ELSE g[h]]
  <2>2. ASSUME NEW h \in 1 .. i PROVE f[h] = Body(h, f[h - 1])
    <3>1. CASE h = i /\ h # 1
      <4>1. h - 1 \in 1 .. i /\ h - 1 # i
        BY <1>1, <3>1
      <4> QED
        BY <3>1, <4>1
    <3>2. CASE h = i /\ h = 1
      BY <1>3, <3>2
    <3>3. CASE h # i /\ h # 1
      <4>1. h \in 1 .. (i - 1) /\ h - 1 \in 1 .. i /\ h - 1 # i
        BY <1>1, <3>3
      <4> QED
        BY <2>1, <3>3, <4>1
    <3>4. CASE h # i /\ h = 1
      <4>1. 1 \in 1 .. (i - 1) /\ f[1] = g[1]
        BY <1>1, <3>4
      <4>2. g[1] = Body(1, g[1 - 1])
        BY <2>1, <4>1
      <4> QED
        BY <1>3, <3>4, <4>1, <4>2
    <3> QED
      BY <3>1, <3>2, <3>3, <3>4
  <2>3. f = [h \in 1 .. i |-> f[h]]
    OBVIOUS
  <2> HIDE DEF f
  <2>4. f = [h \in 1 .. i |-> Body(h, f[h - 1])]
    BY <2>2, <2>3
  <2> QED
    BY <1>1, <2>4
<1>7. N \in D
  <2> HIDE DEF D
  <2> QED
    BY <1>1, <1>5, <1>6, UpTo
<1>8. Settles(first, path, key) = [h \in 1 .. N |-> Body(h, Settles(first, path, key)[h - 1])]
  BY <1>4, <1>7, Zenon
<1>9. \A i \in 1 .. N : Settles(first, path, key)[i] = Body(i, Settles(first, path, key)[i - 1])
  BY <1>8
<1>10. \A i \in 1 .. N :
           Settles(first, path, key)[i] = IF i = 1 THEN first ELSE Settled(key, Settles(first, path, key)[i - 1], path[Len(path) + 1 - i])
  BY <1>2, <1>9
<1> QED
  BY <1>10 DEF N

(* All below the first j nodes of the path has settled.                      *)
SettledTo(u, path, j, r, rows, S) ==
  \/ Stopped(u)
  \/ \E live, lev : /\ Stable(u, S, {}, r, live, lev, rows)
                    /\ \A x \in 1 .. j : path[x] \in live /\ lev[path[x]] = Len(path) - x

LEMMA SettledDoes ==
  ASSUME NEW path \in Seq(PageNo), NEW j \in 1 .. (Len(path) - 1), NEW key \in Key, NEW r, NEW rows, NEW S,
         NEW u, SettledTo(u, path, j + 1, r, rows, S)
  PROVE  SettledTo(Settled(key, u, path[j]), path, j, r, rows, S)
<1> DEFINE q == path[j]
           w == Settled(key, u, q)
<1>0. Len(path) \in Nat /\ j \in Nat \ {0} /\ \A x \in 1 .. j : x \in 1 .. (j + 1)
  OBVIOUS
<1>1. CASE Stopped(u)
  <2>1. w = u
    BY <1>1 DEF Settled
  <2> QED
    BY <1>1, <2>1 DEF SettledTo
<1>2. CASE ~Stopped(u)
  <2>1. PICK live, lev : /\ Stable(u, S, {}, r, live, lev, rows)
                         /\ \A x \in 1 .. (j + 1) : path[x] \in live /\ lev[path[x]] = Len(path) - x
    BY <1>2 DEF SettledTo
  <2> DEFINE V == View(u)
             i == ChildIndex(NodeAt(u, q), key)
             child == NodeAt(u, q).kids[i]
  <2>2. TreeOf(V, r, live, lev, rows) /\ Kept(u, S, {})
    BY <2>1 DEF Stable
  <2>3. q \in live /\ lev[q] = Len(path) - j
    BY <1>0, <2>1
  <2> HIDE DEF V, q
  <2>4. NodeIs(V[q], q, live, lev)
    BY <2>2, <2>3, TreeOfNode
  <2>5. ~V[q].leaf
    BY <1>0, <2>3, <2>4 DEF NodeIs
  <2>6. q \in PageNo /\ NodeAt(u, q) = V[q]
    BY <2>4, NodesSeen DEF NodeIs, V
  <2>7. i \in 1 .. Len(V[q].kids)
    BY <2>4, <2>5, <2>6 DEF NodeIs, InnerIs
  <2> HIDE DEF i
  <2>8. w = IF Underflow(NodeAt(u, child)) THEN Rewritten(Rebalance(u, q, i), q) ELSE Loaded(u, {child})
    BY <1>2 DEF Settled, i
  <2> HIDE DEF child
  <2>9. CASE Underflow(NodeAt(u, child))
    <3> DEFINE b == Rebalance(u, q, i)
               E == {q}
    <3>0. q \in E /\ E \subseteq {} \cup {q}
      OBVIOUS
    <3> HIDE DEF b, E
    <3>1. w = Written(b, q, NodeAt(b, q))
      BY <2>8, <2>9 DEF Rewritten, b
    <3>2. SUFFICES ASSUME ~Stopped(w) PROVE SettledTo(w, path, j, r, rows, S)
      BY DEF SettledTo, q
    <3>3. ~Stopped(b)
      BY <3>1, <3>2, StoppedStays
    <3>4. Settling(b, S, E, q, r, live, lev, rows)
      BY <2>1, <2>3, <2>5, <2>7, <3>0, <3>3, RebalanceDoes DEF b, V
    <3>5. PICK live2 : /\ Stable(b, S, E, r, live2, lev, rows)
                       /\ live2 \subseteq live /\ \A x \in live : lev[x] >= lev[q] => x \in live2
      BY <3>4 DEF Settling
    <3>6. lev[q] >= lev[q]
      BY <1>0, <2>3
    <3>7. q \in live2 /\ TreeOf(View(b), r, live2, lev, rows) /\ Kept(b, S, E)
      BY <2>3, <3>5, <3>6 DEF Stable
    <3>8. NodeIs(View(b)[q], q, live2, lev)
      BY <3>7, TreeOfNode
    <3>9. NodeAt(b, q) = View(b)[q] /\ NodeAt(b, q) \in Node
      BY <2>6, <3>8, NodesSeen DEF NodeIs
    <3>10. Kept(w, S, {}) /\ View(w) = View(b)
      BY <2>6, <3>0, <3>1, <3>2, <3>7, <3>9, WrittenSame
    <3>11. Stable(w, S, {}, r, live2, lev, rows)
      BY <3>7, <3>10 DEF Stable
    <3>12. ASSUME NEW x \in 1 .. j PROVE path[x] \in live2 /\ lev[path[x]] = Len(path) - x
      <4>1. path[x] \in live /\ lev[path[x]] = Len(path) - x
        BY <1>0, <2>1
      <4>2. lev[path[x]] >= lev[q]
        BY <1>0, <2>3, <4>1
      <4> QED
        BY <3>5, <4>1, <4>2
    <3> QED
      BY <3>11, <3>12 DEF SettledTo
  <2>10. CASE ~Underflow(NodeAt(u, child))
    <3>1. w = Loaded(u, {child})
      BY <2>8, <2>10
    <3>2. Kept(w, S, {}) /\ View(w) = View(u)
      BY <2>2, <3>1, LoadedKeeps
    <3>3. Stable(w, S, {}, r, live, lev, rows)
      BY <2>2, <3>2 DEF Stable, V
    <3>4. \A x \in 1 .. j : path[x] \in live /\ lev[path[x]] = Len(path) - x
      BY <1>0, <2>1
    <3> QED
      BY <3>3, <3>4 DEF SettledTo, q
  <2> QED
    BY <2>9, <2>10 DEF q
<1> QED
  BY <1>1, <1>2

LEMMA SettlesDoes ==
  ASSUME NEW path \in Seq(PageNo), Len(path) >= 1, NEW key \in Key, NEW r, NEW rows, NEW S, NEW first,
         SettledTo(first, path, Len(path), r, rows, S)
  PROVE  SettledTo(Settles(first, path, key)[Len(path)], path, 1, r, rows, S)
<1> DEFINE N == Len(path)
           f == Settles(first, path, key)
           At(i) == SettledTo(f[i], path, N + 1 - i, r, rows, S)
           D == {i \in 0 .. N : i = 0 \/ At(i)}
<1>1. N \in Nat /\ N >= 1
  OBVIOUS
<1>2. \A i \in 1 .. N : f[i] = IF i = 1 THEN first ELSE Settled(key, f[i - 1], path[N + 1 - i])
  BY SettlesIs
<1> HIDE DEF f
<1>3. At(1)
  <2>1. f[1] = first
    BY <1>1, <1>2
  <2>2. N + 1 - 1 = N
    BY <1>1
  <2> QED
    BY <2>1, <2>2
<1>4. ASSUME NEW i \in 1 .. N, i # 1, At(i - 1) PROVE At(i)
  <2> DEFINE j == N + 1 - i
             g == f[i - 1]
  <2>1. j \in 1 .. (Len(path) - 1) /\ N + 1 - (i - 1) = j + 1
    BY <1>1, <1>4
  <2>2. f[i] = Settled(key, g, path[j])
    BY <1>2, <1>4
  <2>3. SettledTo(g, path, j + 1, r, rows, S)
    BY <1>4, <2>1
  <2> HIDE DEF g, j, N
  <2>4. SettledTo(f[i], path, j, r, rows, S)
    BY <2>1, <2>2, <2>3, SettledDoes
  <2> QED
    BY <2>4 DEF j
<1>5. 0 \in D
  BY <1>1
<1>6. ASSUME NEW i \in 1 .. N, i - 1 \in D PROVE i \in D
  <2> HIDE DEF At
  <2> QED
    BY <1>1, <1>3, <1>4, <1>6
<1>7. N \in D
  <2> HIDE DEF D
  <2>1. \A i \in 0 .. N : i \in D
    BY <1>1, <1>5, <1>6, UpTo
  <2> QED
    BY <1>1, <2>1
<1>8. At(N) /\ N + 1 - N = 1
  BY <1>1, <1>7
<1> QED
  BY <1>8 DEF f

LEMMA CollapseIs ==
  ASSUME NEW t, NEW r
  PROVE  /\ Collapse(t, r)[0] = r
         /\ \A i \in 1 .. MaxPages :
              LET n == Collapse(t, r)[i - 1]
              IN  Collapse(t, r)[i] = IF ~NodeAt(t, n).leaf /\ NodeAt(t, n).keys = << >>
                                      THEN NodeAt(t, n).kids[1] ELSE n
<1> DEFINE N == MaxPages
           op == Collapse(t, r)
           Step(n) == IF ~NodeAt(t, n).leaf /\ NodeAt(t, n).keys = << >> THEN NodeAt(t, n).kids[1] ELSE n
           Body(h, d) == IF h = 0 THEN r ELSE Step(d)
           D == {i \in 0 .. N : \E g : g = [h \in 0 .. i |-> Body(h, g[h - 1])]}
<1>1. N \in Nat
  BY Sizes
<1>2. (\A d : Body(0, d) = r) /\ \A i \in 1 .. N : \A d : Body(i, d) = Step(d)
  BY <1>1
<1>4. op = CHOOSE g : g = [h \in 0 .. N |-> Body(h, g[h - 1])]
  BY DEF Collapse
<1> HIDE DEF Body, N, Step, op
<1>5. 0 \in D
  <2> DEFINE g == [h \in 0 .. 0 |-> r]
  <2>1. \A h \in 0 .. 0 : h = 0
    OBVIOUS
  <2>2. g = [h \in 0 .. 0 |-> Body(h, g[h - 1])]
    BY <1>2, <2>1
  <2> HIDE DEF g
  <2>3. \E c : c = [h \in 0 .. 0 |-> Body(h, c[h - 1])]
    BY <2>2, Zenon
  <2>4. 0 \in 0 .. N
    BY <1>1
  <2> QED
    BY <2>3, <2>4, Zenon
<1>6. ASSUME NEW i \in 1 .. N, i - 1 \in D PROVE i \in D
  <2>1. PICK g : g = [h \in 0 .. (i - 1) |-> Body(h, g[h - 1])]
    BY <1>6
  <2> DEFINE f == [h \in 0 .. i |-> IF h = i THEN Body(i, g[i - 1]) ELSE g[h]]
  <2>2. ASSUME NEW h \in 0 .. i PROVE f[h] = Body(h, f[h - 1])
    <3>1. CASE h = i
      <4>1. h - 1 \in 0 .. i /\ h - 1 # i
        BY <1>1, <3>1
      <4> QED
        BY <3>1, <4>1
    <3>2. CASE h # i /\ h # 0
      <4>1. h \in 0 .. (i - 1) /\ h - 1 \in 0 .. i /\ h - 1 # i
        BY <1>1, <3>2
      <4> QED
        BY <2>1, <3>2, <4>1
    <3>3. CASE h # i /\ h = 0
      <4>1. 0 \in 0 .. (i - 1) /\ f[0] = g[0]
        BY <1>1, <3>3
      <4>2. g[0] = Body(0, g[0 - 1])
        BY <2>1, <4>1
      <4> QED
        BY <1>2, <3>3, <4>1, <4>2
    <3> QED
      BY <3>1, <3>2, <3>3
  <2>3. f = [h \in 0 .. i |-> f[h]]
    OBVIOUS
  <2> HIDE DEF f
  <2>4. f = [h \in 0 .. i |-> Body(h, f[h - 1])]
    BY <2>2, <2>3
  <2> QED
    BY <1>1, <2>4
<1>7. N \in D
  <2> HIDE DEF D
  <2>1. \A i \in 0 .. N : i \in D
    BY <1>1, <1>5, <1>6, UpTo
  <2> QED
    BY <1>1, <2>1
<1>8. op = [h \in 0 .. N |-> Body(h, op[h - 1])]
  BY <1>4, <1>7, Zenon
<1>9. \A h \in 0 .. N : op[h] = Body(h, op[h - 1])
  BY <1>8
<1>10. op[0] = r /\ \A i \in 1 .. N : op[i] = Step(op[i - 1])
  <2>1. 0 \in 0 .. N /\ \A i \in 1 .. N : i \in 0 .. N
    BY <1>1
  <2>2. op[0] = Body(0, op[0 - 1]) /\ \A i \in 1 .. N : op[i] = Body(i, op[i - 1])
    BY <1>9, <2>1
  <2> QED
    BY <1>2, <2>2
<1> QED
  BY <1>10 DEF N, op, Step

LEMMA CollapsedDoes ==
  ASSUME NEW t, NEW S, NEW r, NEW rows, Stands(t, r, rows, S)
  PROVE  Stands(t, Collapsed(t, r), rows, S)
<1> DEFINE V == View(t)
           f == Collapse(t, r)
           At(i) == \E live, lev : TreeOf(V, f[i], live, lev, rows)
           D == {i \in 0 .. MaxPages : At(i)}
<1>0. MaxPages \in Nat /\ Kept(t, S, {}) /\ \E live, lev : TreeOf(V, r, live, lev, rows)
  BY Sizes DEF Stands
<1>1. /\ f[0] = r
      /\ \A i \in 1 .. MaxPages :
           f[i] = IF ~NodeAt(t, f[i - 1]).leaf /\ NodeAt(t, f[i - 1]).keys = << >>
                  THEN NodeAt(t, f[i - 1]).kids[1] ELSE f[i - 1]
  BY CollapseIs
<1>2. Collapsed(t, r) = f[MaxPages]
  BY DEF Collapsed
<1> HIDE DEF f, V
<1>3. 0 \in D
  BY <1>0, <1>1
<1>4. ASSUME NEW i \in 1 .. MaxPages, i - 1 \in D PROVE i \in D
  <2> DEFINE n == f[i - 1]
             m == f[i]
  <2>1. PICK live, lev : TreeOf(V, n, live, lev, rows)
    BY <1>4
  <2>2. n \in live /\ n \in PageNo
    BY <2>1, TreeOfNode
  <2>3. NodeAt(t, n) = V[n]
    BY <2>2, NodesSeen DEF V
  <2>4. m = IF ~NodeAt(t, n).leaf /\ NodeAt(t, n).keys = << >> THEN NodeAt(t, n).kids[1] ELSE n
    BY <1>1
  <2> HIDE DEF m, n
  <2>5. \E live2, lev2 : TreeOf(V, m, live2, lev2, rows)
    <3>1. CASE ~V[n].leaf /\ V[n].keys = << >>
      <4>1. m = V[n].kids[1]
        BY <2>3, <2>4, <3>1
      <4>2. PICK lo, hi, up : Tree(V, n, live, lev, lo, hi, up, rows)
        BY <2>1 DEF TreeOf
      <4>3. Tree(V, m, live \ {n}, lev, lo, hi, up, rows)
        BY <3>1, <4>1, <4>2, TreeDropRoot
      <4> QED
        BY <4>3 DEF TreeOf
    <3>2. CASE ~(~V[n].leaf /\ V[n].keys = << >>)
      BY <2>1, <2>3, <2>4, <3>2
    <3> QED
      BY <3>1, <3>2
  <2>6. i \in 0 .. MaxPages
    BY <1>0
  <2> QED
    BY <2>5, <2>6 DEF m
<1>5. MaxPages \in D
  <2> HIDE DEF D
  <2>1. \A i \in 0 .. MaxPages : i \in D
    BY <1>0, <1>3, <1>4, UpTo
  <2> QED
    BY <1>0, <2>1
<1> QED
  BY <1>0, <1>2, <1>5 DEF Stands, V

(* A delete does what it is called for, unless it raises.                    *)
LEMMA DeleteDoes ==
  ASSUME NEW t, NEW r, NEW rows, NEW S, Stands(t, r, rows, S), NEW key \in Key, rows[key] # NoRow,
         NEW d, d = Delete(t, r, key), ~Stopped(d.tree)
  PROVE  Stands(d.tree, d.root, [rows EXCEPT ![key] = NoRow], S)
<1> DEFINE path == Path(t, r, key)
           n    == Last(path)
           leaf == NodeAt(t, n)
           u    == Loaded(t, ToSet(path))
           node == Leaf(RemoveAt(leaf.cells, CellIndex(leaf, key)), leaf.next)
           w    == Edited(u, n, node)
           first == Written(w, n, node)
           top  == Settles(first, path, key)[Len(path)]
           new  == IF top.raised THEN r ELSE Collapsed(top, r)
           rows2 == [rows EXCEPT ![key] = NoRow]
<1>1. PICK live, lev, lo, hi, up : Tree(View(t), r, live, lev, lo, hi, up, rows)
  BY StandsParts
<1>2. Kept(t, S, {})
  BY StandsParts
<1>4. Kept(u, S, {}) /\ View(u) = View(t)
  BY <1>2, LoadedKeeps
<1>5. rows \in Rows
  BY <1>1 DEF Tree
<1>6. /\ leaf = View(t)[n] /\ lo[n] <= key /\ key < hi[n]
      /\ Holds(View(t)[n].cells, lo[n], hi[n], rows)
      /\ View(t)[n].leaf /\ View(t)[n] \in Node /\ n \in PageNo
  <2>1. n \in live
    BY <1>1, RouteEnds
  <2> QED
    BY <1>1, <2>1, RouteEnds, TreeNode
<1>60. path \in Seq(PageNo) /\ Len(path) >= 1 /\ path[1] = r
  BY <1>1, RouteEnds
<1>61. Has(leaf, key)
  <2> DEFINE a == lo[n]
             b == hi[n]
  <2>1. Holds(leaf.cells, a, b, rows) /\ a <= key /\ key < b
    BY <1>6
  <2> HIDE DEF a, b, leaf
  <2> QED
    BY <1>5, <2>1, LeafFinds
<1>3. d.tree = (IF top.raised THEN top ELSE Loaded(top, {r, new})) /\ d.root = new
  BY <1>61 DEF Delete
<1> HIDE DEF path, u, new, top
<1>7. Holds(RemoveAt(leaf.cells, CellIndex(leaf, key)), lo[n], hi[n], rows2)
  <2> DEFINE a == lo[n]
             b == hi[n]
  <2>1. Holds(leaf.cells, a, b, rows) /\ a <= key /\ key < b
    BY <1>6
  <2> HIDE DEF a, b, leaf
  <2>2. Holds(RemoveAt(leaf.cells, CellIndex(leaf, key)), a, b, rows2)
    BY <1>5, <2>1, HoldsRemoved
  <2> QED
    BY <2>2 DEF a, b
<1>8. /\ node \in Node /\ node.leaf /\ Holds(node.cells, lo[n], hi[n], rows2)
      /\ node.next = leaf.next
  <2>1. leaf.next \in PageNo \cup {NoPage}
    BY <1>6, NodeKinds
  <2>2. RemoveAt(leaf.cells, CellIndex(leaf, key)) \in Seq(Cells)
    BY <1>7 DEF Holds
  <2> HIDE DEF leaf, n
  <2>3. node \in Node /\ node.leaf = TRUE
        /\ node.cells = RemoveAt(leaf.cells, CellIndex(leaf, key))
        /\ node.next = leaf.next
    BY <2>1, <2>2, LeafKind
  <2> HIDE DEF node
  <2> QED
    BY <1>7, <2>3
<1> HIDE DEF node, rows2, n, w, first
<1>9. LeafTakes(t, r, rows, S, key, NoRow, n, node, path)
  <2>1. NoRow \in Lengths \cup {NoRow}
    OBVIOUS
  <2> QED
    BY <1>1, <1>2, <1>6, <1>8, <2>1, LeafChanges DEF path, rows2, n
<1>10. PICK live2, lev2, V : /\ Changed(View(t), n, node, V) /\ TreeOf(V, r, live2, lev2, rows2)
                             /\ OnWay(V, live2, lev2, path, Len(path), key)
  BY <1>9 DEF LeafTakes, rows2
<1>11. SettledTo(first, path, Len(path), r, rows2, S)
  <2> SUFFICES ASSUME ~Stopped(first) PROVE SettledTo(first, path, Len(path), r, rows2, S)
    BY DEF SettledTo
  <2> DEFINE E == {n}
  <2>1. n \in E /\ {} \subseteq E /\ E \subseteq {} \cup {n}
    OBVIOUS
  <2> HIDE DEF E
  <2>2. View(t)[n] # Absent
    BY <1>9 DEF LeafTakes
  <2>3. Kept(w, S, E) /\ Changed(View(t), n, node, View(w))
    <3>1. View(u)[n] # Absent
      BY <1>4, <2>2
    <3> QED
      BY <1>4, <1>6, <1>8, <2>1, <3>1, EditedKeeps DEF w
  <2>4. View(t) \in Pages
    BY <1>2, Viewed
  <2>5. View(w) = V
    BY <1>6, <1>10, <2>3, <2>4, ChangedSame
  <2>6. Kept(first, S, {}) /\ View(first) = View(w)
    <3>1. View(w)[n] = node /\ ~Stopped(Written(w, n, node))
      BY <1>10, <2>5 DEF first, Changed
    <3>2. Kept(Written(w, n, node), S, {}) /\ View(Written(w, n, node)) = View(w)
      BY <1>6, <1>8, <2>1, <2>3, <3>1, WrittenSame
    <3> QED
      BY <3>2 DEF first
  <2>7. Stable(first, S, {}, r, live2, lev2, rows2)
    BY <1>10, <2>5, <2>6 DEF Stable
  <2>8. \A x \in 1 .. Len(path) : path[x] \in live2 /\ lev2[path[x]] = Len(path) - x
    BY <1>10 DEF OnWay
  <2> QED
    BY <2>7, <2>8 DEF SettledTo
<1>12. SettledTo(top, path, 1, r, rows2, S)
  BY <1>11, <1>60, SettlesDoes DEF top
<1>13. ~Stopped(top)
  BY <1>3 DEF Stopped, Loaded
<1>14. Stands(top, r, rows2, S)
  BY <1>12, <1>13 DEF SettledTo, Stable, Stands
<1>15. ~top.raised /\ new = Collapsed(top, r) /\ d.tree = Loaded(top, {r, new})
  BY <1>3, <1>13 DEF Stopped, new
<1>16. Stands(top, new, rows2, S)
  BY <1>14, <1>15, CollapsedDoes
<1>17. Kept(d.tree, S, {}) /\ View(d.tree) = View(top)
  BY <1>15, <1>16, LoadedKeeps DEF Stands
<1>18. Stands(d.tree, d.root, rows2, S)
  BY <1>3, <1>16, <1>17 DEF Stands
<1> QED
  BY <1>18 DEF rows2

-----------------------------------------------------------------------------
(* Pages are numbered anew                                                   *)

Kids(node) == IF node.leaf THEN << >> ELSE node.kids

(* The pages seen so far are those of the root and of the children of the    *)
(* first i of them, each once.                                               *)
Seen(V, r, live, up, s, i) ==
  /\ s \in Seq(live) /\ Len(s) >= 1 /\ s[1] = r
  /\ \A x, y \in 1 .. Len(s) : s[x] = s[y] => x = y
  /\ \A x \in 2 .. Len(s) : \E y \in 1 .. Len(s) : y <= i /\ up[s[x]] = s[y]
  /\ \A y \in 1 .. Len(s) : y <= i =>
       \A z \in 1 .. Len(Kids(V[s[y]])) : \E x \in 1 .. Len(s) : s[x] = Kids(V[s[y]])[z]

LEMMA KidsAre ==
  ASSUME NEW V, NEW r, NEW live, NEW lev, NEW lo, NEW hi, NEW up, NEW rows,
         Tree(V, r, live, lev, lo, hi, up, rows), NEW n \in live
  PROVE  /\ Kids(V[n]) \in Seq(live) /\ Len(Kids(V[n])) \in Nat
         /\ \A z \in 1 .. Len(Kids(V[n])) : Kids(V[n])[z] # r /\ up[Kids(V[n])[z]] = n
         /\ \A x, y \in 1 .. Len(Kids(V[n])) : Kids(V[n])[x] = Kids(V[n])[y] => x = y
<1>1. CASE V[n].leaf
  <2>1. Kids(V[n]) = << >>
    BY <1>1 DEF Kids
  <2>2. << >> \in Seq(live) /\ Len(<< >>) = 0 /\ 1 .. 0 = {}
    OBVIOUS
  <2> QED
    BY <2>1, <2>2
<1>2. CASE ~V[n].leaf
  <2> DEFINE kids == V[n].kids
  <2>1. Kids(V[n]) = kids
    BY <1>2 DEF Kids
  <2>2. /\ InnerAt(V[n], n, live, lev, lo, hi, up)
        /\ \A i \in 1 .. Len(kids) : kids[i] \in live /\ lev[kids[i]] + 1 = lev[n] /\ up[kids[i]] = n
    BY <1>2, TreeNode
  <2>3. kids \in Seq(PageNo) /\ Len(kids) \in Nat /\ Distinct(kids)
    BY <2>2, PartsTyped DEF InnerAt
  <2> HIDE DEF kids
  <2>4. kids \in Seq(live)
    BY <2>2, <2>3
  <2>5. ASSUME NEW z \in 1 .. Len(kids) PROVE kids[z] # r
    <3>1. kids[z] \in live /\ lev[kids[z]] + 1 = lev[n]
      BY <2>2
    <3>2. lev[n] \in Nat /\ lev[kids[z]] \in Nat
      BY <3>1, TreeNode
    <3>3. n # r => lev[n] < lev[r]
      BY DEF Tree
    <3> QED
      BY <3>1, <3>2, <3>3
  <2> QED
    BY <2>1, <2>2, <2>3, <2>4, <2>5 DEF Distinct
<1> QED
  BY <1>1, <1>2

LEMMA SeenStep ==
  ASSUME NEW V, NEW r, NEW live, NEW lev, NEW lo, NEW hi, NEW up, NEW rows,
         Tree(V, r, live, lev, lo, hi, up, rows),
         NEW s, NEW i \in Nat, NEW j, j = i - 1, Seen(V, r, live, up, s, j), i \in 1 .. Len(s)
  PROVE  Seen(V, r, live, up, s \o Kids(V[s[i]]), i)
<1> DEFINE n == s[i]
           kids == Kids(V[n])
           s2 == s \o kids
           L == Len(s)
           K == Len(kids)
<1>1. /\ s \in Seq(live) /\ L \in Nat /\ L >= 1 /\ s[1] = r
      /\ \A x, y \in 1 .. L : s[x] = s[y] => x = y
      /\ \A x \in 2 .. L : \E y \in 1 .. L : y <= j /\ up[s[x]] = s[y]
      /\ \A y \in 1 .. L : y <= j =>
           \A z \in 1 .. Len(Kids(V[s[y]])) : \E x \in 1 .. L : s[x] = Kids(V[s[y]])[z]
  BY DEF Seen
<1>1a. \A x, y \in 1 .. L : s[x] = s[y] => x = y
  BY <1>1
<1>2. n \in live /\ i \in 1 .. L
  BY <1>1
<1> HIDE DEF n, L
<1>3. /\ kids \in Seq(live) /\ K \in Nat
      /\ \A z \in 1 .. K : kids[z] # r /\ up[kids[z]] = n
      /\ \A x, y \in 1 .. K : kids[x] = kids[y] => x = y
  BY <1>2, KidsAre
<1> HIDE DEF kids
<1>4. /\ s2 \in Seq(live) /\ Len(s2) = L + K
      /\ \A x \in 1 .. L : s2[x] = s[x]
      /\ \A x \in (L + 1) .. (L + K) : s2[x] = kids[x - L]
  BY <1>1, <1>3 DEF L
<1> HIDE DEF s2, K
<1>5. \A x \in (L + 1) .. (L + K) : x - L \in 1 .. K
  BY <1>1, <1>3
<1>6. \A x \in 1 .. (L + K) : x \in 1 .. L \/ x \in (L + 1) .. (L + K)
  BY <1>1, <1>3
<1>7. 1 \in 1 .. L /\ Len(s2) >= 1 /\ s2[1] = r
  BY <1>1, <1>3, <1>4
<1>8. ASSUME NEW x \in 1 .. L, NEW z \in 1 .. K PROVE s[x] # kids[z]
  <2> SUFFICES ASSUME s[x] = kids[z] PROVE FALSE
    OBVIOUS
  <2>1. up[s[x]] = n /\ s[x] # r
    BY <1>3
  <2>2. x \in 2 .. L
    BY <1>1, <2>1
  <2>3. PICK y \in 1 .. L : y <= j /\ up[s[x]] = s[y]
    BY <1>1, <2>2
  <2>4. y = i
    <3>1. s[y] = s[i]
      BY <2>1, <2>3 DEF n
    <3> QED
      BY <1>1a, <1>2, <3>1
  <2>5. i \in Nat /\ ~(i <= i - 1)
    OBVIOUS
  <2> QED
    BY <2>3, <2>4, <2>5
<1>9. ASSUME NEW x \in 1 .. (L + K), NEW y \in 1 .. (L + K), s2[x] = s2[y] PROVE x = y
  <2>1. CASE x \in 1 .. L /\ y \in 1 .. L
    BY <1>1, <1>4, <1>9, <2>1
  <2>2. CASE x \in 1 .. L /\ y \in (L + 1) .. (L + K)
    BY <1>4, <1>5, <1>8, <1>9, <2>2
  <2>3. CASE x \in (L + 1) .. (L + K) /\ y \in 1 .. L
    BY <1>4, <1>5, <1>8, <1>9, <2>3
  <2>4. CASE x \in (L + 1) .. (L + K) /\ y \in (L + 1) .. (L + K)
    <3>1. kids[x - L] = kids[y - L] /\ x - L \in 1 .. K /\ y - L \in 1 .. K
      BY <1>4, <1>5, <1>9, <2>4
    <3>2. x - L = y - L
      BY <1>3, <3>1
    <3> QED
      BY <1>1, <3>2
  <2> QED
    BY <1>6, <2>1, <2>2, <2>3, <2>4
<1>10. ASSUME NEW x \in 2 .. (L + K) PROVE \E y \in 1 .. (L + K) : y <= i /\ up[s2[x]] = s2[y]
  <2>1. CASE x \in 1 .. L
    <3>1. x \in 2 .. L
      BY <2>1, <1>1
    <3>2. PICK y \in 1 .. L : y <= j /\ up[s[x]] = s[y]
      BY <1>1, <3>1
    <3>3. y \in 1 .. (L + K) /\ y <= i
      BY <1>1, <1>3, <3>2
    <3> QED
      BY <1>4, <2>1, <3>2, <3>3
  <2>2. CASE x \in (L + 1) .. (L + K)
    <3>1. up[s2[x]] = n
      BY <1>3, <1>4, <1>5, <2>2
    <3>2. s2[i] = n /\ i \in 1 .. (L + K) /\ i <= i
      BY <1>1, <1>2, <1>3, <1>4 DEF n
    <3> QED
      BY <3>1, <3>2
  <2>3. x \in 1 .. (L + K)
    OBVIOUS
  <2> QED
    BY <1>6, <2>1, <2>2, <2>3
<1>11. ASSUME NEW y \in 1 .. (L + K), y <= i, NEW z \in 1 .. Len(Kids(V[s2[y]]))
       PROVE  \E x \in 1 .. (L + K) : s2[x] = Kids(V[s2[y]])[z]
  <2>1. y \in 1 .. L
    BY <1>1, <1>2, <1>3, <1>11
  <2>2. s2[y] = s[y]
    BY <1>4, <2>1
  <2>3. CASE y = i
    <3>1. Kids(V[s2[y]]) = kids /\ z \in 1 .. K
      BY <2>2, <2>3 DEF n, kids, K
    <3> DEFINE x == L + z
    <3>2. x \in (L + 1) .. (L + K) /\ x - L = z /\ x \in 1 .. (L + K)
      BY <1>1, <1>3, <3>1
    <3> HIDE DEF x
    <3>3. s2[x] = kids[z]
      BY <1>4, <3>2
    <3> QED
      BY <3>1, <3>2, <3>3
  <2>4. CASE y # i
    <3>1. y <= j
      BY <1>11, <2>1, <2>4, <1>1
    <3>2. PICK x \in 1 .. L : s[x] = Kids(V[s[y]])[z]
      BY <1>1, <2>1, <2>2, <3>1
    <3>3. x \in 1 .. (L + K)
      BY <1>1, <1>3
    <3> QED
      BY <1>4, <2>2, <3>2, <3>3
  <2> QED
    BY <2>3, <2>4
<1>12. Seen(V, r, live, up, s2, i)
  BY <1>4, <1>7, <1>9, <1>10, <1>11 DEF Seen
<1> QED
  BY <1>12 DEF s2, kids, n

LEMMA VisitedIs ==
  ASSUME NEW t, NEW r
  PROVE  /\ Visited(t, r)[0] = <<r>>
         /\ \A i \in 1 .. MaxPages :
              Visited(t, r)[i] = IF i \in DOMAIN Visited(t, r)[i - 1]
                                 THEN Visited(t, r)[i - 1] \o KidsOf(t, Visited(t, r)[i - 1][i])
                                 ELSE Visited(t, r)[i - 1]
<1> DEFINE N == MaxPages
           op == Visited(t, r)
           Step(h, d) == IF h \in DOMAIN d THEN d \o KidsOf(t, d[h]) ELSE d
           Body(h, d) == IF h = 0 THEN <<r>> ELSE Step(h, d)
           D == {i \in 0 .. N : \E g : g = [h \in 0 .. i |-> Body(h, g[h - 1])]}
<1>1. N \in Nat
  BY Sizes
<1>2. (\A d : Body(0, d) = <<r>>) /\ \A i \in 1 .. N : \A d : Body(i, d) = Step(i, d)
  BY <1>1
<1>4. op = CHOOSE g : g = [h \in 0 .. N |-> Body(h, g[h - 1])]
  BY DEF Visited
<1> HIDE DEF Body, N, Step, op
<1>5. 0 \in D
  <2> DEFINE g == [h \in 0 .. 0 |-> <<r>>]
  <2>1. \A h \in 0 .. 0 : h = 0
    OBVIOUS
  <2>2. g = [h \in 0 .. 0 |-> Body(h, g[h - 1])]
    BY <1>2, <2>1
  <2> HIDE DEF g
  <2>3. \E c : c = [h \in 0 .. 0 |-> Body(h, c[h - 1])]
    BY <2>2, Zenon
  <2>4. 0 \in 0 .. N
    BY <1>1
  <2> QED
    BY <2>3, <2>4, Zenon
<1>6. ASSUME NEW i \in 1 .. N, i - 1 \in D PROVE i \in D
  <2>1. PICK g : g = [h \in 0 .. (i - 1) |-> Body(h, g[h - 1])]
    BY <1>6
  <2> DEFINE f == [h \in 0 .. i |-> IF h = i THEN Body(i, g[i - 1]) ELSE g[h]]
  <2>2. ASSUME NEW h \in 0 .. i PROVE f[h] = Body(h, f[h - 1])
    <3>1. CASE h = i
      <4>1. h - 1 \in 0 .. i /\ h - 1 # i
        BY <1>1, <3>1
      <4> QED
        BY <3>1, <4>1
    <3>2. CASE h # i /\ h # 0
      <4>1. h \in 0 .. (i - 1) /\ h - 1 \in 0 .. i /\ h - 1 # i
        BY <1>1, <3>2
      <4> QED
        BY <2>1, <3>2, <4>1
    <3>3. CASE h # i /\ h = 0
      <4>1. 0 \in 0 .. (i - 1) /\ f[0] = g[0]
        BY <1>1, <3>3
      <4>2. g[0] = Body(0, g[0 - 1])
        BY <2>1, <4>1
      <4> QED
        BY <1>2, <3>3, <4>1, <4>2
    <3> QED
      BY <3>1, <3>2, <3>3
  <2>3. f = [h \in 0 .. i |-> f[h]]
    OBVIOUS
  <2> HIDE DEF f
  <2>4. f = [h \in 0 .. i |-> Body(h, f[h - 1])]
    BY <2>2, <2>3
  <2> QED
    BY <1>1, <2>4
<1>7. N \in D
  <2> HIDE DEF D
  <2>1. \A i \in 0 .. N : i \in D
    BY <1>1, <1>5, <1>6, UpTo
  <2> QED
    BY <1>1, <2>1
<1>8. op = [h \in 0 .. N |-> Body(h, op[h - 1])]
  BY <1>4, <1>7, Zenon
<1>9. \A h \in 0 .. N : op[h] = Body(h, op[h - 1])
  BY <1>8
<1>10. op[0] = <<r>> /\ \A i \in 1 .. N : op[i] = Step(i, op[i - 1])
  <2>1. 0 \in 0 .. N /\ \A i \in 1 .. N : i \in 0 .. N
    BY <1>1
  <2>2. op[0] = Body(0, op[0 - 1]) /\ \A i \in 1 .. N : op[i] = Body(i, op[i - 1])
    BY <1>9, <2>1
  <2> QED
    BY <1>2, <2>2
<1> QED
  BY <1>10 DEF N, op, Step

(* The order has every page of the tree that the root leads to, once.        *)
Orders(V, r, live, up, s) ==
  /\ s \in Seq(live) /\ Len(s) \in 1 .. MaxPages /\ s[1] = r
  /\ \A x, y \in 1 .. Len(s) : s[x] = s[y] => x = y
  /\ \A x \in 2 .. Len(s) : \E y \in 1 .. Len(s) : up[s[x]] = s[y]
  /\ \A y \in 1 .. Len(s) : \A z \in 1 .. Len(Kids(V[s[y]])) : \E x \in 1 .. Len(s) : s[x] = Kids(V[s[y]])[z]

LEMMA OrderIs ==
  ASSUME NEW t, NEW r, NEW live, NEW lev, NEW lo, NEW hi, NEW up, NEW rows,
         Tree(View(t), r, live, lev, lo, hi, up, rows)
  PROVE  Orders(View(t), r, live, up, Order(t, r))
<1> DEFINE V == View(t)
           f == Visited(t, r)
           D == {i \in 0 .. MaxPages : Seen(V, r, live, up, f[i], i)}
<1>0. MaxPages \in Nat /\ r \in live /\ live \subseteq PageNo
  BY Sizes DEF Tree
<1>1. /\ f[0] = <<r>>
      /\ \A i \in 1 .. MaxPages : f[i] = IF i \in DOMAIN f[i - 1] THEN f[i - 1] \o KidsOf(t, f[i - 1][i])
                                         ELSE f[i - 1]
  BY VisitedIs
<1>2. \A n \in live : KidsOf(t, n) = Kids(V[n])
  BY <1>0, NodesSeen DEF KidsOf, Kids
<1> HIDE DEF f
<1>3. 0 \in D
  <2> DEFINE s == <<r>>
  <2>1. s \in Seq(live) /\ Len(s) = 1 /\ s[1] = r
    BY <1>0
  <2> HIDE DEF s
  <2>2. (\A x, y \in 1 .. Len(s) : x = y) /\ 2 .. Len(s) = {} /\ \A y \in 1 .. Len(s) : ~(y <= 0)
    BY <2>1
  <2>3. Seen(V, r, live, up, s, 0)
    BY <2>1, <2>2 DEF Seen
  <2> QED
    BY <1>0, <1>1, <2>3 DEF s
<1>4. ASSUME NEW i \in 1 .. MaxPages, i - 1 \in D PROVE i \in D
  <2> DEFINE j == i - 1
             s == f[j]
  <2>1. Seen(V, r, live, up, s, j) /\ i \in 0 .. MaxPages /\ i \in Nat
    BY <1>0, <1>4
  <2>2. s \in Seq(live) /\ DOMAIN s = 1 .. Len(s) /\ Len(s) \in Nat
    BY <2>1 DEF Seen
  <2>3. f[i] = IF i \in 1 .. Len(s) THEN s \o KidsOf(t, s[i]) ELSE s
    BY <1>1, <2>2
  <2> HIDE DEF s, V
  <2>4. CASE i \in 1 .. Len(s)
    <3>1. s[i] \in live
      BY <2>2, <2>4
    <3>2. f[i] = s \o Kids(V[s[i]])
      BY <1>2, <2>3, <2>4, <3>1
    <3>3. j = i - 1
      OBVIOUS
    <3> HIDE DEF j
    <3>4. Seen(V, r, live, up, s \o Kids(V[s[i]]), i)
      BY <2>1, <2>4, <3>3, SeenStep DEF V
    <3> QED
      BY <2>1, <3>2, <3>4
  <2>5. CASE i \notin 1 .. Len(s)
    <3>1. f[i] = s
      BY <2>3, <2>5
    <3>2. \A y \in 1 .. Len(s) : (y <= i => y <= j) /\ (y <= j => y <= i)
      BY <2>1, <2>2, <2>5
    <3> HIDE DEF j
    <3>3. Seen(V, r, live, up, s, i)
      BY <2>1, <3>2 DEF Seen
    <3> QED
      BY <2>1, <3>1, <3>3
  <2> QED
    BY <2>4, <2>5
<1>5. MaxPages \in D
  <2> HIDE DEF D
  <2>1. \A i \in 0 .. MaxPages : i \in D
    BY <1>0, <1>3, <1>4, UpTo
  <2> QED
    BY <1>0, <2>1
<1> DEFINE s == f[MaxPages]
<1>6. s = Order(t, r)
  BY DEF Order, f
<1>7. Seen(V, r, live, up, s, MaxPages)
  BY <1>5
<1> HIDE DEF s, V, D
<1>8. Len(s) \in 1 .. MaxPages
  <2>1. s \in Seq(live) /\ Len(s) >= 1 /\ \A x, y \in 1 .. Len(s) : s[x] = s[y] => x = y
    BY <1>7 DEF Seen
  <2>2. Len(s) \in Nat /\ s \in [1 .. Len(s) -> PageNo]
    BY <1>0, <2>1
  <2>3. Len(s) <= MaxPages
    BY <2>1, <2>2, FewPages
  <2> QED
    BY <1>0, <2>1, <2>2, <2>3
<1>9. \A y \in 1 .. Len(s) : y <= MaxPages
  BY <1>0, <1>8
<1>10. Orders(V, r, live, up, s)
  BY <1>7, <1>8, <1>9 DEF Seen, Orders
<1> QED
  BY <1>6, <1>10 DEF V

(* Page i of V2 is page s[i] of V, with the numbers that the pages of s get. *)
SameBut(node, s, node2) ==
  /\ node2 \in Node /\ node2.leaf = node.leaf
  /\ node.leaf => /\ node2.cells = node.cells /\ (node.next = NoPage => node2.next = NoPage)
                  /\ \A x \in 1 .. Len(s) : s[x] = node.next =>
                       node2.next \in 1 .. Len(s) /\ s[node2.next] = node.next
  /\ ~node.leaf => /\ node2.keys = node.keys /\ node2.kids \in Seq(1 .. Len(s))
                   /\ Len(node2.kids) = Len(node.kids)
                   /\ \A x \in 1 .. Len(node.kids) : s[node2.kids[x]] = node.kids[x]

Renumbered(V, s, V2) == V2 \in Pages /\ \A i \in 1 .. Len(s) : SameBut(V[s[i]], s, V2[i])

(* No node of the tree is left out.                                          *)
LEMMA OrderAll ==
  ASSUME NEW V, NEW r, NEW live, NEW lev, NEW lo, NEW hi, NEW up, NEW rows,
         Tree(V, r, live, lev, lo, hi, up, rows), NEW s, Orders(V, r, live, up, s)
  PROVE  \A n \in live : \E x \in 1 .. Len(s) : s[x] = n
<1> DEFINE In(n) == \E x \in 1 .. Len(s) : s[x] = n
           H == lev[r]
           C == {i \in 0 .. H : \E n \in live : H - lev[n] = i /\ ~In(n)}
<1>1. /\ r \in live /\ lev \in [PageNo -> Nat] /\ live \subseteq PageNo
      /\ \A n \in live : n # r => lev[n] < H /\ up[n] \in live /\ HasChild(V[up[n]], n)
  BY DEF Tree
<1>2. In(r)
  BY DEF Orders
<1>3. H \in Nat /\ \A n \in live : lev[n] \in Nat /\ H - lev[n] \in 0 .. H
  BY <1>1
<1> HIDE DEF In, H
<1> SUFFICES ASSUME C # {} PROVE FALSE
  BY <1>3 DEF In
<1>4. C \in SUBSET Nat
  BY <1>3
<1> HIDE DEF C
<1>5. PICK i \in C : \A y \in C : i <= y
  BY <1>4, SmallestInSet
<1>6. PICK n \in live : H - lev[n] = i /\ ~In(n)
  BY <1>5 DEF C
<1> DEFINE q == up[n]
<1>7. n # r /\ q \in live /\ HasChild(V[q], n)
  BY <1>1, <1>2, <1>6
<1> HIDE DEF q
<1>8. PICK z \in 1 .. Len(V[q].kids) : V[q].kids[z] = n /\ ~V[q].leaf
  BY <1>7 DEF HasChild
<1>9. lev[n] + 1 = lev[q]
  BY <1>7, <1>8, TreeNode
<1>10. In(q)
  <2>1. H - lev[q] \in 0 .. H /\ H - lev[q] < i
    BY <1>3, <1>6, <1>7, <1>9
  <2>2. H - lev[q] \notin C
    BY <1>4, <1>5, <2>1
  <2> QED
    BY <1>7, <2>1, <2>2 DEF C
<1>11. PICK y \in 1 .. Len(s) : s[y] = q
  BY <1>10 DEF In
<1>12. Kids(V[s[y]]) = V[q].kids
  BY <1>8, <1>11 DEF Kids
<1>13. \E x \in 1 .. Len(s) : s[x] = n
  <2>1. \A w \in 1 .. Len(s) : \A v \in 1 .. Len(Kids(V[s[w]])) :
          \E x \in 1 .. Len(s) : s[x] = Kids(V[s[w]])[v]
    BY DEF Orders
  <2>2. \A v \in 1 .. Len(Kids(V[s[y]])) : \E x \in 1 .. Len(s) : s[x] = Kids(V[s[y]])[v]
    BY <1>11, <2>1
  <2>3. z \in 1 .. Len(Kids(V[s[y]])) /\ Kids(V[s[y]])[z] = n
    BY <1>8, <1>12
  <2> QED
    BY <2>2, <2>3
<1> QED
  BY <1>6, <1>13 DEF In

LEMMA ChainRenumbered ==
  ASSUME NEW V, NEW r, NEW live, NEW lo, NEW hi, Chained(V, r, live, lo, hi), live \subseteq PageNo,
         NEW s \in Seq(live), Len(s) \in Nat, Len(s) >= 1, s[1] = r,
         \A x, y \in 1 .. Len(s) : s[x] = s[y] => x = y,
         \A n \in live : \E x \in 1 .. Len(s) : s[x] = n,
         1 .. Len(s) \subseteq PageNo,
         NEW V2, \A x \in 1 .. Len(s) : SameBut(V[s[x]], s, V2[x]),
         NEW lo2, NEW hi2, \A x \in 1 .. Len(s) : lo2[x] = lo[s[x]] /\ hi2[x] = hi[s[x]]
  PROVE  Chained(V2, 1, 1 .. Len(s), lo2, hi2)
<1> DEFINE L == Len(s)
           live2 == 1 .. L
<1>0. PICK a, b : Ranked(V, r, live, lo, hi, a, b)
  BY DEF Chained
<1>1. /\ a \in [PageNo -> Nat] /\ b \in [PageNo -> Nat] /\ b[r] = 0
      /\ \A x \in live : IF V[x].leaf THEN Onward(V, x, live, lo, hi, a, b)
                                      ELSE Strung(V[x].kids, a, b, a[x], b[x])
      /\ \A x, y \in live : V[x].leaf /\ V[y].leaf /\ b[x] = b[y] => x = y
  BY <1>0 DEF Ranked
<1>2. L \in Nat /\ 1 \in live2 /\ s[1] = r /\ \A x \in live2 : s[x] \in live /\ x \in PageNo /\ s[x] \in PageNo
  OBVIOUS
<1>3. \A x \in live2 : SameBut(V[s[x]], s, V2[x]) /\ lo2[x] = lo[s[x]] /\ hi2[x] = hi[s[x]]
  OBVIOUS
<1>4. (\A n \in live : \E x \in live2 : s[x] = n) /\ \A x, y \in live2 : s[x] = s[y] => x = y
  OBVIOUS
<1> DEFINE a2 == [x \in PageNo |-> IF x \in live2 THEN a[s[x]] ELSE 0]
           b2 == [x \in PageNo |-> IF x \in live2 THEN b[s[x]] ELSE 0]
<1>5. /\ a2 \in [PageNo -> Nat] /\ b2 \in [PageNo -> Nat]
      /\ \A x \in live2 : a2[x] = a[s[x]] /\ b2[x] = b[s[x]]
  BY <1>1, <1>2
<1> HIDE DEF a2, b2, live2
<1>6. ASSUME NEW x \in live2
      PROVE  IF V2[x].leaf THEN Onward(V2, x, live2, lo2, hi2, a2, b2)
                           ELSE Strung(V2[x].kids, a2, b2, a2[x], b2[x])
  <2> DEFINE n == s[x]
  <2>1. n \in live /\ SameBut(V[n], s, V2[x]) /\ lo2[x] = lo[n] /\ hi2[x] = hi[n]
        /\ a2[x] = a[n] /\ b2[x] = b[n]
    BY <1>2, <1>3, <1>5
  <2> HIDE DEF n
  <2>2. CASE V[n].leaf
    <3>1. /\ V2[x].leaf /\ (V[n].next = NoPage => V2[x].next = NoPage)
          /\ \A y \in live2 : s[y] = V[n].next => V2[x].next \in live2 /\ s[V2[x].next] = V[n].next
      BY <2>1, <2>2 DEF SameBut, live2
    <3>2. Onward(V, n, live, lo, hi, a, b)
      BY <1>1, <2>1, <2>2
    <3>3. a2[x] = b2[x] + 1
      BY <2>1, <3>2 DEF Onward
    <3>4. b2[x] = 0 => V2[x].next = NoPage /\ hi2[x] = MaxKey + 1
      BY <2>1, <3>1, <3>2 DEF Onward
    <3>5. ASSUME b2[x] # 0
          PROVE  /\ V2[x].next \in live2 /\ V2[V2[x].next].leaf
                 /\ a2[V2[x].next] = b2[x] /\ lo2[V2[x].next] = hi2[x]
      <4> DEFINE w == V[n].next
                 y == V2[x].next
      <4>1. w \in live /\ V[w].leaf /\ a[w] = b[n] /\ lo[w] = hi[n]
        BY <2>1, <3>2, <3>5 DEF Onward
      <4>2. y \in live2 /\ s[y] = w
        BY <1>4, <3>1, <4>1
      <4> HIDE DEF w, y
      <4>3. SameBut(V[w], s, V2[y]) /\ lo2[y] = lo[w] /\ a2[y] = a[w]
        BY <1>3, <1>5, <4>2
      <4>4. V2[y].leaf
        BY <4>1, <4>3 DEF SameBut
      <4> QED
        BY <2>1, <4>1, <4>2, <4>3, <4>4 DEF y
    <3>6. Onward(V2, x, live2, lo2, hi2, a2, b2)
      BY <3>3, <3>4, <3>5 DEF Onward
    <3> QED
      BY <3>1, <3>6
  <2>3. CASE ~V[n].leaf
    <3> DEFINE kids == V[n].kids
               kids2 == V2[x].kids
    <3>1. /\ ~V2[x].leaf /\ kids2 \in Seq(live2) /\ Len(kids2) = Len(kids)
          /\ \A y \in 1 .. Len(kids) : s[kids2[y]] = kids[y]
      BY <2>1, <2>3 DEF SameBut, live2
    <3>2. Strung(kids, a, b, a[n], b[n])
      BY <1>1, <2>1, <2>3
    <3> HIDE DEF kids, kids2
    <3>3. \A y \in 1 .. Len(kids) : kids2[y] \in live2
      BY <3>1
    <3>4. ASSUME NEW y \in 1 .. Len(kids) PROVE a2[kids2[y]] = a[kids[y]] /\ b2[kids2[y]] = b[kids[y]]
      <4> DEFINE z == kids2[y]
      <4>1. z \in live2 /\ s[z] = kids[y]
        BY <3>1, <3>3
      <4> HIDE DEF z
      <4>2. a2[z] = a[s[z]] /\ b2[z] = b[s[z]]
        BY <1>5, <4>1
      <4> QED
        BY <4>1, <4>2 DEF z
    <3>5. /\ Len(kids) \in Nat /\ Len(kids) >= 1
          /\ a[kids[1]] = a[n] /\ b[kids[Len(kids)]] = b[n]
          /\ \A i \in 1 .. (Len(kids) - 1) : b[kids[i]] = a[kids[i + 1]]
      BY <3>2 DEF Strung
    <3>6. a2[kids2[1]] = a2[x] /\ b2[kids2[Len(kids2)]] = b2[x]
      <4>1. 1 \in 1 .. Len(kids) /\ Len(kids) \in 1 .. Len(kids)
        BY <3>5
      <4> QED
        BY <2>1, <3>1, <3>4, <3>5, <4>1
    <3>7. ASSUME NEW i \in 1 .. (Len(kids) - 1) PROVE b2[kids2[i]] = a2[kids2[i + 1]]
      <4>1. i \in 1 .. Len(kids) /\ i + 1 \in 1 .. Len(kids)
        BY <3>5
      <4> QED
        BY <3>4, <3>5, <4>1
    <3>8. Strung(kids2, a2, b2, a2[x], b2[x])
      BY <3>1, <3>5, <3>6, <3>7 DEF Strung
    <3> QED
      BY <3>1, <3>8 DEF kids2
  <2> QED
    BY <2>2, <2>3
<1>7. ASSUME NEW x \in live2, NEW y \in live2, V2[x].leaf, V2[y].leaf, b2[x] = b2[y] PROVE x = y
  <2>1. V[s[x]].leaf /\ V[s[y]].leaf
    BY <1>3, <1>7 DEF SameBut
  <2>2. s[x] \in live /\ s[y] \in live /\ b[s[x]] = b[s[y]]
    BY <1>2, <1>5, <1>7
  <2>3. s[x] = s[y]
    BY <1>1, <2>1, <2>2
  <2> QED
    BY <1>4, <2>3
<1>8. b2[1] = 0
  BY <1>1, <1>2, <1>5
<1>9. Ranked(V2, 1, live2, lo2, hi2, a2, b2)
  BY <1>5, <1>6, <1>7, <1>8 DEF Ranked
<1> QED
  BY <1>9 DEF Chained, live2

LEMMA RenumberedInner ==
  ASSUME NEW V, NEW r, NEW live, NEW lev, NEW lo, NEW hi, NEW up, NEW rows,
         Tree(V, r, live, lev, lo, hi, up, rows),
         NEW s, Orders(V, r, live, up, s), NEW i \in 1 .. Len(s), ~V[s[i]].leaf,
         NEW node2, SameBut(V[s[i]], s, node2),
         NEW lev2, NEW lo2, NEW hi2, NEW up2,
         \A x \in 1 .. Len(s) : lev2[x] = lev[s[x]] /\ lo2[x] = lo[s[x]] /\ hi2[x] = hi[s[x]],
         \A x \in 2 .. Len(s) : up2[x] \in 1 .. Len(s) /\ s[up2[x]] = up[s[x]]
  PROVE  InnerAt(node2, i, 1 .. Len(s), lev2, lo2, hi2, up2)
<1> DEFINE n == s[i]
           node == V[n]
           keys == node.keys
           kids == node.kids
           kids2 == node2.kids
           L == Len(s)
<1>1. /\ s \in Seq(live) /\ L \in Nat /\ L <= MaxPages
      /\ \A x, y \in 1 .. L : s[x] = s[y] => x = y
  BY Sizes DEF Orders
<1>2. n \in live /\ i \in 1 .. L
  BY <1>1
<1> HIDE DEF n, L
<1>3. /\ InnerAt(node, n, live, lev, lo, hi, up)
      /\ \A x \in 1 .. Len(kids) : kids[x] \in live /\ lev[kids[x]] + 1 = lev[n] /\ up[kids[x]] = n
  BY <1>2, TreeNode DEF n
<1>4. /\ lev[n] > 0 /\ Parts(keys, kids, lo[n], hi[n], lo, hi) /\ Distinct(kids)
  BY <1>3 DEF InnerAt
<1>5. /\ keys \in Seq(Key) /\ Len(keys) \in Nat /\ kids \in Seq(PageNo) /\ Len(kids) \in Nat
      /\ Len(kids) = Len(keys) + 1
  BY <1>4, PartsTyped
<1>6. /\ node2.keys = keys /\ kids2 \in Seq(1 .. L) /\ Len(kids2) = Len(kids)
      /\ \A x \in 1 .. Len(kids) : s[kids2[x]] = kids[x]
  BY DEF SameBut, L, n
<1> HIDE DEF node, keys, kids, kids2
<1>7. /\ lev2[i] = lev[n] /\ lo2[i] = lo[n] /\ hi2[i] = hi[n]
      /\ \A x \in 1 .. Len(kids) :
           /\ kids2[x] \in 1 .. L /\ lev2[kids2[x]] = lev[kids[x]]
           /\ lo2[kids2[x]] = lo[kids[x]] /\ hi2[kids2[x]] = hi[kids[x]]
  BY <1>2, <1>6 DEF L, n
<1>8. Parts(keys, kids2, lo2[i], hi2[i], lo2, hi2)
  <2>1. kids2 \in Seq(PageNo)
    BY <1>1, <1>6, Sizes
  <2> QED
    BY <1>4, <1>5, <1>6, <1>7, <2>1 DEF Parts
<1>9. Distinct(kids2)
  <2> SUFFICES ASSUME NEW x \in 1 .. Len(kids), NEW y \in 1 .. Len(kids), kids2[x] = kids2[y] PROVE x = y
    BY <1>6 DEF Distinct
  <2>1. kids[x] = kids[y]
    BY <1>6
  <2> QED
    BY <1>4, <2>1 DEF Distinct
<1>10. ASSUME NEW x \in 1 .. Len(kids) PROVE up2[kids2[x]] = i
  <2> DEFINE k == kids2[x]
  <2>1. k \in 1 .. L /\ s[k] = kids[x]
    BY <1>6, <1>7
  <2>2. k # 1
    <3>1. kids[x] # r
      <4>1. Kids(V[n]) = kids
        BY DEF Kids, kids, node, n
      <4> QED
        BY <1>2, <4>1, KidsAre
    <3>2. s[1] = r
      BY DEF Orders
    <3> QED
      BY <2>1, <3>1, <3>2
  <2>3. k \in 2 .. L
    BY <1>1, <2>1, <2>2
  <2> HIDE DEF k
  <2>4. up2[k] \in 1 .. L /\ s[up2[k]] = up[s[k]]
    BY <2>3 DEF L
  <2>5. s[up2[k]] = s[i]
    BY <1>3, <2>1, <2>4 DEF n
  <2>6. up2[k] = i
    BY <1>1, <1>2, <2>4, <2>5
  <2> QED
    BY <2>6 DEF k
<1>11. \A x \in 1 .. Len(kids2) : kids2[x] \in 1 .. L /\ lev2[kids2[x]] + 1 = lev2[i] /\ up2[kids2[x]] = i
  BY <1>3, <1>6, <1>7, <1>10
<1> QED
  BY <1>4, <1>6, <1>7, <1>8, <1>9, <1>11 DEF InnerAt, kids2, L

LEMMA RenumberedTree ==
  ASSUME NEW V, NEW r, NEW live, NEW lev, NEW lo, NEW hi, NEW up, NEW rows,
         Tree(V, r, live, lev, lo, hi, up, rows),
         NEW s, Orders(V, r, live, up, s), NEW V2, Renumbered(V, s, V2)
  PROVE  \E live2, lev2 : TreeOf(V2, Top, live2, lev2, rows)
<1> DEFINE L == Len(s)
           live2 == 1 .. L
           lev2 == [i \in PageNo |-> IF i \in live2 THEN lev[s[i]] ELSE 0]
           lo2 == [i \in PageNo |-> IF i \in live2 THEN lo[s[i]] ELSE 1]
           hi2 == [i \in PageNo |-> IF i \in live2 THEN hi[s[i]] ELSE 1]
           up2 == [i \in PageNo |-> IF i \in 2 .. L THEN CHOOSE y \in live2 : up[s[i]] = s[y] ELSE 1]
<1>1. /\ s \in Seq(live) /\ L \in Nat /\ L >= 1 /\ L <= MaxPages /\ s[1] = r
      /\ \A x, y \in 1 .. L : s[x] = s[y] => x = y
      /\ \A x \in 2 .. L : \E y \in 1 .. L : up[s[x]] = s[y]
  BY Sizes DEF Orders
<1>2. live2 \in SUBSET PageNo /\ 1 \in live2 /\ 1 \in PageNo /\ PageNo = 1 .. MaxPages
  BY <1>1, Sizes
<1>3. \A i \in live2 : s[i] \in live
  BY <1>1
<1>4. \A i \in live2 : lev[s[i]] \in Nat /\ lo[s[i]] \in Ends /\ hi[s[i]] \in Ends /\ lo[s[i]] <= hi[s[i]]
  BY <1>3, TreeNode
<1>5. ASSUME NEW x \in 2 .. L PROVE x \in PageNo /\ up2[x] \in live2 /\ s[up2[x]] = up[s[x]]
  <2>1. x \in PageNo
    BY <1>1, <1>2
  <2>2. \E y \in live2 : up[s[x]] = s[y]
    BY <1>1
  <2>3. up2[x] = CHOOSE y \in live2 : up[s[x]] = s[y]
    BY <2>1
  <2> QED
    BY <2>1, <2>2, <2>3
<1>6. up2 \in [PageNo -> PageNo]
  <2>1. \A i \in PageNo : up2[i] \in PageNo
    <3> SUFFICES ASSUME NEW i \in PageNo PROVE up2[i] \in PageNo
      OBVIOUS
    <3>1. CASE i \in 2 .. L
      BY <1>2, <1>5, <3>1
    <3>2. CASE i \notin 2 .. L
      BY <1>2, <3>2
    <3> QED
      BY <3>1, <3>2
  <2> QED
    BY <2>1
<1>7. lev2 \in [PageNo -> Nat] /\ lo2 \in [PageNo -> Ends] /\ hi2 \in [PageNo -> Ends]
  BY <1>2, <1>4, EndsTyped
<1>8. \A x \in 1 .. L : lev2[x] = lev[s[x]] /\ lo2[x] = lo[s[x]] /\ hi2[x] = hi[s[x]]
  BY <1>2
<1> HIDE DEF lev2, lo2, hi2, up2
<1>9. V2 \in Pages /\ \A i \in live2 : SameBut(V[s[i]], s, V2[i])
  BY DEF Renumbered
<1> HIDE DEF live2
<1>10. rows \in Rows
  BY DEF Tree
<1>11. 1 \in live2 /\ lo2[1] = 1 /\ hi2[1] = MaxKey + 1
  BY <1>1, <1>2, <1>8 DEF Tree, live2
<1>12. ASSUME NEW i \in live2 PROVE NodeFits(V2, i, live2, lev2, lo2, hi2, up2, rows)
  <2>0. i \in 1 .. L /\ lev2[i] = lev[s[i]] /\ lo2[i] = lo[s[i]] /\ hi2[i] = hi[s[i]]
    BY <1>8 DEF live2
  <2>1. V2[i] \in Node /\ V2[i].leaf = V[s[i]].leaf /\ lo2[i] <= hi2[i]
    BY <1>4, <1>9, <2>0 DEF SameBut
  <2>2. ASSUME V2[i].leaf PROVE LeafAt(V2[i], i, lev2, lo2, hi2, rows)
    <3>1. V2[i].cells = V[s[i]].cells /\ V[s[i]].leaf
      BY <1>9, <2>1, <2>2 DEF SameBut
    <3>2. s[i] \in live
      BY <1>3
    <3>3. lev[s[i]] = 0 /\ Holds(V[s[i]].cells, lo[s[i]], hi[s[i]], rows)
      BY <3>1, <3>2, TreeNode
    <3> QED
      BY <2>0, <3>1, <3>3 DEF LeafAt
  <2>3. ASSUME ~V2[i].leaf PROVE InnerAt(V2[i], i, live2, lev2, lo2, hi2, up2)
    <3>1. ~V[s[i]].leaf /\ SameBut(V[s[i]], s, V2[i])
      BY <1>9, <2>1, <2>3
    <3>2. \A x \in 2 .. Len(s) : up2[x] \in 1 .. Len(s) /\ s[up2[x]] = up[s[x]]
      BY <1>5 DEF live2
    <3>3. InnerAt(V2[i], i, 1 .. Len(s), lev2, lo2, hi2, up2)
      BY <1>8, <2>0, <3>1, <3>2, RenumberedInner
    <3> QED
      BY <3>3 DEF live2
  <2> QED
    BY <2>1, <2>2, <2>3 DEF NodeFits
<1>13. ASSUME NEW i \in live2, i # 1
       PROVE  lev2[i] < lev2[1] /\ up2[i] \in live2 /\ HasChild(V2[up2[i]], i)
  <2>1. i \in 2 .. L /\ i \in 1 .. L /\ 1 \in 1 .. L
    BY <1>1, <1>13 DEF live2
  <2>2. s[i] # r /\ s[i] \in live
    BY <1>1, <1>3, <1>13, <2>1
  <2>3. lev[s[i]] < lev[r] /\ up[s[i]] \in live /\ HasChild(V[up[s[i]]], s[i])
    BY <2>2 DEF Tree
  <2>4. lev2[i] < lev2[1]
    BY <1>1, <1>8, <2>1, <2>3
  <2> DEFINE q == up2[i]
  <2>5. q \in live2 /\ s[q] = up[s[i]]
    BY <1>5, <2>1
  <2> HIDE DEF q
  <2>6. SameBut(V[s[q]], s, V2[q])
    BY <1>9, <2>5
  <2>7. ~V[s[q]].leaf /\ \E z \in 1 .. Len(V[s[q]].kids) : V[s[q]].kids[z] = s[i]
    BY <2>3, <2>5 DEF HasChild
  <2>8. PICK z \in 1 .. Len(V[s[q]].kids) : V[s[q]].kids[z] = s[i]
    BY <2>7
  <2>9. /\ V2[q].leaf = V[s[q]].leaf /\ V2[q].kids \in Seq(1 .. L) /\ z \in 1 .. Len(V2[q].kids)
        /\ s[V2[q].kids[z]] = s[i]
    BY <2>6, <2>7, <2>8 DEF SameBut
  <2>10. V2[q].kids[z] \in 1 .. L
    BY <2>9
  <2>11. V2[q].kids[z] = i
    BY <1>1, <2>1, <2>9, <2>10
  <2>12. HasChild(V2[q], i)
    BY <2>7, <2>9, <2>11 DEF HasChild
  <2> QED
    BY <2>4, <2>5, <2>12 DEF q
<1>14. ASSUME NEW m \in live2, NEW n \in live2, NEW k \in Key,
              V2[m].leaf, lo2[m] <= k, k < hi2[m], V2[n].leaf, lo2[n] <= k, k < hi2[n]
       PROVE  m = n
  <2>1. V2[m].leaf = V[s[m]].leaf /\ V2[n].leaf = V[s[n]].leaf
    BY <1>9 DEF SameBut
  <2>2. m \in 1 .. L /\ n \in 1 .. L /\ s[m] \in live /\ s[n] \in live
    BY <1>3 DEF live2
  <2>3. V[s[m]].leaf /\ lo[s[m]] <= k /\ k < hi[s[m]] /\ V[s[n]].leaf /\ lo[s[n]] <= k /\ k < hi[s[n]]
    BY <1>8, <1>14, <2>1, <2>2
  <2>4. s[m] = s[n]
    BY <2>2, <2>3 DEF Tree
  <2> QED
    BY <1>1, <2>2, <2>4
<1>15. Tree(V2, 1, live2, lev2, lo2, hi2, up2, rows)
  <2>1. live2 \in SUBSET PageNo
    BY <1>2
  <2> HIDE DEF Tree
  <2>2. \A n \in live2 : NodeFits(V2, n, live2, lev2, lo2, hi2, up2, rows)
    BY <1>12
  <2>3. \A n \in live2 : n # 1 => lev2[n] < lev2[1] /\ up2[n] \in live2 /\ HasChild(V2[up2[n]], n)
    BY <1>13
  <2>4. \A m, n \in live2 : \A k \in Key :
          (V2[m].leaf /\ lo2[m] <= k /\ k < hi2[m] /\ V2[n].leaf /\ lo2[n] <= k /\ k < hi2[n]) => m = n
    BY <1>14
  <2>5. Chained(V2, 1, live2, lo2, hi2)
    <3>1. Chained(V, r, live, lo, hi) /\ live \subseteq PageNo
      BY DEF Tree
    <3>2. \A n \in live : \E x \in 1 .. Len(s) : s[x] = n
      BY OrderAll
    <3>3. 1 .. Len(s) \subseteq PageNo
      BY <1>2 DEF live2
    <3>4. \A x \in 1 .. Len(s) : SameBut(V[s[x]], s, V2[x])
      BY <1>9 DEF live2
    <3>5. /\ s \in Seq(live) /\ Len(s) \in Nat /\ Len(s) >= 1 /\ s[1] = r
          /\ \A x, y \in 1 .. Len(s) : s[x] = s[y] => x = y
          /\ \A x \in 1 .. Len(s) : lo2[x] = lo[s[x]] /\ hi2[x] = hi[s[x]]
      BY <1>1, <1>8
    <3>6. Chained(V2, 1, 1 .. Len(s), lo2, hi2)
      BY <3>1, <3>2, <3>3, <3>4, <3>5, ChainRenumbered
    <3> QED
      BY <3>6 DEF live2
  <2> QED
    BY <1>6, <1>7, <1>9, <1>10, <1>11, <2>1, <2>2, <2>3, <2>4, <2>5, TreeMade
<1> QED
  BY <1>15 DEF TreeOf, Top

LEMMA SameSize ==
  ASSUME NEW node, NEW s, NEW node2 \in Node, SameBut(node, s, node2), Fits(node)
  PROVE  Fits(node2)
<1>1. node2.leaf = node.leaf
  BY DEF SameBut
<1>2. CASE node.leaf
  <2>1. node2.cells = node.cells
    BY <1>2 DEF SameBut
  <2>2. serialized_size(node2) = serialized_size(node)
    BY <1>1, <1>2, <2>1 DEF serialized_size
  <2> QED
    BY <2>2 DEF Fits
<1>3. CASE ~node.leaf
  <2>1. node2.keys = node.keys /\ Len(node2.kids) = Len(node.kids)
    BY <1>3 DEF SameBut
  <2>2. serialized_size(node2) = serialized_size(node)
    BY <1>1, <1>3, <2>1 DEF serialized_size
  <2> QED
    BY <2>2 DEF Fits
<1> QED
  BY <1>2, <1>3

(* What is left when no node differs from its page.                          *)
Still(t) ==
  /\ t \in Trees /\ t.altered = NoNodes
  /\ \A n \in PageNo : t.page[n] # Absent => Fits(t.page[n])

LEMMA StillView ==
  ASSUME NEW t, Still(t)
  PROVE  View(t) = t.page
<1>1. t.altered = NoNodes /\ t.page \in Pages
  BY DEF Still, Trees
<1>2. \A n \in PageNo : NodeAt(t, n) = t.page[n]
  BY <1>1 DEF NodeAt, NoNodes
<1> QED
  BY <1>1, <1>2 DEF View, Pages

(* Numbered anew the pages are the same tree.                                *)
LEMMA TidyDoes ==
  ASSUME NEW t, Still(t), NEW r, NEW live, NEW lev, NEW rows, TreeOf(View(t), r, live, lev, rows),
         NEW u, u = Tidy(t, r)
  PROVE  /\ Still(u) /\ \E live2, lev2 : TreeOf(View(u), Top, live2, lev2, rows)
         /\ u.inTxn = t.inTxn /\ u.full = t.full
<1> DEFINE order == Order(t, r)
           Name(n) == IF n \notin ToSet(order) THEN NoPage ELSE CHOOSE i \in DOMAIN order : order[i] = n
           Renamed(node) == CASE node = Absent -> Absent
                              [] node # Absent /\ node.leaf -> Leaf(node.cells, Name(node.next))
                              [] node # Absent /\ ~node.leaf ->
                                   Internal(node.keys, [i \in DOMAIN node.kids |-> Name(node.kids[i])])
           All(v) == [n \in PageNo |-> IF n \in DOMAIN order THEN Renamed(v[order[n]]) ELSE Absent]
           V == View(t)
           L == Len(order)
<1>1. u = [t EXCEPT !.page = All(t.page), !.altered = All(t.altered)]
  BY DEF Tidy
<1>2. PICK lo, hi, up : Tree(V, r, live, lev, lo, hi, up, rows)
  BY DEF TreeOf
<1>3. Orders(V, r, live, up, order)
  BY <1>2, OrderIs
<1>4. V = t.page /\ V \in Pages /\ t \in Trees /\ t.altered = NoNodes
  BY StillView DEF Still, Trees
<1>5. /\ order \in Seq(live) /\ L \in 1 .. MaxPages /\ DOMAIN order = 1 .. L /\ L \in Nat
      /\ \A y \in 1 .. L : \A z \in 1 .. Len(Kids(V[order[y]])) :
           \E x \in 1 .. L : order[x] = Kids(V[order[y]])[z]
  BY <1>3, Sizes DEF Orders
<1>6. live \in SUBSET PageNo
  BY <1>2 DEF Tree
<1> HIDE DEF order, V, L
<1>7. 1 .. L \subseteq PageNo
  BY <1>5, Sizes
<1>8. ASSUME NEW n PROVE /\ Name(n) \in PageNo \cup {NoPage} /\ (n = NoPage => Name(n) = NoPage)
                         /\ \A i \in 1 .. L : order[i] = n => Name(n) \in 1 .. L /\ order[Name(n)] = n
  <2>1. n \in ToSet(order) <=> \E i \in 1 .. L : order[i] = n
    BY <1>5 DEF ToSet
  <2>2. CASE n \in ToSet(order)
    <3>1. Name(n) = CHOOSE i \in 1 .. L : order[i] = n
      BY <1>5, <2>2
    <3> HIDE DEF Name
    <3>2. Name(n) \in 1 .. L /\ order[Name(n)] = n
      BY <2>1, <2>2, <3>1
    <3>3. n \in live
      BY <1>5, <3>2
    <3>4. n # NoPage
      BY <1>6, <3>3, Sizes DEF NoPage
    <3> QED
      BY <1>7, <3>2, <3>4
  <2>3. CASE n \notin ToSet(order)
    BY <2>1, <2>3
  <2> QED
    BY <2>2, <2>3
<1> HIDE DEF Name
<1>9. ASSUME NEW i \in 1 .. L PROVE SameBut(V[order[i]], order, Renamed(V[order[i]]))
  <2> DEFINE n == order[i]
             node == V[n]
  <2>1. n \in live /\ n \in PageNo
    BY <1>5, <1>6
  <2>2. node \in Node
    BY <1>2, <2>1, TreeNode
  <2>3. CASE node.leaf
    <3>1. Renamed(node) = Leaf(node.cells, Name(node.next))
      BY <2>2, <2>3, NodeKinds
    <3>2. node.cells \in Seq(Cells) /\ Name(node.next) \in PageNo \cup {NoPage}
      BY <1>8, <2>2, <2>3, NodeKinds
    <3> DEFINE cells == node.cells
               next  == Name(node.next)
               new   == Renamed(node)
    <3> HIDE DEF cells, next, new
    <3>3. new \in Node /\ new.leaf = TRUE /\ new.cells = cells /\ new.next = next
      <4>1. new = Leaf(cells, next) /\ cells \in Seq(Cells) /\ next \in PageNo \cup {NoPage}
        BY <3>1, <3>2 DEF cells, next, new
      <4> QED
        BY <4>1, LeafKind
    <3>4. node.leaf = TRUE
      BY <2>2, <2>3, NodeKinds
    <3>5. /\ node.next = NoPage => next = NoPage
          /\ \A x \in 1 .. L : order[x] = node.next => next \in 1 .. L /\ order[next] = node.next
      BY <1>8 DEF next
    <3>6. SameBut(node, order, new)
      BY <3>3, <3>4, <3>5 DEF SameBut, cells, L
    <3> QED
      BY <3>6 DEF new
  <2>4. CASE ~node.leaf
    <3> DEFINE kids == [x \in DOMAIN node.kids |-> Name(node.kids[x])]
    <3>1. Renamed(node) = Internal(node.keys, kids)
      BY <2>2, <2>4, NodeKinds
    <3>2. node.leaf = FALSE /\ node.keys \in Seq(Key) /\ node.kids \in Seq(PageNo)
      BY <2>2, <2>4, NodeKinds
    <3>3. Kids(node) = node.kids
      BY <2>4 DEF Kids
    <3>4. \A x \in 1 .. Len(node.kids) : Name(node.kids[x]) \in 1 .. L /\ order[Name(node.kids[x])] = node.kids[x]
      BY <1>5, <1>8, <3>3
    <3>5. Len(node.kids) \in Nat /\ DOMAIN node.kids = 1 .. Len(node.kids)
      BY <3>2
    <3> DEFINE old == node.kids
               keys == node.keys
               new == Renamed(node)
               N == Len(old)
    <3>6. /\ kids = [x \in 1 .. N |-> Name(old[x])] /\ N \in Nat
          /\ \A x \in 1 .. N : Name(old[x]) \in 1 .. L /\ order[Name(old[x])] = old[x]
      BY <3>4, <3>5
    <3>7. new = Internal(keys, kids) /\ keys \in Seq(Key)
      BY <3>1, <3>2
    <3> HIDE DEF old, keys, new, kids, N
    <3>8. kids \in Seq(1 .. L) /\ Len(kids) = N /\ \A x \in 1 .. N : kids[x] \in 1 .. L /\ order[kids[x]] = old[x]
      BY <3>6
    <3>9. kids \in Seq(PageNo)
      <4>1. \A x \in 1 .. N : kids[x] \in PageNo
        BY <1>7, <3>8
      <4> QED
        BY <3>8, <4>1
    <3>10. new \in Node /\ new.leaf = FALSE /\ new.keys = keys /\ new.kids = kids
      BY <3>7, <3>9, InternalKind
    <3>11. SameBut(node, order, new)
      BY <3>2, <3>8, <3>10 DEF SameBut, L, N, old, keys
    <3> QED
      BY <3>11 DEF new
  <2> QED
    BY <2>3, <2>4
<1>10. Renamed(Absent) = Absent
  OBVIOUS
<1> HIDE DEF Renamed
<1>11. /\ All(t.page) \in Pages
       /\ \A i \in 1 .. L : SameBut(V[order[i]], order, All(t.page)[i])
       /\ \A n \in PageNo : n \notin 1 .. L => All(t.page)[n] = Absent
  <2>1. \A i \in 1 .. L : All(t.page)[i] = Renamed(V[order[i]])
    BY <1>4, <1>5, <1>7
  <2>2. \A i \in 1 .. L : All(t.page)[i] \in Node
    BY <1>9, <2>1 DEF SameBut
  <2>3. \A n \in PageNo : n \notin 1 .. L => All(t.page)[n] = Absent
    BY <1>5
  <2>4. \A n \in PageNo : All(t.page)[n] \in Node \cup {Absent}
    BY <2>2, <2>3
  <2>5. All(t.page) \in Pages
    BY <2>4 DEF Pages
  <2> QED
    BY <1>9, <2>1, <2>3, <2>5
<1>12. All(t.altered) = NoNodes
  <2>1. \A n \in 1 .. L : order[n] \in PageNo
    BY <1>5, <1>6
  <2>2. \A n \in PageNo : n \in 1 .. L => Renamed(t.altered[order[n]]) = Absent
    BY <1>4, <1>10, <2>1 DEF NoNodes
  <2> QED
    BY <1>5, <2>2 DEF NoNodes
<1>13. NoNodes \in Pages
  BY DEF NoNodes, Pages
<1> DEFINE page2 == All(t.page)
<1> HIDE DEF page2
<1>14. page2 \in Pages /\ u = [t EXCEPT !.page = page2, !.altered = NoNodes]
  BY <1>1, <1>11, <1>12 DEF page2
<1>15. u \in Trees /\ u.page = page2 /\ u.altered = NoNodes /\ u.inTxn = t.inTxn /\ u.full = t.full
  BY <1>4, <1>13, <1>14 DEF Trees
<1>16. ASSUME NEW n \in PageNo, page2[n] # Absent PROVE Fits(page2[n])
  <2>1. n \in 1 .. L
    BY <1>11, <1>16 DEF page2
  <2>2. SameBut(V[order[n]], order, page2[n]) /\ page2[n] \in Node
    BY <1>11, <2>1 DEF page2, SameBut
  <2>3. order[n] \in live /\ order[n] \in PageNo
    <3>1. order \in Seq(live) /\ DOMAIN order = 1 .. L
      BY <1>5
    <3>2. order[n] \in live
      BY <2>1, <3>1 DEF L
    <3> QED
      BY <1>6, <3>2
  <2>4. V[order[n]] \in Node
    BY <1>2, <2>3, TreeNode
  <2>5. Fits(V[order[n]])
    BY <1>4, <2>3, <2>4, NodeKinds DEF Still
  <2> QED
    BY <2>2, <2>5, SameSize
<1>17. Still(u)
  BY <1>15, <1>16 DEF Still
<1>18. Renumbered(V, order, page2)
  BY <1>11 DEF Renumbered, L, page2
<1>19. \E live2, lev2 : TreeOf(page2, Top, live2, lev2, rows)
  BY <1>2, <1>3, <1>18, RenumberedTree
<1>20. View(u) = page2
  BY <1>15, <1>17, StillView
<1> QED
  BY <1>15, <1>17, <1>19, <1>20

-----------------------------------------------------------------------------
(* Transactions                                                              *)

(* The pages of P are a tree that has the rows, for some choice of the keys  *)
(* that each page stands for.                                                *)
Stored(P, r, rows) == \E live, lev : TreeOf(P, r, live, lev, rows)

(* What holds between the calls of the disciplined: no node differs from its *)
(* page, the pages are a tree that gives the rows that searches find, and    *)
(* the pages that a rollback brings back are one that gives those that the   *)
(* transaction found.                                                        *)
InvTree ==
  /\ Still(tree) /\ ~tree.raised /\ ~tree.full
  /\ \A n \in PageNo : tree.shadow[n] # Absent => n \in tree.touched
  /\ root \in PageNo /\ Stored(View(tree), root, Found(tree, root))

InvTxn ==
  /\ txn \in {"open", "committed", "rolledback"} /\ tree.inTxn = (txn = "open")
  /\ calls \in 0 .. MaxCalls
  /\ txn # "open" => tree.touched = {}

InvSaved ==
  txn = "open" => /\ \A n \in PageNo : Saved(tree)[n] # Absent => Fits(Saved(tree)[n])
                  /\ Stored(Saved(tree), oldRoot, found)

Inv == InvTree /\ InvTxn /\ InvSaved

LEMMA StoredIs ==
  ASSUME NEW P, NEW r, NEW rows, Stored(P, r, rows)
  PROVE  P \in Pages /\ r \in PageNo /\ P[r] # Absent /\ rows \in Rows
<1>1. PICK live, lev, lo, hi, up : Tree(P, r, live, lev, lo, hi, up, rows)
  BY DEF Stored, TreeOf
<1>2. P \in Pages /\ rows \in Rows /\ r \in live
  BY <1>1 DEF Tree
<1> QED
  BY <1>1, <1>2, TreeNode

LEMMA StoredFinds ==
  ASSUME NEW t, NEW r, NEW rows, Stored(View(t), r, rows)
  PROVE  /\ Found(t, r) = rows /\ Stored(View(t), r, Found(t, r))
         /\ \A key \in Key : Search(t, r, key) = rows[key]
<1>1. Found(t, r) = rows /\ \A key \in Key : Search(t, r, key) = rows[key]
  BY SearchFinds DEF Stored
<1> QED
  BY <1>1

(* What a transaction needs to begin: an empty page is the tree of no rows.  *)
LEMMA EmptyStored ==
  ASSUME NEW P, P \in Pages, P[Top] = Leaf(<< >>, NoPage)
  PROVE  Stored(P, Top, NoRows)
<1> DEFINE live == {Top}
           lev == [n \in PageNo |-> 0]
           lo  == [n \in PageNo |-> 1]
           hi  == [n \in PageNo |-> MaxKey + 1]
           up  == [n \in PageNo |-> Top]
<1>1. Top \in PageNo /\ 1 \in Ends /\ MaxKey + 1 \in Ends /\ 1 <= MaxKey + 1
  BY Sizes DEF Top, Ends
<1>2. << >> \in Seq(Cells) /\ NoPage \in PageNo \cup {NoPage} /\ Len(<< >>) = 0
  OBVIOUS
<1>3. P[Top] \in Node /\ P[Top].leaf = TRUE /\ P[Top].cells = << >> /\ P[Top].next = NoPage
  <2> DEFINE cells == << >>
             next  == NoPage
             node  == P[Top]
  <2>1. cells \in Seq(Cells) /\ next \in PageNo \cup {NoPage} /\ node = Leaf(cells, next)
    BY <1>2
  <2> HIDE DEF cells, next, node
  <2>2. node \in Node /\ node.leaf = TRUE /\ node.cells = cells /\ node.next = next
    BY <2>1, LeafKind
  <2> QED
    BY <2>2 DEF cells, next, node
<1>4. NoRows \in Rows /\ \A k \in Key : NoRows[k] = NoRow
  BY DEF NoRows, Rows
<1>5. Holds(<< >>, 1, MaxKey + 1, NoRows)
  <2>1. 1 .. Len(<< >>) = {}
    BY <1>2
  <2> QED
    BY <1>2, <1>4, <2>1 DEF Holds
<1>6. NodeFits(P, Top, live, lev, lo, hi, up, NoRows)
  BY <1>1, <1>3, <1>5 DEF NodeFits, LeafAt
<1>7. /\ live \in SUBSET PageNo /\ lev \in [PageNo -> Nat] /\ lo \in [PageNo -> Ends]
      /\ hi \in [PageNo -> Ends] /\ up \in [PageNo -> PageNo]
      /\ Top \in live /\ lo[Top] = 1 /\ hi[Top] = MaxKey + 1
      /\ \A n \in live : n = Top
  BY <1>1
<1>70. Chained(P, Top, live, lo, hi)
  <2> DEFINE a == [n \in PageNo |-> 1]
             b == [n \in PageNo |-> 0]
  <2>1. /\ a \in [PageNo -> Nat] /\ b \in [PageNo -> Nat] /\ a[Top] = 1 /\ b[Top] = 0
        /\ hi[Top] = MaxKey + 1 /\ \A n \in live : n = Top
    BY <1>1
  <2> HIDE DEF a, b, live, lo, hi
  <2>2. Onward(P, Top, live, lo, hi, a, b)
    BY <1>3, <2>1 DEF Onward
  <2>3. Ranked(P, Top, live, lo, hi, a, b)
    BY <1>3, <2>1, <2>2 DEF Ranked
  <2> QED
    BY <2>3 DEF Chained
<1> HIDE DEF live, lev, lo, hi, up
<1>8. Tree(P, Top, live, lev, lo, hi, up, NoRows)
  BY <1>4, <1>6, <1>7, <1>70, Zenon DEF Tree
<1> QED
  BY <1>8 DEF Stored, TreeOf

LEMMA InitHolds ==
  ASSUME Init
  PROVE  Inv /\ Map!Init
<1> DEFINE page == [n \in PageNo |-> IF n = Top THEN Leaf(<< >>, NoPage) ELSE Absent]
<1>0. /\ tree = EmptyTree /\ root = Top /\ calls = 0 /\ txn = "committed" /\ found = NoRows
  BY DEF Init
<1>1. Top \in PageNo /\ MaxCalls \in Nat
  BY Sizes DEF Top
<1>2. << >> \in Seq(Cells) /\ NoPage \in PageNo \cup {NoPage}
  OBVIOUS
<1>3. Leaf(<< >>, NoPage) \in Node
  BY <1>2, NodeKinds
<1>4. page \in Pages /\ NoNodes \in Pages
  BY <1>3 DEF Pages, NoNodes
<1>5. Fits(Leaf(<< >>, NoPage))
  BY EmptySize, Sizes DEF Fits
<1>6. tree \in Trees /\ tree.page = page /\ tree.altered = NoNodes /\ tree.inTxn = FALSE
      /\ tree.touched = {} /\ tree.shadow = NoNodes /\ tree.raised = FALSE /\ tree.full = FALSE
  BY <1>0, <1>4 DEF EmptyTree, Trees
<1>7. Still(tree)
  BY <1>5, <1>6 DEF Still
<1>8. View(tree) = page
  BY <1>6, <1>7, StillView
<1>9. page[Top] = Leaf(<< >>, NoPage)
  BY <1>1
<1> HIDE DEF page
<1>10. Stored(View(tree), root, NoRows)
  BY <1>0, <1>4, <1>8, <1>9, EmptyStored
<1>11. Found(tree, root) = NoRows /\ Stored(View(tree), root, Found(tree, root))
  BY <1>10, StoredFinds
<1>12. InvTree
  BY <1>0, <1>1, <1>6, <1>7, <1>11 DEF InvTree, NoNodes
<1>13. InvTxn /\ InvSaved
  <2>1. txn # "open" /\ 0 \in 0 .. MaxCalls
    BY <1>0, <1>1
  <2>2. tree.inTxn = (txn = "open")
    BY <1>6, <2>1, Zenon
  <2> QED
    BY <1>0, <1>6, <2>1, <2>2 DEF InvTxn, InvSaved
<1>14. Map!Init
  BY <1>0, <1>11 DEF Map!Init, Map!NoRows, NoRows
<1> QED
  BY <1>12, <1>13, <1>14 DEF Inv

(* In a transaction the tree stands.                                         *)
LEMMA InvStands ==
  ASSUME Inv, txn = "open"
  PROVE  /\ Ready = tree
         /\ Stands(tree, root, Found(tree, root), Saved(tree))
         /\ \A k \in Key : Search(tree, root, k) = Found(tree, root)[k]
<1>1. Still(tree) /\ ~tree.raised /\ ~tree.full /\ tree \in Trees /\ tree.inTxn
      /\ tree.altered = NoNodes
  BY DEF Inv, InvTree, InvTxn, Still
<1>2. Ready = tree
  BY <1>1 DEF Ready, Trees
<1>3. Kept(tree, Saved(tree), {})
  BY <1>1 DEF Kept, Stopped, Inv, InvTree, Still, NoNodes
<1> QED
  BY <1>2, <1>3 DEF Stands, Inv, InvTree, Stored, Found

(* A query and an emptied cache change no node.                              *)
LEMMA LookedKeeps ==
  ASSUME Inv, tree' \in Trees, tree'.page = tree.page, tree'.altered = tree.altered,
         tree'.touched = tree.touched, tree'.shadow = tree.shadow, tree'.inTxn = tree.inTxn,
         tree'.raised = tree.raised, tree'.full = tree.full,
         UNCHANGED <<root, calls, txn, oldRoot, found>>
  PROVE  Inv' /\ Found(tree', root') = Found(tree, root)
<1>1. View(tree') = View(tree) /\ Saved(tree') = Saved(tree)
  BY DEF View, NodeAt, Saved
<1>2. Still(tree) /\ ~tree.raised /\ ~tree.full /\ root \in PageNo
      /\ Stored(View(tree), root, Found(tree, root))
      /\ \A n \in PageNo : tree.shadow[n] # Absent => n \in tree.touched
  BY DEF Inv, InvTree
<1>3. Still(tree')
  BY <1>2 DEF Still
<1>4. Stored(View(tree'), root', Found(tree, root))
  BY <1>1, <1>2
<1>5. Found(tree', root') = Found(tree, root) /\ Stored(View(tree'), root', Found(tree', root'))
  BY <1>4, StoredFinds
<1>6. InvTree'
  BY <1>2, <1>3, <1>5 DEF InvTree
<1>7. InvTxn' /\ InvSaved'
  BY <1>1 DEF Inv, InvTxn, InvSaved
<1> QED
  BY <1>5, <1>6, <1>7 DEF Inv

LEMMA ReadKeeps ==
  ASSUME Inv, NEW keys, Read(keys)
  PROVE  Inv' /\ UNCHANGED Map!vars
<1> DEFINE S == UNION {ToSet(Path(tree, root, k)) : k \in keys}
<1>1. tree' = Loaded(tree, S) /\ UNCHANGED <<root, calls, txn, oldRoot, found>>
  BY DEF Read
<1> HIDE DEF S
<1>2. tree \in Trees
  BY DEF Inv, InvTree, Still
<1>3. tree' = [tree EXCEPT !.spoiled = [n \in PageNo |-> IF n \in S THEN Absent ELSE @[n]]]
  BY <1>1 DEF Loaded
<1>4. [n \in PageNo |-> IF n \in S THEN Absent ELSE tree.spoiled[n]] \in Pages
  BY <1>2 DEF Trees, Pages
<1>5. /\ tree' \in Trees /\ tree'.page = tree.page /\ tree'.altered = tree.altered
      /\ tree'.touched = tree.touched /\ tree'.shadow = tree.shadow /\ tree'.inTxn = tree.inTxn
      /\ tree'.raised = tree.raised /\ tree'.full = tree.full
  BY <1>2, <1>3, <1>4 DEF Trees
<1>6. Inv' /\ Found(tree', root') = Found(tree, root)
  BY <1>1, <1>5, LookedKeeps
<1> QED
  BY <1>1, <1>6 DEF Map!vars

LEMMA CacheClearedKeeps ==
  ASSUME Inv, CacheCleared
  PROVE  Inv' /\ UNCHANGED Map!vars
<1>1. /\ tree' = [tree EXCEPT !.altered = NoNodes, !.spoiled = NoNodes]
      /\ UNCHANGED <<root, calls, txn, oldRoot, found>>
  BY DEF CacheCleared
<1>2. tree \in Trees /\ tree.altered = NoNodes
  BY DEF Inv, InvTree, Still
<1>3. NoNodes \in Pages
  BY DEF NoNodes, Pages
<1>5. /\ tree' \in Trees /\ tree'.page = tree.page /\ tree'.altered = tree.altered
      /\ tree'.touched = tree.touched /\ tree'.shadow = tree.shadow /\ tree'.inTxn = tree.inTxn
      /\ tree'.raised = tree.raised /\ tree'.full = tree.full
  BY <1>1, <1>2, <1>3 DEF Trees
<1>6. Inv' /\ Found(tree', root') = Found(tree, root)
  BY <1>1, <1>5, LookedKeeps
<1> QED
  BY <1>1, <1>6 DEF Map!vars

(* A call that does what it is called for.                                   *)
LEMMA CallKeeps ==
  ASSUME Inv, Disciplined, NEW result, Call(result), NEW k \in Key, NEW row \in Lengths \cup {NoRow},
         ~Stopped(result.tree) =>
           Stands(result.tree, result.root, [Found(tree, root) EXCEPT ![k] = row], Saved(tree))
  PROVE  Inv' /\ Map!Set(k)
<1> DEFINE rows  == Found(tree, root)
           rows2 == [rows EXCEPT ![k] = row]
<1>1. /\ txn = "open" /\ calls < MaxCalls /\ ~result.tree.full /\ ~result.tree.raised
      /\ tree' = result.tree /\ root' = result.root /\ calls' = calls + 1
      /\ UNCHANGED <<txn, oldRoot, found>>
  BY DEF Call, Disciplined, Discipline
<1>2. Stands(tree', root', rows2, Saved(tree))
  BY <1>1 DEF Stopped
<1>3. rows \in Rows
  BY StoredIs DEF Inv, InvTree
<1> HIDE DEF rows2, rows
<1>4. Kept(tree', Saved(tree), {}) /\ Stored(View(tree'), root', rows2)
  BY <1>2 DEF Stands, Stored
<1>5. /\ tree' \in Trees /\ tree'.inTxn /\ ~tree'.raised /\ ~tree'.full /\ tree'.altered \in Pages
      /\ \A n \in PageNo : tree'.altered[n] = Absent
      /\ \A n \in PageNo : tree'.page[n] # Absent => Fits(tree'.page[n])
      /\ \A n \in PageNo : tree'.shadow[n] # Absent => n \in tree'.touched
      /\ Saved(tree') = Saved(tree)
  BY <1>4 DEF Kept, Stopped, Trees
<1>6. tree'.altered = NoNodes
  BY <1>5 DEF NoNodes, Pages
<1>7. Still(tree')
  BY <1>5, <1>6 DEF Still
<1>8. Found(tree', root') = rows2 /\ Stored(View(tree'), root', Found(tree', root')) /\ root' \in PageNo
  BY <1>4, StoredFinds, StoredIs
<1>9. InvTree'
  BY <1>5, <1>7, <1>8 DEF InvTree
<1>10. InvTxn'
  <2>1. calls \in 0 .. MaxCalls /\ MaxCalls \in Nat
    BY Sizes DEF Inv, InvTxn
  <2>2. calls' \in 0 .. MaxCalls
    BY <1>1, <2>1
  <2>3. txn' = "open" /\ tree'.inTxn = TRUE
    BY <1>1, <1>5 DEF Trees
  <2> QED
    BY <2>2, <2>3 DEF InvTxn
<1>11. InvSaved'
  BY <1>1, <1>5 DEF InvSaved, Inv
<1>12. \A j \in Key : rows2[j] = IF j = k THEN row ELSE rows[j]
  BY <1>3 DEF rows2, Rows
<1>13. Map!Set(k)
  BY <1>1, <1>8, <1>12 DEF Map!Set, rows
<1> QED
  BY <1>9, <1>10, <1>11, <1>13 DEF Inv

LEMMA InsertRowKeeps ==
  ASSUME Inv, Disciplined, NEW k \in Key, NEW len \in Lengths, InsertRow(k, len)
  PROVE  Inv' /\ Map!Set(k)
<1> DEFINE d == Insert(tree, root, k, len)
<1>1. txn = "open" /\ Search(tree, root, k) = NoRow /\ Call(Insert(Ready, root, k, len))
  BY DEF InsertRow, Call
<1>2. /\ Ready = tree /\ Stands(tree, root, Found(tree, root), Saved(tree))
      /\ Found(tree, root)[k] = NoRow
  BY <1>1, InvStands
<1>3. Call(d)
  BY <1>1, <1>2
<1> HIDE DEF d
<1>4. ~Stopped(d.tree) => Stands(d.tree, d.root, [Found(tree, root) EXCEPT ![k] = len], Saved(tree))
  BY <1>2, InsertDoes DEF d
<1> QED
  BY <1>3, <1>4, CallKeeps

LEMMA UpdateRowKeeps ==
  ASSUME Inv, Disciplined, NEW k \in Key, NEW len \in Lengths, UpdateRow(k, len)
  PROVE  Inv' /\ Map!Set(k)
<1> DEFINE d == Replace(tree, root, k, len)
<1>1. txn = "open" /\ Search(tree, root, k) # NoRow /\ Call(Replace(Ready, root, k, len))
  BY DEF UpdateRow, Call
<1>2. /\ Ready = tree /\ Stands(tree, root, Found(tree, root), Saved(tree))
      /\ Found(tree, root)[k] # NoRow
  BY <1>1, InvStands
<1>3. Call(d)
  BY <1>1, <1>2
<1> HIDE DEF d
<1>4. ~Stopped(d.tree) => Stands(d.tree, d.root, [Found(tree, root) EXCEPT ![k] = len], Saved(tree))
  BY <1>2, ReplaceDoes DEF d
<1> QED
  BY <1>3, <1>4, CallKeeps

LEMMA DeleteRowKeeps ==
  ASSUME Inv, Disciplined, NEW k \in Key, DeleteRow(k)
  PROVE  Inv' /\ Map!Set(k)
<1> DEFINE d == Delete(tree, root, k)
<1>1. txn = "open" /\ Search(tree, root, k) # NoRow /\ Call(Delete(Ready, root, k))
  BY DEF DeleteRow, Call
<1>2. /\ Ready = tree /\ Stands(tree, root, Found(tree, root), Saved(tree))
      /\ Found(tree, root)[k] # NoRow
  BY <1>1, InvStands
<1>3. Call(d)
  BY <1>1, <1>2
<1> HIDE DEF d
<1>4. ~Stopped(d.tree) => Stands(d.tree, d.root, [Found(tree, root) EXCEPT ![k] = NoRow], Saved(tree))
  BY <1>2, DeleteDoes DEF d
<1> QED
  BY <1>3, <1>4, CallKeeps

LEMMA BeginKeeps ==
  ASSUME Inv, Begin
  PROVE  Inv' /\ Map!Begin
<1>1. /\ txn # "open" /\ txn' = "open" /\ calls' = calls /\ root' = root
      /\ tree' = [tree EXCEPT !.inTxn = TRUE, !.raised = FALSE]
      /\ oldRoot' = root /\ found' = Found(tree, root)
  BY DEF Begin
<1>2. /\ Still(tree) /\ tree \in Trees /\ ~tree.full /\ root \in PageNo
      /\ Stored(View(tree), root, Found(tree, root))
      /\ \A n \in PageNo : tree.shadow[n] # Absent => n \in tree.touched
  BY DEF Inv, InvTree, Still
<1>3. txn \in {"committed", "rolledback"} /\ calls \in 0 .. MaxCalls /\ tree.touched = {}
  BY <1>1 DEF Inv, InvTxn
<1>4. /\ tree' \in Trees /\ tree'.page = tree.page /\ tree'.altered = tree.altered
      /\ tree'.touched = tree.touched /\ tree'.shadow = tree.shadow /\ tree'.inTxn = TRUE
      /\ tree'.raised = FALSE /\ tree'.full = tree.full
  BY <1>1, <1>2 DEF Trees
<1>5. View(tree') = View(tree) /\ View(tree) = tree.page
  BY <1>2, <1>4, StillView DEF View, NodeAt
<1>6. Saved(tree') = tree.page
  <2>1. tree.page \in Pages
    BY <1>2 DEF Trees
  <2> QED
    BY <1>3, <1>4, <2>1 DEF Saved, Pages
<1>7. Found(tree', root') = Found(tree, root) /\ Stored(View(tree'), root', Found(tree', root'))
  <2>1. Stored(View(tree'), root', Found(tree, root))
    BY <1>1, <1>2, <1>5
  <2> QED
    BY <2>1, StoredFinds
<1>8. Still(tree')
  BY <1>2, <1>4 DEF Still
<1>9. InvTree'
  BY <1>1, <1>2, <1>4, <1>7, <1>8 DEF InvTree
<1>10. InvTxn'
  <2>1. tree'.inTxn = (txn' = "open")
    BY <1>1, <1>4, Zenon
  <2> QED
    BY <1>1, <1>3, <2>1 DEF InvTxn
<1>11. InvSaved'
  <2>1. Stored(Saved(tree'), oldRoot', found')
    BY <1>1, <1>2, <1>5, <1>6
  <2>2. \A n \in PageNo : Saved(tree')[n] # Absent => Fits(Saved(tree')[n])
    BY <1>2, <1>6 DEF Still
  <2> QED
    BY <2>1, <2>2 DEF InvSaved
<1>12. Map!Begin
  BY <1>1, <1>3, <1>7 DEF Map!Begin, Map!Ended
<1> QED
  BY <1>9, <1>10, <1>11, <1>12 DEF Inv

(* A transaction ends with the rows that the tree of root r has.             *)
LEMMA EndedKeeps ==
  ASSUME NEW t, NEW r, NEW rows, Still(t), ~t.full, Stored(View(t), r, rows),
         tree' = Ended(t, r), root' = Top, Closed, txn' \in {"committed", "rolledback"}
  PROVE  Inv' /\ Found(tree', root') = rows /\ found' = NoRows
<1> DEFINE u == Tidy(t, r)
<1>1. Still(u) /\ Stored(View(u), Top, rows) /\ u.full = t.full
  BY TidyDoes DEF Stored
<1>2. tree' = [u EXCEPT !.inTxn = FALSE, !.touched = {}, !.shadow = NoNodes,
                        !.spoiled = NoNodes, !.raised = FALSE]
  BY DEF Ended
<1> HIDE DEF u
<1>3. NoNodes \in Pages /\ u \in Trees
  BY <1>1 DEF NoNodes, Pages, Still
<1>4. /\ tree' \in Trees /\ tree'.page = u.page /\ tree'.altered = u.altered
      /\ tree'.touched = {} /\ tree'.shadow = NoNodes /\ tree'.inTxn = FALSE
      /\ tree'.raised = FALSE /\ tree'.full = u.full
  BY <1>2, <1>3 DEF Trees
<1>5. View(tree') = View(u) /\ Still(tree')
  BY <1>1, <1>4 DEF View, NodeAt, Still
<1>6. Found(tree', root') = rows /\ Stored(View(tree'), root', Found(tree', root')) /\ root' \in PageNo
  BY <1>1, <1>5, StoredFinds, StoredIs
<1>7. InvTree'
  BY <1>1, <1>4, <1>5, <1>6 DEF InvTree, NoNodes
<1>8. InvTxn'
  <2>1. txn' # "open" /\ calls' \in 0 .. MaxCalls
    BY Sizes DEF Closed
  <2>2. tree'.inTxn = (txn' = "open")
    BY <1>4, <2>1, Zenon
  <2> QED
    BY <1>4, <2>1, <2>2 DEF InvTxn
<1>9. InvSaved'
  BY DEF InvSaved
<1> QED
  BY <1>6, <1>7, <1>8, <1>9 DEF Inv, Closed

LEMMA CommitKeeps ==
  ASSUME Inv, Commit
  PROVE  Inv' /\ Map!Commit
<1>1. /\ txn = "open" /\ txn' = "committed" /\ tree' = Ended(tree, root) /\ Closed /\ root' = Top
  BY DEF Commit
<1>2. Still(tree) /\ ~tree.full /\ Stored(View(tree), root, Found(tree, root))
  BY DEF Inv, InvTree
<1> DEFINE rows == Found(tree, root)
<1> HIDE DEF rows
<1>3. Inv' /\ Found(tree', root') = rows /\ found' = NoRows
  BY <1>1, <1>2, EndedKeeps DEF rows
<1> QED
  BY <1>1, <1>3 DEF Map!Commit, Map!NoRows, NoRows, rows

LEMMA RollbackKeeps ==
  ASSUME Inv, Disciplined, Rollback
  PROVE  Inv' /\ Map!Rollback
<1> DEFINE t == Restored(tree)
<1>1. /\ txn = "open" /\ txn' = "rolledback" /\ tree' = Ended(t, oldRoot) /\ Closed /\ root' = Top
      /\ tree.spoiled = NoNodes
  BY DEF Rollback, Disciplined, Discipline
<1>2. tree \in Trees /\ tree.altered = NoNodes /\ ~tree.full
  BY DEF Inv, InvTree, Still
<1>3. /\ \A n \in PageNo : Saved(tree)[n] # Absent => Fits(Saved(tree)[n])
      /\ Stored(Saved(tree), oldRoot, found)
  BY <1>1 DEF Inv, InvSaved
<1>4. Saved(tree) \in Pages /\ NoNodes \in Pages
  BY <1>3, StoredIs DEF NoNodes, Pages
<1>5. t = [tree EXCEPT !.page = Saved(tree), !.altered = NoNodes]
  BY <1>1, <1>2 DEF Restored, Saved, NoNodes
<1> HIDE DEF t
<1>6. t \in Trees /\ t.page = Saved(tree) /\ t.altered = NoNodes /\ t.full = tree.full
  BY <1>2, <1>4, <1>5 DEF Trees
<1>7. Still(t)
  BY <1>3, <1>6 DEF Still
<1>8. Stored(View(t), oldRoot, found)
  BY <1>3, <1>6, <1>7, StillView
<1>9. Inv' /\ Found(tree', root') = found /\ found' = NoRows
  BY <1>1, <1>2, <1>6, <1>7, <1>8, EndedKeeps
<1> QED
  BY <1>1, <1>9 DEF Map!Rollback, Map!NoRows, NoRows

-----------------------------------------------------------------------------
(* The shape of the tree, and the chain of its leaves                        *)

LEMMA LevelIs ==
  ASSUME NEW t, NEW r
  PROVE  /\ Level(t, r)[0] = {r}
         /\ \A i \in 1 .. MaxPages :
              Level(t, r)[i] = UNION {ToSet(KidsOf(t, n)) : n \in Level(t, r)[i - 1]}
<1> DEFINE N == MaxPages
           op == Level(t, r)
           Step(S) == UNION {ToSet(KidsOf(t, n)) : n \in S}
           Body(h, d) == IF h = 0 THEN {r} ELSE Step(d)
           D == {i \in 0 .. N : \E g : g = [h \in 0 .. i |-> Body(h, g[h - 1])]}
<1>1. N \in Nat
  BY Sizes
<1>2. (\A d : Body(0, d) = {r}) /\ \A i \in 1 .. N : \A d : Body(i, d) = Step(d)
  BY <1>1
<1>4. op = CHOOSE g : g = [h \in 0 .. N |-> Body(h, g[h - 1])]
  BY DEF Level
<1> HIDE DEF Body, N, Step, op
<1>5. 0 \in D
  <2> DEFINE g == [h \in 0 .. 0 |-> Body(0, 0)]
  <2>1. \A h \in 0 .. 0 : Body(0, 0) = Body(h, g[h - 1])
    BY <1>2
  <2>2. g = [h \in 0 .. 0 |-> Body(h, g[h - 1])]
    BY <2>1
  <2> HIDE DEF g
  <2>3. \E c : c = [h \in 0 .. 0 |-> Body(h, c[h - 1])]
    BY <2>2, Zenon
  <2>4. 0 \in 0 .. N
    BY <1>1
  <2> QED
    BY <2>3, <2>4, Zenon
<1>6. ASSUME NEW i \in 1 .. N, i - 1 \in D PROVE i \in D
  <2>1. PICK g : g = [h \in 0 .. (i - 1) |-> Body(h, g[h - 1])]
    BY <1>6
  <2> DEFINE f == [h \in 0 .. i |-> IF h = i THEN Body(i, g[i - 1]) ELSE g[h]]
  <2>2. ASSUME NEW h \in 0 .. i PROVE f[h] = Body(h, f[h - 1])
    <3>1. CASE h = i
      <4>1. h - 1 \in 0 .. i /\ h - 1 # i
        BY <1>1, <3>1
      <4> QED
        BY <3>1, <4>1
    <3>2. CASE h # i /\ h # 0
      <4>1. h \in 0 .. (i - 1) /\ h - 1 \in 0 .. i /\ h - 1 # i
        BY <1>1, <3>2
      <4> QED
        BY <2>1, <3>2, <4>1
    <3>3. CASE h # i /\ h = 0
      <4>1. 0 \in 0 .. (i - 1) /\ f[0] = g[0]
        BY <1>1, <3>3
      <4>2. g[0] = Body(0, g[0 - 1])
        BY <2>1, <4>1
      <4> QED
        BY <1>2, <3>3, <4>1, <4>2
    <3> QED
      BY <3>1, <3>2, <3>3
  <2>3. f = [h \in 0 .. i |-> f[h]]
    OBVIOUS
  <2> HIDE DEF f
  <2>4. f = [h \in 0 .. i |-> Body(h, f[h - 1])]
    BY <2>2, <2>3
  <2> QED
    BY <1>1, <2>4
<1>7. N \in D
  <2> HIDE DEF D
  <2>1. \A i \in 0 .. N : i \in D
    BY <1>1, <1>5, <1>6, UpTo
  <2> QED
    BY <1>1, <2>1
<1>8. op = [h \in 0 .. N |-> Body(h, op[h - 1])]
  BY <1>4, <1>7, Zenon
<1>9. \A h \in 0 .. N : op[h] = Body(h, op[h - 1])
  BY <1>8
<1>10. op[0] = {r} /\ \A i \in 1 .. N : op[i] = Step(op[i - 1])
  <2>1. 0 \in 0 .. N /\ \A i \in 1 .. N : i \in 0 .. N
    BY <1>1
  <2>2. op[0] = Body(0, op[0 - 1]) /\ \A i \in 1 .. N : op[i] = Body(i, op[i - 1])
    BY <1>9, <2>1
  <2> QED
    BY <1>2, <2>2
<1> QED
  BY <1>10 DEF N, op, Step

LEMMA ChainIs ==
  ASSUME NEW t
  PROVE  \A h \in 0 .. MaxPages : \A n \in PageNo :
           Chain(t)[h][n] = IF NodeAt(t, n).next = NoPage \/ h = 0 THEN NodeAt(t, n).cells
                            ELSE NodeAt(t, n).cells \o Chain(t)[h - 1][NodeAt(t, n).next]
<1> DEFINE N == MaxPages
           op == Chain(t)
           Cells1(h, d, n) == IF NodeAt(t, n).next = NoPage \/ h = 0 THEN NodeAt(t, n).cells
                              ELSE NodeAt(t, n).cells \o d[NodeAt(t, n).next]
           Body(h, d) == [n \in PageNo |-> Cells1(h, d, n)]
           D == {i \in 0 .. N : \E g : g = [h \in 0 .. i |-> Body(h, g[h - 1])]}
<1>1. N \in Nat
  BY Sizes
<1>2. (\A c, d : Body(0, c) = Body(0, d)) /\ \A h, d : \A n \in PageNo : Body(h, d)[n] = Cells1(h, d, n)
  OBVIOUS
<1>4. op = CHOOSE g : g = [h \in 0 .. N |-> Body(h, g[h - 1])]
  BY DEF Chain
<1> HIDE DEF Body, N, op, Cells1
<1>5. 0 \in D
  <2> DEFINE g == [h \in 0 .. 0 |-> Body(0, 0)]
  <2>1. \A h \in 0 .. 0 : Body(0, 0) = Body(h, g[h - 1])
    BY <1>2
  <2>2. g = [h \in 0 .. 0 |-> Body(h, g[h - 1])]
    BY <2>1
  <2> HIDE DEF g
  <2>3. \E c : c = [h \in 0 .. 0 |-> Body(h, c[h - 1])]
    BY <2>2, Zenon
  <2>4. 0 \in 0 .. N
    BY <1>1
  <2> QED
    BY <2>3, <2>4, Zenon
<1>6. ASSUME NEW i \in 1 .. N, i - 1 \in D PROVE i \in D
  <2>1. PICK g : g = [h \in 0 .. (i - 1) |-> Body(h, g[h - 1])]
    BY <1>6
  <2> DEFINE f == [h \in 0 .. i |-> IF h = i THEN Body(i, g[i - 1]) ELSE g[h]]
  <2>2. ASSUME NEW h \in 0 .. i PROVE f[h] = Body(h, f[h - 1])
    <3>1. CASE h = i
      <4>1. h - 1 \in 0 .. i /\ h - 1 # i
        BY <1>1, <3>1
      <4> QED
        BY <3>1, <4>1
    <3>2. CASE h # i /\ h # 0
      <4>1. h \in 0 .. (i - 1) /\ h - 1 \in 0 .. i /\ h - 1 # i
        BY <1>1, <3>2
      <4> QED
        BY <2>1, <3>2, <4>1
    <3>3. CASE h # i /\ h = 0
      <4>1. 0 \in 0 .. (i - 1) /\ f[0] = g[0]
        BY <1>1, <3>3
      <4>2. g[0] = Body(0, g[0 - 1])
        BY <2>1, <4>1
      <4> QED
        BY <1>2, <3>3, <4>1, <4>2
    <3> QED
      BY <3>1, <3>2, <3>3
  <2>3. f = [h \in 0 .. i |-> f[h]]
    OBVIOUS
  <2> HIDE DEF f
  <2>4. f = [h \in 0 .. i |-> Body(h, f[h - 1])]
    BY <2>2, <2>3
  <2> QED
    BY <1>1, <2>4
<1>7. N \in D
  <2> HIDE DEF D
  <2>1. \A i \in 0 .. N : i \in D
    BY <1>1, <1>5, <1>6, UpTo
  <2> QED
    BY <1>1, <2>1
<1>8. op = [h \in 0 .. N |-> Body(h, op[h - 1])]
  BY <1>4, <1>7, Zenon
<1>9. \A h \in 0 .. N : op[h] = Body(h, op[h - 1])
  BY <1>8
<1>10. \A h \in 0 .. N : \A n \in PageNo : op[h][n] = Cells1(h, op[h - 1], n)
  BY <1>2, <1>9
<1> QED
  BY <1>10 DEF N, op, Cells1

LEMMA YieldsIs ==
  ASSUME NEW cells \in Seq(Cells), NEW lo \in Int, NEW hi \in Int
  PROVE  /\ Yields(cells, lo, hi)[0] = << >>
         /\ \A i \in 1 .. Len(cells) :
              LET c == cells[Len(cells) + 1 - i]
              IN  Yields(cells, lo, hi)[i] =
                    IF c.key < lo THEN Yields(cells, lo, hi)[i - 1]
                    ELSE IF hi # NoKey /\ c.key > hi THEN << >>
                    ELSE <<c>> \o Yields(cells, lo, hi)[i - 1]
<1> DEFINE N == Len(cells)
           op == Yields(cells, lo, hi)
           At(i) == cells[N + 1 - i]
           Step(i, d) == IF At(i).key < lo THEN d ELSE IF hi # NoKey /\ At(i).key > hi THEN << >> ELSE <<At(i)>> \o d
           Body(i, d) == CASE i = 0 -> << >>
                           [] i > 0 /\ At(i).key < lo -> d
                           [] i > 0 /\ At(i).key >= lo /\ hi # NoKey /\ At(i).key > hi -> << >>
                           [] OTHER -> <<At(i)>> \o d
           D == {i \in 0 .. N : \E g : g = [h \in 0 .. i |-> Body(h, g[h - 1])]}
<1>1. N \in Nat
  OBVIOUS
<1>2. (\A d : Body(0, d) = << >>) /\ \A i \in 1 .. N : \A d : Body(i, d) = Step(i, d)
  <2>1. \A i \in 1 .. N : At(i).key \in Int
    <3> SUFFICES ASSUME NEW i \in 1 .. N PROVE At(i).key \in Int
      OBVIOUS
    <3>1. N + 1 - i \in 1 .. N
      BY <1>1
    <3> QED
      BY <3>1, CellsOf
  <2> HIDE DEF At, N
  <2>2. ASSUME NEW i \in 1 .. N, NEW d PROVE Body(i, d) = Step(i, d)
    <3>1. i > 0 /\ i # 0 /\ At(i).key \in Int
      BY <1>1, <2>1
    <3> DEFINE k == At(i).key
    <3>2. k \in Int /\ (k >= lo <=> ~(k < lo))
      BY <3>1
    <3> HIDE DEF k
    <3>3. CASE k < lo
      BY <3>1, <3>2, <3>3 DEF k
    <3>4. CASE k >= lo /\ hi # NoKey /\ k > hi
      BY <3>1, <3>2, <3>4 DEF k
    <3>5. CASE k >= lo /\ ~(hi # NoKey /\ k > hi)
      BY <3>1, <3>2, <3>5 DEF k
    <3> QED
      BY <3>2, <3>3, <3>4, <3>5
  <2>3. ASSUME NEW d PROVE Body(0, d) = << >>
    OBVIOUS
  <2> HIDE DEF Body, Step
  <2> QED
    BY <2>2, <2>3
<1>4. op = CHOOSE g : g = [h \in 0 .. N |-> Body(h, g[h - 1])]
  BY DEF Yields
<1> HIDE DEF Body, N, Step, op, At
<1>5. 0 \in D
  <2> DEFINE g == [h \in 0 .. 0 |-> Body(0, 0)]
  <2>1. \A h \in 0 .. 0 : Body(0, 0) = Body(h, g[h - 1])
    BY <1>2
  <2>2. g = [h \in 0 .. 0 |-> Body(h, g[h - 1])]
    BY <2>1
  <2> HIDE DEF g
  <2>3. \E c : c = [h \in 0 .. 0 |-> Body(h, c[h - 1])]
    BY <2>2, Zenon
  <2>4. 0 \in 0 .. N
    BY <1>1
  <2> QED
    BY <2>3, <2>4, Zenon
<1>6. ASSUME NEW i \in 1 .. N, i - 1 \in D PROVE i \in D
  <2>1. PICK g : g = [h \in 0 .. (i - 1) |-> Body(h, g[h - 1])]
    BY <1>6
  <2> DEFINE f == [h \in 0 .. i |-> IF h = i THEN Body(i, g[i - 1]) ELSE g[h]]
  <2>2. ASSUME NEW h \in 0 .. i PROVE f[h] = Body(h, f[h - 1])
    <3>1. CASE h = i
      <4>1. h - 1 \in 0 .. i /\ h - 1 # i
        BY <1>1, <3>1
      <4> QED
        BY <3>1, <4>1
    <3>2. CASE h # i /\ h # 0
      <4>1. h \in 0 .. (i - 1) /\ h - 1 \in 0 .. i /\ h - 1 # i
        BY <1>1, <3>2
      <4> QED
        BY <2>1, <3>2, <4>1
    <3>3. CASE h # i /\ h = 0
      <4>1. 0 \in 0 .. (i - 1) /\ f[0] = g[0]
        BY <1>1, <3>3
      <4>2. g[0] = Body(0, g[0 - 1])
        BY <2>1, <4>1
      <4> QED
        BY <1>2, <3>3, <4>1, <4>2
    <3> QED
      BY <3>1, <3>2, <3>3
  <2>3. f = [h \in 0 .. i |-> f[h]]
    OBVIOUS
  <2> HIDE DEF f
  <2>4. f = [h \in 0 .. i |-> Body(h, f[h - 1])]
    BY <2>2, <2>3
  <2> QED
    BY <1>1, <2>4
<1>7. N \in D
  <2> HIDE DEF D
  <2>1. \A i \in 0 .. N : i \in D
    BY <1>1, <1>5, <1>6, UpTo
  <2> QED
    BY <1>1, <2>1
<1>8. op = [h \in 0 .. N |-> Body(h, op[h - 1])]
  BY <1>4, <1>7, Zenon
<1>9. \A h \in 0 .. N : op[h] = Body(h, op[h - 1])
  BY <1>8
<1>10. op[0] = << >> /\ \A i \in 1 .. N : op[i] = Step(i, op[i - 1])
  <2>1. 0 \in 0 .. N /\ \A i \in 1 .. N : i \in 0 .. N
    BY <1>1
  <2>2. op[0] = Body(0, op[0 - 1]) /\ \A i \in 1 .. N : op[i] = Body(i, op[i - 1])
    BY <1>9, <2>1
  <2> QED
    BY <1>2, <2>2
<1> QED
  BY <1>10 DEF N, op, Step, At

(* The pages below page q stand for keys that it stands for.                 *)
Below(q, n, i, live, lev, lo, hi) ==
  n \in live /\ lev[n] + i = lev[q] /\ lo[q] <= lo[n] /\ hi[n] <= hi[q]

LEMMA LevelBelow ==
  ASSUME NEW t, NEW r, NEW live, NEW lev, NEW lo, NEW hi, NEW up, NEW rows,
         Tree(View(t), r, live, lev, lo, hi, up, rows), NEW q \in live
  PROVE  \A i \in 0 .. MaxPages : \A n \in Level(t, q)[i] : Below(q, n, i, live, lev, lo, hi)
<1> DEFINE V == View(t)
           At(i) == \A n \in Level(t, q)[i] : Below(q, n, i, live, lev, lo, hi)
           D == {i \in 0 .. MaxPages : At(i)}
<1>0. /\ MaxPages \in Nat /\ live \subseteq PageNo
      /\ lo \in [PageNo -> Ends] /\ hi \in [PageNo -> Ends] /\ lev \in [PageNo -> Nat]
  BY Sizes DEF Tree
<1>00. \A n \in live : lo[n] \in Int /\ hi[n] \in Int /\ lev[n] \in Nat /\ lo[n] \in Ends /\ hi[n] \in Ends
  BY <1>0, EndsTyped
<1>1. /\ Level(t, q)[0] = {q}
      /\ \A i \in 1 .. MaxPages :
           Level(t, q)[i] = UNION {ToSet(KidsOf(t, n)) : n \in Level(t, q)[i - 1]}
  BY LevelIs
<1>2. 0 \in D
  BY <1>0, <1>00, <1>1 DEF Below
<1>3. ASSUME NEW i \in 1 .. MaxPages, i - 1 \in D PROVE i \in D
  <2> SUFFICES ASSUME NEW n \in Level(t, q)[i] PROVE Below(q, n, i, live, lev, lo, hi)
    BY <1>0
  <2>1. PICK p \in Level(t, q)[i - 1] : n \in ToSet(KidsOf(t, p))
    BY <1>1
  <2>2. Below(q, p, i - 1, live, lev, lo, hi)
    BY <1>3, <2>1
  <2>3. p \in live /\ p \in PageNo /\ NodeAt(t, p) = V[p]
    BY <1>0, <2>2 DEF Below, View
  <2>4. ~V[p].leaf /\ \E x \in DOMAIN V[p].kids : V[p].kids[x] = n
    BY <2>1, <2>3 DEF KidsOf, ToSet
  <2> HIDE DEF V
  <2>5. /\ InnerAt(V[p], p, live, lev, lo, hi, up)
        /\ \A x \in 1 .. Len(V[p].kids) : /\ V[p].kids[x] \in live
                                           /\ lo[V[p].kids[x]] <= hi[V[p].kids[x]]
                                           /\ lev[V[p].kids[x]] + 1 = lev[p]
    BY <2>3, <2>4, TreeNode DEF V
  <2>6. Parts(V[p].keys, V[p].kids, lo[p], hi[p], lo, hi)
    BY <2>5 DEF InnerAt
  <2>7. V[p].kids \in Seq(PageNo)
    BY <2>6, PartsTyped
  <2>8. PICK x \in 1 .. Len(V[p].kids) : V[p].kids[x] = n
    BY <2>4, <2>7
  <2>9. lo[p] <= lo[n] /\ hi[n] <= hi[p]
    <3>1. \A y \in 1 .. Len(V[p].kids) : lo[p] <= lo[V[p].kids[y]] /\ hi[V[p].kids[y]] <= hi[p]
      BY <1>0, <1>00, <2>3, <2>5, <2>6, PartsWithin
    <3> QED
      BY <2>8, <3>1
  <2>10. n \in live /\ lev[n] + 1 = lev[p]
    BY <2>5, <2>8
  <2>11. lev[p] + (i - 1) = lev[q] /\ lo[q] <= lo[p] /\ hi[p] <= hi[q]
    BY <2>2 DEF Below
  <2> QED
    BY <1>00, <2>3, <2>9, <2>10, <2>11 DEF Below
<1>4. \A i \in 0 .. MaxPages : i \in D
  <2> HIDE DEF D
  <2> QED
    BY <1>0, <1>2, <1>3, UpTo
<1> QED
  BY <1>4

(* The first and the last child.                                             *)
LEMMA Outermost ==
  ASSUME NEW node, NEW a, NEW b, NEW lo, NEW hi, Parts(node.keys, node.kids, a, b, lo, hi)
  PROVE  /\ Len(node.kids) \in Nat /\ Len(node.kids) >= 1
         /\ ChildIndex(node, NoKey) = 1 /\ ChildIndex(node, MaxKey) = Len(node.kids)
         /\ lo[node.kids[1]] = a
<1>1. /\ node.keys \in Seq(Key) /\ Len(node.keys) \in Nat /\ DOMAIN node.keys = 1 .. Len(node.keys)
      /\ Len(node.kids) \in Nat /\ Len(node.kids) = Len(node.keys) + 1
      /\ \A i \in 1 .. Len(node.keys) : node.keys[i] \in 1 .. MaxKey /\ node.keys[i] \in Int
  BY PartsTyped, Sizes
<1>2. {i \in DOMAIN node.keys : node.keys[i] <= NoKey} = {}
  BY <1>1, Sizes
<1>3. {i \in DOMAIN node.keys : node.keys[i] <= MaxKey} = 1 .. Len(node.keys)
  BY <1>1
<1>4. Cardinality({}) = 0 /\ Cardinality(1 .. Len(node.keys)) = Len(node.keys)
  <2> DEFINE L == Len(node.keys)
  <2>1. L \in Nat /\ 1 \in Nat
    BY <1>1
  <2> HIDE DEF L
  <2>2. Cardinality(1 .. L) = L
    BY <2>1, FS_Interval
  <2>3. Cardinality({}) = 0
    BY FS_EmptySet
  <2> QED
    BY <2>2, <2>3 DEF L
<1>5. ChildIndex(node, NoKey) = 1 /\ ChildIndex(node, MaxKey) = Len(node.kids)
  <2>1. Cardinality({i \in DOMAIN node.keys : node.keys[i] <= NoKey}) = 0
    BY <1>2, <1>4, Zenon
  <2>2. Cardinality({i \in DOMAIN node.keys : node.keys[i] <= MaxKey}) = Len(node.keys)
    BY <1>3, <1>4, Zenon
  <2> QED
    BY <1>1, <2>1, <2>2 DEF ChildIndex
<1>6. lo[node.kids[1]] = a
  <2>1. 1 \in 1 .. Len(node.kids)
    BY <1>1
  <2> QED
    BY <2>1 DEF Parts
<1> QED
  BY <1>1, <1>5, <1>6

(* A way down keeps what each child that it takes has of its parent.         *)
Keeps(V, live, key, c) ==
  \A n \in live : ~V[n].leaf => /\ ChildIndex(V[n], key) \in 1 .. Len(V[n].kids)
                                /\ c[V[n].kids[ChildIndex(V[n], key)]] = c[n]

EndsAt(V, live, c, n, path) ==
  /\ path \in Seq(PageNo) /\ Len(path) >= 1
  /\ path[Len(path)] \in live /\ V[path[Len(path)]].leaf /\ c[path[Len(path)]] = c[n]

LEMMA WayKeeps ==
  ASSUME NEW t, NEW r, NEW live, NEW lev, NEW rows, TreeOf(View(t), r, live, lev, rows),
         NEW key, NEW c, Keeps(View(t), live, key, c)
  PROVE  \A h \in 0 .. MaxPages : \A n \in live : lev[n] <= h =>
           EndsAt(View(t), live, c, n, Way(t, key)[h][n])
<1> DEFINE V == View(t)
           At(h) == \A n \in live : lev[n] <= h => EndsAt(V, live, c, n, Way(t, key)[h][n])
           D == {h \in 0 .. MaxPages : At(h)}
<1>0. MaxPages \in Nat
  BY Sizes
<1>1. live \subseteq PageNo /\ \A n \in live : NodeIs(V[n], n, live, lev)
  BY TreeOfNode
<1>2. \A n \in live : NodeAt(t, n) = V[n]
  BY <1>1 DEF View
<1>3. Keeps(V, live, key, c)
  OBVIOUS
<1> HIDE DEF V
<1>4. ASSUME NEW h \in 0 .. MaxPages, NEW n \in live, V[n].leaf
      PROVE  EndsAt(V, live, c, n, Way(t, key)[h][n])
  <2>0. n \in PageNo /\ NodeAt(t, n).leaf
    BY <1>1, <1>2, <1>4
  <2>1. Way(t, key)[h][n] = <<n>>
    BY <2>0, WayIs
  <2> DEFINE w == <<n>>
  <2>2. w \in Seq(PageNo) /\ Len(w) = 1 /\ w[1] = n
    BY <1>1
  <2> HIDE DEF w
  <2>3. EndsAt(V, live, c, n, w)
    BY <1>4, <2>2 DEF EndsAt
  <2> QED
    BY <2>1, <2>3 DEF w
<1>5. 0 \in D
  <2> SUFFICES ASSUME NEW n \in live, lev[n] <= 0 PROVE EndsAt(V, live, c, n, Way(t, key)[0][n])
    BY <1>0
  <2>1. NodeIs(V[n], n, live, lev)
    BY <1>1
  <2>2. lev[n] = 0
    BY <2>1 DEF NodeIs
  <2>3. V[n].leaf /\ 0 \in 0 .. MaxPages
    BY <1>0, <2>1, <2>2 DEF NodeIs
  <2> QED
    BY <1>4, <2>3
<1>6. ASSUME NEW h \in 1 .. MaxPages, h - 1 \in D PROVE h \in D
  <2> SUFFICES ASSUME NEW n \in live, lev[n] <= h PROVE EndsAt(V, live, c, n, Way(t, key)[h][n])
    BY <1>0
  <2>1. h \in 0 .. MaxPages /\ h # 0 /\ h \in Nat
    BY <1>0
  <2>2. CASE V[n].leaf
    BY <1>4, <2>1, <2>2
  <2>3. CASE ~V[n].leaf
    <3> DEFINE i == ChildIndex(V[n], key)
               k == V[n].kids[i]
               w == Way(t, key)[h - 1][k]
    <3>1. i \in 1 .. Len(V[n].kids) /\ c[k] = c[n]
      BY <1>3, <2>3 DEF Keeps
    <3>2. NodeIs(V[n], n, live, lev)
      BY <1>1
    <3>3. InnerIs(V[n], n, live, lev) /\ n \in PageNo /\ lev[n] \in Nat
      BY <2>3, <3>2 DEF NodeIs
    <3>4. k \in live /\ lev[k] + 1 = lev[n]
      BY <3>1, <3>3 DEF InnerIs
    <3>5. lev[k] \in Nat
      BY <1>1, <3>4 DEF NodeIs
    <3>6. lev[k] <= h - 1
      BY <2>1, <3>3, <3>4, <3>5
    <3>7. EndsAt(V, live, c, k, w)
      BY <1>6, <3>4, <3>6
    <3>8. Way(t, key)[h][n] = <<n>> \o w
      <4>1. ~NodeAt(t, n).leaf /\ ~(NodeAt(t, n).leaf \/ h = 0) /\ NodeAt(t, n) = V[n]
        BY <1>2, <2>1, <2>3
      <4>2. Way(t, key)[h][n] = <<n>> \o Way(t, key)[h - 1][NodeAt(t, n).kids[ChildIndex(NodeAt(t, n), key)]]
        BY <2>1, <3>3, <4>1, WayIs, Zenon
      <4> QED
        BY <4>1, <4>2
    <3> HIDE DEF w, k, i
    <3> DEFINE p == <<n>> \o w
    <3>9. w \in Seq(PageNo) /\ Len(w) >= 1 /\ Len(w) \in Nat
      BY <3>7 DEF EndsAt
    <3>10. p \in Seq(PageNo) /\ Len(p) = Len(w) + 1 /\ \A x \in 2 .. (Len(w) + 1) : p[x] = w[x - 1]
      BY <3>3, <3>9, Prepended
    <3> HIDE DEF p
    <3>11. p[Len(p)] = w[Len(w)] /\ Len(p) >= 1
      <4>1. Len(p) \in 2 .. (Len(w) + 1) /\ Len(p) - 1 = Len(w)
        BY <3>9, <3>10
      <4> QED
        BY <3>9, <3>10, <4>1
    <3>12. EndsAt(V, live, c, n, p)
      BY <3>1, <3>7, <3>10, <3>11 DEF EndsAt
    <3> QED
      BY <3>8, <3>12 DEF p
  <2> QED
    BY <2>2, <2>3
<1>7. \A h \in 0 .. MaxPages : h \in D
  <2> HIDE DEF D
  <2> QED
    BY <1>0, <1>5, <1>6, UpTo
<1> QED
  BY <1>7 DEF V

(* The path to an end of what is below page n.                               *)
LEMMA PathKeeps ==
  ASSUME NEW t, NEW r, NEW live, NEW lev, NEW rows, TreeOf(View(t), r, live, lev, rows),
         NEW key, NEW c, Keeps(View(t), live, key, c), NEW n \in live
  PROVE  /\ Last(Path(t, n, key)) \in live /\ View(t)[Last(Path(t, n, key))].leaf
         /\ c[Last(Path(t, n, key))] = c[n]
<1>1. lev[n] <= MaxPages /\ MaxPages \in 0 .. MaxPages
  BY TreeHeight, Sizes
<1>2. EndsAt(View(t), live, c, n, Path(t, n, key))
  <2>1. \A m \in live : lev[m] <= MaxPages => EndsAt(View(t), live, c, m, Way(t, key)[MaxPages][m])
    BY <1>1, WayKeeps
  <2> QED
    BY <1>1, <2>1 DEF Path
<1> QED
  BY <1>2 DEF EndsAt, Last

(* The first children have the first leaf below a page, the last ones the    *)
(* last.                                                                     *)
LEMMA EndsKeep ==
  ASSUME NEW P, NEW r, NEW live, NEW lev, NEW lo, NEW hi, NEW up, NEW rows,
         Tree(P, r, live, lev, lo, hi, up, rows), NEW a, NEW b, Ranked(P, r, live, lo, hi, a, b)
  PROVE  Keeps(P, live, NoKey, a) /\ Keeps(P, live, NoKey, lo) /\ Keeps(P, live, MaxKey, b)
<1>1. ASSUME NEW n \in live, ~P[n].leaf
      PROVE  /\ ChildIndex(P[n], NoKey) \in 1 .. Len(P[n].kids)
             /\ ChildIndex(P[n], MaxKey) \in 1 .. Len(P[n].kids)
             /\ a[P[n].kids[ChildIndex(P[n], NoKey)]] = a[n]
             /\ lo[P[n].kids[ChildIndex(P[n], NoKey)]] = lo[n]
             /\ b[P[n].kids[ChildIndex(P[n], MaxKey)]] = b[n]
  <2>1. InnerAt(P[n], n, live, lev, lo, hi, up)
    BY <1>1, TreeNode
  <2>2. Parts(P[n].keys, P[n].kids, lo[n], hi[n], lo, hi)
    BY <2>1 DEF InnerAt
  <2>3. /\ Len(P[n].kids) \in Nat /\ Len(P[n].kids) >= 1
        /\ ChildIndex(P[n], NoKey) = 1 /\ ChildIndex(P[n], MaxKey) = Len(P[n].kids)
        /\ lo[P[n].kids[1]] = lo[n]
    <3> DEFINE node == P[n]
               x == lo[n]
               y == hi[n]
    <3>1. Parts(node.keys, node.kids, x, y, lo, hi)
      BY <2>2
    <3> HIDE DEF node, x, y
    <3>2. /\ Len(node.kids) \in Nat /\ Len(node.kids) >= 1
          /\ ChildIndex(node, NoKey) = 1 /\ ChildIndex(node, MaxKey) = Len(node.kids)
          /\ lo[node.kids[1]] = x
      BY <3>1, Outermost, Zenon
    <3> QED
      BY <3>2 DEF node, x
  <2>4. Strung(P[n].kids, a, b, a[n], b[n])
    BY <1>1 DEF Ranked
  <2>5. a[P[n].kids[1]] = a[n] /\ b[P[n].kids[Len(P[n].kids)]] = b[n]
    BY <2>4 DEF Strung
  <2> QED
    BY <2>3, <2>5
<1> QED
  BY <1>1 DEF Keeps

LEMMA LeavesAt ==
  ASSUME NEW t, NEW r, NEW live, NEW lev, NEW lo, NEW hi, NEW up, NEW rows,
         Tree(View(t), r, live, lev, lo, hi, up, rows),
         NEW a, NEW b, Ranked(View(t), r, live, lo, hi, a, b), NEW n \in live
  PROVE  /\ FirstLeaf(t, n) \in live /\ View(t)[FirstLeaf(t, n)].leaf
         /\ a[FirstLeaf(t, n)] = a[n] /\ lo[FirstLeaf(t, n)] = lo[n]
         /\ LastLeaf(t, n) \in live /\ View(t)[LastLeaf(t, n)].leaf /\ b[LastLeaf(t, n)] = b[n]
<1>1. TreeOf(View(t), r, live, lev, rows)
  BY DEF TreeOf
<1>2. Keeps(View(t), live, NoKey, a) /\ Keeps(View(t), live, NoKey, lo) /\ Keeps(View(t), live, MaxKey, b)
  BY EndsKeep
<1>3. /\ FirstLeaf(t, n) \in live /\ View(t)[FirstLeaf(t, n)].leaf /\ a[FirstLeaf(t, n)] = a[n]
  BY <1>1, <1>2, PathKeeps DEF FirstLeaf
<1>4. lo[FirstLeaf(t, n)] = lo[n]
  BY <1>1, <1>2, PathKeeps DEF FirstLeaf
<1>5. LastLeaf(t, n) \in live /\ View(t)[LastLeaf(t, n)].leaf /\ b[LastLeaf(t, n)] = b[n]
  BY <1>1, <1>2, PathKeeps DEF LastLeaf
<1> QED
  BY <1>3, <1>4, <1>5

(* The chain goes on from one child to the next, and ends with the last.     *)
LEMMA LeavesMeet ==
  ASSUME NEW t, NEW r, NEW live, NEW lev, NEW lo, NEW hi, NEW up, NEW rows,
         Tree(View(t), r, live, lev, lo, hi, up, rows), NEW q \in live, ~View(t)[q].leaf,
         NEW j \in 1 .. Len(View(t)[q].keys)
  PROVE  View(t)[LastLeaf(t, View(t)[q].kids[j])].next = FirstLeaf(t, View(t)[q].kids[j + 1])
<1> DEFINE P == View(t)
           n == P[q].kids[j]
           p == P[q].kids[j + 1]
           l == LastLeaf(t, n)
           f == FirstLeaf(t, p)
<1>1. PICK a, b : Ranked(P, r, live, lo, hi, a, b)
  BY DEF Tree, Chained
<1>2. n \in live /\ p \in live
  BY Neighbours
<1>3. b[n] = a[p]
  <2>1. InnerAt(P[q], q, live, lev, lo, hi, up)
    BY TreeNode
  <2>2. Parts(P[q].keys, P[q].kids, lo[q], hi[q], lo, hi)
    BY <2>1 DEF InnerAt
  <2>3. j \in 1 .. (Len(P[q].kids) - 1)
    BY <2>2, PartsTyped
  <2>4. Strung(P[q].kids, a, b, a[q], b[q])
    BY <1>1 DEF Ranked
  <2> QED
    BY <2>3, <2>4 DEF Strung
<1> HIDE DEF n, p
<1>4. l \in live /\ P[l].leaf /\ b[l] = b[n] /\ f \in live /\ P[f].leaf /\ a[f] = a[p]
  BY <1>1, <1>2, LeavesAt
<1> HIDE DEF l, f, P
<1>5. /\ b \in [PageNo -> Nat]
      /\ \A x \in live : P[x].leaf => Onward(P, x, live, lo, hi, a, b)
      /\ \A x, y \in live : P[x].leaf /\ P[y].leaf /\ b[x] = b[y] => x = y
  BY <1>1 DEF Ranked
<1>6. live \subseteq PageNo
  BY DEF Tree
<1>7. a[f] = b[f] + 1 /\ b[f] \in Nat
  BY <1>4, <1>5, <1>6 DEF Onward
<1>8. b[l] # 0
  BY <1>3, <1>4, <1>7
<1> DEFINE w == P[l].next
<1>9. w \in live /\ P[w].leaf /\ a[w] = b[l]
  BY <1>4, <1>5, <1>8 DEF Onward
<1> HIDE DEF w
<1>10. a[w] = b[w] + 1 /\ b[w] \in Nat
  BY <1>5, <1>6, <1>9 DEF Onward
<1>11. b[w] = b[f]
  BY <1>3, <1>4, <1>7, <1>9, <1>10
<1>12. w = f
  BY <1>4, <1>5, <1>9, <1>11
<1> QED
  BY <1>12 DEF w, f, l, n, p, P

LEMMA LastIsLast ==
  ASSUME NEW t, NEW r, NEW live, NEW lev, NEW lo, NEW hi, NEW up, NEW rows,
         Tree(View(t), r, live, lev, lo, hi, up, rows)
  PROVE  LastLeaf(t, r) \in live /\ View(t)[LastLeaf(t, r)].next = NoPage
<1> DEFINE P == View(t)
           l == LastLeaf(t, r)
<1>1. PICK a, b : Ranked(P, r, live, lo, hi, a, b)
  BY DEF Tree, Chained
<1>2. r \in live
  BY DEF Tree
<1>3. l \in live /\ P[l].leaf /\ b[l] = b[r]
  BY <1>1, <1>2, LeavesAt
<1> HIDE DEF l
<1>4. b[r] = 0 /\ Onward(P, l, live, lo, hi, a, b)
  BY <1>1, <1>3 DEF Ranked
<1> QED
  BY <1>3, <1>4 DEF Onward, l

(* The keys of what is below page q are those that it stands for.            *)
LEMMA KeysWithin ==
  ASSUME NEW t, NEW r, NEW live, NEW lev, NEW lo, NEW hi, NEW up, NEW rows,
         Tree(View(t), r, live, lev, lo, hi, up, rows), NEW q \in live, NEW k \in KeysBelow(t, q)
  PROVE  k \in Key /\ lo[q] <= k /\ k < hi[q]
<1> DEFINE P == View(t)
<1>1. k \in Key /\ \E n \in InTree(t, q) : NodeAt(t, n).leaf /\ Has(NodeAt(t, n), k)
  BY DEF KeysBelow
<1>0. PICK n \in InTree(t, q) : NodeAt(t, n).leaf /\ Has(NodeAt(t, n), k)
  BY <1>1
<1>2. PICK i \in 0 .. MaxPages : n \in Level(t, q)[i]
  BY DEF InTree
<1>3. Below(q, n, i, live, lev, lo, hi)
  BY <1>2, LevelBelow
<1>4. n \in live /\ lo[q] <= lo[n] /\ hi[n] <= hi[q]
  BY <1>3 DEF Below
<1>5. n \in PageNo /\ lo[n] \in Ends /\ hi[n] \in Ends /\ lo[q] \in Ends /\ hi[q] \in Ends
  BY <1>4, TreeNode
<1>6. NodeAt(t, n) = P[n]
  BY <1>5 DEF View
<1>7. Holds(P[n].cells, lo[n], hi[n], rows)
  BY <1>0, <1>4, <1>6, TreeNode
<1>8. PICK x \in 1 .. Len(P[n].cells) : P[n].cells[x].key = k
  <2>1. P[n].cells \in Seq(Cells)
    BY <1>7 DEF Holds
  <2> QED
    BY <1>0, <1>6, <2>1 DEF Has
<1>9. lo[n] <= k /\ k < hi[n]
  BY <1>7, <1>8 DEF Holds
<1>10. lo[n] \in Int /\ hi[n] \in Int /\ lo[q] \in Int /\ hi[q] \in Int /\ k \in Int
  BY <1>1, <1>5, EndsTyped
<1> QED
  BY <1>1, <1>4, <1>9, <1>10

(* Along the chain the ranks count down to 0: there are no more than pages.  *)
LEMMA FewRanks ==
  ASSUME NEW P, NEW r, NEW live, NEW lev, NEW lo, NEW hi, NEW up, NEW rows,
         Tree(P, r, live, lev, lo, hi, up, rows),
         NEW a, NEW b, Ranked(P, r, live, lo, hi, a, b), NEW l \in live
  PROVE  P[l].leaf => b[l] <= MaxPages
<1> SUFFICES ASSUME P[l].leaf PROVE b[l] <= MaxPages
  OBVIOUS
<1>1. live \subseteq PageNo /\ a \in [PageNo -> Nat] /\ b \in [PageNo -> Nat]
      /\ \A n \in live : P[n].leaf => Onward(P, n, live, lo, hi, a, b)
  BY DEF Tree, Ranked
<1>2. b[l] \in Nat
  BY <1>1
<1> DEFINE Here(i) == \E n \in live : P[n].leaf /\ b[n] = b[l] - i
           D == {i \in 0 .. b[l] : Here(i)}
<1>3. 0 \in D
  BY <1>2
<1>4. ASSUME NEW i \in 1 .. b[l], i - 1 \in D PROVE i \in D
  <2>1. PICK n \in live : P[n].leaf /\ b[n] = b[l] - (i - 1)
    BY <1>4
  <2>2. Onward(P, n, live, lo, hi, a, b)
    BY <1>1, <2>1
  <2>3. b[n] # 0
    BY <1>2, <2>1
  <2>4. P[n].next \in live /\ P[P[n].next].leaf /\ a[P[n].next] = b[n]
    BY <2>2, <2>3 DEF Onward
  <2> DEFINE m == P[n].next
  <2>5. m \in live /\ P[m].leaf /\ a[m] = b[n]
    BY <2>4
  <2> HIDE DEF m
  <2>6. Onward(P, m, live, lo, hi, a, b) /\ b[m] \in Nat
    BY <1>1, <2>5
  <2>7. a[m] = b[m] + 1
    BY <2>6 DEF Onward
  <2>8. b[m] = b[l] - i
    BY <1>2, <2>1, <2>5, <2>6, <2>7
  <2> QED
    BY <1>2, <2>5, <2>8
<1>5. \A i \in 0 .. b[l] : Here(i)
  <2> HIDE DEF D
  <2>1. \A i \in 0 .. b[l] : i \in D
    BY <1>2, <1>3, <1>4, UpTo
  <2> QED
    BY <2>1 DEF D
<1> HIDE DEF D
<1> DEFINE N == b[l] + 1
           f == [i \in 1 .. N |-> CHOOSE n \in live : b[n] = b[l] - (i - 1)]
<1>6. \A i \in 1 .. N : f[i] \in live /\ b[f[i]] = b[l] - (i - 1)
  <2> SUFFICES ASSUME NEW i \in 1 .. N PROVE f[i] \in live /\ b[f[i]] = b[l] - (i - 1)
    OBVIOUS
  <2>1. i - 1 \in 0 .. b[l]
    BY <1>2
  <2>2. \E n \in live : b[n] = b[l] - (i - 1)
    BY <1>5, <2>1
  <2> QED
    BY <2>2
<1>7. f \in [1 .. N -> PageNo]
  BY <1>1, <1>6
<1> HIDE DEF f
<1>8. \A x, y \in 1 .. N : f[x] = f[y] => x = y
  BY <1>2, <1>6
<1>9. N <= MaxPages /\ N \in Nat
  BY <1>2, <1>7, <1>8, FewPages
<1> QED
  BY <1>2, <1>9, Sizes

(* The chain from a leaf on holds the rows from where the leaf begins.       *)
Chains(t, live, lo, b, rows, h) ==
  \A n \in live : View(t)[n].leaf /\ b[n] <= h =>
    Holds(Chain(t)[h][n], lo[n], MaxKey + 1, rows)

LEMMA ChainOn ==
  ASSUME NEW t, NEW r, NEW live, NEW lev, NEW lo, NEW hi, NEW up, NEW rows,
         Tree(View(t), r, live, lev, lo, hi, up, rows),
         NEW a, NEW b, Ranked(View(t), r, live, lo, hi, a, b),
         NEW h \in 0 .. MaxPages, h # 0 => Chains(t, live, lo, b, rows, h - 1)
  PROVE  Chains(t, live, lo, b, rows, h)
<1> DEFINE P == View(t)
           End == MaxKey + 1
<1> SUFFICES ASSUME NEW n \in live, P[n].leaf, b[n] <= h
             PROVE  Holds(Chain(t)[h][n], lo[n], End, rows)
  BY DEF Chains
<1>1. live \subseteq PageNo /\ b \in [PageNo -> Nat] /\ a \in [PageNo -> Nat]
      /\ \A m \in live : P[m].leaf => Onward(P, m, live, lo, hi, a, b)
  BY DEF Tree, Ranked
<1>2. NodeAt(t, n) = P[n] /\ n \in PageNo /\ h \in Nat
  BY <1>1, Sizes DEF View
<1>3. Chain(t)[h][n] = IF P[n].next = NoPage \/ h = 0 THEN P[n].cells
                       ELSE P[n].cells \o Chain(t)[h - 1][P[n].next]
  BY <1>2, ChainIs
<1>4. Holds(P[n].cells, lo[n], hi[n], rows) /\ lo[n] \in Ends /\ hi[n] \in Ends /\ lo[n] <= hi[n]
  BY TreeNode
<1>5. Onward(P, n, live, lo, hi, a, b) /\ b[n] \in Nat
  BY <1>1
<1>6. CASE b[n] = 0
  <2>1. P[n].next = NoPage /\ hi[n] = End
    BY <1>5, <1>6 DEF Onward
  <2> QED
    BY <1>3, <1>4, <2>1
<1>7. CASE b[n] # 0
  <2> DEFINE m == P[n].next
             tail == Chain(t)[h - 1][m]
  <2>1. m \in live /\ P[m].leaf /\ a[m] = b[n] /\ lo[m] = hi[n]
    BY <1>5, <1>7 DEF Onward
  <2>2. h # 0 /\ m # NoPage
    BY <1>1, <1>2, <1>5, <1>7, <2>1, Sizes
  <2>3. Chain(t)[h][n] = P[n].cells \o tail
    BY <1>3, <2>2
  <2> HIDE DEF m
  <2>4. Onward(P, m, live, lo, hi, a, b) /\ b[m] \in Nat
    BY <1>1, <2>1
  <2>5. b[m] <= h - 1
    BY <1>2, <1>5, <2>1, <2>4 DEF Onward
  <2>6. Chains(t, live, lo, b, rows, h - 1)
    BY <2>2
  <2>7. Holds(tail, lo[m], End, rows)
    BY <2>1, <2>5, <2>6 DEF Chains
  <2> HIDE DEF tail
  <2>8. End \in Ends /\ hi[n] <= End
    BY <1>4, Sizes DEF Ends
  <2>9. Holds(tail, hi[n], End, rows)
    BY <2>1, <2>7
  <2> HIDE DEF End, P
  <2>10. Holds(P[n].cells \o tail, lo[n], End, rows)
    BY <1>4, <2>8, <2>9, HoldsJoined
  <2> QED
    BY <2>3, <2>10
<1> QED
  BY <1>6, <1>7

LEMMA ChainHolds ==
  ASSUME NEW t, NEW r, NEW live, NEW lev, NEW lo, NEW hi, NEW up, NEW rows,
         Tree(View(t), r, live, lev, lo, hi, up, rows), NEW l \in live
  PROVE  View(t)[l].leaf => Holds(Chain(t)[MaxPages][l], lo[l], MaxKey + 1, rows)
<1>1. PICK a, b : Ranked(View(t), r, live, lo, hi, a, b)
  BY DEF Tree, Chained
<1> DEFINE D == {h \in 0 .. MaxPages : Chains(t, live, lo, b, rows, h)}
<1>2. MaxPages \in Nat /\ 0 \in 0 .. MaxPages
  BY Sizes
<1>3. Chains(t, live, lo, b, rows, 0)
  <2>1. 0 # 0 => Chains(t, live, lo, b, rows, 0 - 1)
    OBVIOUS
  <2> QED
    BY <1>1, <1>2, <2>1, ChainOn
<1>4. ASSUME NEW h \in 1 .. MaxPages, h - 1 \in D PROVE h \in D
  <2>1. h \in 0 .. MaxPages /\ Chains(t, live, lo, b, rows, h - 1)
    BY <1>2, <1>4
  <2>2. Chains(t, live, lo, b, rows, h)
    BY <1>1, <2>1, ChainOn
  <2> QED
    BY <2>1, <2>2
<1>5. Chains(t, live, lo, b, rows, MaxPages)
  <2>1. 0 \in D
    BY <1>2, <1>3
  <2> HIDE DEF D
  <2>2. \A h \in 0 .. MaxPages : h \in D
    BY <1>2, <1>4, <2>1, UpTo
  <2>3. MaxPages \in D
    BY <1>2, <2>2
  <2> QED
    BY <2>3 DEF D
<1>6. View(t)[l].leaf => b[l] <= MaxPages
  BY <1>1, FewRanks
<1> QED
  BY <1>5, <1>6 DEF Chains

(* What a scan yields of the cells from place p on: those in the range.      *)
Wanted(c, lo, hi) == lo <= c.key /\ (hi # NoKey => c.key <= hi)
Climbing(cells) == \A i, j \in 1 .. Len(cells) : i < j => cells[i].key < cells[j].key
Yielded(y, cells, p, lo, hi) ==
  /\ y \in Seq(Cells)
  /\ \A x \in 1 .. Len(y) : \E z \in p .. Len(cells) : y[x] = cells[z] /\ Wanted(cells[z], lo, hi)
  /\ Climbing(y)
  /\ \A z \in p .. Len(cells) : Wanted(cells[z], lo, hi) => \E x \in 1 .. Len(y) : y[x] = cells[z]

LEMMA YieldsOne ==
  ASSUME NEW cells \in Seq(Cells), Climbing(cells), NEW lo \in Int, NEW hi \in Int,
         NEW p \in 1 .. Len(cells), NEW y, Yielded(y, cells, p + 1, lo, hi),
         Wanted(cells[p], lo, hi)
  PROVE  Yielded(<<cells[p]>> \o y, cells, p, lo, hi)
<1> DEFINE A == Len(cells)
           c == cells[p]
           w == <<c>> \o y
<1>1. A \in Nat /\ p \in 1 .. A /\ p \in p .. A /\ c \in Cells /\ c.key \in Int
  BY CellsOf
<1>2. y \in Seq(Cells) /\ Len(y) \in Nat
  BY DEF Yielded
<1>3. /\ \A x \in 1 .. Len(y) : \E z \in (p + 1) .. A : y[x] = cells[z] /\ Wanted(cells[z], lo, hi)
      /\ Climbing(y)
      /\ \A z \in (p + 1) .. A : Wanted(cells[z], lo, hi) => \E x \in 1 .. Len(y) : y[x] = cells[z]
  BY DEF Yielded
<1>4. \A z \in (p + 1) .. A : z \in 1 .. A /\ z \in p .. A /\ c.key < cells[z].key
  BY <1>1 DEF Climbing
<1> HIDE DEF c
<1>5. /\ w \in Seq(Cells) /\ Len(w) = Len(y) + 1 /\ w[1] = c
      /\ \A x \in 2 .. (Len(y) + 1) : w[x] = y[x - 1]
  BY <1>1, <1>2, Prepended
<1> HIDE DEF w, A
<1>6. ASSUME NEW x \in 1 .. Len(w), x # 1
      PROVE  x - 1 \in 1 .. Len(y) /\ w[x] = y[x - 1]
  <2>1. x \in 2 .. (Len(y) + 1) /\ x - 1 \in 1 .. Len(y)
    BY <1>2, <1>5, <1>6
  <2> QED
    BY <1>5, <2>1
<1>7. ASSUME NEW x \in 1 .. Len(y)
      PROVE  x + 1 \in 1 .. Len(w) /\ w[x + 1] = y[x]
  <2>1. x + 1 \in 2 .. (Len(y) + 1) /\ x + 1 \in 1 .. Len(w) /\ (x + 1) - 1 = x
    BY <1>2, <1>5
  <2> QED
    BY <1>5, <2>1
<1>8. Wanted(c, lo, hi) /\ c = cells[p]
  BY DEF c
<1>9. ASSUME NEW x \in 1 .. Len(w)
      PROVE  \E z \in p .. A : w[x] = cells[z] /\ Wanted(cells[z], lo, hi)
  <2>1. CASE x = 1
    BY <1>1, <1>5, <1>8, <2>1
  <2>2. CASE x # 1
    <3>1. PICK z \in (p + 1) .. A : y[x - 1] = cells[z] /\ Wanted(cells[z], lo, hi)
      BY <1>3, <1>6, <2>2
    <3> QED
      BY <1>4, <1>6, <2>2, <3>1
  <2> QED
    BY <2>1, <2>2
<1>10. ASSUME NEW i \in 1 .. Len(w), NEW j \in 1 .. Len(w), i < j
       PROVE  w[i].key < w[j].key
  <2>1. j # 1 /\ i \in Nat /\ j \in Nat
    BY <1>2, <1>5, <1>10
  <2>2. j - 1 \in 1 .. Len(y) /\ w[j] = y[j - 1]
    BY <1>6, <2>1
  <2>3. CASE i = 1
    <3>1. PICK z \in (p + 1) .. A : y[j - 1] = cells[z]
      BY <1>3, <2>2
    <3> QED
      BY <1>4, <1>5, <2>2, <2>3, <3>1
  <2>4. CASE i # 1
    <3>1. i - 1 \in 1 .. Len(y) /\ w[i] = y[i - 1] /\ i - 1 < j - 1
      BY <1>6, <1>10, <2>1, <2>4
    <3> QED
      BY <1>3, <2>2, <3>1 DEF Climbing
  <2> QED
    BY <2>3, <2>4
<1>11. ASSUME NEW z \in p .. A, Wanted(cells[z], lo, hi)
       PROVE  \E x \in 1 .. Len(w) : w[x] = cells[z]
  <2>1. CASE z = p
    <3>1. 1 \in 1 .. Len(w)
      BY <1>2, <1>5
    <3> QED
      BY <1>5, <1>8, <2>1, <3>1
  <2>2. CASE z # p
    <3>1. z \in (p + 1) .. A
      BY <1>1, <2>2
    <3>2. PICK x \in 1 .. Len(y) : y[x] = cells[z]
      BY <1>3, <1>11, <3>1
    <3> QED
      BY <1>7, <3>2
  <2> QED
    BY <2>1, <2>2
<1>12. Climbing(w)
  BY <1>10 DEF Climbing
<1>13. Yielded(w, cells, p, lo, hi)
  BY <1>5, <1>9, <1>11, <1>12 DEF Yielded, A
<1> QED
  BY <1>13 DEF w, c

LEMMA YieldsOn ==
  ASSUME NEW cells \in Seq(Cells), Climbing(cells), NEW lo \in Int, NEW hi \in Int,
         NEW p \in 1 .. Len(cells), NEW y, Yielded(y, cells, p + 1, lo, hi)
  PROVE  Yielded(IF cells[p].key < lo THEN y
                 ELSE IF hi # NoKey /\ cells[p].key > hi THEN << >>
                 ELSE <<cells[p]>> \o y, cells, p, lo, hi)
<1> DEFINE A == Len(cells)
           c == cells[p]
<1>1. A \in Nat /\ p \in 1 .. A /\ c \in Cells /\ c.key \in Int
  BY CellsOf
<1>2. \A z \in (p + 1) .. A : z \in 1 .. A /\ z \in p .. A /\ c.key < cells[z].key /\ cells[z].key \in Int
  BY <1>1, CellsOf DEF Climbing
<1>3. \A z \in p .. A : z = p \/ z \in (p + 1) .. A
  BY <1>1
<1>4. CASE c.key < lo
  <2>1. ~Wanted(cells[p], lo, hi)
    BY <1>1, <1>4 DEF Wanted
  <2>2. Yielded(y, cells, p, lo, hi)
    <3> HIDE DEF c
    <3> QED
      BY <1>2, <1>3, <2>1 DEF Yielded
  <2> QED
    BY <1>4, <2>2
<1>5. CASE ~(c.key < lo) /\ hi # NoKey /\ c.key > hi
  <2>1. \A z \in p .. A : ~Wanted(cells[z], lo, hi)
    BY <1>1, <1>2, <1>3, <1>5 DEF Wanted
  <2>2. << >> \in Seq(Cells) /\ Len(<< >>) = 0 /\ \A x : x \notin 1 .. 0
    OBVIOUS
  <2>3. Yielded(<< >>, cells, p, lo, hi)
    BY <2>1, <2>2 DEF Yielded, Climbing
  <2> QED
    BY <1>5, <2>3
<1>6. CASE ~(c.key < lo) /\ ~(hi # NoKey /\ c.key > hi)
  <2>1. Wanted(cells[p], lo, hi)
    BY <1>1, <1>6 DEF Wanted
  <2>2. Yielded(<<cells[p]>> \o y, cells, p, lo, hi)
    BY <2>1, YieldsOne
  <2> QED
    BY <1>6, <2>2
<1> QED
  BY <1>4, <1>5, <1>6

LEMMA YieldsGives ==
  ASSUME NEW cells \in Seq(Cells), Climbing(cells), NEW lo \in Int, NEW hi \in Int
  PROVE  Yielded(Yields(cells, lo, hi)[Len(cells)], cells, 1, lo, hi)
<1> DEFINE A == Len(cells)
           Y(i) == Yields(cells, lo, hi)[i]
           Good(i) == Yielded(Y(i), cells, A + 1 - i, lo, hi)
           D == {i \in 0 .. A : Good(i)}
<1>1. A \in Nat
  OBVIOUS
<1>2. Y(0) = << >>
  BY YieldsIs
<1>3. \A i \in 1 .. A :
        Y(i) = IF cells[A + 1 - i].key < lo THEN Y(i - 1)
               ELSE IF hi # NoKey /\ cells[A + 1 - i].key > hi THEN << >>
               ELSE <<cells[A + 1 - i]>> \o Y(i - 1)
  BY YieldsIs
<1> HIDE DEF Y
<1>4. Good(0)
  <2>1. << >> \in Seq(Cells) /\ Len(<< >>) = 0 /\ \A x : x \notin 1 .. 0
    OBVIOUS
  <2>2. \A z : z \notin (A + 1 - 0) .. A
    BY <1>1
  <2> QED
    BY <1>2, <2>1, <2>2 DEF Yielded, Climbing
<1>5. ASSUME NEW i \in 1 .. A, Good(i - 1) PROVE Good(i)
  <2> DEFINE p == A + 1 - i
  <2>1. p \in 1 .. A /\ p + 1 = A + 1 - (i - 1)
    BY <1>1
  <2>2. Yielded(Y(i - 1), cells, p + 1, lo, hi)
    BY <1>5, <2>1
  <2>3. Y(i) = IF cells[p].key < lo THEN Y(i - 1)
               ELSE IF hi # NoKey /\ cells[p].key > hi THEN << >>
               ELSE <<cells[p]>> \o Y(i - 1)
    BY <1>3
  <2> HIDE DEF p
  <2>4. Yielded(Y(i), cells, p, lo, hi)
    BY <2>1, <2>2, <2>3, YieldsOn
  <2> QED
    BY <2>4 DEF p
<1> HIDE DEF Good
<1>6. \A i \in 0 .. A : i \in D
  <2>1. 0 \in D /\ \A i \in 1 .. A : i - 1 \in D => i \in D
    BY <1>1, <1>4, <1>5
  <2> HIDE DEF D
  <2> QED
    BY <1>1, <2>1, UpTo
<1>7. Good(A)
  BY <1>1, <1>6
<1>8. A + 1 - A = 1
  BY <1>1
<1> QED
  BY <1>7, <1>8 DEF Good, Y

(* The scan begins in a leaf that begins no later than the range asked for.  *)
LEMMA ScanStarts ==
  ASSUME NEW t, NEW r, NEW live, NEW lev, NEW lo, NEW hi, NEW up, NEW rows,
         Tree(View(t), r, live, lev, lo, hi, up, rows), NEW from \in Key \cup {NoKey}
  PROVE  /\ Last(Path(t, r, from)) \in live /\ View(t)[Last(Path(t, r, from))].leaf
         /\ \A k \in Key : from <= k => lo[Last(Path(t, r, from))] <= k
<1> DEFINE n == Last(Path(t, r, from))
<1>1. CASE from \in Key
  <2>1. n \in live /\ View(t)[n].leaf /\ lo[n] <= from
    BY <1>1, RouteEnds
  <2>2. lo[n] \in Ends
    BY <2>1, TreeNode
  <2> HIDE DEF n
  <2>3. \A k \in Key : from <= k => lo[n] <= k
    BY <1>1, <2>1, <2>2, Sizes DEF Ends
  <2> QED
    BY <2>1, <2>3 DEF n
<1>2. CASE from = NoKey
  <2>1. PICK a, b : Ranked(View(t), r, live, lo, hi, a, b)
    BY DEF Tree, Chained
  <2>2. r \in live /\ lo[r] = 1
    BY DEF Tree
  <2>3. FirstLeaf(t, r) \in live /\ View(t)[FirstLeaf(t, r)].leaf /\ lo[FirstLeaf(t, r)] = lo[r]
    BY <2>1, <2>2, LeavesAt
  <2>4. n = FirstLeaf(t, r)
    BY <1>2 DEF FirstLeaf
  <2> HIDE DEF n
  <2>5. \A k \in Key : lo[n] <= k
    BY <2>2, <2>3, <2>4, Sizes
  <2> QED
    BY <2>3, <2>4, <2>5 DEF n
<1> QED
  BY <1>1, <1>2

Scanned(y, rows, from, to) ==
  /\ y \in Seq(Cells) /\ Climbing(y)
  /\ \A i \in 1 .. Len(y) : Wanted(y[i], from, to) /\ rows[y[i].key] = y[i].len
  /\ \A k \in Key : rows[k] # NoRow /\ from <= k /\ (to # NoKey => k <= to) =>
       \E i \in 1 .. Len(y) : y[i].key = k

LEMMA ScanGives ==
  ASSUME NEW t, NEW r, NEW rows, Stored(View(t), r, rows),
         NEW from \in Key \cup {NoKey}, NEW to \in Key \cup {NoKey}
  PROVE  Scanned(RangeScan(t, r, from, to), rows, from, to)
<1>1. PICK live, lev, lo, hi, up : Tree(View(t), r, live, lev, lo, hi, up, rows)
  BY DEF Stored, TreeOf
<1> DEFINE n == Last(Path(t, r, from))
           cells == Chain(t)[MaxPages][n]
           y == Yields(cells, from, to)[Len(cells)]
<1>2. n \in live /\ View(t)[n].leaf /\ \A k \in Key : from <= k => lo[n] <= k
  BY <1>1, ScanStarts
<1>3. RangeScan(t, r, from, to) = y
  BY DEF RangeScan
<1> HIDE DEF n
<1>4. Holds(cells, lo[n], MaxKey + 1, rows)
  BY <1>1, <1>2, ChainHolds
<1> HIDE DEF cells
<1>5. cells \in Seq(Cells) /\ Climbing(cells)
      /\ \A i \in 1 .. Len(cells) : rows[cells[i].key] = cells[i].len
  BY <1>4 DEF Holds, Climbing
<1>6. from \in Int /\ to \in Int
  BY Sizes
<1>7. Yielded(y, cells, 1, from, to)
  BY <1>5, <1>6, YieldsGives
<1> HIDE DEF y
<1>8. y \in Seq(Cells) /\ Climbing(y)
      /\ \A i \in 1 .. Len(y) : Wanted(y[i], from, to) /\ rows[y[i].key] = y[i].len
  BY <1>5, <1>7 DEF Yielded
<1>9. ASSUME NEW k \in Key, rows[k] # NoRow, from <= k, to # NoKey => k <= to
      PROVE  \E i \in 1 .. Len(y) : y[i].key = k
  <2>1. lo[n] <= k /\ k < MaxKey + 1
    BY <1>2, <1>9, Sizes
  <2>2. PICK z \in 1 .. Len(cells) : cells[z].key = k
    BY <1>4, <1>9, <2>1 DEF Holds
  <2>3. Wanted(cells[z], from, to)
    BY <1>9, <2>2 DEF Wanted
  <2>4. \E i \in 1 .. Len(y) : y[i] = cells[z]
    BY <1>7, <2>3 DEF Yielded
  <2> QED
    BY <2>2, <2>4
<1>10. Scanned(y, rows, from, to)
  BY <1>8, <1>9 DEF Scanned
<1> QED
  BY <1>3, <1>10

-----------------------------------------------------------------------------
(* Theorems                                                                  *)

(* Every step of the disciplined keeps the invariant and is a step of the    *)
(* map, or changes nothing there.                                            *)
LEMMA StepKeeps ==
  ASSUME Disciplined, Inv, [Next]_vars
  PROVE  Inv' /\ [Map!Next]_Map!vars
<1>1. CASE Begin
  BY <1>1, BeginKeeps DEF Map!Next
<1>2. CASE Commit
  BY <1>2, CommitKeeps DEF Map!Next
<1>3. CASE Rollback
  BY <1>3, RollbackKeeps DEF Map!Next
<1>4. CASE Vacuum
  BY <1>4 DEF Vacuum, Disciplined, Discipline
<1>5. CASE CacheCleared
  BY <1>5, CacheClearedKeeps
<1>6. ASSUME NEW k \in Key, DeleteRow(k) PROVE Inv' /\ Map!Next
  BY <1>6, DeleteRowKeeps DEF Map!Next
<1>7. ASSUME NEW keys \in Queries, Read(keys) PROVE Inv' /\ UNCHANGED Map!vars
  BY <1>7, ReadKeeps
<1>8. ASSUME NEW k \in Key, NEW len \in Lengths, InsertRow(k, len) PROVE Inv' /\ Map!Next
  BY <1>8, InsertRowKeeps DEF Map!Next
<1>9. ASSUME NEW k \in Key, NEW len \in Lengths, UpdateRow(k, len) PROVE Inv' /\ Map!Next
  BY <1>9, UpdateRowKeeps DEF Map!Next
<1>10. CASE UNCHANGED vars
  BY <1>10 DEF vars, Inv, InvTree, InvTxn, InvSaved, Map!vars
<1> QED
  BY <1>1, <1>2, <1>3, <1>4, <1>5, <1>6, <1>7, <1>8, <1>9, <1>10 DEF Next

LEMMA Invariance ==
  ASSUME Disciplined
  PROVE  Spec => []Inv
<1>1. Init => Inv
  BY InitHolds
<1>2. Inv /\ [Next]_vars => Inv'
  BY StepKeeps
<1> QED
  BY <1>1, <1>2, PTL DEF Spec

(* The tree is the map its users take it for: whatever it splits, borrows    *)
(* and merges, however many keys it has and however long its rows are, a     *)
(* call changes the row of its key and no other (btree.py:136-255), commit   *)
(* keeps the rows, and rollback (pager.py:116) brings back those that the    *)
(* transaction found.                                                        *)
THEOREM TreeIsMap ==
  ASSUME Disciplined
  PROVE  Spec => ImplementsMap
<1>1. Init => Map!Init
  BY InitHolds
<1>2. Inv /\ [Next]_vars => [Map!Next]_Map!vars
  BY StepKeeps
<1> QED
  BY <1>1, <1>2, Invariance, PTL DEF Spec, ImplementsMap, Map!Spec

(* In every state that a transaction reaches, each insert, upsert and delete *)
(* that the engine may call next (engine.py:560, 594, 607) raises or does    *)
(* what it is called for.                                                    *)
THEOREM EveryCallTakesEffect ==
  ASSUME Disciplined
  PROVE  Spec => []CallsTakeEffect
<1> DEFINE here == Found(tree, root)
           Gives(result, k, row) == \/ Stopped(result.tree)
                                    \/ Found(result.tree, result.root) = [here EXCEPT ![k] = row]
<1>1. ASSUME Inv PROVE CallsTakeEffect
  <2> SUFFICES ASSUME txn = "open", NEW k \in Key
               PROVE  IF here[k] = NoRow
                      THEN \A len \in Lengths : Gives(Insert(Ready, root, k, len), k, len)
                      ELSE /\ \A len \in Lengths : Gives(Replace(Ready, root, k, len), k, len)
                           /\ Gives(Delete(Ready, root, k), k, NoRow)
    BY DEF CallsTakeEffect
  <2>1. Ready = tree /\ Stands(tree, root, here, Saved(tree))
    BY <1>1, InvStands
  <2>2. ASSUME NEW d, NEW row, Stands(d.tree, d.root, [here EXCEPT ![k] = row], Saved(tree))
        PROVE  Gives(d, k, row)
    BY <2>2, SearchFinds DEF Stands
  <2> HIDE DEF Gives, here
  <2>3. ASSUME NEW len \in Lengths, here[k] = NoRow PROVE Gives(Insert(tree, root, k, len), k, len)
    <3> DEFINE d == Insert(tree, root, k, len)
    <3> HIDE DEF d
    <3>1. ~Stopped(d.tree) => Stands(d.tree, d.root, [here EXCEPT ![k] = len], Saved(tree))
      BY <2>1, <2>3, InsertDoes DEF d
    <3>2. Gives(d, k, len)
      BY <2>2, <3>1 DEF Gives
    <3> QED
      BY <3>2 DEF d
  <2>4. ASSUME NEW len \in Lengths, here[k] # NoRow PROVE Gives(Replace(tree, root, k, len), k, len)
    <3> DEFINE d == Replace(tree, root, k, len)
    <3> HIDE DEF d
    <3>1. ~Stopped(d.tree) => Stands(d.tree, d.root, [here EXCEPT ![k] = len], Saved(tree))
      BY <2>1, <2>4, ReplaceDoes DEF d
    <3>2. Gives(d, k, len)
      BY <2>2, <3>1 DEF Gives
    <3> QED
      BY <3>2 DEF d
  <2>5. ASSUME here[k] # NoRow PROVE Gives(Delete(tree, root, k), k, NoRow)
    <3> DEFINE d == Delete(tree, root, k)
    <3> HIDE DEF d
    <3>1. ~Stopped(d.tree) => Stands(d.tree, d.root, [here EXCEPT ![k] = NoRow], Saved(tree))
      BY <2>1, <2>5, DeleteDoes DEF d
    <3>2. Gives(d, k, NoRow)
      BY <2>2, <3>1 DEF Gives
    <3> QED
      BY <3>2 DEF d
  <2> QED
    BY <2>1, <2>3, <2>4, <2>5
<1> QED
  BY <1>1, Invariance, PTL

(* Between the calls every page is one the format knows and fits, a page has *)
(* a shadow only if the transaction has touched it, and the root is there.   *)
THEOREM TypeCorrect ==
  ASSUME Disciplined
  PROVE  Spec => []TypeOK
<1>1. ASSUME Inv PROVE TypeOK
  <2>1. /\ tree \in Trees /\ tree.page \in Pages /\ tree.altered \in Pages /\ ~tree.full
        /\ tree.touched \in SUBSET PageNo /\ root \in PageNo
        /\ \A n \in PageNo : tree.page[n] # Absent => Fits(tree.page[n])
        /\ \A n \in PageNo : tree.shadow[n] # Absent => n \in tree.touched
    BY <1>1 DEF Inv, InvTree, Still, Trees
  <2>2. tree.page[root] # Absent
    BY <1>1, StoredIs, StillView DEF Inv, InvTree
  <2>3. txn \in {"open", "committed", "rolledback"} /\ tree.inTxn = (txn = "open")
        /\ calls \in 0 .. MaxCalls
    BY <1>1 DEF Inv, InvTxn
  <2> QED
    BY <2>1, <2>2, <2>3 DEF TypeOK
<1> QED
  BY <1>1, Invariance, PTL

(* Whatever has been split, borrowed and merged: a separator is above all    *)
(* keys to its left and below none to its right, all leaves are at one depth,*)
(* and the chain visits the leaves in the order of the tree (btree.py:363).  *)
THEOREM TreeStaysBalanced ==
  ASSUME Disciplined
  PROVE  Spec => []Balanced
<1>1. ASSUME Inv PROVE Balanced
  <2> DEFINE P == View(tree)
  <2>1. PICK live, lev, lo, hi, up : Tree(P, root, live, lev, lo, hi, up, Found(tree, root))
    BY <1>1 DEF Inv, InvTree, Stored, TreeOf
  <2>2. root \in live /\ live \subseteq PageNo /\ \A n \in live : NodeAt(tree, n) = P[n]
    BY <2>1 DEF Tree, View
  <2>3. \A i \in 0 .. MaxPages : \A n \in Level(tree, root)[i] : n \in live /\ lev[n] + i = lev[root]
    BY <2>1, <2>2, LevelBelow DEF Below
  <2>4. \A n \in InTree(tree, root) : n \in live
    BY <2>3 DEF InTree
  <2> HIDE DEF P
  <2>5. ASSUME NEW n \in live, ~P[n].leaf
        PROVE  /\ Len(P[n].kids) = Len(P[n].keys) + 1 /\ DOMAIN P[n].keys = 1 .. Len(P[n].keys)
               /\ \A i \in 1 .. Len(P[n].keys) :
                    /\ \A k \in KeysBelow(tree, P[n].kids[i]) : k < P[n].keys[i]
                    /\ \A k \in KeysBelow(tree, P[n].kids[i + 1]) : P[n].keys[i] <= k
                    /\ NodeAt(tree, LastLeaf(tree, P[n].kids[i])).next = FirstLeaf(tree, P[n].kids[i + 1])
    <3>1. InnerAt(P[n], n, live, lev, lo, hi, up)
      BY <2>1, <2>5, TreeNode
    <3>2. Parts(P[n].keys, P[n].kids, lo[n], hi[n], lo, hi)
      BY <3>1 DEF InnerAt
    <3>3. /\ Len(P[n].kids) = Len(P[n].keys) + 1 /\ Len(P[n].keys) \in Nat
          /\ DOMAIN P[n].keys = 1 .. Len(P[n].keys)
      BY <3>2, PartsTyped
    <3>4. ASSUME NEW i \in 1 .. Len(P[n].keys)
          PROVE  /\ \A k \in KeysBelow(tree, P[n].kids[i]) : k < P[n].keys[i]
                 /\ \A k \in KeysBelow(tree, P[n].kids[i + 1]) : P[n].keys[i] <= k
                 /\ NodeAt(tree, LastLeaf(tree, P[n].kids[i])).next = FirstLeaf(tree, P[n].kids[i + 1])
      <4> DEFINE c == P[n].kids[i]
                 d == P[n].kids[i + 1]
      <4>1. i \in 1 .. Len(P[n].kids) /\ i + 1 \in 1 .. Len(P[n].kids) /\ i # Len(P[n].kids)
            /\ i + 1 # 1 /\ (i + 1) - 1 = i
        BY <3>3
      <4>2. hi[c] = P[n].keys[i] /\ lo[d] = P[n].keys[i]
        BY <3>2, <4>1 DEF Parts
      <4>3. c \in live /\ d \in live
        BY <3>1, <4>1 DEF InnerAt
      <4>4. P[LastLeaf(tree, c)].next = FirstLeaf(tree, d)
        BY <2>1, <2>5, LeavesMeet DEF P
      <4>5. LastLeaf(tree, c) \in live
        <5>1. PICK a, b : Ranked(P, root, live, lo, hi, a, b)
          BY <2>1 DEF Tree, Chained
        <5> HIDE DEF c
        <5> QED
          BY <2>1, <4>3, <5>1, LeavesAt DEF P
      <4> HIDE DEF c, d
      <4>6. \A k \in KeysBelow(tree, c) : k < P[n].keys[i]
        BY <2>1, <4>2, <4>3, KeysWithin DEF P
      <4>7. \A k \in KeysBelow(tree, d) : P[n].keys[i] <= k
        BY <2>1, <4>2, <4>3, KeysWithin DEF P
      <4>8. NodeAt(tree, LastLeaf(tree, c)).next = FirstLeaf(tree, d)
        BY <2>2, <4>4, <4>5
      <4> QED
        BY <4>6, <4>7, <4>8 DEF c, d
    <3> QED
      BY <3>3, <3>4
  <2>6. NodeAt(tree, LastLeaf(tree, root)).next = NoPage
    <3>1. LastLeaf(tree, root) \in live /\ P[LastLeaf(tree, root)].next = NoPage
      BY <2>1, LastIsLast DEF P
    <3> QED
      BY <2>2, <3>1
  <2>7. ASSUME NEW i \in 0 .. MaxPages, NEW m \in Level(tree, root)[i], NEW n \in Level(tree, root)[i]
        PROVE  NodeAt(tree, m).leaf = NodeAt(tree, n).leaf
    <3>1. m \in live /\ n \in live /\ lev[m] + i = lev[root] /\ lev[n] + i = lev[root]
      BY <2>3
    <3>2. /\ lev[m] \in Nat /\ lev[n] \in Nat /\ P[m].leaf \in BOOLEAN /\ P[n].leaf \in BOOLEAN
          /\ lev[m] = 0 <=> P[m].leaf
          /\ lev[n] = 0 <=> P[n].leaf
      BY <2>1, <3>1, TreeNode
    <3>3. lev[m] = lev[n]
      BY <3>1, <3>2
    <3> QED
      BY <2>2, <3>1, <3>2, <3>3
  <2>8. ASSUME NEW n \in InTree(tree, root), ~NodeAt(tree, n).leaf
        PROVE  /\ Len(NodeAt(tree, n).kids) = Len(NodeAt(tree, n).keys) + 1
               /\ \A i \in DOMAIN NodeAt(tree, n).keys :
                    /\ \A k \in KeysBelow(tree, NodeAt(tree, n).kids[i]) : k < NodeAt(tree, n).keys[i]
                    /\ \A k \in KeysBelow(tree, NodeAt(tree, n).kids[i + 1]) : NodeAt(tree, n).keys[i] <= k
                    /\ NodeAt(tree, LastLeaf(tree, NodeAt(tree, n).kids[i])).next
                         = FirstLeaf(tree, NodeAt(tree, n).kids[i + 1])
    <3>1. n \in live /\ NodeAt(tree, n) = P[n]
      BY <2>2, <2>4
    <3>2. ~P[n].leaf
      BY <2>8, <3>1
    <3> QED
      BY <2>5, <3>1, <3>2
  <2> QED
    BY <2>6, <2>7, <2>8 DEF Balanced
<1> QED
  BY <1>1, Invariance, PTL

(* A range scan along the chain of the leaves (btree.py:318) gives the rows   *)
(* that searches find in the range, each once and in the order of the keys,  *)
(* whatever has been split, merged or rolled back before.                    *)
THEOREM ScanFindsAll ==
  ASSUME Disciplined
  PROVE  Spec => []ScanAgreesWithSearch
<1>1. ASSUME Inv PROVE ScanAgreesWithSearch
  <2> DEFINE here == Found(tree, root)
  <2>1. Stored(View(tree), root, here)
    BY <1>1 DEF Inv, InvTree
  <2> HIDE DEF here
  <2>2. ASSUME NEW from \in Key \cup {NoKey}, NEW to \in Key \cup {NoKey},
               NEW y, y = RangeScan(tree, root, from, to)
        PROVE  /\ \A i \in DOMAIN y : /\ y[i].key \in Key /\ here[y[i].key] # NoRow
                                      /\ from <= y[i].key /\ (to # NoKey => y[i].key <= to)
                                      /\ y[i].len = here[y[i].key]
               /\ \A i, j \in DOMAIN y : i < j => y[i].key < y[j].key
               /\ \A k \in Key : here[k] # NoRow /\ from <= k /\ (to # NoKey => k <= to) =>
                    \E i \in DOMAIN y : y[i].key = k
    <3>1. /\ y \in Seq(Cells) /\ Climbing(y)
          /\ \A i \in 1 .. Len(y) : Wanted(y[i], from, to) /\ here[y[i].key] = y[i].len
          /\ \A k \in Key : here[k] # NoRow /\ from <= k /\ (to # NoKey => k <= to) =>
               \E i \in 1 .. Len(y) : y[i].key = k
      <4>1. Scanned(y, here, from, to)
        BY <2>1, <2>2, ScanGives
      <4> QED
        BY <4>1 DEF Scanned
    <3>2. DOMAIN y = 1 .. Len(y)
      BY <3>1
    <3>3. \A i \in 1 .. Len(y) : y[i].key \in Key /\ y[i].len \in Lengths
      BY <3>1, CellsOf
    <3>4. \A i \in 1 .. Len(y) : here[y[i].key] # NoRow
      BY <3>1, <3>3, Sizes
    <3> QED
      BY <3>1, <3>2, <3>3, <3>4 DEF Wanted, Climbing
  <2> QED
    BY <2>2 DEF ScanAgreesWithSearch, here
<1> QED
  BY <1>1, Invariance, PTL

(* Insert, upsert and delete, whatever they split, borrow and merge, leave   *)
(* no node that was edited in place and not written: between calls what      *)
(* _load (btree.py:114) finds cached says what the bytes in the pool say.    *)
(* Of rollbacks this covers, by `reread', only those of pages that were read *)
(* again since they were written.  The others do break it: after BEGIN,      *)
(* INSERT, ROLLBACK a SELECT finds the row.                                  *)
THEOREM CacheStaysTrue ==
  ASSUME Disciplined
  PROVE  Spec => []CacheIsTrue
<1>1. Inv => CacheIsTrue
  BY DEF Inv, InvTree, Still, CacheIsTrue
<1> QED
  BY <1>1, Invariance, PTL
=============================================================================
