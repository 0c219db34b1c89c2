---------------------------- MODULE BTreeShapes -----------------------------
(* Pages that are a B+ tree, and the changes that keep them one: what cells, *)
(* children, links and ranks of a tree are, whatever writes them.            *)
EXTENDS BTree, SequenceTheorems, FiniteSetTheorems, WellFoundedInduction, TLAPS

Rows == [Key -> Lengths \cup {NoRow}]
Ends == 1 .. (MaxKey + 1)      \* a page stands for the keys from one end up to another

-----------------------------------------------------------------------------
(* Induction, and sequences *)

LEMMA SmallestInSet ==
  ASSUME NEW S \in SUBSET Nat, S # {}
  PROVE  \E m \in S : \A x \in S : m <= x
<1> DEFINE Less == OpToRel(<, Nat)
<1>1. IsWellFoundedOn(Less, Nat)
  BY NatLessThanWellFounded
<1> HIDE DEF Less
<1>2. PICK m \in S : \A x \in S : ~(<<x, m>> \in Less)
  BY <1>1, WFMin
<1>3. \A x \in S : m \in Nat /\ x \in Nat /\ (x < m => <<x, m>> \in Less)
  BY DEF OpToRel, Less
<1>4. \A x \in S : m \in Nat /\ x \in Nat /\ ~(x < m)
  BY <1>2, <1>3, Zenon
<1>5. \A x \in S : m <= x
  BY <1>4
<1> QED
  BY <1>5

(* What holds at 0 and goes from each number to the next holds up to N:      *)
(* no number is the first that D does not have.                              *)
LEMMA UpTo ==
  ASSUME NEW N \in Nat, NEW D, 0 \in D,
         \A i \in 1 .. N : i - 1 \in D => i \in D
  PROVE  \A i \in 0 .. N : i \in D
<1> DEFINE C == {i \in 0 .. N : i \notin D}
<1> SUFFICES ASSUME C # {} PROVE FALSE
  OBVIOUS
<1>0. C \in SUBSET Nat
  OBVIOUS
<1> HIDE DEF C
<1>1. PICK m \in C : \A x \in C : m <= x
  BY <1>0, SmallestInSet
<1> USE DEF C
<1>2. m \in 1 .. N /\ m - 1 \in 0 .. N /\ m - 1 \notin C
  BY <1>1
<1> QED
  BY <1>2

LEMMA Inserted ==
  ASSUME NEW S, NEW s \in Seq(S), NEW i \in 1 .. (Len(s) + 1), NEW e \in S
  PROVE  /\ InsertAt(s, i, e) \in Seq(S)
         /\ Len(InsertAt(s, i, e)) = Len(s) + 1
         /\ \A j \in 1 .. (Len(s) + 1) :
              InsertAt(s, i, e)[j] = IF j < i THEN s[j] ELSE IF j = i THEN e ELSE s[j - 1]
<1> DEFINE a == SubSeq(s, 1, i - 1)
           b == SubSeq(s, i, Len(s))
<1>1. a \in Seq(S) /\ Len(a) = i - 1 /\ \A j \in 1 .. (i - 1) : a[j] = s[j]
  OBVIOUS
<1>2. b \in Seq(S) /\ Len(b) = Len(s) + 1 - i /\ \A j \in 1 .. Len(b) : b[j] = s[i + j - 1]
  OBVIOUS
<1>3. a \o <<e>> \in Seq(S) /\ Len(a \o <<e>>) = i /\ \A j \in 1 .. i : (a \o <<e>>)[j] = IF j < i THEN s[j] ELSE e
  BY <1>1
<1> HIDE DEF a, b
<1> DEFINE c == a \o <<e>>
<1>4. c \in Seq(S) /\ Len(c) = i /\ \A j \in 1 .. i : c[j] = IF j < i THEN s[j] ELSE e
  BY <1>3
<1> HIDE DEF c
<1>5. /\ c \o b \in Seq(S) /\ Len(c \o b) = Len(c) + Len(b)
      /\ \A j \in 1 .. (Len(c) + Len(b)) :
           (c \o b)[j] = IF j <= Len(c) THEN c[j] ELSE b[j - Len(c)]
  BY <1>2, <1>4, ConcatProperties
<1>6. InsertAt(s, i, e) = c \o b
  BY DEF InsertAt, a, b, c
<1> QED
  BY <1>2, <1>4, <1>5, <1>6

LEMMA Removed ==
  ASSUME NEW S, NEW s \in Seq(S), NEW i \in 1 .. Len(s)
  PROVE  /\ RemoveAt(s, i) \in Seq(S)
         /\ Len(RemoveAt(s, i)) = Len(s) - 1
         /\ \A j \in 1 .. (Len(s) - 1) : RemoveAt(s, i)[j] = IF j < i THEN s[j] ELSE s[j + 1]
<1> DEFINE a == SubSeq(s, 1, i - 1)
           b == SubSeq(s, i + 1, Len(s))
<1>1. a \in Seq(S) /\ Len(a) = i - 1 /\ \A j \in 1 .. (i - 1) : a[j] = s[j]
  OBVIOUS
<1>2. b \in Seq(S) /\ Len(b) = Len(s) - i /\ \A j \in 1 .. Len(b) : b[j] = s[i + j]
  OBVIOUS
<1>3. RemoveAt(s, i) = a \o b
  BY DEF RemoveAt
<1> HIDE DEF a, b
<1>4. /\ a \o b \in Seq(S) /\ Len(a \o b) = Len(a) + Len(b)
      /\ \A j \in 1 .. (Len(a) + Len(b)) :
           (a \o b)[j] = IF j <= Len(a) THEN a[j] ELSE b[j - Len(a)]
  BY <1>1, <1>2, ConcatProperties
<1>5. Len(a \o b) = Len(s) - 1
  BY <1>1, <1>2, <1>4
<1>6. ASSUME NEW j \in 1 .. (Len(s) - 1) PROVE (a \o b)[j] = IF j < i THEN s[j] ELSE s[j + 1]
  <2>1. j \in 1 .. (Len(a) + Len(b))
    BY <1>1, <1>2
  <2>2. CASE j < i
    BY <1>1, <1>4, <2>1, <2>2
  <2>3. CASE j >= i
    <3>1. ~(j <= Len(a)) /\ j - Len(a) \in 1 .. Len(b) /\ i + (j - Len(a)) = j + 1
      BY <1>1, <1>2, <2>3
    <3>2. (a \o b)[j] = b[j - Len(a)] /\ b[j - Len(a)] = s[i + (j - Len(a))]
      BY <1>2, <1>4, <2>1, <3>1
    <3> QED
      BY <2>3, <3>1, <3>2
  <2>4. j < i \/ j >= i
    OBVIOUS
  <2> QED
    BY <2>2, <2>3, <2>4
<1> QED
  BY <1>3, <1>4, <1>5, <1>6

LEMMA CutSeq ==
  ASSUME NEW S, NEW s \in Seq(S), NEW m \in 0 .. Len(s)
  PROVE  /\ SubSeq(s, 1, m) \in Seq(S) /\ Len(SubSeq(s, 1, m)) = m
         /\ \A j \in 1 .. m : SubSeq(s, 1, m)[j] = s[j]
         /\ SubSeq(s, m + 1, Len(s)) \in Seq(S) /\ Len(SubSeq(s, m + 1, Len(s))) = Len(s) - m
         /\ \A j \in 1 .. (Len(s) - m) : SubSeq(s, m + 1, Len(s))[j] = s[m + j]
OBVIOUS

(* How many elements of an ordered sequence come before a place.             *)
LEMMA CountBelow ==
  ASSUME NEW N \in Nat, NEW B \in SUBSET (1 .. N), NEW m \in 0 .. N,
         \A i \in 1 .. N : i \in B <=> i <= m
  PROVE  Cardinality(B) = m
<1>1. B \subseteq 1 .. m
  OBVIOUS
<1>2. 1 .. m \subseteq B
  OBVIOUS
<1>3. B = 1 .. m
  BY <1>1, <1>2, Zenon
<1> QED
  BY <1>3, FS_Interval

(* A set of places that reaches down from each of its elements.              *)
LEMMA Initial ==
  ASSUME NEW N \in Nat, NEW B \in SUBSET (1 .. N),
         \A i \in B : \A j \in 1 .. i : j \in B
  PROVE  \E m \in 0 .. N : B = 1 .. m
<1>1. CASE B = 1 .. N
  BY <1>1
<1>2. CASE B # 1 .. N
  <2> DEFINE C == (1 .. N) \ B
  <2>1. C \in SUBSET Nat
    OBVIOUS
  <2>0. C # {}
    BY <1>2, Zenon
  <2> HIDE DEF C
  <2>2. PICK x \in C : \A y \in C : x <= y
    BY <2>0, <2>1, SmallestInSet
  <2> USE DEF C
  <2>3. x \in 1 .. N /\ x - 1 \in 0 .. N
    BY <2>2
  <2>4. 1 .. (x - 1) \subseteq B
    BY <2>2, <2>3
  <2>5. \A j \in B : j \in 1 .. N /\ (j >= x => x \in B)
    BY <2>3
  <2>6. B \subseteq 1 .. (x - 1)
    BY <2>2, <2>3, <2>5
  <2>7. B = 1 .. (x - 1)
    BY <2>4, <2>6, Zenon
  <2> QED
    BY <2>3, <2>7
<1> QED
  BY <1>1, <1>2

-----------------------------------------------------------------------------
(* The cells of a leaf *)

(* These cells are the rows of the keys from a up to b, in order.            *)
Holds(cells, a, b, rows) ==
  /\ cells \in Seq(Cells)
  /\ \A i \in 1 .. Len(cells) : /\ a <= cells[i].key /\ cells[i].key < b
                                /\ rows[cells[i].key] = cells[i].len
  /\ \A i, j \in 1 .. Len(cells) : i < j => cells[i].key < cells[j].key
  /\ \A k \in Key : a <= k /\ k < b /\ rows[k] # NoRow =>
       \E i \in 1 .. Len(cells) : cells[i].key = k

LEMMA Sizes ==
  /\ MaxKey \in Nat \ {0} /\ MaxPages \in Nat \ {0} /\ MaxCalls \in Nat
  /\ PageSize \in Nat /\ PageSize >= 39 /\ SpareBytes \in Nat
  /\ Key = 1 .. MaxKey /\ PageNo = 1 .. MaxPages /\ NoPage = 0 /\ NoRow = 0 /\ NoKey = 0
  /\ Key \subseteq Nat /\ PageNo \subseteq Nat /\ NoPage \notin PageNo /\ NoKey \notin Key
  /\ NoRow \notin Lengths /\ Lengths \subseteq Nat
BY SizesAssumption DEF Key, PageNo, NoPage, NoRow, NoKey

LEMMA CellOf ==
  /\ \A c \in Cells : c.key \in Key /\ c.len \in Lengths /\ c.key \in Int
  /\ \A k \in Key, len \in Lengths : /\ Cell(k, len) \in Cells
                                     /\ Cell(k, len).key = k /\ Cell(k, len).len = len
BY Sizes DEF Cells, Cell

LEMMA CellsOf ==
  ASSUME NEW cells \in Seq(Cells), NEW i \in 1 .. Len(cells)
  PROVE  /\ cells[i] \in Cells /\ cells[i].key \in Key /\ cells[i].len \in Lengths
         /\ cells[i].key \in Int
BY CellOf

(* Where CellIndex puts a key.                                               *)
LEMMA CellPlace ==
  ASSUME NEW a, NEW b, NEW rows, NEW node, Holds(node.cells, a, b, rows), NEW key \in Key
  PROVE  /\ CellIndex(node, key) \in 1 .. (Len(node.cells) + 1)
         /\ \A i \in 1 .. Len(node.cells) :
              /\ i < CellIndex(node, key) <=> node.cells[i].key < key
              /\ node.cells[i].key = key => CellIndex(node, key) = i
<1> DEFINE cells == node.cells
           B == {i \in DOMAIN cells : cells[i].key < key}
<1>1. cells \in Seq(Cells) /\ Len(cells) \in Nat /\ DOMAIN cells = 1 .. Len(cells)
  BY DEF Holds
<1>2. \A i \in 1 .. Len(cells) : cells[i].key \in Int
  BY <1>1, CellsOf
<1>3. \A i, j \in 1 .. Len(cells) : i < j => cells[i].key < cells[j].key
  BY DEF Holds
<1>4. key \in Int
  BY Sizes
<1>5. \A i \in B : \A j \in 1 .. i : j \in B
  BY <1>1, <1>2, <1>3, <1>4
<1>6. B \in SUBSET (1 .. Len(cells))
  BY <1>1
<1>7. \A i \in 1 .. Len(cells) : i \in B <=> cells[i].key < key
  BY <1>1
<1>8. CellIndex(node, key) = Cardinality(B) + 1
  BY DEF CellIndex
<1> HIDE DEF B
<1>9. PICK m \in 0 .. Len(cells) : B = 1 .. m
  BY <1>1, <1>5, <1>6, Initial
<1>10. \A i \in 1 .. Len(cells) : i \in B <=> i <= m
  BY <1>1, <1>9
<1>11. Cardinality(B) = m
  BY <1>1, <1>6, <1>10, CountBelow
<1> HIDE DEF cells
<1>12. m \in Int /\ m + 1 \in 1 .. (Len(cells) + 1)
  BY <1>1
<1>13. \A i \in 1 .. Len(cells) : i < m + 1 <=> cells[i].key < key
  BY <1>1, <1>7, <1>10, <1>12
<1>14. ASSUME NEW i \in 1 .. Len(cells), cells[i].key = key PROVE m + 1 = i
  <2>1. ~(i < m + 1)
    BY <1>2, <1>13, <1>14
  <2>2. CASE m + 1 < i
    <3>1. m + 1 \in 1 .. Len(cells) /\ cells[m + 1].key < cells[i].key
      BY <1>1, <1>3, <1>12, <2>2 DEF cells
    <3> QED
      BY <1>12, <1>13, <1>14, <3>1
  <2> QED
    BY <1>1, <1>12, <2>1, <2>2
<1> QED
  BY <1>8, <1>11, <1>12, <1>13, <1>14 DEF cells

(* A leaf finds the rows of its keys.                                        *)
LEMMA LeafFinds ==
  ASSUME NEW a, NEW b, NEW rows \in Rows, NEW node, Holds(node.cells, a, b, rows),
         NEW key \in Key, a <= key, key < b
  PROVE  /\ Has(node, key) <=> rows[key] # NoRow
         /\ Has(node, key) => /\ CellIndex(node, key) \in 1 .. Len(node.cells)
                              /\ node.cells[CellIndex(node, key)].key = key
                              /\ node.cells[CellIndex(node, key)].len = rows[key]
<1>1. node.cells \in Seq(Cells) /\ DOMAIN node.cells = 1 .. Len(node.cells)
  BY DEF Holds
<1>2. \A i \in 1 .. Len(node.cells) : node.cells[i].len # NoRow
  BY <1>1, CellsOf, Sizes
<1>3. Has(node, key) <=> rows[key] # NoRow
  BY <1>1, <1>2 DEF Has, Holds
<1>4. \A i \in 1 .. Len(node.cells) : node.cells[i].key = key => CellIndex(node, key) = i
  BY CellPlace
<1> QED
  BY <1>1, <1>3, <1>4 DEF Has, Holds

(* A leaf takes a row in.                                                    *)
LEMMA HoldsInserted ==
  ASSUME NEW a, NEW b, NEW rows \in Rows, NEW node, Holds(node.cells, a, b, rows),
         NEW key \in Key, a <= key, key < b, rows[key] = NoRow, NEW len \in Lengths
  PROVE  Holds(InsertAt(node.cells, CellIndex(node, key), Cell(key, len)), a, b,
               [rows EXCEPT ![key] = len])
<1> DEFINE cells == node.cells
           m   == CellIndex(node, key)
           e   == Cell(key, len)
           new == InsertAt(cells, m, e)
           now == [rows EXCEPT ![key] = len]
<1>1. cells \in Seq(Cells) /\ Len(cells) \in Nat
  BY DEF Holds
<1>2. /\ m \in 1 .. (Len(cells) + 1)
      /\ \A i \in 1 .. Len(cells) : i < m <=> cells[i].key < key
  BY CellPlace
<1>3. e \in Cells /\ e.key = key /\ e.len = len
  BY CellOf
<1> HIDE DEF m, cells, e
<1>4. /\ new \in Seq(Cells) /\ Len(new) = Len(cells) + 1
      /\ \A j \in 1 .. (Len(cells) + 1) :
           new[j] = IF j < m THEN cells[j] ELSE IF j = m THEN e ELSE cells[j - 1]
  BY <1>1, <1>2, <1>3, Inserted
<1> USE DEF cells
<1>5. \A i \in 1 .. Len(cells) : /\ a <= cells[i].key /\ cells[i].key < b
                                 /\ rows[cells[i].key] = cells[i].len
                                 /\ cells[i].key \in Key /\ cells[i].len \in Lengths
                                 /\ cells[i].key \in Int
  BY <1>1, CellsOf DEF Holds
<1>6. \A i \in 1 .. Len(cells) : cells[i].key # key
  BY <1>5, Sizes
<1>7. \A i, j \in 1 .. Len(cells) : i < j => cells[i].key < cells[j].key
  BY DEF Holds
<1>8. \A k \in Key : now[k] = IF k = key THEN len ELSE rows[k]
  BY DEF Rows
<1>9. \A k \in Key : a <= k /\ k < b /\ rows[k] # NoRow =>
        \E i \in 1 .. Len(cells) : cells[i].key = k
  BY DEF Holds
<1>10. key \in Int
  BY Sizes
<1> HIDE DEF new, m, cells, now
<1>11. ASSUME NEW j \in 1 .. Len(new)
       PROVE  a <= new[j].key /\ new[j].key < b /\ now[new[j].key] = new[j].len
  <2>1. CASE j = m
    BY <1>3, <1>4, <1>8, <2>1
  <2>2. ASSUME NEW i \in 1 .. Len(cells), new[j] = cells[i] PROVE a <= new[j].key /\ new[j].key < b /\ now[new[j].key] = new[j].len
    BY <1>5, <1>6, <1>8, <2>2
  <2>3. CASE j < m
    <3>1. j \in 1 .. Len(cells) /\ new[j] = cells[j]
      BY <1>1, <1>2, <1>4, <2>3
    <3> QED
      BY <2>2, <3>1
  <2>4. CASE j > m
    <3>1. j - 1 \in 1 .. Len(cells) /\ new[j] = cells[j - 1]
      BY <1>1, <1>2, <1>4, <2>4
    <3> QED
      BY <2>2, <3>1
  <2> QED
    BY <1>1, <1>2, <1>4, <2>1, <2>3, <2>4
<1>12. \A i \in 1 .. Len(cells) : i >= m => key < cells[i].key
  BY <1>1, <1>2, <1>5, <1>6, <1>10
<1>13. ASSUME NEW i \in 1 .. Len(new), NEW j \in 1 .. Len(new), i < j
       PROVE  new[i].key < new[j].key
  <2>1. CASE j < m
    BY <1>1, <1>2, <1>4, <1>7, <1>13, <2>1
  <2>2. CASE j = m
    BY <1>1, <1>2, <1>3, <1>4, <1>13, <2>2
  <2>3. CASE j > m
    <3>1. new[j] = cells[j - 1] /\ j - 1 \in 1 .. Len(cells) /\ j - 1 >= m
      BY <1>1, <1>2, <1>4, <2>3
    <3>2. CASE i < m
      BY <1>1, <1>2, <1>4, <1>7, <1>13, <3>1, <3>2
    <3>3. CASE i = m
      BY <1>3, <1>4, <1>12, <3>1, <3>3
    <3>4. CASE i > m
      <4>1. i - 1 \in 1 .. Len(cells) /\ new[i] = cells[i - 1] /\ i - 1 < j - 1
        BY <1>1, <1>2, <1>4, <1>13, <3>1, <3>4
      <4> QED
        BY <1>7, <3>1, <4>1
    <3> QED
      BY <1>2, <3>2, <3>3, <3>4
  <2> QED
    BY <1>2, <2>1, <2>2, <2>3
<1>14. ASSUME NEW k \in Key, a <= k, k < b, now[k] # NoRow
       PROVE  \E j \in 1 .. Len(new) : new[j].key = k
  <2>1. CASE k = key
    BY <1>1, <1>2, <1>3, <1>4, <2>1
  <2>2. CASE k # key
    <3>1. PICK i \in 1 .. Len(cells) : cells[i].key = k
      BY <1>8, <1>9, <1>14, <2>2
    <3>2. CASE i < m
      BY <1>1, <1>2, <1>4, <3>1, <3>2
    <3>3. CASE i >= m
      <4>1. i + 1 \in 1 .. Len(new) /\ new[i + 1] = cells[i]
        BY <1>1, <1>2, <1>4, <3>3
      <4> QED
        BY <3>1, <4>1
    <3> QED
      BY <1>2, <3>2, <3>3
  <2> QED
    BY <2>1, <2>2
<1> QED
  BY <1>4, <1>11, <1>13, <1>14 DEF Holds, new, m, cells, e, now

(* What Holds says, a part at a time.                                        *)
LEMMA HoldsParts ==
  ASSUME NEW cells, NEW a, NEW b, NEW rows, Holds(cells, a, b, rows)
  PROVE  /\ cells \in Seq(Cells) /\ Len(cells) \in Nat
         /\ \A i \in 1 .. Len(cells) : /\ a <= cells[i].key /\ cells[i].key < b
                                       /\ rows[cells[i].key] = cells[i].len
                                       /\ cells[i].key \in Key /\ cells[i].len \in Lengths
                                       /\ cells[i].key \in Int
         /\ \A i, j \in 1 .. Len(cells) : i < j => cells[i].key < cells[j].key
         /\ \A k \in Key : a <= k /\ k < b /\ rows[k] # NoRow =>
              \E i \in 1 .. Len(cells) : cells[i].key = k
BY CellsOf DEF Holds

(* A row takes another's place.                                              *)
LEMMA HoldsReplaced ==
  ASSUME NEW a, NEW b, NEW rows \in Rows, NEW node, Holds(node.cells, a, b, rows),
         NEW key \in Key, a <= key, key < b, rows[key] # NoRow, NEW len \in Lengths
  PROVE  Holds(ReplaceAt(node.cells, CellIndex(node, key), Cell(key, len)), a, b,
               [rows EXCEPT ![key] = len])
<1>0. /\ CellIndex(node, key) \in 1 .. Len(node.cells)
      /\ node.cells[CellIndex(node, key)].key = key
  <2>1. Has(node, key)
    BY LeafFinds
  <2> QED
    BY <2>1, LeafFinds
<1> DEFINE cells == node.cells
           m   == CellIndex(node, key)
           e   == Cell(key, len)
           new == [cells EXCEPT ![m] = e]
           now == [rows EXCEPT ![key] = len]
<1>1. m \in 1 .. Len(cells) /\ cells[m].key = key
  BY <1>0
<1>2. e \in Cells /\ e.key = key /\ e.len = len
  BY CellOf
<1>3. /\ cells \in Seq(Cells) /\ Len(cells) \in Nat
      /\ \A i \in 1 .. Len(cells) : /\ a <= cells[i].key /\ cells[i].key < b
                                    /\ rows[cells[i].key] = cells[i].len
                                    /\ cells[i].key \in Key /\ cells[i].len \in Lengths
                                    /\ cells[i].key \in Int
      /\ \A i, j \in 1 .. Len(cells) : i < j => cells[i].key < cells[j].key
      /\ \A k \in Key : a <= k /\ k < b /\ rows[k] # NoRow =>
           \E i \in 1 .. Len(cells) : cells[i].key = k
  BY HoldsParts
<1>4. \A k \in Key : now[k] = IF k = key THEN len ELSE rows[k]
  BY DEF Rows
<1>5. ReplaceAt(cells, m, e) = new
  BY DEF ReplaceAt
<1> HIDE DEF m, cells, e
<1>6. /\ new \in Seq(Cells) /\ Len(new) = Len(cells)
      /\ \A j \in 1 .. Len(cells) : new[j] = IF j = m THEN e ELSE cells[j]
  BY <1>1, <1>2, <1>3
<1> HIDE DEF new, now
<1>7. \A j \in 1 .. Len(cells) : new[j].key = cells[j].key
  BY <1>1, <1>2, <1>6
<1>8. \A j \in 1 .. Len(cells) : j # m => cells[j].key # key
  BY <1>1, <1>3
<1>9. \A j \in 1 .. Len(cells) : now[new[j].key] = new[j].len
  BY <1>1, <1>2, <1>3, <1>4, <1>6, <1>7, <1>8
<1>10. \A k \in Key : a <= k /\ k < b /\ now[k] # NoRow =>
          \E j \in 1 .. Len(new) : new[j].key = k
  BY <1>1, <1>3, <1>4, <1>6, <1>7
<1>11. Holds(new, a, b, now)
  BY <1>3, <1>6, <1>7, <1>9, <1>10 DEF Holds
<1> QED
  BY <1>5, <1>11 DEF m, cells, e, now

(* A leaf loses a row.                                                       *)
LEMMA HoldsRemoved ==
  ASSUME NEW a, NEW b, NEW rows \in Rows, NEW node, Holds(node.cells, a, b, rows),
         NEW key \in Key, a <= key, key < b, rows[key] # NoRow
  PROVE  Holds(RemoveAt(node.cells, CellIndex(node, key)), a, b, [rows EXCEPT ![key] = NoRow])
<1>0. /\ CellIndex(node, key) \in 1 .. Len(node.cells)
      /\ node.cells[CellIndex(node, key)].key = key
  <2>1. Has(node, key)
    BY LeafFinds
  <2> QED
    BY <2>1, LeafFinds
<1> DEFINE cells == node.cells
           m   == CellIndex(node, key)
           new == RemoveAt(cells, m)
           now == [rows EXCEPT ![key] = NoRow]
<1>1. m \in 1 .. Len(cells) /\ cells[m].key = key
  BY <1>0
<1>3. /\ cells \in Seq(Cells) /\ Len(cells) \in Nat
      /\ \A i \in 1 .. Len(cells) : /\ a <= cells[i].key /\ cells[i].key < b
                                    /\ rows[cells[i].key] = cells[i].len
                                    /\ cells[i].key \in Key /\ cells[i].len \in Lengths
                                    /\ cells[i].key \in Int
      /\ \A i, j \in 1 .. Len(cells) : i < j => cells[i].key < cells[j].key
      /\ \A k \in Key : a <= k /\ k < b /\ rows[k] # NoRow =>
           \E i \in 1 .. Len(cells) : cells[i].key = k
  <2>1. Holds(cells, a, b, rows)
    OBVIOUS
  <2> HIDE DEF cells, m, new, now
  <2>2. cells \in Seq(Cells) /\ Len(cells) \in Nat
    BY <2>1 DEF Holds
  <2>3. \A i \in 1 .. Len(cells) : cells[i].key \in Key /\ cells[i].len \in Lengths /\ cells[i].key \in Int
    BY <2>2, CellsOf
  <2> QED
    BY <2>1, <2>2, <2>3 DEF Holds
<1>4. \A k \in Key : now[k] = IF k = key THEN NoRow ELSE rows[k]
  BY DEF Rows
<1> HIDE DEF m, cells
<1>6. /\ new \in Seq(Cells) /\ Len(new) = Len(cells) - 1
      /\ \A j \in 1 .. (Len(cells) - 1) : new[j] = IF j < m THEN cells[j] ELSE cells[j + 1]
  <2>1. cells \in Seq(Cells) /\ m \in 1 .. Len(cells)
    BY <1>1, <1>3
  <2> QED
    BY <2>1, Removed
<1> HIDE DEF new, now
<1> DEFINE Old(j) == IF j < m THEN j ELSE j + 1
<1>7. ASSUME NEW j \in 1 .. Len(new)
      PROVE  Old(j) \in 1 .. Len(cells) /\ new[j] = cells[Old(j)] /\ Old(j) # m
  <2>1. j \in 1 .. (Len(cells) - 1) /\ j \in Int /\ m \in Int
    BY <1>1, <1>3, <1>6
  <2>2. CASE j < m
    BY <1>1, <1>3, <1>6, <2>1, <2>2
  <2>3. CASE ~(j < m)
    BY <1>1, <1>3, <1>6, <2>1, <2>3
  <2> QED
    BY <2>2, <2>3
<1>8. \A i, j \in 1 .. Len(new) : i < j => Old(i) < Old(j)
  BY <1>1, <1>3, <1>6
<1>9. \A i \in 1 .. Len(cells) : i # m => \E j \in 1 .. Len(new) : Old(j) = i
  <2>1. ASSUME NEW i \in 1 .. Len(cells), i < m PROVE \E j \in 1 .. Len(new) : Old(j) = i
    BY <1>1, <1>3, <1>6, <2>1
  <2>2. ASSUME NEW i \in 1 .. Len(cells), i > m PROVE \E j \in 1 .. Len(new) : Old(j) = i
    <3>1. i - 1 \in 1 .. Len(new) /\ Old(i - 1) = i
      BY <1>1, <1>3, <1>6, <2>2
    <3> QED
      BY <3>1
  <2> QED
    BY <1>1, <2>1, <2>2
<1>10. \A j \in 1 .. Len(cells) : j # m => cells[j].key # key
  BY <1>1, <1>3
<1> HIDE DEF Old
<1>11. \A j \in 1 .. Len(new) : /\ a <= new[j].key /\ new[j].key < b
                                /\ now[new[j].key] = new[j].len
  BY <1>3, <1>4, <1>7, <1>10
<1>12. \A i, j \in 1 .. Len(new) : i < j => new[i].key < new[j].key
  BY <1>3, <1>7, <1>8
<1>13. ASSUME NEW k \in Key, a <= k, k < b, now[k] # NoRow
       PROVE  \E j \in 1 .. Len(new) : new[j].key = k
  <2>1. k # key /\ rows[k] # NoRow
    BY <1>4, <1>13
  <2>2. PICK i \in 1 .. Len(cells) : cells[i].key = k
    BY <1>3, <1>13, <2>1
  <2>3. PICK j \in 1 .. Len(new) : Old(j) = i
    BY <1>1, <1>9, <2>1, <2>2
  <2> QED
    BY <1>7, <2>2, <2>3
<1>14. Holds(new, a, b, now)
  BY <1>6, <1>11, <1>12, <1>13 DEF Holds
<1> QED
  BY <1>14 DEF m, cells, now, new

(* Cells can be cut anywhere: at one of them, or between two.                *)
LEMMA HoldsCut ==
  ASSUME NEW cells, NEW a \in Ends, NEW b \in Ends, NEW rows, Holds(cells, a, b, rows),
         NEW m \in 0 .. (Len(cells) - 1)
  PROVE  LET s == cells[m + 1].key
         IN  /\ s \in Key /\ a <= s /\ s < b
             /\ Holds(SubSeq(cells, 1, m), a, s, rows)
             /\ Holds(SubSeq(cells, m + 1, Len(cells)), s, b, rows)
<1> DEFINE s == cells[m + 1].key
           left == SubSeq(cells, 1, m)
           right == SubSeq(cells, m + 1, Len(cells))
<1>1. /\ cells \in Seq(Cells) /\ Len(cells) \in Nat
      /\ \A i \in 1 .. Len(cells) : /\ a <= cells[i].key /\ cells[i].key < b
                                    /\ rows[cells[i].key] = cells[i].len
                                    /\ cells[i].key \in Key /\ cells[i].len \in Lengths
                                    /\ cells[i].key \in Int
      /\ \A i, j \in 1 .. Len(cells) : i < j => cells[i].key < cells[j].key
      /\ \A k \in Key : a <= k /\ k < b /\ rows[k] # NoRow =>
           \E i \in 1 .. Len(cells) : cells[i].key = k
  BY HoldsParts
<1>2. /\ m \in 0 .. Len(cells) /\ m + 1 \in 1 .. Len(cells) /\ m \in Int
      /\ a \in Int /\ b \in Int
  BY <1>1, Sizes DEF Ends
<1>3. /\ left \in Seq(Cells) /\ Len(left) = m
      /\ \A j \in 1 .. m : left[j] = cells[j]
      /\ right \in Seq(Cells) /\ Len(right) = Len(cells) - m
      /\ \A j \in 1 .. (Len(cells) - m) : right[j] = cells[m + j]
  BY <1>1, <1>2, CutSeq
<1>4. s \in Key /\ a <= s /\ s < b /\ s \in Int
  BY <1>1, <1>2
<1>5. /\ \A j \in 1 .. m : j \in 1 .. Len(cells) /\ cells[j].key < s
      /\ \A j \in 1 .. (Len(cells) - m) : m + j \in 1 .. Len(cells) /\ s <= cells[m + j].key
  <2>1. ASSUME NEW j \in 1 .. (Len(cells) - m)
        PROVE  m + j \in 1 .. Len(cells) /\ s <= cells[m + j].key
    <3>1. m + j \in 1 .. Len(cells) /\ (j = 1 \/ m + 1 < m + j)
      BY <1>1, <1>2
    <3> QED
      BY <1>1, <1>2, <1>4, <3>1
  <2> QED
    BY <1>1, <1>2, <2>1
<1> HIDE DEF s, left, right
<1>6. Holds(left, a, s, rows)
  <2>1. \A k \in Key : a <= k /\ k < s /\ rows[k] # NoRow =>
           \E i \in 1 .. Len(left) : left[i].key = k
    <3> SUFFICES ASSUME NEW k \in Key, a <= k, k < s, rows[k] # NoRow
                 PROVE  \E i \in 1 .. m : left[i].key = k
      BY <1>3
    <3>2. k < b
      BY <1>2, <1>4, Sizes
    <3>3. PICK i \in 1 .. Len(cells) : cells[i].key = k
      BY <1>1, <3>2
    <3>4. i \in 1 .. m
      <4>1. CASE i > m
        <5>1. i - m \in 1 .. (Len(cells) - m) /\ m + (i - m) = i
          BY <1>1, <1>2, <4>1
        <5>2. s <= cells[i].key
          BY <1>5, <5>1
        <5> QED
          BY <1>4, <3>3, <5>2, Sizes
      <4> QED
        BY <1>1, <1>2, <4>1
    <3> QED
      BY <1>3, <3>3, <3>4
  <2>2. \A i \in 1 .. m : /\ a <= left[i].key /\ left[i].key < s
                          /\ rows[left[i].key] = left[i].len
    BY <1>1, <1>3, <1>5
  <2>3. \A i, j \in 1 .. m : i < j => left[i].key < left[j].key
    BY <1>1, <1>3, <1>5
  <2> QED
    BY <1>3, <2>1, <2>2, <2>3 DEF Holds
<1>7. Holds(right, s, b, rows)
  <2> DEFINE n == Len(cells) - m
  <2>1. \A k \in Key : s <= k /\ k < b /\ rows[k] # NoRow =>
           \E i \in 1 .. Len(right) : right[i].key = k
    <3> SUFFICES ASSUME NEW k \in Key, s <= k, k < b, rows[k] # NoRow
                 PROVE  \E i \in 1 .. n : right[i].key = k
      BY <1>3
    <3>1. a <= k
      BY <1>2, <1>4, Sizes
    <3>2. PICK i \in 1 .. Len(cells) : cells[i].key = k
      BY <1>1, <3>1
    <3>3. ~(i \in 1 .. m)
      BY <1>4, <1>5, <3>2, Sizes
    <3>4. i - m \in 1 .. n /\ m + (i - m) = i
      BY <1>1, <1>2, <3>3
    <3> QED
      BY <1>3, <3>2, <3>4
  <2>2. ASSUME NEW i \in 1 .. n
        PROVE  s <= right[i].key /\ right[i].key < b /\ rows[right[i].key] = right[i].len
    <3>1. m + i \in 1 .. Len(cells) /\ s <= cells[m + i].key /\ right[i] = cells[m + i]
      BY <1>3, <1>5
    <3> QED
      BY <1>1, <3>1
  <2>3. ASSUME NEW i \in 1 .. n, NEW j \in 1 .. n, i < j
        PROVE  right[i].key < right[j].key
    <3>0. m + i \in 1 .. Len(cells) /\ m + j \in 1 .. Len(cells) /\ m + i < m + j
      BY <1>2, <1>3, <2>3
    <3>1. /\ m + i \in 1 .. Len(cells) /\ m + j \in 1 .. Len(cells) /\ m + i < m + j
          /\ right[i] = cells[m + i] /\ right[j] = cells[m + j]
      BY <1>3, <1>5, <3>0
    <3> QED
      BY <1>1, <3>1
  <2> QED
    BY <1>3, <2>1, <2>2, <2>3 DEF Holds
<1> QED
  BY <1>4, <1>6, <1>7 DEF s, left, right

(* The cells of neighbours follow one another.                               *)
LEMMA HoldsJoined ==
  ASSUME NEW a \in Ends, NEW s \in Ends, NEW b \in Ends, a <= s, s <= b, NEW rows,
         NEW low, NEW high, Holds(low, a, s, rows), Holds(high, s, b, rows)
  PROVE  Holds(low \o high, a, b, rows)
<1> DEFINE all == low \o high
<1>0. a \in Int /\ b \in Int /\ s \in Int
  BY Sizes DEF Ends
<1>1. /\ low \in Seq(Cells) /\ Len(low) \in Nat
      /\ \A i \in 1 .. Len(low) : /\ a <= low[i].key /\ low[i].key < s
                                  /\ rows[low[i].key] = low[i].len
                                  /\ low[i].key \in Key /\ low[i].len \in Lengths
                                  /\ low[i].key \in Int
      /\ \A i, j \in 1 .. Len(low) : i < j => low[i].key < low[j].key
      /\ \A k \in Key : a <= k /\ k < s /\ rows[k] # NoRow =>
           \E i \in 1 .. Len(low) : low[i].key = k
  BY HoldsParts
<1>2. /\ high \in Seq(Cells) /\ Len(high) \in Nat
      /\ \A i \in 1 .. Len(high) : /\ s <= high[i].key /\ high[i].key < b
                                   /\ rows[high[i].key] = high[i].len
                                   /\ high[i].key \in Key /\ high[i].len \in Lengths
                                   /\ high[i].key \in Int
      /\ \A i, j \in 1 .. Len(high) : i < j => high[i].key < high[j].key
      /\ \A k \in Key : s <= k /\ k < b /\ rows[k] # NoRow =>
           \E i \in 1 .. Len(high) : high[i].key = k
  BY HoldsParts
<1>3. /\ all \in Seq(Cells) /\ Len(all) = Len(low) + Len(high)
      /\ \A i \in 1 .. (Len(low) + Len(high)) :
           all[i] = IF i <= Len(low) THEN low[i] ELSE high[i - Len(low)]
  BY <1>1, <1>2, ConcatProperties
<1> HIDE DEF all
<1>4. ASSUME NEW i \in 1 .. Len(all)
      PROVE  \/ i \in 1 .. Len(low) /\ all[i] = low[i]
             \/ i > Len(low) /\ i - Len(low) \in 1 .. Len(high) /\ all[i] = high[i - Len(low)]
  BY <1>1, <1>2, <1>3
<1>5. ASSUME NEW i \in 1 .. Len(all)
      PROVE  a <= all[i].key /\ all[i].key < b /\ rows[all[i].key] = all[i].len
  <2>1. CASE i \in 1 .. Len(low) /\ all[i] = low[i]
    BY <1>0, <1>1, <2>1
  <2>2. ASSUME NEW j \in 1 .. Len(high), all[i] = high[j]
        PROVE  a <= all[i].key /\ all[i].key < b /\ rows[all[i].key] = all[i].len
    BY <1>0, <1>2, <2>2
  <2> QED
    BY <1>4, <2>1, <2>2
<1>6. ASSUME NEW i \in 1 .. Len(all), NEW j \in 1 .. Len(all), i < j
      PROVE  all[i].key < all[j].key
  <2>1. CASE j \in 1 .. Len(low)
    <3>1. i \in 1 .. Len(low) /\ all[i] = low[i] /\ all[j] = low[j]
      BY <1>1, <1>3, <1>6, <2>1
    <3> QED
      BY <1>1, <1>6, <2>1, <3>1
  <2>2. CASE i \in 1 .. Len(low) /\ j > Len(low)
    <3>1. j - Len(low) \in 1 .. Len(high) /\ all[i] = low[i] /\ all[j] = high[j - Len(low)]
      BY <1>1, <1>2, <1>3, <2>2
    <3> QED
      BY <1>0, <1>1, <1>2, <2>2, <3>1
  <2>3. CASE i > Len(low)
    <3>1. /\ i - Len(low) \in 1 .. Len(high) /\ j - Len(low) \in 1 .. Len(high)
          /\ i - Len(low) < j - Len(low)
          /\ all[i] = high[i - Len(low)] /\ all[j] = high[j - Len(low)]
      BY <1>1, <1>2, <1>3, <1>6, <2>3
    <3> QED
      BY <1>2, <3>1
  <2> QED
    BY <1>1, <1>2, <1>3, <2>1, <2>2, <2>3
<1>7. ASSUME NEW k \in Key, a <= k, k < b, rows[k] # NoRow
      PROVE  \E i \in 1 .. Len(all) : all[i].key = k
  <2>1. CASE k < s
    <3>1. PICK i \in 1 .. Len(low) : low[i].key = k
      BY <1>1, <1>7, <2>1
    <3>2. i \in 1 .. Len(all) /\ all[i] = low[i]
      BY <1>1, <1>2, <1>3
    <3> QED
      BY <3>1, <3>2
  <2>2. CASE s <= k
    <3>1. PICK i \in 1 .. Len(high) : high[i].key = k
      BY <1>2, <1>7, <2>2
    <3>2. i + Len(low) \in 1 .. Len(all) /\ all[i + Len(low)] = high[i]
      <4>1. /\ i + Len(low) \in 1 .. (Len(low) + Len(high)) /\ ~(i + Len(low) <= Len(low))
            /\ (i + Len(low)) - Len(low) = i
        BY <1>1, <1>2
      <4> QED
        BY <1>3, <4>1
    <3> QED
      BY <3>1, <3>2
  <2> QED
    BY <1>0, <2>1, <2>2, Sizes
<1> QED
  BY <1>3, <1>5, <1>6, <1>7 DEF Holds, all

(* A leaf keeps its rows when another key's row changes.                     *)
LEMMA HoldsElse ==
  ASSUME NEW cells, NEW a, NEW b, NEW rows \in Rows, Holds(cells, a, b, rows),
         NEW key \in Key, ~(a <= key /\ key < b), NEW row
  PROVE  Holds(cells, a, b, [rows EXCEPT ![key] = row])
<1>1. /\ cells \in Seq(Cells) /\ Len(cells) \in Nat
      /\ \A i \in 1 .. Len(cells) : /\ a <= cells[i].key /\ cells[i].key < b
                                    /\ rows[cells[i].key] = cells[i].len
                                    /\ cells[i].key \in Key
  BY HoldsParts
<1>2. \A k \in Key \ {key} : [rows EXCEPT ![key] = row][k] = rows[k]
  BY DEF Rows
<1>3. \A i \in 1 .. Len(cells) : cells[i].key # key
  BY <1>1
<1>4. \A k \in Key : a <= k /\ k < b => k # key
  OBVIOUS
<1> QED
  BY <1>1, <1>2, <1>3, <1>4 DEF Holds

-----------------------------------------------------------------------------
(* The children of an internal node *)

(* The keys from a up to b are parted among the kids: kid i stands for those *)
(* from one separator up to the next.                                        *)
Parts(keys, kids, a, b, lo, hi) ==
  /\ keys \in Seq(Key) /\ kids \in Seq(PageNo) /\ Len(kids) = Len(keys) + 1
  /\ \A i \in 1 .. Len(kids) : /\ lo[kids[i]] = IF i = 1 THEN a ELSE keys[i - 1]
                               /\ hi[kids[i]] = IF i = Len(kids) THEN b ELSE keys[i]

Distinct(kids) == \A i, j \in 1 .. Len(kids) : kids[i] = kids[j] => i = j

LEMMA EndsTyped ==
  /\ Ends \subseteq Int /\ Key \subseteq Int /\ Key \subseteq Ends
  /\ 1 \in Ends /\ MaxKey + 1 \in Ends
BY Sizes DEF Ends

LEMMA PartsTyped ==
  ASSUME NEW keys, NEW kids, NEW a, NEW b, NEW lo, NEW hi, Parts(keys, kids, a, b, lo, hi)
  PROVE  /\ keys \in Seq(Key) /\ Len(keys) \in Nat
         /\ kids \in Seq(PageNo) /\ Len(kids) \in Nat /\ Len(kids) = Len(keys) + 1
         /\ \A i \in 1 .. Len(keys) : keys[i] \in Key /\ keys[i] \in Int
         /\ \A i \in 1 .. Len(kids) : kids[i] \in PageNo
BY Sizes DEF Parts

(* Where ChildIndex sends a key.                                             *)
LEMMA ChildPlace ==
  ASSUME NEW a \in Ends, NEW b \in Ends, NEW lo, NEW hi, NEW node,
         Parts(node.keys, node.kids, a, b, lo, hi),
         \A i \in 1 .. Len(node.kids) : lo[node.kids[i]] <= hi[node.kids[i]],
         NEW key \in Key
  PROVE  LET i == ChildIndex(node, key)
         IN  /\ i \in 1 .. Len(node.kids)
             /\ a <= key => lo[node.kids[i]] <= key
             /\ key < b => key < hi[node.kids[i]]
<1> DEFINE keys == node.keys
           kids == node.kids
           B    == {i \in DOMAIN keys : keys[i] <= key}
<1>1. /\ keys \in Seq(Key) /\ Len(keys) \in Nat /\ DOMAIN keys = 1 .. Len(keys)
      /\ Len(kids) \in Nat /\ Len(kids) = Len(keys) + 1
      /\ \A i \in 1 .. Len(keys) : keys[i] \in Int
      /\ key \in Int
  BY PartsTyped, Sizes
<1>2. \A i \in 1 .. Len(kids) : /\ lo[kids[i]] = IF i = 1 THEN a ELSE keys[i - 1]
                                /\ hi[kids[i]] = IF i = Len(kids) THEN b ELSE keys[i]
  BY DEF Parts
<1>3. \A i \in 2 .. Len(keys) : keys[i - 1] <= keys[i]
  <2> TAKE i \in 2 .. Len(keys)
  <2>1. i \in 1 .. Len(kids) /\ i # 1 /\ i # Len(kids)
    BY <1>1
  <2>2. lo[kids[i]] = keys[i - 1] /\ hi[kids[i]] = keys[i]
    BY <1>2, <2>1
  <2> QED
    BY <2>1, <2>2
<1>4. \A i \in B : i # 1 => i - 1 \in B
  BY <1>1, <1>3
<1>5. \A i \in B : \A j \in 1 .. i : j \in B
  <2> SUFFICES ASSUME NEW i \in B PROVE \A j \in 1 .. i : j \in B
    OBVIOUS
  <2> DEFINE D == {d \in Nat : d < i => i - d \in B}
  <2>1. i \in Nat \ {0} /\ i - 1 \in Nat
    BY <1>1
  <2>2. 0 \in D
    BY <2>1
  <2>3. ASSUME NEW d \in 1 .. (i - 1), d - 1 \in D PROVE d \in D
    <3>1. i - (d - 1) \in B /\ i - (d - 1) # 1 /\ (i - (d - 1)) - 1 = i - d
      BY <2>1, <2>3
    <3>2. i - d \in B
      BY <1>4, <3>1
    <3> QED
      BY <2>1, <3>2
  <2> HIDE DEF D
  <2>4. \A d \in 0 .. (i - 1) : d \in D
    BY <2>1, <2>2, <2>3, UpTo
  <2> USE DEF D
  <2>5. ASSUME NEW j \in 1 .. i PROVE j \in B
    <3>1. i - j \in 0 .. (i - 1) /\ i - (i - j) = j /\ i - j < i
      BY <2>1
    <3> QED
      BY <2>4, <3>1
  <2> QED
    BY <2>5
<1>6. B \in SUBSET (1 .. Len(keys))
  BY <1>1
<1>7. \A i \in 1 .. Len(keys) : i \in B <=> keys[i] <= key
  BY <1>1
<1>8. ChildIndex(node, key) = Cardinality(B) + 1
  BY DEF ChildIndex
<1> HIDE DEF B
<1>9. PICK m \in 0 .. Len(keys) : B = 1 .. m
  BY <1>1, <1>5, <1>6, Initial
<1>10. \A i \in 1 .. Len(keys) : i \in B <=> i <= m
  BY <1>1, <1>9
<1>11. Cardinality(B) = m
  BY <1>1, <1>6, <1>10, CountBelow
<1> HIDE DEF keys, kids
<1>12. m \in Nat /\ m + 1 \in 1 .. Len(kids)
  BY <1>1
<1>13. a <= key => lo[kids[m + 1]] <= key
  <2>1. CASE m = 0
    BY <1>2, <1>12, <2>1
  <2>2. CASE m # 0
    <3>1. m \in 1 .. Len(keys) /\ m + 1 # 1 /\ (m + 1) - 1 = m
      BY <1>12, <2>2
    <3> QED
      BY <1>2, <1>7, <1>10, <1>12, <3>1
  <2> QED
    BY <2>1, <2>2
<1>14. key < b => key < hi[kids[m + 1]]
  <2>1. CASE m = Len(keys)
    BY <1>1, <1>2, <1>12, <2>1
  <2>2. CASE m # Len(keys)
    <3>1. m + 1 \in 1 .. Len(keys) /\ m + 1 # Len(kids) /\ ~(m + 1 <= m)
      BY <1>1, <1>12, <2>2
    <3>2. ~(keys[m + 1] <= key) /\ hi[kids[m + 1]] = keys[m + 1]
      BY <1>2, <1>7, <1>10, <1>12, <3>1
    <3> QED
      BY <1>1, <3>1, <3>2
  <2> QED
    BY <2>1, <2>2
<1> QED
  BY <1>8, <1>11, <1>12, <1>13, <1>14 DEF keys, kids

(* A parting stands as long as the ends of its kids do.                      *)
LEMMA PartsElse ==
  ASSUME NEW keys, NEW kids, NEW a, NEW b, NEW lo, NEW hi, Parts(keys, kids, a, b, lo, hi),
         NEW lo2, NEW hi2,
         \A i \in 1 .. Len(kids) : lo2[kids[i]] = lo[kids[i]] /\ hi2[kids[i]] = hi[kids[i]]
  PROVE  Parts(keys, kids, a, b, lo2, hi2)
BY DEF Parts

(* Children can be parted at a separator.                                    *)
LEMMA PartsCut ==
  ASSUME NEW keys, NEW kids, NEW a, NEW b, NEW lo, NEW hi, Parts(keys, kids, a, b, lo, hi),
         NEW m \in 1 .. Len(keys)
  PROVE  /\ keys[m] \in Key
         /\ Parts(SubSeq(keys, 1, m - 1), SubSeq(kids, 1, m), a, keys[m], lo, hi)
         /\ Parts(SubSeq(keys, m + 1, Len(keys)), SubSeq(kids, m + 1, Len(kids)), keys[m], b, lo, hi)
<1> DEFINE k1 == SubSeq(keys, 1, m - 1)
           c1 == SubSeq(kids, 1, m)
           k2 == SubSeq(keys, m + 1, Len(keys))
           c2 == SubSeq(kids, m + 1, Len(kids))
<1>1. /\ keys \in Seq(Key) /\ Len(keys) \in Nat
      /\ kids \in Seq(PageNo) /\ Len(kids) \in Nat /\ Len(kids) = Len(keys) + 1
      /\ \A i \in 1 .. Len(keys) : keys[i] \in Key
  BY PartsTyped
<1>2. \A i \in 1 .. Len(kids) : /\ lo[kids[i]] = IF i = 1 THEN a ELSE keys[i - 1]
                                /\ hi[kids[i]] = IF i = Len(kids) THEN b ELSE keys[i]
  BY DEF Parts
<1>3. m \in Int /\ m - 1 \in 0 .. Len(keys) /\ m \in 0 .. Len(keys) /\ m \in 0 .. Len(kids)
  BY <1>1
<1>4. /\ k1 \in Seq(Key) /\ Len(k1) = m - 1 /\ \A j \in 1 .. (m - 1) : k1[j] = keys[j]
      /\ c1 \in Seq(PageNo) /\ Len(c1) = m /\ \A j \in 1 .. m : c1[j] = kids[j]
  BY <1>1, <1>3, CutSeq
<1>5. /\ k2 \in Seq(Key) /\ Len(k2) = Len(keys) - m
      /\ \A j \in 1 .. (Len(keys) - m) : k2[j] = keys[m + j]
      /\ c2 \in Seq(PageNo) /\ Len(c2) = Len(kids) - m
      /\ \A j \in 1 .. (Len(kids) - m) : c2[j] = kids[m + j]
  BY <1>1, <1>3, CutSeq
<1> HIDE DEF k1, c1, k2, c2
<1>6. Parts(k1, c1, a, keys[m], lo, hi)
  <2>1. ASSUME NEW i \in 1 .. Len(c1)
        PROVE  /\ lo[c1[i]] = IF i = 1 THEN a ELSE k1[i - 1]
               /\ hi[c1[i]] = IF i = Len(c1) THEN keys[m] ELSE k1[i]
    <3>1. /\ i \in 1 .. Len(kids) /\ i # Len(kids) /\ c1[i] = kids[i] /\ Len(c1) = m
          /\ i # 1 => i - 1 \in 1 .. (m - 1)
          /\ i # m => i \in 1 .. (m - 1)
      BY <1>1, <1>3, <1>4
    <3> QED
      BY <1>2, <1>4, <3>1
  <2> QED
    BY <1>3, <1>4, <2>1 DEF Parts
<1>7. Parts(k2, c2, keys[m], b, lo, hi)
  <2>1. ASSUME NEW i \in 1 .. Len(c2)
        PROVE  /\ lo[c2[i]] = IF i = 1 THEN keys[m] ELSE k2[i - 1]
               /\ hi[c2[i]] = IF i = Len(c2) THEN b ELSE k2[i]
    <3>1. /\ m + i \in 1 .. Len(kids) /\ m + i # 1 /\ c2[i] = kids[m + i]
          /\ (m + i = Len(kids)) <=> (i = Len(c2))
          /\ i # 1 => i - 1 \in 1 .. (Len(keys) - m) /\ m + (i - 1) = (m + i) - 1
          /\ i = 1 => (m + i) - 1 = m
          /\ i # Len(c2) => i \in 1 .. (Len(keys) - m)
      BY <1>1, <1>3, <1>5
    <3>2. lo[c2[i]] = keys[(m + i) - 1]
      BY <1>2, <3>1
    <3>3. hi[c2[i]] = IF i = Len(c2) THEN b ELSE keys[m + i]
      BY <1>2, <3>1
    <3>4. i # 1 => k2[i - 1] = keys[(m + i) - 1]
      BY <1>5, <3>1
    <3>5. i # Len(c2) => k2[i] = keys[m + i]
      BY <1>5, <3>1
    <3> QED
      BY <3>1, <3>2, <3>3, <3>4, <3>5
  <2> QED
    BY <1>1, <1>3, <1>5, <2>1 DEF Parts
<1> QED
  BY <1>1, <1>6, <1>7 DEF k1, c1, k2, c2

(* Neighbours with the separator between them have the children of both.     *)
LEMMA PartsJoined ==
  ASSUME NEW k1, NEW c1, NEW a, NEW s \in Key, NEW lo, NEW hi, Parts(k1, c1, a, s, lo, hi),
         NEW k2, NEW c2, NEW b, Parts(k2, c2, s, b, lo, hi)
  PROVE  Parts(k1 \o <<s>> \o k2, c1 \o c2, a, b, lo, hi)
<1> DEFINE ks == k1 \o <<s>>
           keys == ks \o k2
           kids == c1 \o c2
<1>1. /\ k1 \in Seq(Key) /\ Len(k1) \in Nat
      /\ c1 \in Seq(PageNo) /\ Len(c1) \in Nat /\ Len(c1) = Len(k1) + 1
      /\ \A i \in 1 .. Len(c1) : /\ lo[c1[i]] = IF i = 1 THEN a ELSE k1[i - 1]
                                 /\ hi[c1[i]] = IF i = Len(c1) THEN s ELSE k1[i]
  BY PartsTyped DEF Parts
<1>2. /\ k2 \in Seq(Key) /\ Len(k2) \in Nat
      /\ c2 \in Seq(PageNo) /\ Len(c2) \in Nat /\ Len(c2) = Len(k2) + 1
      /\ \A i \in 1 .. Len(c2) : /\ lo[c2[i]] = IF i = 1 THEN s ELSE k2[i - 1]
                                 /\ hi[c2[i]] = IF i = Len(c2) THEN b ELSE k2[i]
  BY PartsTyped DEF Parts
<1>3. /\ ks \in Seq(Key) /\ Len(ks) = Len(c1)
      /\ \A i \in 1 .. Len(c1) : ks[i] = IF i = Len(c1) THEN s ELSE k1[i]
  BY <1>1
<1>10. /\ ks \in Seq(Key) /\ k2 \in Seq(Key) /\ c1 \in Seq(PageNo) /\ c2 \in Seq(PageNo)
       /\ Len(ks) = Len(c1)
  BY <1>1, <1>2, <1>3
<1> HIDE DEF ks
<1>4. /\ keys \in Seq(Key) /\ Len(keys) = Len(c1) + Len(k2)
      /\ \A i \in 1 .. (Len(c1) + Len(k2)) :
           keys[i] = IF i <= Len(c1) THEN ks[i] ELSE k2[i - Len(c1)]
  <2>1. /\ keys \in Seq(Key) /\ Len(keys) = Len(ks) + Len(k2)
        /\ \A i \in 1 .. (Len(ks) + Len(k2)) :
             keys[i] = IF i <= Len(ks) THEN ks[i] ELSE k2[i - Len(ks)]
    BY <1>10, ConcatProperties
  <2> QED
    BY <1>10, <2>1
<1>5. /\ kids \in Seq(PageNo) /\ Len(kids) = Len(c1) + Len(c2)
      /\ \A i \in 1 .. (Len(c1) + Len(c2)) :
           kids[i] = IF i <= Len(c1) THEN c1[i] ELSE c2[i - Len(c1)]
  BY <1>10, ConcatProperties
<1> HIDE DEF keys, kids
<1>6. ASSUME NEW i \in 1 .. Len(kids)
      PROVE  /\ lo[kids[i]] = IF i = 1 THEN a ELSE keys[i - 1]
             /\ hi[kids[i]] = IF i = Len(kids) THEN b ELSE keys[i]
  <2>1. CASE i <= Len(c1)
    <3>1. /\ i \in 1 .. Len(c1) /\ i \in 1 .. (Len(c1) + Len(k2)) /\ i # Len(kids)
          /\ i # 1 => i - 1 \in 1 .. Len(c1) /\ i - 1 \in 1 .. (Len(c1) + Len(k2)) /\ i - 1 # Len(c1)
      BY <1>1, <1>2, <1>5, <2>1
    <3>2. kids[i] = c1[i] /\ keys[i] = IF i = Len(c1) THEN s ELSE k1[i]
      BY <1>3, <1>4, <1>5, <2>1, <3>1, <1>2
    <3>3. i # 1 => keys[i - 1] = k1[i - 1]
      BY <1>1, <1>3, <1>4, <3>1
    <3> QED
      BY <1>1, <3>1, <3>2, <3>3
  <2>2. CASE i > Len(c1)
    <3> DEFINE j == i - Len(c1)
    <3>0. /\ Len(c1) \in Nat \ {0} /\ Len(c2) \in Nat /\ Len(k2) \in Nat /\ Len(c2) = Len(k2) + 1
          /\ Len(kids) = Len(c1) + Len(c2) /\ i \in 1 .. (Len(c1) + Len(c2))
      BY <1>1, <1>2, <1>5
    <3>1. /\ j \in 1 .. Len(c2) /\ i # 1 /\ (i = Len(kids) <=> j = Len(c2))
          /\ i - 1 \in 1 .. (Len(c1) + Len(k2))
          /\ j = 1 => i - 1 = Len(c1) /\ Len(c1) \in 1 .. Len(c1)
          /\ j # 1 => ~(i - 1 <= Len(c1)) /\ (i - 1) - Len(c1) = j - 1
          /\ j # Len(c2) => i \in 1 .. (Len(c1) + Len(k2))
      BY <2>2, <3>0
    <3>2. kids[i] = c2[j]
      BY <1>1, <1>2, <1>5, <2>2
    <3>3. keys[i - 1] = IF j = 1 THEN s ELSE k2[j - 1]
      <4>1. CASE j = 1
        BY <1>3, <1>4, <3>1, <4>1
      <4>2. CASE j # 1
        BY <1>4, <3>1, <4>2
      <4> QED
        BY <4>1, <4>2
    <3>4. j # Len(c2) => keys[i] = k2[j]
      BY <1>1, <1>4, <2>2, <3>1
    <3> HIDE DEF j
    <3>5. lo[kids[i]] = keys[i - 1]
      BY <1>2, <3>1, <3>2, <3>3
    <3>6. hi[kids[i]] = IF j = Len(c2) THEN b ELSE keys[i]
      BY <1>2, <3>1, <3>2, <3>4
    <3> QED
      BY <3>1, <3>5, <3>6
  <2> QED
    BY <1>1, <1>5, <2>1, <2>2
<1>7. Parts(keys, kids, a, b, lo, hi)
  BY <1>1, <1>2, <1>4, <1>5, <1>6 DEF Parts
<1> QED
  BY <1>7 DEF keys, kids, ks

(* Kid j is cut at s, and page p stands for what is above s.                 *)
LEMMA PartsTaken ==
  ASSUME NEW keys, NEW kids, NEW a, NEW b, NEW lo \in [PageNo -> Ends], NEW hi \in [PageNo -> Ends],
         Parts(keys, kids, a, b, lo, hi), Distinct(kids),
         NEW j \in 1 .. Len(kids), NEW s \in Key,
         NEW p \in PageNo, \A i \in 1 .. Len(kids) : kids[i] # p
  PROVE  /\ Parts(InsertAt(keys, j, s), InsertAt(kids, j + 1, p), a, b,
                  [lo EXCEPT ![p] = s], [hi EXCEPT ![p] = hi[kids[j]], ![kids[j]] = s])
         /\ Distinct(InsertAt(kids, j + 1, p))
<1> DEFINE ks == InsertAt(keys, j, s)
           j1 == j + 1
           cs == InsertAt(kids, j1, p)
           lo2 == [lo EXCEPT ![p] = s]
           hi2 == [hi EXCEPT ![p] = hi[kids[j]], ![kids[j]] = s]
<1>1. /\ keys \in Seq(Key) /\ Len(keys) \in Nat
      /\ kids \in Seq(PageNo) /\ Len(kids) \in Nat /\ Len(kids) = Len(keys) + 1
      /\ \A i \in 1 .. Len(kids) : kids[i] \in PageNo
  BY PartsTyped
<1>0. keys \in Seq(Key) /\ kids \in Seq(PageNo)
  BY <1>1
<1>2. \A i \in 1 .. Len(kids) : /\ lo[kids[i]] = IF i = 1 THEN a ELSE keys[i - 1]
                                /\ hi[kids[i]] = IF i = Len(kids) THEN b ELSE keys[i]
  BY DEF Parts
<1>3. /\ j \in 1 .. (Len(keys) + 1) /\ j1 \in 1 .. (Len(kids) + 1) /\ j \in Int /\ j1 = j + 1
  BY <1>1
<1> HIDE DEF j1
<1>4. /\ ks \in Seq(Key) /\ Len(ks) = Len(keys) + 1
      /\ \A i \in 1 .. (Len(keys) + 1) : ks[i] = IF i < j THEN keys[i] ELSE IF i = j THEN s ELSE keys[i - 1]
  BY <1>0, <1>3, Inserted
<1> HIDE DEF ks
<1>5. /\ cs \in Seq(PageNo) /\ Len(cs) = Len(kids) + 1
      /\ \A i \in 1 .. (Len(kids) + 1) :
           cs[i] = IF i < j1 THEN kids[i] ELSE IF i = j1 THEN p ELSE kids[i - 1]
  BY <1>0, <1>3, Inserted
<1>6. /\ \A i \in 1 .. Len(kids) : lo2[kids[i]] = lo[kids[i]]
      /\ \A i \in 1 .. Len(kids) : hi2[kids[i]] = IF i = j THEN s ELSE hi[kids[i]]
      /\ lo2[p] = s /\ hi2[p] = hi[kids[j]]
  BY <1>1 DEF Distinct
<1> HIDE DEF cs, lo2, hi2
<1>7. ASSUME NEW i \in 1 .. Len(cs)
      PROVE  /\ lo2[cs[i]] = IF i = 1 THEN a ELSE ks[i - 1]
             /\ hi2[cs[i]] = IF i = Len(cs) THEN b ELSE ks[i]
  <2>1. CASE i < j
    <3>1. /\ i \in 1 .. Len(kids) /\ i # j /\ i < j1 /\ i \in 1 .. (Len(kids) + 1) /\ i # Len(kids)
          /\ i # Len(cs) /\ i \in 1 .. (Len(keys) + 1)
          /\ i # 1 => i - 1 \in 1 .. (Len(keys) + 1) /\ i - 1 < j
      BY <1>1, <1>3, <1>5, <2>1
    <3>2. cs[i] = kids[i] /\ ks[i] = keys[i] /\ (i # 1 => ks[i - 1] = keys[i - 1])
      BY <1>4, <1>5, <2>1, <3>1
    <3>3. lo2[kids[i]] = lo[kids[i]] /\ hi2[kids[i]] = hi[kids[i]]
      BY <1>6, <3>1
    <3> QED
      BY <1>2, <3>1, <3>2, <3>3
  <2>2. CASE i = j
    <3>1. /\ i \in 1 .. Len(kids) /\ i < j1 /\ i \in 1 .. (Len(kids) + 1)
          /\ i # Len(cs) /\ i \in 1 .. (Len(keys) + 1)
          /\ i # 1 => i - 1 \in 1 .. (Len(keys) + 1) /\ i - 1 < j
      BY <1>1, <1>3, <1>5, <2>2
    <3>2. cs[i] = kids[i] /\ ks[i] = s /\ (i # 1 => ks[i - 1] = keys[i - 1])
      BY <1>4, <1>5, <2>2, <3>1
    <3>3. lo2[kids[i]] = lo[kids[i]] /\ hi2[kids[i]] = s
      BY <1>6, <2>2, <3>1
    <3> QED
      BY <1>2, <3>1, <3>2, <3>3
  <2>3. CASE i = j1
    <3>1. /\ i \in 1 .. (Len(kids) + 1) /\ i # 1 /\ i - 1 = j /\ ~(i < j1) /\ ~(i < j) /\ i # j
          /\ j \in 1 .. (Len(keys) + 1) /\ (i = Len(cs) <=> j = Len(kids))
          /\ i # Len(cs) => i \in 1 .. (Len(keys) + 1)
      BY <1>1, <1>3, <1>5, <2>3
    <3>2. cs[i] = p /\ lo2[p] = s /\ hi2[p] = hi[kids[j]]
      BY <1>5, <1>6, <2>3, <3>1
    <3>3. ks[i - 1] = s
      <4>1. ks[j] = s
        BY <1>3, <1>4
      <4> QED
        BY <3>1, <4>1
    <3>4. i # Len(cs) => ks[i] = keys[j]
      BY <1>4, <3>1
    <3>5. hi[kids[j]] = IF j = Len(kids) THEN b ELSE keys[j]
      BY <1>2
    <3> QED
      BY <3>1, <3>2, <3>3, <3>4, <3>5
  <2>4. CASE i > j1
    <3> DEFINE h == i - 1
    <3>1. /\ i \in 1 .. (Len(kids) + 1) /\ i # 1 /\ ~(i < j1) /\ i # j1 /\ h \in 1 .. Len(kids)
          /\ h # 1 /\ h # j /\ h > j /\ h \in 1 .. (Len(keys) + 1)
          /\ (i = Len(cs) <=> h = Len(kids))
          /\ i # Len(cs) => i \in 1 .. (Len(keys) + 1) /\ ~(i < j) /\ i # j
      BY <1>1, <1>3, <1>5, <2>4
    <3>2. cs[i] = kids[h]
      BY <1>5, <3>1
    <3>3. ks[h] = keys[h - 1]
      BY <1>3, <1>4, <3>1
    <3>4. i # Len(cs) => ks[i] = keys[h]
      BY <1>4, <3>1
    <3> HIDE DEF h
    <3>5. lo2[cs[i]] = keys[h - 1] /\ hi2[cs[i]] = IF h = Len(kids) THEN b ELSE keys[h]
      BY <1>2, <1>6, <3>1, <3>2
    <3> QED
      BY <3>1, <3>3, <3>4, <3>5 DEF h
  <2> QED
    BY <1>1, <1>3, <1>5, <2>1, <2>2, <2>3, <2>4
<1>8. Parts(ks, cs, a, b, lo2, hi2)
  BY <1>1, <1>4, <1>5, <1>7 DEF Parts
<1>9. ASSUME NEW h \in 1 .. Len(cs), NEW i \in 1 .. Len(cs), cs[h] = cs[i]
      PROVE  h = i
  <2>1. \A d \in 1 .. Len(cs) : \/ d = j1 /\ cs[d] = p
                                \/ d < j1 /\ d \in 1 .. Len(kids) /\ cs[d] = kids[d]
                                \/ d > j1 /\ d - 1 \in 1 .. Len(kids) /\ cs[d] = kids[d - 1]
    BY <1>1, <1>3, <1>5
  <2>0. h \in Int /\ i \in Int /\ j1 \in Int
    BY <1>3
  <2>2. \A d, e \in 1 .. Len(kids) : kids[d] = kids[e] => d = e
    BY DEF Distinct
  <2>3. CASE h = j1 \/ i = j1
    BY <1>9, <2>0, <2>1, <2>3
  <2>4. CASE h # j1 /\ i # j1
    <3>1. CASE h < j1 /\ i < j1
      BY <1>9, <2>0, <2>1, <2>2, <3>1
    <3>2. CASE h > j1 /\ i > j1
      <4>1. h - 1 = i - 1
        BY <1>9, <2>0, <2>1, <2>2, <3>2
      <4> QED
        BY <4>1
    <3>3. CASE h < j1 /\ i > j1
      <4>1. h = i - 1
        BY <1>9, <2>0, <2>1, <2>2, <3>3
      <4> QED
        BY <1>3, <3>3, <4>1
    <3>4. CASE h > j1 /\ i < j1
      <4>1. h - 1 = i
        BY <1>9, <2>0, <2>1, <2>2, <3>4
      <4> QED
        BY <1>3, <3>4, <4>1
    <3> QED
      BY <1>3, <2>4, <3>1, <3>2, <3>3, <3>4
  <2> QED
    BY <2>3, <2>4
<1> QED
  BY <1>8, <1>9 DEF ks, cs, lo2, hi2, j1, Distinct

(* Kid j takes in what its neighbour to the right stood for.                 *)
LEMMA PartsDropped ==
  ASSUME NEW keys, NEW kids, NEW a, NEW b, NEW lo \in [PageNo -> Ends], NEW hi \in [PageNo -> Ends],
         Parts(keys, kids, a, b, lo, hi), Distinct(kids),
         NEW j \in 1 .. Len(keys)
  PROVE  /\ Parts(RemoveAt(keys, j), RemoveAt(kids, j + 1), a, b,
                  lo, [hi EXCEPT ![kids[j]] = hi[kids[j + 1]]])
         /\ Distinct(RemoveAt(kids, j + 1))
         /\ hi[kids[j]] = keys[j] /\ lo[kids[j + 1]] = keys[j]
<1> DEFINE j1 == j + 1
           ks == RemoveAt(keys, j)
           cs == RemoveAt(kids, j1)
           hi2 == [hi EXCEPT ![kids[j]] = hi[kids[j1]]]
<1>1. /\ keys \in Seq(Key) /\ Len(keys) \in Nat
      /\ kids \in Seq(PageNo) /\ Len(kids) \in Nat /\ Len(kids) = Len(keys) + 1
      /\ \A i \in 1 .. Len(kids) : kids[i] \in PageNo
  BY PartsTyped
<1>2. \A i \in 1 .. Len(kids) : /\ lo[kids[i]] = IF i = 1 THEN a ELSE keys[i - 1]
                                /\ hi[kids[i]] = IF i = Len(kids) THEN b ELSE keys[i]
  BY DEF Parts
<1>3. /\ j1 \in 1 .. Len(kids) /\ j \in Int /\ j1 = j + 1 /\ j1 # 1 /\ j1 - 1 = j
      /\ j \in 1 .. Len(kids) /\ j # Len(kids)
  BY <1>1
<1>4. hi[kids[j]] = keys[j] /\ lo[kids[j1]] = keys[j]
  BY <1>2, <1>3
<1>0. keys \in Seq(Key) /\ kids \in Seq(PageNo)
  BY <1>1
<1> HIDE DEF j1
<1>5. /\ ks \in Seq(Key) /\ Len(ks) = Len(keys) - 1
      /\ \A i \in 1 .. (Len(keys) - 1) : ks[i] = IF i < j THEN keys[i] ELSE keys[i + 1]
  BY <1>0, Removed
<1> HIDE DEF ks
<1>6. /\ cs \in Seq(PageNo) /\ Len(cs) = Len(kids) - 1
      /\ \A i \in 1 .. (Len(kids) - 1) : cs[i] = IF i < j1 THEN kids[i] ELSE kids[i + 1]
  BY <1>0, <1>3, Removed
<1> HIDE DEF cs
<1>7. \A i \in 1 .. Len(kids) : hi2[kids[i]] = IF i = j THEN hi[kids[j1]] ELSE hi[kids[i]]
  BY <1>1, <1>3 DEF Distinct
<1> HIDE DEF hi2
<1>8. ASSUME NEW i \in 1 .. Len(cs)
      PROVE  /\ lo[cs[i]] = IF i = 1 THEN a ELSE ks[i - 1]
             /\ hi2[cs[i]] = IF i = Len(cs) THEN b ELSE ks[i]
  <2>1. CASE i < j
    <3>1. /\ i \in 1 .. Len(kids) /\ i < j1 /\ i \in 1 .. (Len(kids) - 1) /\ i # j
          /\ i # Len(kids) /\ i # Len(cs) /\ i \in 1 .. (Len(keys) - 1)
          /\ i # 1 => i - 1 \in 1 .. (Len(keys) - 1) /\ i - 1 < j
      BY <1>1, <1>3, <1>6, <2>1
    <3>2. cs[i] = kids[i] /\ ks[i] = keys[i] /\ (i # 1 => ks[i - 1] = keys[i - 1])
      BY <1>5, <1>6, <2>1, <3>1
    <3>3. hi2[kids[i]] = hi[kids[i]]
      BY <1>7, <3>1
    <3> QED
      BY <1>2, <3>1, <3>2, <3>3
  <2>2. CASE i = j
    <3>1. /\ i \in 1 .. Len(kids) /\ i < j1 /\ i \in 1 .. (Len(kids) - 1)
          /\ (i = Len(cs) <=> j1 = Len(kids))
          /\ i # Len(cs) => i \in 1 .. (Len(keys) - 1) /\ ~(i < j) /\ i + 1 = j1
          /\ i # 1 => i - 1 \in 1 .. (Len(keys) - 1) /\ i - 1 < j
      BY <1>1, <1>3, <1>6, <2>2
    <3>2. cs[i] = kids[i] /\ (i # Len(cs) => ks[i] = keys[j1]) /\ (i # 1 => ks[i - 1] = keys[i - 1])
      BY <1>5, <1>6, <3>1
    <3>3. hi2[kids[i]] = hi[kids[j1]]
      BY <1>7, <2>2, <3>1
    <3>4. hi[kids[j1]] = IF j1 = Len(kids) THEN b ELSE keys[j1]
      BY <1>2, <1>3
    <3> QED
      BY <1>2, <3>1, <3>2, <3>3, <3>4
  <2>3. CASE i > j
    <3> DEFINE h == i + 1
    <3>1. /\ h \in 1 .. Len(kids) /\ ~(i < j1) /\ i \in 1 .. (Len(kids) - 1) /\ h # j /\ i # 1 /\ h # 1
          /\ (i = Len(cs) <=> h = Len(kids)) /\ h - 1 = i
          /\ i # Len(cs) => i \in 1 .. (Len(keys) - 1) /\ ~(i < j)
          /\ i - 1 \in 1 .. (Len(keys) - 1) /\ ~(i - 1 < j) /\ (i - 1) + 1 = i
      BY <1>1, <1>3, <1>6, <2>3
    <3>2. cs[i] = kids[h] /\ (i # Len(cs) => ks[i] = keys[h]) /\ ks[i - 1] = keys[i]
      BY <1>5, <1>6, <3>1
    <3> HIDE DEF h
    <3>3. hi2[kids[h]] = hi[kids[h]]
      BY <1>7, <3>1
    <3>4. lo[kids[h]] = keys[i] /\ hi[kids[h]] = IF h = Len(kids) THEN b ELSE keys[h]
      BY <1>2, <3>1
    <3> QED
      BY <3>1, <3>2, <3>3, <3>4
  <2> QED
    BY <1>3, <1>6, <2>1, <2>2, <2>3
<1>9. Parts(ks, cs, a, b, lo, hi2)
  BY <1>1, <1>5, <1>6, <1>8 DEF Parts
<1>10. Distinct(cs)
  <2> DEFINE Old(i) == IF i < j1 THEN i ELSE i + 1
  <2>1. \A i \in 1 .. Len(cs) : Old(i) \in 1 .. Len(kids) /\ cs[i] = kids[Old(i)]
    BY <1>1, <1>3, <1>6
  <2>2. \A h, i \in 1 .. Len(cs) : Old(h) = Old(i) => h = i
    BY <1>1, <1>3, <1>6
  <2> HIDE DEF Old
  <2> QED
    BY <2>1, <2>2 DEF Distinct
<1> QED
  BY <1>4, <1>9, <1>10 DEF ks, cs, hi2, j1

-----------------------------------------------------------------------------
(* The chain of the leaves                                                   *)

(* The leaves are counted from the end of the chain.  Page n stands for the  *)
(* leaves below it: for the numbers from a[n] down to b[n] + 1.  Each child  *)
(* of an internal node goes on where the one before it ends.                 *)
Strung(kids, a, b, x, y) ==
  /\ Len(kids) \in Nat /\ Len(kids) >= 1
  /\ a[kids[1]] = x /\ b[kids[Len(kids)]] = y
  /\ \A i \in 1 .. (Len(kids) - 1) : b[kids[i]] = a[kids[i + 1]]

(* The numbers change all in the same way.                                   *)
Mapped(kids, a, b, f, a2, b2) ==
  \A i \in 1 .. Len(kids) : a2[kids[i]] = f[a[kids[i]]] /\ b2[kids[i]] = f[b[kids[i]]]

LEMMA StrungMapped ==
  ASSUME NEW kids, NEW a, NEW b, NEW x, NEW y, Strung(kids, a, b, x, y), NEW f, NEW a2, NEW b2,
         Mapped(kids, a, b, f, a2, b2)
  PROVE  Strung(kids, a2, b2, f[x], f[y])
<1>1. /\ Len(kids) \in Nat /\ Len(kids) >= 1 /\ a[kids[1]] = x /\ b[kids[Len(kids)]] = y
      /\ \A i \in 1 .. (Len(kids) - 1) : b[kids[i]] = a[kids[i + 1]]
  BY DEF Strung
<1>2. 1 \in 1 .. Len(kids) /\ Len(kids) \in 1 .. Len(kids)
  BY <1>1
<1>0. \A i \in 1 .. Len(kids) : a2[kids[i]] = f[a[kids[i]]] /\ b2[kids[i]] = f[b[kids[i]]]
  BY DEF Mapped
<1>3. a2[kids[1]] = f[x] /\ b2[kids[Len(kids)]] = f[y]
  BY <1>0, <1>1, <1>2
<1>4. ASSUME NEW i \in 1 .. (Len(kids) - 1) PROVE b2[kids[i]] = a2[kids[i + 1]]
  <2>1. i \in 1 .. Len(kids) /\ i + 1 \in 1 .. Len(kids)
    BY <1>1
  <2> QED
    BY <1>0, <1>1, <2>1
<1> QED
  BY <1>1, <1>3, <1>4 DEF Strung

LEMMA StrungElse ==
  ASSUME NEW kids, NEW a, NEW b, NEW x, NEW y, Strung(kids, a, b, x, y), NEW a2, NEW b2,
         \A i \in 1 .. Len(kids) : a2[kids[i]] = a[kids[i]] /\ b2[kids[i]] = b[kids[i]]
  PROVE  Strung(kids, a2, b2, x, y)
<1>1. \A i \in 1 .. Len(kids) : a2[kids[i]] = a[kids[i]] /\ b2[kids[i]] = b[kids[i]]
  OBVIOUS
<1>2. /\ Len(kids) \in Nat /\ Len(kids) >= 1 /\ a[kids[1]] = x /\ b[kids[Len(kids)]] = y
      /\ \A i \in 1 .. (Len(kids) - 1) : b[kids[i]] = a[kids[i + 1]]
  BY DEF Strung
<1>3. 1 \in 1 .. Len(kids) /\ Len(kids) \in 1 .. Len(kids)
  BY <1>2
<1>4. ASSUME NEW i \in 1 .. (Len(kids) - 1) PROVE b2[kids[i]] = a2[kids[i + 1]]
  <2>1. i \in 1 .. Len(kids) /\ i + 1 \in 1 .. Len(kids)
    BY <1>2
  <2> QED
    BY <1>1, <1>2, <2>1
<1> QED
  BY <1>1, <1>2, <1>3, <1>4 DEF Strung

(* Page p comes after child j, and takes a part of what it has stood for.    *)
Taken(kids, j, p, kids2) ==
  /\ j \in 1 .. Len(kids) /\ Len(kids2) = Len(kids) + 1
  /\ \A i \in 1 .. (Len(kids) + 1) :
       kids2[i] = IF i < j + 1 THEN kids[i] ELSE IF i = j + 1 THEN p ELSE kids[i - 1]

TakesPart(kids, j, p, a, b, f, a2, b2) ==
  /\ \A i \in 1 .. Len(kids) : a2[kids[i]] = f[a[kids[i]]] /\ (i # j => b2[kids[i]] = f[b[kids[i]]])
  /\ b2[kids[j]] = a2[p] /\ b2[p] = f[b[kids[j]]]

LEMMA StrungTaken ==
  ASSUME NEW kids, NEW a, NEW b, NEW x, NEW y, Strung(kids, a, b, x, y),
         NEW j, NEW p, NEW kids2, Taken(kids, j, p, kids2),
         NEW f, NEW a2, NEW b2, TakesPart(kids, j, p, a, b, f, a2, b2)
  PROVE  Strung(kids2, a2, b2, f[x], f[y])
<1> DEFINE L == Len(kids)
           k(i) == kids2[i]
<1>1. /\ L \in Nat /\ L >= 1 /\ a[kids[1]] = x /\ b[kids[L]] = y
      /\ \A i \in 1 .. (L - 1) : b[kids[i]] = a[kids[i + 1]]
  BY DEF Strung
<1>2. Len(kids2) = L + 1 /\ j \in 1 .. L
  BY DEF Taken
<1>3. /\ \A i \in 1 .. L : a2[kids[i]] = f[a[kids[i]]] /\ (i # j => b2[kids[i]] = f[b[kids[i]]])
      /\ \A i \in 1 .. (L + 1) :
           k(i) = IF i < j + 1 THEN kids[i] ELSE IF i = j + 1 THEN p ELSE kids[i - 1]
  BY DEF Taken, TakesPart
<1>0. b2[kids[j]] = a2[p] /\ b2[p] = f[b[kids[j]]]
  BY DEF TakesPart
<1> HIDE DEF L, k
<1>4. \A i \in 1 .. L : i <= j => k(i) = kids[i]
  BY <1>1, <1>2, <1>3
<1>5. j + 1 \in 1 .. (L + 1) /\ k(j + 1) = p
  BY <1>1, <1>2, <1>3
<1>6. \A i \in 1 .. L : i > j => k(i + 1) = kids[i]
  <2> SUFFICES ASSUME NEW i \in 1 .. L, i > j PROVE k(i + 1) = kids[i]
    OBVIOUS
  <2>1. i + 1 \in 1 .. (L + 1) /\ ~(i + 1 < j + 1) /\ i + 1 # j + 1 /\ (i + 1) - 1 = i
    BY <1>1, <1>2
  <2> QED
    BY <1>3, <2>1
<1>7. a2[k(1)] = f[x]
  <2>1. 1 \in 1 .. L /\ 1 <= j
    BY <1>1, <1>2
  <2> QED
    BY <1>1, <1>3, <1>4, <2>1
<1>8. b2[k(L + 1)] = f[y]
  <2>1. CASE j = L
    BY <1>0, <1>1, <1>5, <2>1
  <2>2. CASE j # L
    <3>1. L \in 1 .. L /\ L > j
      BY <1>1, <1>2, <2>2
    <3> QED
      BY <1>1, <1>3, <1>6, <2>2, <3>1
  <2> QED
    BY <2>1, <2>2
<1>9. ASSUME NEW i \in 1 .. L PROVE b2[k(i)] = a2[k(i + 1)]
  <2>1. CASE i < j
    <3>1. i \in 1 .. (L - 1) /\ i + 1 \in 1 .. L /\ i <= j /\ i + 1 <= j /\ i # j
      BY <1>1, <1>2, <2>1
    <3>2. k(i) = kids[i] /\ k(i + 1) = kids[i + 1]
      BY <1>4, <3>1
    <3> QED
      BY <1>1, <1>3, <3>1, <3>2
  <2>2. CASE i = j
    <3>1. k(i) = kids[j] /\ k(i + 1) = p
      BY <1>1, <1>2, <1>4, <1>5, <2>2
    <3> QED
      BY <1>0, <3>1
  <2>3. CASE i = j + 1
    <3>1. j \in 1 .. (L - 1) /\ i > j /\ j \in 1 .. L
      BY <1>1, <1>2, <2>3
    <3>2. k(i) = p /\ k(i + 1) = kids[i]
      BY <1>5, <1>6, <2>3, <3>1
    <3>3. b2[p] = f[b[kids[j]]] /\ b[kids[j]] = a[kids[i]] /\ a2[kids[i]] = f[a[kids[i]]]
      BY <1>0, <1>1, <1>3, <2>3, <3>1
    <3> QED
      BY <3>2, <3>3
  <2>4. CASE i > j + 1
    <3> DEFINE h == i - 1
    <3>1. h \in 1 .. (L - 1) /\ h \in 1 .. L /\ h > j /\ i > j /\ h # j /\ h + 1 = i
      BY <1>1, <1>2, <2>4
    <3> HIDE DEF h
    <3>2. k(i) = kids[h] /\ k(i + 1) = kids[i]
      BY <1>6, <3>1
    <3>3. b2[kids[h]] = f[b[kids[h]]] /\ b[kids[h]] = a[kids[i]] /\ a2[kids[i]] = f[a[kids[i]]]
      BY <1>1, <1>3, <3>1
    <3> QED
      BY <3>2, <3>3
  <2>5. i < j \/ i = j \/ i = j + 1 \/ i > j + 1
    BY <1>1, <1>2
  <2> QED
    BY <2>1, <2>2, <2>3, <2>4, <2>5
<1>10. Len(kids2) \in Nat /\ Len(kids2) >= 1 /\ Len(kids2) = L + 1 /\ Len(kids2) - 1 = L
  BY <1>1, <1>2
<1> QED
  BY <1>7, <1>8, <1>9, <1>10 DEF Strung, k

(* The child after child j goes, and child j takes what it has stood for.    *)
Dropped(kids, j, kids2) ==
  /\ j \in 1 .. (Len(kids) - 1) /\ Len(kids2) = Len(kids) - 1
  /\ \A i \in 1 .. (Len(kids) - 1) : kids2[i] = IF i < j + 1 THEN kids[i] ELSE kids[i + 1]

TakesNext(kids, j, a, b, f, a2, b2) ==
  /\ \A i \in 1 .. Len(kids) : i # j + 1 => a2[kids[i]] = f[a[kids[i]]]
  /\ \A i \in 1 .. Len(kids) : i # j /\ i # j + 1 => b2[kids[i]] = f[b[kids[i]]]
  /\ b2[kids[j]] = f[b[kids[j + 1]]]

LEMMA StrungDropped ==
  ASSUME NEW kids, NEW a, NEW b, NEW x, NEW y, Strung(kids, a, b, x, y),
         NEW j, NEW kids2, Dropped(kids, j, kids2),
         NEW f, NEW a2, NEW b2, TakesNext(kids, j, a, b, f, a2, b2)
  PROVE  Strung(kids2, a2, b2, f[x], f[y])
<1> DEFINE L == Len(kids)
           k(i) == kids2[i]
<1>1. /\ L \in Nat /\ L >= 1 /\ a[kids[1]] = x /\ b[kids[L]] = y
      /\ \A i \in 1 .. (L - 1) : b[kids[i]] = a[kids[i + 1]]
  BY DEF Strung
<1>2. Len(kids2) = L - 1 /\ j \in 1 .. (L - 1)
  BY DEF Dropped
<1>0. b2[kids[j]] = f[b[kids[j + 1]]]
  BY DEF TakesNext
<1>3. /\ \A i \in 1 .. L : i # j + 1 => a2[kids[i]] = f[a[kids[i]]]
      /\ \A i \in 1 .. L : i # j /\ i # j + 1 => b2[kids[i]] = f[b[kids[i]]]
      /\ \A i \in 1 .. (L - 1) : k(i) = IF i < j + 1 THEN kids[i] ELSE kids[i + 1]
  BY DEF Dropped, TakesNext
<1> HIDE DEF L, k
<1>4. \A i \in 1 .. (L - 1) : (i <= j => k(i) = kids[i]) /\ (i > j => k(i) = kids[i + 1])
  BY <1>1, <1>2, <1>3
<1>5. a2[k(1)] = f[x]
  <2>1. 1 \in 1 .. L /\ 1 \in 1 .. (L - 1) /\ 1 <= j /\ 1 # j + 1
    BY <1>1, <1>2
  <2> QED
    BY <1>1, <1>3, <1>4, <2>1
<1>6. b2[k(L - 1)] = f[y]
  <2>0. L - 1 \in 1 .. (L - 1) /\ (L - 1) + 1 = L /\ L \in 1 .. L
    BY <1>1, <1>2
  <2>1. CASE j = L - 1
    <3>1. k(L - 1) = kids[j] /\ j + 1 = L
      BY <1>1, <1>2, <1>4, <2>0, <2>1
    <3> QED
      BY <1>0, <1>1, <3>1
  <2>2. CASE j # L - 1
    <3>1. L - 1 > j /\ L # j /\ L # j + 1
      BY <1>1, <1>2, <2>2
    <3>2. k(L - 1) = kids[L]
      BY <1>4, <2>0, <3>1
    <3> QED
      BY <1>1, <1>3, <2>0, <3>1, <3>2
  <2> QED
    BY <2>1, <2>2
<1>7. ASSUME NEW i \in 1 .. ((L - 1) - 1) PROVE b2[k(i)] = a2[k(i + 1)]
  <2>0. i \in 1 .. (L - 1) /\ i + 1 \in 1 .. (L - 1) /\ i \in Int
    BY <1>1
  <2>1. CASE i < j
    <3>1. i \in 1 .. L /\ i + 1 \in 1 .. L /\ i <= j /\ i + 1 <= j /\ i # j /\ i # j + 1 /\ i + 1 # j + 1
      BY <1>1, <1>2, <2>0, <2>1
    <3>2. k(i) = kids[i] /\ k(i + 1) = kids[i + 1]
      BY <1>4, <2>0, <3>1
    <3> QED
      BY <1>1, <1>3, <2>0, <3>1, <3>2
  <2>2. CASE i >= j
    <3> DEFINE h == i + 1
    <3>1. h \in 1 .. (L - 1) /\ h \in 1 .. L /\ h + 1 \in 1 .. L /\ h > j /\ h + 1 # j + 1 /\ h + 1 = (i + 1) + 1
      BY <1>1, <1>2, <2>0, <2>2
    <3>2. k(h) = kids[h + 1] /\ h = i + 1
      BY <1>4, <3>1
    <3> HIDE DEF h
    <3>3. a2[k(i + 1)] = f[a[kids[h + 1]]] /\ b[kids[h]] = a[kids[h + 1]]
      BY <1>1, <1>3, <3>1, <3>2
    <3>4. CASE i = j
      <4>1. k(i) = kids[j] /\ b2[kids[j]] = f[b[kids[h]]]
        BY <1>0, <1>2, <1>4, <2>0, <3>2, <3>4
      <4> QED
        BY <3>3, <4>1
    <3>5. CASE i # j
      <4>1. i > j /\ h # j /\ h # j + 1
        BY <1>2, <2>0, <2>2, <3>2, <3>5
      <4>2. k(i) = kids[h]
        BY <1>4, <2>0, <3>2, <4>1
      <4>3. b2[kids[h]] = f[b[kids[h]]]
        BY <1>3, <3>1, <4>1
      <4> QED
        BY <3>3, <4>2, <4>3
    <3> QED
      BY <3>4, <3>5
  <2> QED
    BY <1>2, <2>0, <2>1, <2>2
<1>8. Len(kids2) \in Nat /\ Len(kids2) >= 1 /\ Len(kids2) = L - 1
  BY <1>1, <1>2
<1> QED
  BY <1>5, <1>6, <1>7, <1>8 DEF Strung, k

(* The kids are cut in two.                                                  *)
CutKids(kids, m, low, high) ==
  /\ m \in 1 .. Len(kids) /\ Len(low) = m /\ Len(high) = Len(kids) - m /\ Len(high) >= 1
  /\ \A i \in 1 .. m : low[i] = kids[i]
  /\ \A i \in 1 .. Len(high) : high[i] = kids[m + i]

LEMMA StrungCut ==
  ASSUME NEW kids, NEW a, NEW b, NEW x, NEW y, Strung(kids, a, b, x, y),
         NEW m, NEW low, NEW high, CutKids(kids, m, low, high)
  PROVE  Strung(low, a, b, x, a[high[1]]) /\ Strung(high, a, b, a[high[1]], y)
<1> DEFINE L == Len(kids)
           H == Len(high)
<1>1. /\ L \in Nat /\ L >= 1 /\ a[kids[1]] = x /\ b[kids[L]] = y
      /\ \A i \in 1 .. (L - 1) : b[kids[i]] = a[kids[i + 1]]
  BY DEF Strung
<1>2. H = L - m /\ m \in 1 .. L /\ H >= 1 /\ Len(low) = m
  BY DEF CutKids
<1>3. /\ \A i \in 1 .. m : low[i] = kids[i]
      /\ \A i \in 1 .. H : high[i] = kids[m + i]
  BY DEF CutKids
<1> HIDE DEF L, H
<1>4. /\ 1 \in 1 .. m /\ m \in 1 .. m /\ m \in 1 .. (L - 1) /\ 1 \in 1 .. H /\ H \in 1 .. H
      /\ m + H = L /\ H \in Nat /\ m \in Nat /\ m >= 1
  BY <1>1, <1>2
<1>5. a[low[1]] = x /\ b[low[m]] = a[high[1]] /\ b[high[H]] = y
  BY <1>1, <1>3, <1>4
<1>6. ASSUME NEW i \in 1 .. (m - 1) PROVE b[low[i]] = a[low[i + 1]]
  <2>1. i \in 1 .. m /\ i + 1 \in 1 .. m /\ i \in 1 .. (L - 1)
    BY <1>1, <1>4
  <2> QED
    BY <1>1, <1>3, <2>1
<1>7. ASSUME NEW i \in 1 .. (H - 1) PROVE b[high[i]] = a[high[i + 1]]
  <2>1. i \in 1 .. H /\ i + 1 \in 1 .. H /\ m + i \in 1 .. (L - 1) /\ m + (i + 1) = (m + i) + 1
    BY <1>1, <1>2, <1>4
  <2>2. high[i] = kids[m + i] /\ high[i + 1] = kids[(m + i) + 1]
    <3>1. high[i] = kids[m + i] /\ high[i + 1] = kids[m + (i + 1)]
      BY <1>3, <2>1
    <3> QED
      BY <2>1, <3>1
  <2> QED
    BY <1>1, <2>1, <2>2
<1> QED
  BY <1>2, <1>4, <1>5, <1>6, <1>7 DEF Strung, H

(* The kids of two nodes, one after the other.                               *)
Appended(low, high, kids) ==
  /\ Len(kids) = Len(low) + Len(high)
  /\ \A i \in 1 .. Len(low) : kids[i] = low[i]
  /\ \A i \in 1 .. Len(high) : kids[Len(low) + i] = high[i]

LEMMA StrungJoined ==
  ASSUME NEW low, NEW high, NEW a, NEW b, NEW x, NEW y, NEW z,
         Strung(low, a, b, x, z), Strung(high, a, b, z, y), NEW kids, Appended(low, high, kids)
  PROVE  Strung(kids, a, b, x, y)
<1> DEFINE L == Len(low)
           H == Len(high)
<1>1. /\ L \in Nat /\ L >= 1 /\ a[low[1]] = x /\ b[low[L]] = z
      /\ \A i \in 1 .. (L - 1) : b[low[i]] = a[low[i + 1]]
  BY DEF Strung
<1>2. /\ H \in Nat /\ H >= 1 /\ a[high[1]] = z /\ b[high[H]] = y
      /\ \A i \in 1 .. (H - 1) : b[high[i]] = a[high[i + 1]]
  BY DEF Strung
<1>3. /\ Len(kids) = L + H /\ \A i \in 1 .. L : kids[i] = low[i]
      /\ \A i \in 1 .. H : kids[L + i] = high[i]
  BY DEF Appended
<1> HIDE DEF L, H
<1>4. a[kids[1]] = x /\ b[kids[L + H]] = y
  <2>1. 1 \in 1 .. L /\ H \in 1 .. H
    BY <1>1, <1>2
  <2> QED
    BY <1>1, <1>2, <1>3, <2>1
<1>5. ASSUME NEW i \in 1 .. ((L + H) - 1) PROVE b[kids[i]] = a[kids[i + 1]]
  <2>1. CASE i < L
    <3>1. i \in 1 .. L /\ i + 1 \in 1 .. L /\ i \in 1 .. (L - 1)
      BY <1>1, <2>1
    <3> QED
      BY <1>1, <1>3, <3>1
  <2>2. CASE i = L
    <3>1. L \in 1 .. L /\ 1 \in 1 .. H
      BY <1>1, <1>2
    <3>2. kids[L + 1] = high[1] /\ kids[L] = low[L]
      BY <1>3, <3>1
    <3> QED
      BY <1>1, <1>2, <2>2, <3>2
  <2>3. CASE i > L
    <3> DEFINE h == i - L
    <3>1. h \in 1 .. H /\ h + 1 \in 1 .. H /\ h \in 1 .. (H - 1) /\ L + h = i /\ L + (h + 1) = i + 1
      BY <1>1, <1>2, <2>3
    <3> HIDE DEF h
    <3>2. kids[L + h] = high[h] /\ kids[L + (h + 1)] = high[h + 1]
      BY <1>3, <3>1
    <3> QED
      BY <1>2, <3>1, <3>2
  <2> QED
    BY <1>1, <2>1, <2>2, <2>3
<1>6. Len(kids) \in Nat /\ Len(kids) >= 1
  BY <1>1, <1>2, <1>3
<1> QED
  BY <1>3, <1>4, <1>5, <1>6 DEF Strung

(* A leaf counts as one.  After it comes the leaf that is counted next, and  *)
(* that one goes on with the keys where this one ends.                       *)
Onward(P, n, live, lo, hi, a, b) ==
  /\ a[n] = b[n] + 1
  /\ b[n] = 0 => P[n].next = NoPage /\ hi[n] = MaxKey + 1
  /\ b[n] # 0 => /\ P[n].next \in live /\ P[P[n].next].leaf
                 /\ a[P[n].next] = b[n] /\ lo[P[n].next] = hi[n]

Ranked(P, r, live, lo, hi, a, b) ==
  /\ a \in [PageNo -> Nat] /\ b \in [PageNo -> Nat] /\ b[r] = 0
  /\ \A n \in live : IF P[n].leaf THEN Onward(P, n, live, lo, hi, a, b)
                                  ELSE Strung(P[n].kids, a, b, a[n], b[n])
  /\ \A m, n \in live : P[m].leaf /\ P[n].leaf /\ b[m] = b[n] => m = n

Chained(P, r, live, lo, hi) == \E a, b : Ranked(P, r, live, lo, hi, a, b)

-----------------------------------------------------------------------------
(* Trees *)

(* The leaf of page n, and the internal node: lev says how far the leaves    *)
(* are below, lo and hi what keys the page stands for, up which is the node  *)
(* that has it for a child.                                                  *)
LeafAt(node, n, lev, lo, hi, rows) == lev[n] = 0 /\ Holds(node.cells, lo[n], hi[n], rows)

InnerAt(node, n, live, lev, lo, hi, up) ==
  /\ lev[n] > 0
  /\ Parts(node.keys, node.kids, lo[n], hi[n], lo, hi) /\ Distinct(node.kids)
  /\ \A i \in 1 .. Len(node.kids) : /\ node.kids[i] \in live /\ lev[node.kids[i]] + 1 = lev[n]
                                    /\ up[node.kids[i]] = n

NodeFits(P, n, live, lev, lo, hi, up, rows) ==
  /\ P[n] \in Node /\ lo[n] <= hi[n]
  /\ IF P[n].leaf THEN LeafAt(P[n], n, lev, lo, hi, rows)
                  ELSE InnerAt(P[n], n, live, lev, lo, hi, up)

HasChild(node, n) == ~node.leaf /\ \E i \in 1 .. Len(node.kids) : node.kids[i] = n

(* The pages live are the nodes of a tree with the root r that gives every   *)
(* key its row.                                                              *)
Tree(P, r, live, lev, lo, hi, up, rows) ==
  /\ P \in Pages /\ rows \in Rows
  /\ live \in SUBSET PageNo /\ lev \in [PageNo -> Nat]
  /\ lo \in [PageNo -> Ends] /\ hi \in [PageNo -> Ends] /\ up \in [PageNo -> PageNo]
  /\ r \in live /\ lo[r] = 1 /\ hi[r] = MaxKey + 1
  /\ \A n \in live : NodeFits(P, n, live, lev, lo, hi, up, rows)
  /\ \A n \in live : n # r => lev[n] < lev[r] /\ up[n] \in live /\ HasChild(P[up[n]], n)
  /\ \A m, n \in live : \A k \in Key :
       (P[m].leaf /\ lo[m] <= k /\ k < hi[m] /\ P[n].leaf /\ lo[n] <= k /\ k < hi[n])
       => m = n
  /\ Chained(P, r, live, lo, hi)

(* The same, whatever keys the pages stand for.                              *)
TreeOf(P, r, live, lev, rows) ==
  \E lo, hi, up : Tree(P, r, live, lev, lo, hi, up, rows)

LEMMA NodeKinds ==
  /\ \A x \in Node : \/ x.leaf = TRUE /\ x.cells \in Seq(Cells) /\ x.next \in PageNo \cup {NoPage}
                     \/ x.leaf = FALSE /\ x.keys \in Seq(Key) /\ x.kids \in Seq(PageNo)
  /\ \A cells \in Seq(Cells), next \in PageNo \cup {NoPage} :
       /\ Leaf(cells, next) \in Node /\ Leaf(cells, next).leaf = TRUE
       /\ Leaf(cells, next).cells = cells /\ Leaf(cells, next).next = next
  /\ \A keys \in Seq(Key), kids \in Seq(PageNo) :
       /\ Internal(keys, kids) \in Node /\ Internal(keys, kids).leaf = FALSE
       /\ Internal(keys, kids).keys = keys /\ Internal(keys, kids).kids = kids
  /\ Absent \notin Node
BY AbsentAssumption DEF Node, LeafNode, InternalNode, Leaf, Internal

(* Every kid stands for keys between the ends.                               *)
LEMMA PartsWithin ==
  ASSUME NEW keys, NEW kids, NEW a \in Ends, NEW b \in Ends,
         NEW lo \in [PageNo -> Ends], NEW hi \in [PageNo -> Ends],
         Parts(keys, kids, a, b, lo, hi),
         \A i \in 1 .. Len(kids) : lo[kids[i]] <= hi[kids[i]]
  PROVE  \A i \in 1 .. Len(kids) : a <= lo[kids[i]] /\ hi[kids[i]] <= b
<1>1. /\ Len(keys) \in Nat /\ Len(kids) \in Nat /\ Len(kids) = Len(keys) + 1
      /\ \A i \in 1 .. Len(kids) : kids[i] \in PageNo
  BY PartsTyped
<1>2. \A i \in 1 .. Len(kids) : /\ lo[kids[i]] = IF i = 1 THEN a ELSE keys[i - 1]
                                /\ hi[kids[i]] = IF i = Len(kids) THEN b ELSE keys[i]
  BY DEF Parts
<1>3. /\ a \in Int /\ b \in Int
      /\ \A i \in 1 .. Len(kids) : lo[kids[i]] \in Int /\ hi[kids[i]] \in Int
  BY <1>1, Sizes DEF Ends
<1>4. ASSUME NEW i \in 1 .. Len(keys) PROVE hi[kids[i]] = lo[kids[i + 1]]
  <2>1. i \in 1 .. Len(kids) /\ i # Len(kids) /\ i + 1 \in 1 .. Len(kids) /\ i + 1 # 1 /\ (i + 1) - 1 = i
    BY <1>1
  <2> QED
    BY <1>2, <2>1
<1> DEFINE U == {i \in Nat : i <= Len(keys) => a <= lo[kids[i + 1]]}
           D == {i \in Nat : i <= Len(keys) => hi[kids[Len(kids) - i]] <= b}
<1>5. \A i \in 0 .. Len(keys) : i \in U
  <2>1. 0 \in U
    BY <1>1, <1>2, <1>3
  <2>2. ASSUME NEW i \in 1 .. Len(keys), i - 1 \in U PROVE i \in U
    <3>1. /\ i \in 1 .. Len(kids) /\ i + 1 \in 1 .. Len(kids) /\ (i - 1) + 1 = i
          /\ i - 1 <= Len(keys) /\ i \in Nat
      BY <1>1
    <3>2. a <= lo[kids[i]] /\ lo[kids[i]] <= hi[kids[i]] /\ hi[kids[i]] = lo[kids[i + 1]]
      BY <1>4, <2>2, <3>1
    <3> QED
      BY <1>3, <3>1, <3>2
  <2> HIDE DEF U
  <2> QED
    BY <1>1, <2>1, <2>2, UpTo
<1>6. \A i \in 0 .. Len(keys) : i \in D
  <2>1. 0 \in D
    BY <1>1, <1>2, <1>3
  <2>2. ASSUME NEW i \in 1 .. Len(keys), i - 1 \in D PROVE i \in D
    <3> DEFINE h == Len(kids) - i
    <3>1. /\ h \in 1 .. Len(keys) /\ h \in 1 .. Len(kids) /\ h + 1 \in 1 .. Len(kids)
          /\ Len(kids) - (i - 1) = h + 1 /\ i - 1 <= Len(keys) /\ i \in Nat
      BY <1>1
    <3>2. hi[kids[h + 1]] <= b /\ lo[kids[h + 1]] <= hi[kids[h + 1]] /\ hi[kids[h]] = lo[kids[h + 1]]
      BY <1>4, <2>2, <3>1
    <3> QED
      BY <1>3, <3>1, <3>2
  <2> HIDE DEF D
  <2> QED
    BY <1>1, <2>1, <2>2, UpTo
<1>7. ASSUME NEW i \in 1 .. Len(kids) PROVE a <= lo[kids[i]] /\ hi[kids[i]] <= b
  <2>1. i - 1 \in 0 .. Len(keys) /\ (i - 1) + 1 = i /\ Len(kids) - i \in 0 .. Len(keys)
        /\ Len(kids) - (Len(kids) - i) = i
    BY <1>1
  <2>2. i - 1 \in U /\ Len(kids) - i \in D
    BY <1>5, <1>6, <2>1
  <2> QED
    BY <1>1, <2>1, <2>2
<1> QED
  BY <1>7

(* What a node of a tree is.                                                 *)
LEMMA TreeNode ==
  ASSUME NEW P, NEW r, NEW live, NEW lev, NEW lo, NEW hi, NEW up, NEW rows,
         Tree(P, r, live, lev, lo, hi, up, rows), NEW n \in live
  PROVE  /\ n \in PageNo /\ P[n] \in Node /\ P[n] # Absent /\ P[n].leaf \in BOOLEAN
         /\ lev[n] \in Nat /\ lo[n] \in Ends /\ hi[n] \in Ends /\ lo[n] <= hi[n]
         /\ lev[n] = 0 <=> P[n].leaf
         /\ P[n].leaf => Holds(P[n].cells, lo[n], hi[n], rows)
         /\ ~P[n].leaf => InnerAt(P[n], n, live, lev, lo, hi, up)
         /\ ~P[n].leaf => \A i \in 1 .. Len(P[n].kids) :
                            /\ P[n].kids[i] \in live /\ lo[P[n].kids[i]] <= hi[P[n].kids[i]]
                            /\ lev[P[n].kids[i]] + 1 = lev[n] /\ up[P[n].kids[i]] = n
<1>1. /\ live \in SUBSET PageNo /\ lev \in [PageNo -> Nat]
      /\ lo \in [PageNo -> Ends] /\ hi \in [PageNo -> Ends]
      /\ \A m \in live : NodeFits(P, m, live, lev, lo, hi, up, rows)
  BY DEF Tree
<1>2. NodeFits(P, n, live, lev, lo, hi, up, rows)
  BY <1>1
<1>3. n \in PageNo /\ P[n] \in Node /\ P[n] # Absent /\ P[n].leaf \in BOOLEAN
  BY <1>1, <1>2, NodeKinds DEF NodeFits
<1>4. \A m \in live : lo[m] <= hi[m]
  BY <1>1 DEF NodeFits
<1> QED
  BY <1>1, <1>2, <1>3, <1>4 DEF NodeFits, LeafAt, InnerAt

(* A node is cut in two at separator s.                                      *)
Cut(node, m, left, right, s) ==
  /\ left \in Node /\ right \in Node /\ left.leaf = node.leaf /\ right.leaf = node.leaf
  /\ node.leaf => /\ m \in 0 .. (Len(node.cells) - 1) /\ s = node.cells[m + 1].key
                  /\ left.cells = SubSeq(node.cells, 1, m)
                  /\ right.cells = SubSeq(node.cells, m + 1, Len(node.cells))
  /\ ~node.leaf => /\ m \in 1 .. Len(node.keys) /\ s = node.keys[m]
                   /\ left.keys = SubSeq(node.keys, 1, m - 1) /\ left.kids = SubSeq(node.kids, 1, m)
                   /\ right.keys = SubSeq(node.keys, m + 1, Len(node.keys))
                   /\ right.kids = SubSeq(node.kids, m + 1, Len(node.kids))

Halves(P, n, lo, hi, rows, m, left, right, s) ==
  /\ s \in Key /\ lo[n] <= s /\ s <= hi[n]
  /\ P[n].leaf => /\ Holds(left.cells, lo[n], s, rows)
                  /\ Holds(right.cells, s, hi[n], rows)
  /\ ~P[n].leaf => /\ Parts(left.keys, left.kids, lo[n], s, lo, hi)
                   /\ Parts(right.keys, right.kids, s, hi[n], lo, hi)
                   /\ Len(left.kids) = m
                   /\ \A i \in 1 .. m : i \in 1 .. Len(P[n].kids) /\ left.kids[i] = P[n].kids[i]
                   /\ \A i \in 1 .. Len(right.kids) :
                        m + i \in 1 .. Len(P[n].kids) /\ right.kids[i] = P[n].kids[m + i]
                   /\ Len(right.kids) = Len(P[n].kids) - m /\ m \in 1 .. Len(P[n].kids)

LEMMA CutWithin ==
  ASSUME NEW P, NEW r, NEW live, NEW lev, NEW lo, NEW hi, NEW up, NEW rows,
         Tree(P, r, live, lev, lo, hi, up, rows), NEW n \in live,
         NEW m, NEW left, NEW right, NEW s, Cut(P[n], m, left, right, s)
  PROVE  Halves(P, n, lo, hi, rows, m, left, right, s)
<1>1. /\ lo[n] \in Ends /\ hi[n] \in Ends /\ lo \in [PageNo -> Ends] /\ hi \in [PageNo -> Ends]
  BY TreeNode DEF Tree
<1>2. CASE P[n].leaf
  <2>1. Holds(P[n].cells, lo[n], hi[n], rows)
    BY <1>2, TreeNode
  <2>2. /\ m \in 0 .. (Len(P[n].cells) - 1) /\ s = P[n].cells[m + 1].key
        /\ left.cells = SubSeq(P[n].cells, 1, m)
        /\ right.cells = SubSeq(P[n].cells, m + 1, Len(P[n].cells))
    BY <1>2 DEF Cut
  <2>3. s \in Key /\ lo[n] <= s /\ s < hi[n]
        /\ Holds(left.cells, lo[n], s, rows) /\ Holds(right.cells, s, hi[n], rows)
    BY <1>1, <2>1, <2>2, HoldsCut
  <2> QED
    BY <1>1, <1>2, <2>3, Sizes DEF Ends, Halves
<1>3. CASE ~P[n].leaf
  <2> DEFINE keys == P[n].keys
             kids == P[n].kids
  <2>1. Parts(keys, kids, lo[n], hi[n], lo, hi) /\ \A i \in 1 .. Len(kids) : lo[kids[i]] <= hi[kids[i]]
    BY <1>3, TreeNode DEF InnerAt
  <2>2. /\ m \in 1 .. Len(keys) /\ s = keys[m]
        /\ left.keys = SubSeq(keys, 1, m - 1) /\ left.kids = SubSeq(kids, 1, m)
        /\ right.keys = SubSeq(keys, m + 1, Len(keys))
        /\ right.kids = SubSeq(kids, m + 1, Len(kids))
    BY <1>3 DEF Cut
  <2>3. Len(keys) \in Nat /\ Len(kids) = Len(keys) + 1 /\ kids \in Seq(PageNo)
    BY <2>1, PartsTyped
  <2>4. m \in 1 .. Len(kids) /\ m \in 0 .. Len(kids) /\ m + 1 \in 1 .. Len(kids) /\ m # Len(kids)
    BY <2>2, <2>3
  <2> HIDE DEF keys, kids
  <2>5. /\ s \in Key
        /\ Parts(left.keys, left.kids, lo[n], s, lo, hi)
        /\ Parts(right.keys, right.kids, s, hi[n], lo, hi)
    BY <2>1, <2>2, PartsCut
  <2>6. lo[n] <= lo[kids[m]] /\ hi[kids[m]] <= hi[n] /\ lo[kids[m]] <= hi[kids[m]] /\ hi[kids[m]] = s
    <3>1. \A i \in 1 .. Len(kids) : lo[n] <= lo[kids[i]] /\ hi[kids[i]] <= hi[n]
      BY <1>1, <2>1, PartsWithin
    <3>2. hi[kids[m]] = keys[m]
      BY <2>1, <2>4 DEF Parts
    <3> QED
      BY <2>1, <2>2, <2>4, <3>1, <3>2
  <2>7. /\ SubSeq(kids, 1, m) \in Seq(PageNo) /\ Len(SubSeq(kids, 1, m)) = m
        /\ \A i \in 1 .. m : SubSeq(kids, 1, m)[i] = kids[i]
        /\ Len(SubSeq(kids, m + 1, Len(kids))) = Len(kids) - m
        /\ \A i \in 1 .. (Len(kids) - m) : SubSeq(kids, m + 1, Len(kids))[i] = kids[m + i]
    BY <2>3, <2>4, CutSeq
  <2>8. kids[m] \in PageNo
    BY <2>3, <2>4
  <2>9. lo[n] <= s /\ s <= hi[n]
    BY <1>1, <2>6, <2>8, Sizes DEF Ends
  <2>10. /\ \A i \in 1 .. m : i \in 1 .. Len(kids) /\ left.kids[i] = kids[i]
         /\ \A i \in 1 .. Len(right.kids) : m + i \in 1 .. Len(kids) /\ right.kids[i] = kids[m + i]
         /\ Len(right.kids) = Len(kids) - m /\ Len(left.kids) = m
    <3>1. Len(right.kids) = Len(kids) - m /\ Len(left.kids) = m
      BY <2>2, <2>7
    <3>2. ASSUME NEW i \in 1 .. m PROVE i \in 1 .. Len(kids) /\ left.kids[i] = kids[i]
      BY <2>2, <2>3, <2>4, <2>7
    <3>3. ASSUME NEW i \in 1 .. (Len(kids) - m)
          PROVE  m + i \in 1 .. Len(kids) /\ right.kids[i] = kids[m + i]
      <4>1. m + i \in 1 .. Len(kids)
        BY <2>3, <2>4
      <4> QED
        BY <2>2, <2>7, <4>1
    <3> QED
      BY <3>1, <3>2, <3>3
  <2> QED
    BY <1>3, <2>4, <2>5, <2>9, <2>10 DEF kids, Halves
<1> QED
  BY <1>2, <1>3

(* What makes a tree.                                                        *)
LEMMA TreeMade ==
  ASSUME NEW P \in Pages, NEW r, NEW live \in SUBSET PageNo, NEW lev \in [PageNo -> Nat],
         NEW lo \in [PageNo -> Ends], NEW hi \in [PageNo -> Ends], NEW up \in [PageNo -> PageNo],
         NEW rows \in Rows, r \in live, lo[r] = 1, hi[r] = MaxKey + 1,
         \A n \in live : NodeFits(P, n, live, lev, lo, hi, up, rows),
         \A n \in live : n # r => lev[n] < lev[r] /\ up[n] \in live /\ HasChild(P[up[n]], n),
         \A m, n \in live : \A k \in Key :
           (P[m].leaf /\ lo[m] <= k /\ k < hi[m] /\ P[n].leaf /\ lo[n] <= k /\ k < hi[n])
           => m = n,
         Chained(P, r, live, lo, hi)
  PROVE  Tree(P, r, live, lev, lo, hi, up, rows)
BY DEF Tree

(* A node is cut in two, and its parent takes the new page in.               *)
SplitTo(P, live, q, j, n, p, m, left, right, s, P2) ==
  /\ n \in live /\ q \in live /\ ~P[q].leaf
  /\ j \in 1 .. Len(P[q].kids) /\ P[q].kids[j] = n
  /\ p \in PageNo /\ p \notin live
  /\ Cut(P[n], m, left, right, s)
  /\ P[n].leaf => left.next = p /\ right.next = P[n].next
  /\ P2 \in Pages /\ P2[n] = left /\ P2[p] = right
  /\ P2[q] = Internal(InsertAt(P[q].keys, j, s), InsertAt(P[q].kids, j + 1, p))
  /\ \A x \in live : x # n /\ x # q => P2[x] = P[x]

(* The parent that takes the new page in.                                    *)
TakesIn(P, q, j, s, p, P2) ==
  /\ P2[q].leaf = FALSE /\ P2[q] \in Node
  /\ P2[q].keys = InsertAt(P[q].keys, j, s) /\ P2[q].kids = InsertAt(P[q].kids, j + 1, p)
  /\ P[q].keys \in Seq(Key) /\ P[q].kids \in Seq(PageNo)
  /\ Len(P[q].kids) = Len(P[q].keys) + 1 /\ Len(P[q].kids) \in Nat
  /\ Len(P2[q].kids) = Len(P[q].kids) + 1
  /\ \A i \in 1 .. (Len(P[q].kids) + 1) :
       P2[q].kids[i] = IF i < j + 1 THEN P[q].kids[i] ELSE IF i = j + 1 THEN p ELSE P[q].kids[i - 1]

LEMMA ParentTakes ==
  ASSUME NEW P, NEW r, NEW live, NEW lev, NEW lo, NEW hi, NEW up, NEW rows,
         Tree(P, r, live, lev, lo, hi, up, rows),
         NEW q, NEW j, NEW n, NEW p, NEW m, NEW left, NEW right, NEW s, NEW P2,
         SplitTo(P, live, q, j, n, p, m, left, right, s, P2)
  PROVE  TakesIn(P, q, j, s, p, P2)
<1> DEFINE keys == P[q].keys
           kids == P[q].kids
           j1 == j + 1
<1>1. /\ n \in live /\ q \in live /\ ~P[q].leaf /\ j \in 1 .. Len(kids) /\ p \in PageNo
      /\ Cut(P[n], m, left, right, s)
      /\ P2[q] = Internal(InsertAt(keys, j, s), InsertAt(kids, j1, p))
  BY DEF SplitTo
<1>2. s \in Key
  BY <1>1, CutWithin DEF Halves
<1>3. Parts(keys, kids, lo[q], hi[q], lo, hi)
  BY <1>1, TreeNode DEF InnerAt
<1> HIDE DEF keys, kids
<1>4. keys \in Seq(Key) /\ kids \in Seq(PageNo) /\ Len(kids) = Len(keys) + 1 /\ Len(kids) \in Nat /\ Len(keys) \in Nat
  BY <1>3, PartsTyped
<1>5. j \in 1 .. (Len(keys) + 1) /\ j1 \in 1 .. (Len(kids) + 1)
  BY <1>1, <1>4
<1>6. InsertAt(keys, j, s) \in Seq(Key)
  BY <1>2, <1>4, <1>5, Inserted
<1> HIDE DEF j1
<1>7. /\ InsertAt(kids, j1, p) \in Seq(PageNo)
      /\ Len(InsertAt(kids, j1, p)) = Len(kids) + 1
      /\ \A i \in 1 .. (Len(kids) + 1) :
           InsertAt(kids, j1, p)[i] = IF i < j1 THEN kids[i] ELSE IF i = j1 THEN p ELSE kids[i - 1]
  <2>1. kids \in Seq(PageNo) /\ j1 \in 1 .. (Len(kids) + 1) /\ p \in PageNo
    BY <1>1, <1>4, <1>5
  <2> QED
    BY <2>1, Inserted
<1>8. /\ P2[q].leaf = FALSE /\ P2[q] \in Node
      /\ P2[q].keys = InsertAt(keys, j, s) /\ P2[q].kids = InsertAt(kids, j1, p)
  BY <1>1, <1>6, <1>7, NodeKinds
<1>9. /\ Len(P2[q].kids) = Len(kids) + 1
      /\ \A i \in 1 .. (Len(kids) + 1) :
           P2[q].kids[i] = IF i < j + 1 THEN kids[i] ELSE IF i = j + 1 THEN p ELSE kids[i - 1]
  BY <1>7, <1>8 DEF j1
<1> QED
  BY <1>4, <1>8, <1>9 DEF keys, kids, j1, TakesIn

(* The chain, after a leaf has been cut in two: the leaves before it count   *)
(* one more, and the new one what it has counted.                            *)
SplitEnds(live, n, p, s, lo, hi, lo2, hi2) ==
  /\ lo2[p] = s /\ hi2[p] = hi[n] /\ hi2[n] = s
  /\ \A x \in live : lo2[x] = lo[x] /\ (x # n => hi2[x] = hi[x])

(* What the chain needs to know of a split.                                  *)
SplitKids(P, live, q, j, n, p, left, right, P2) ==
  /\ n \in live /\ q \in live /\ ~P[q].leaf /\ n # q /\ live \subseteq PageNo
  /\ j \in 1 .. Len(P[q].kids) /\ P[q].kids[j] = n /\ p \in PageNo /\ p \notin live
  /\ P2[n] = left /\ P2[p] = right /\ P2[q].leaf = FALSE
  /\ left.leaf = P[n].leaf /\ right.leaf = P[n].leaf
  /\ Taken(P[q].kids, j, p, P2[q].kids)
  /\ \A x \in live : x # n /\ x # q => P2[x] = P[x]
  /\ \A i \in 1 .. Len(P[q].kids) : i # j => P[q].kids[i] # n
  /\ \A x \in live : P[x].leaf \in BOOLEAN
  /\ \A x \in live : ~P[x].leaf => \A i \in 1 .. Len(P[x].kids) :
       P[x].kids[i] \in live /\ (x # q => P[x].kids[i] # n)

LEMMA SplitKidsAre ==
  ASSUME NEW P, NEW r, NEW live, NEW lev, NEW lo, NEW hi, NEW up, NEW rows,
         Tree(P, r, live, lev, lo, hi, up, rows),
         NEW q, NEW j, NEW n, NEW p, NEW m, NEW left, NEW right, NEW s, NEW P2,
         SplitTo(P, live, q, j, n, p, m, left, right, s, P2)
  PROVE  SplitKids(P, live, q, j, n, p, left, right, P2)
<1>1. /\ n \in live /\ q \in live /\ ~P[q].leaf
      /\ j \in 1 .. Len(P[q].kids) /\ P[q].kids[j] = n
      /\ p \in PageNo /\ p \notin live /\ Cut(P[n], m, left, right, s)
      /\ P2[n] = left /\ P2[p] = right
      /\ \A x \in live : x # n /\ x # q => P2[x] = P[x]
  BY DEF SplitTo
<1>2. live \subseteq PageNo
  BY DEF Tree
<1>3. left.leaf = P[n].leaf /\ right.leaf = P[n].leaf
  BY <1>1 DEF Cut
<1>4. P2[q].leaf = FALSE /\ Taken(P[q].kids, j, p, P2[q].kids)
  <2>1. /\ P2[q].leaf = FALSE /\ Len(P2[q].kids) = Len(P[q].kids) + 1
        /\ \A i \in 1 .. (Len(P[q].kids) + 1) :
             P2[q].kids[i] = IF i < j + 1 THEN P[q].kids[i] ELSE IF i = j + 1 THEN p ELSE P[q].kids[i - 1]
    <3>1. TakesIn(P, q, j, s, p, P2)
      BY ParentTakes
    <3> QED
      BY <3>1 DEF TakesIn
  <2> QED
    BY <1>1, <2>1 DEF Taken
<1>5. \A x \in live : ~P[x].leaf => \A i \in 1 .. Len(P[x].kids) :
         P[x].kids[i] \in live /\ lev[P[x].kids[i]] + 1 = lev[x] /\ up[P[x].kids[i]] = x
  BY TreeNode
<1>6. \A x \in live : lev[x] \in Nat /\ P[x].leaf \in BOOLEAN
  BY TreeNode
<1>7. up[n] = q /\ lev[n] + 1 = lev[q]
  BY <1>1, <1>5
<1>8. n # q
  BY <1>1, <1>6, <1>7
<1>9. \A x \in live : ~P[x].leaf => \A i \in 1 .. Len(P[x].kids) :
        P[x].kids[i] \in live /\ (x # q => P[x].kids[i] # n)
  BY <1>5, <1>7
<1>10. Distinct(P[q].kids)
  BY <1>1, TreeNode DEF InnerAt
<1>11. \A i \in 1 .. Len(P[q].kids) : i # j => P[q].kids[i] # n
  BY <1>1, <1>10 DEF Distinct
<1> QED
  BY <1>1, <1>2, <1>3, <1>4, <1>6, <1>8, <1>9, <1>11 DEF SplitKids

LEMMA ChainSplitLeaf ==
  ASSUME NEW P, NEW r, NEW live, NEW lo, NEW hi, NEW a, NEW b, Ranked(P, r, live, lo, hi, a, b), r \in live,
         NEW q, NEW j, NEW n, NEW p, NEW left, NEW right, NEW s, NEW P2,
         SplitKids(P, live, q, j, n, p, left, right, P2), r # n,
         P[n].leaf, left.next = p, right.next = P[n].next,
         NEW lo2, NEW hi2, SplitEnds(live, n, p, s, lo, hi, lo2, hi2)
  PROVE  Chained(P2, r, live \cup {p}, lo2, hi2)
<1> DEFINE c  == b[n]
           f  == [v \in Nat |-> IF v > c THEN v + 1 ELSE v]
           a2 == [x \in PageNo |-> IF x = p THEN c + 1 ELSE f[a[x]]]
           b2 == [x \in PageNo |-> IF x = p THEN c ELSE IF x = n THEN c + 1 ELSE f[b[x]]]
           live2 == live \cup {p}
<1>1. /\ n \in live /\ q \in live /\ ~P[q].leaf /\ n # q /\ live \subseteq PageNo
      /\ j \in 1 .. Len(P[q].kids) /\ P[q].kids[j] = n /\ p \in PageNo /\ p \notin live
      /\ P2[n] = left /\ P2[p] = right /\ P2[q].leaf = FALSE /\ left.leaf = TRUE /\ right.leaf = TRUE
      /\ \A x \in live : x # n /\ x # q => P2[x] = P[x]
  BY DEF SplitKids
<1>2. /\ Taken(P[q].kids, j, p, P2[q].kids)
      /\ \A i \in 1 .. Len(P[q].kids) : i # j => P[q].kids[i] # n
      /\ \A x \in live : ~P[x].leaf => \A i \in 1 .. Len(P[x].kids) :
           P[x].kids[i] \in live /\ (x # q => P[x].kids[i] # n)
      /\ \A x \in live : P[x].leaf \in BOOLEAN
  BY DEF SplitKids
<1>3. /\ lo2[p] = s /\ hi2[p] = hi[n] /\ hi2[n] = s
      /\ \A x \in live : lo2[x] = lo[x] /\ (x # n => hi2[x] = hi[x])
  BY DEF SplitEnds
<1>4. /\ a \in [PageNo -> Nat] /\ b \in [PageNo -> Nat] /\ b[r] = 0
      /\ \A x \in live : P[x].leaf => Onward(P, x, live, lo, hi, a, b)
      /\ \A x \in live : ~P[x].leaf => Strung(P[x].kids, a, b, a[x], b[x])
      /\ \A x, y \in live : P[x].leaf /\ P[y].leaf /\ b[x] = b[y] => x = y
  BY DEF Ranked
<1>0. c \in Nat
  BY <1>1, <1>4
<1>5. \A v \in Nat : f[v] \in Nat /\ (v > c => f[v] = v + 1) /\ (v <= c => f[v] = v)
  <2> HIDE DEF c
  <2> QED
    BY <1>0
<1>6. /\ a2 \in [PageNo -> Nat] /\ b2 \in [PageNo -> Nat]
      /\ a2[p] = c + 1 /\ b2[p] = c /\ b2[n] = c + 1
      /\ \A x \in live : a2[x] = f[a[x]] /\ (x # n => b2[x] = f[b[x]])
  <2> HIDE DEF c, f
  <2> QED
    <3>1. \A x \in live : a[x] \in Nat /\ b[x] \in Nat /\ f[a[x]] \in Nat /\ f[b[x]] \in Nat
      BY <1>1, <1>4, <1>5
    <3>2. a2 \in [PageNo -> Nat] /\ b2 \in [PageNo -> Nat]
      BY <1>0, <1>4, <1>5
    <3> QED
      BY <1>1, <3>1, <3>2
<1>7. \A x \in live : x \in live2 /\ x # p /\ a[x] \in Nat /\ b[x] \in Nat
  BY <1>1, <1>4
<1>8. p \in live2 /\ \A x \in live2 : x = p \/ x \in live
  OBVIOUS
<1> HIDE DEF c, f, a2, b2, live2
<1>9. c = b[n]
  BY DEF c
<1>10. \A x \in live : P2[x].leaf = P[x].leaf
  BY <1>1, <1>2
<1>11. ASSUME NEW x \in live, P[x].leaf, b[x] # 0
       PROVE  /\ P[x].next \in live2 /\ P2[P[x].next].leaf /\ a2[P[x].next] = f[b[x]]
              /\ lo2[P[x].next] = hi[x]
  <2>1. P[x].next \in live /\ P[P[x].next].leaf /\ a[P[x].next] = b[x] /\ lo[P[x].next] = hi[x]
    BY <1>4, <1>11 DEF Onward
  <2> QED
    BY <1>3, <1>6, <1>7, <1>10, <2>1
<1>12. Onward(P, n, live, lo, hi, a, b)
  BY <1>1, <1>4
<1>13. Onward(P2, n, live2, lo2, hi2, a2, b2)
  <2>1. a2[n] = c + 2
    <3>1. a[n] = c + 1 /\ a2[n] = f[a[n]]
      BY <1>1, <1>6, <1>9, <1>12 DEF Onward
    <3>2. c + 1 \in Nat /\ c + 1 > c
      BY <1>0
    <3>3. f[c + 1] = (c + 1) + 1
      BY <1>5, <3>2
    <3> QED
      BY <1>0, <3>1, <3>3
  <2> QED
    BY <1>1, <1>3, <1>5, <1>6, <1>8, <2>1 DEF Onward
<1>14. Onward(P2, p, live2, lo2, hi2, a2, b2)
  <2>1. c = 0 => P2[p].next = NoPage /\ hi2[p] = MaxKey + 1
    BY <1>1, <1>3, <1>9, <1>12 DEF Onward
  <2>2. c # 0 => P2[p].next \in live2 /\ P2[P2[p].next].leaf /\ a2[P2[p].next] = c /\ lo2[P2[p].next] = hi2[p]
    BY <1>0, <1>1, <1>3, <1>5, <1>9, <1>11
  <2> QED
    BY <1>6, <2>1, <2>2 DEF Onward
<1>15. ASSUME NEW x \in live, P[x].leaf, x # n PROVE Onward(P2, x, live2, lo2, hi2, a2, b2)
  <2>1. P2[x] = P[x] /\ hi2[x] = hi[x] /\ b2[x] = f[b[x]] /\ a2[x] = f[a[x]]
    BY <1>1, <1>3, <1>6, <1>15
  <2>2. Onward(P, x, live, lo, hi, a, b)
    BY <1>4, <1>15
  <2>3. b[x] # c /\ a[x] = b[x] + 1
    BY <1>1, <1>4, <1>9, <1>15, <2>2 DEF Onward
  <2>4. f[a[x]] = f[b[x]] + 1 /\ (f[b[x]] = 0 => b[x] = 0) /\ (b[x] = 0 => f[b[x]] = 0)
    BY <1>0, <1>5, <1>7, <2>3
  <2>5. b2[x] = 0 => P2[x].next = NoPage /\ hi2[x] = MaxKey + 1
    BY <2>1, <2>2, <2>4 DEF Onward
  <2>6. b2[x] # 0 => P2[x].next \in live2 /\ P2[P2[x].next].leaf /\ a2[P2[x].next] = b2[x] /\ lo2[P2[x].next] = hi2[x]
    BY <1>11, <1>15, <2>1, <2>4
  <2> QED
    BY <2>1, <2>4, <2>5, <2>6 DEF Onward
<1>16. ASSUME NEW x \in live, ~P[x].leaf PROVE Strung(P2[x].kids, a2, b2, a2[x], b2[x])
  <2>1. x # n /\ Strung(P[x].kids, a, b, a[x], b[x]) /\ a2[x] = f[a[x]] /\ b2[x] = f[b[x]]
    BY <1>1, <1>4, <1>6, <1>16
  <2>2. CASE x = q
    <3>1. \A i \in 1 .. Len(P[q].kids) :
            a2[P[q].kids[i]] = f[a[P[q].kids[i]]] /\ (i # j => b2[P[q].kids[i]] = f[b[P[q].kids[i]]])
      BY <1>1, <1>2, <1>6
    <3>2. b2[P[q].kids[j]] = a2[p] /\ b2[p] = f[b[P[q].kids[j]]]
      BY <1>1, <1>5, <1>6, <1>9
    <3>3. TakesPart(P[q].kids, j, p, a, b, f, a2, b2)
      BY <3>1, <3>2 DEF TakesPart
    <3>4. Strung(P2[q].kids, a2, b2, f[a[q]], f[b[q]])
      BY <1>2, <2>1, <2>2, <3>3, StrungTaken
    <3> QED
      BY <2>1, <2>2, <3>4
  <2>3. CASE x # q
    <3>1. Mapped(P[x].kids, a, b, f, a2, b2)
      BY <1>2, <1>6, <1>16, <2>3 DEF Mapped
    <3>2. Strung(P[x].kids, a2, b2, f[a[x]], f[b[x]])
      BY <2>1, <3>1, StrungMapped
    <3>3. P2[x] = P[x]
      BY <1>1, <2>1, <2>3
    <3> QED
      BY <2>1, <3>2, <3>3
  <2> QED
    BY <2>2, <2>3
<1>17. ASSUME NEW x \in live2, NEW y \in live2, P2[x].leaf, P2[y].leaf, b2[x] = b2[y] PROVE x = y
  <2>1. ASSUME NEW z \in live, P[z].leaf, z # n PROVE b2[z] # c /\ b2[z] # c + 1
    <3>1. b[z] # c /\ b2[z] = f[b[z]]
      BY <1>1, <1>4, <1>6, <1>9, <2>1
    <3> QED
      BY <1>0, <1>5, <1>7, <3>1
  <2>2. ASSUME NEW z \in live, P[z].leaf, z # n, NEW w \in live, P[w].leaf, w # n, b2[z] = b2[w] PROVE z = w
    <3>1. f[b[z]] = f[b[w]]
      BY <1>6, <2>2
    <3>2. b[z] = b[w]
      BY <1>0, <1>5, <1>7, <3>1
    <3> QED
      BY <1>4, <2>2, <3>2
  <2>3. c # c + 1
    BY <1>0
  <2> QED
    BY <1>6, <1>8, <1>10, <1>17, <2>1, <2>2, <2>3
<1>18. b2[r] = 0
  <2>1. f[0] = 0
    BY <1>0, <1>5
  <2> QED
    BY <1>4, <1>6, <2>1
<1>19. \A x \in live2 : IF P2[x].leaf THEN Onward(P2, x, live2, lo2, hi2, a2, b2)
                                     ELSE Strung(P2[x].kids, a2, b2, a2[x], b2[x])
  BY <1>1, <1>8, <1>10, <1>13, <1>14, <1>15, <1>16
<1>20. Ranked(P2, r, live2, lo2, hi2, a2, b2)
  BY <1>6, <1>17, <1>18, <1>19 DEF Ranked
<1> QED
  BY <1>20 DEF Chained, live2

LEMMA ChainSplitInner ==
  ASSUME NEW P, NEW r, NEW live, NEW lo, NEW hi, NEW a, NEW b, Ranked(P, r, live, lo, hi, a, b), r \in live,
         NEW q, NEW j, NEW n, NEW p, NEW left, NEW right, NEW s, NEW P2,
         SplitKids(P, live, q, j, n, p, left, right, P2), r # n,
         ~P[n].leaf, NEW m, CutKids(P[n].kids, m, left.kids, right.kids),
         NEW lo2, NEW hi2, SplitEnds(live, n, p, s, lo, hi, lo2, hi2)
  PROVE  Chained(P2, r, live \cup {p}, lo2, hi2)
<1> DEFINE v  == a[right.kids[1]]
           a2 == [a EXCEPT ![p] = v]
           b2 == [b EXCEPT ![p] = b[n], ![n] = v]
           live2 == live \cup {p}
           f  == [x \in Nat |-> x]
<1>1. /\ n \in live /\ q \in live /\ ~P[q].leaf /\ n # q /\ live \subseteq PageNo
      /\ j \in 1 .. Len(P[q].kids) /\ P[q].kids[j] = n /\ p \in PageNo /\ p \notin live
      /\ P2[n] = left /\ P2[p] = right /\ P2[q].leaf = FALSE
      /\ left.leaf = P[n].leaf /\ right.leaf = P[n].leaf
      /\ \A x \in live : x # n /\ x # q => P2[x] = P[x]
  BY DEF SplitKids
<1>2. /\ Taken(P[q].kids, j, p, P2[q].kids)
      /\ \A i \in 1 .. Len(P[q].kids) : i # j => P[q].kids[i] # n
      /\ \A x \in live : ~P[x].leaf => \A i \in 1 .. Len(P[x].kids) :
           P[x].kids[i] \in live /\ (x # q => P[x].kids[i] # n)
      /\ \A x \in live : P[x].leaf \in BOOLEAN
  BY DEF SplitKids
<1>3. \A x \in live : lo2[x] = lo[x] /\ (x # n => hi2[x] = hi[x])
  BY DEF SplitEnds
<1>4. /\ a \in [PageNo -> Nat] /\ b \in [PageNo -> Nat] /\ b[r] = 0
      /\ \A x \in live : P[x].leaf => Onward(P, x, live, lo, hi, a, b)
      /\ \A x \in live : ~P[x].leaf => Strung(P[x].kids, a, b, a[x], b[x])
      /\ \A x, y \in live : P[x].leaf /\ P[y].leaf /\ b[x] = b[y] => x = y
  BY DEF Ranked
<1>5. /\ m \in 1 .. Len(P[n].kids) /\ Len(left.kids) = m /\ Len(right.kids) = Len(P[n].kids) - m
      /\ Len(right.kids) >= 1 /\ \A i \in 1 .. m : left.kids[i] = P[n].kids[i]
      /\ \A i \in 1 .. Len(right.kids) : right.kids[i] = P[n].kids[m + i]
  BY DEF CutKids
<1>6. Strung(P[n].kids, a, b, a[n], b[n]) /\ Len(P[n].kids) \in Nat
  BY <1>1, <1>4 DEF Strung
<1>7. Strung(left.kids, a, b, a[n], v) /\ Strung(right.kids, a, b, v, b[n])
  BY <1>6, StrungCut
<1>8. /\ \A i \in 1 .. Len(left.kids) : left.kids[i] \in live /\ left.kids[i] # n
      /\ \A i \in 1 .. Len(right.kids) : right.kids[i] \in live /\ right.kids[i] # n
  <2>1. \A i \in 1 .. Len(P[n].kids) : P[n].kids[i] \in live /\ P[n].kids[i] # n
    BY <1>1, <1>2
  <2>2. \A i \in 1 .. Len(right.kids) : m + i \in 1 .. Len(P[n].kids)
    BY <1>5, <1>6
  <2>3. \A i \in 1 .. m : i \in 1 .. Len(P[n].kids)
    BY <1>5, <1>6
  <2> QED
    BY <1>5, <2>1, <2>2, <2>3
<1>9. v \in Nat
  <2>1. 1 \in 1 .. Len(right.kids)
    BY <1>5, <1>6
  <2> QED
    BY <1>1, <1>4, <1>8, <2>1
<1> HIDE DEF v
<1>10. /\ a2 \in [PageNo -> Nat] /\ b2 \in [PageNo -> Nat]
       /\ a2[p] = v /\ b2[p] = b[n] /\ b2[n] = v
       /\ \A x \in live : a2[x] = a[x] /\ (x # n => b2[x] = b[x])
  BY <1>1, <1>4, <1>9
<1>11. p \in live2 /\ \A x \in live : x \in live2 /\ a[x] \in Nat /\ b[x] \in Nat
  BY <1>1, <1>4
<1>12. \A x \in live2 : x = p \/ x \in live
  OBVIOUS
<1>13. \A x \in Nat : f[x] = x
  OBVIOUS
<1> HIDE DEF a2, b2, live2, f
<1>14. \A x \in live : P2[x].leaf = P[x].leaf
  BY <1>1, <1>2
<1>15. ASSUME NEW x \in live, P[x].leaf PROVE Onward(P2, x, live2, lo2, hi2, a2, b2)
  <2>1. P2[x] = P[x] /\ hi2[x] = hi[x] /\ b2[x] = b[x] /\ a2[x] = a[x]
    BY <1>1, <1>3, <1>10, <1>15
  <2>2. Onward(P, x, live, lo, hi, a, b)
    BY <1>4, <1>15
  <2>3. ASSUME b[x] # 0
        PROVE  /\ P[x].next \in live2 /\ P2[P[x].next].leaf /\ a2[P[x].next] = b[x]
               /\ lo2[P[x].next] = hi[x]
    <3>1. P[x].next \in live /\ P[P[x].next].leaf /\ a[P[x].next] = b[x] /\ lo[P[x].next] = hi[x]
      BY <2>2, <2>3 DEF Onward
    <3> QED
      BY <1>3, <1>10, <1>11, <1>14, <3>1
  <2> QED
    BY <2>1, <2>2, <2>3 DEF Onward
<1>16. Strung(P2[n].kids, a2, b2, a2[n], b2[n]) /\ Strung(P2[p].kids, a2, b2, a2[p], b2[p])
  <2>1. \A i \in 1 .. Len(left.kids) : a2[left.kids[i]] = a[left.kids[i]] /\ b2[left.kids[i]] = b[left.kids[i]]
    BY <1>8, <1>10
  <2>2. \A i \in 1 .. Len(right.kids) : a2[right.kids[i]] = a[right.kids[i]] /\ b2[right.kids[i]] = b[right.kids[i]]
    BY <1>8, <1>10
  <2>3. Strung(left.kids, a2, b2, a[n], v)
    BY <1>7, <2>1, StrungElse
  <2>4. Strung(right.kids, a2, b2, v, b[n])
    BY <1>7, <2>2, StrungElse
  <2> QED
    BY <1>1, <1>10, <2>3, <2>4
<1>17. ASSUME NEW x \in live, ~P[x].leaf, x # n PROVE Strung(P2[x].kids, a2, b2, a2[x], b2[x])
  <2>1. Strung(P[x].kids, a, b, a[x], b[x]) /\ a2[x] = a[x] /\ b2[x] = b[x]
    BY <1>4, <1>10, <1>17
  <2>2. CASE x = q
    <3>1. \A i \in 1 .. Len(P[q].kids) : P[q].kids[i] \in live /\ (i # j => P[q].kids[i] # n)
      BY <1>1, <1>2
    <3>2. \A i \in 1 .. Len(P[q].kids) :
            a2[P[q].kids[i]] = f[a[P[q].kids[i]]] /\ (i # j => b2[P[q].kids[i]] = f[b[P[q].kids[i]]])
      BY <1>10, <1>11, <1>13, <3>1
    <3>3. b2[P[q].kids[j]] = a2[p] /\ b2[p] = f[b[P[q].kids[j]]]
      BY <1>1, <1>10, <1>11, <1>13
    <3>4. TakesPart(P[q].kids, j, p, a, b, f, a2, b2)
      BY <3>2, <3>3 DEF TakesPart
    <3>5. Strung(P2[q].kids, a2, b2, f[a[q]], f[b[q]])
      BY <1>2, <2>1, <2>2, <3>4, StrungTaken
    <3>6. f[a[q]] = a[q] /\ f[b[q]] = b[q]
      BY <1>1, <1>11, <1>13
    <3> QED
      BY <2>1, <2>2, <3>5, <3>6
  <2>3. CASE x # q
    <3>1. \A i \in 1 .. Len(P[x].kids) :
            a2[P[x].kids[i]] = a[P[x].kids[i]] /\ b2[P[x].kids[i]] = b[P[x].kids[i]]
      BY <1>2, <1>10, <1>17, <2>3
    <3>2. Strung(P[x].kids, a2, b2, a[x], b[x])
      BY <2>1, <3>1, StrungElse
    <3>3. P2[x] = P[x]
      BY <1>1, <1>17, <2>3
    <3> QED
      BY <2>1, <3>2, <3>3
  <2> QED
    BY <2>2, <2>3
<1>18. ASSUME NEW x \in live2, NEW y \in live2, P2[x].leaf, P2[y].leaf, b2[x] = b2[y] PROVE x = y
  <2>1. ASSUME NEW z \in live2, P2[z].leaf PROVE z \in live /\ P[z].leaf /\ z # n
    BY <1>1, <1>12, <1>14, <2>1
  <2>2. /\ x \in live /\ P[x].leaf /\ x # n /\ y \in live /\ P[y].leaf /\ y # n
    BY <1>18, <2>1
  <2> QED
    BY <1>4, <1>10, <1>18, <2>2
<1>19. b2[r] = 0
  BY <1>4, <1>10
<1>20. \A x \in live2 : IF P2[x].leaf THEN Onward(P2, x, live2, lo2, hi2, a2, b2)
                                     ELSE Strung(P2[x].kids, a2, b2, a2[x], b2[x])
  BY <1>1, <1>12, <1>14, <1>15, <1>16, <1>17
<1>21. Ranked(P2, r, live2, lo2, hi2, a2, b2)
  BY <1>10, <1>18, <1>19, <1>20 DEF Ranked
<1> QED
  BY <1>21 DEF Chained, live2

LEMMA ChainSplit ==
  ASSUME NEW P, NEW r, NEW live, NEW lev, NEW lo, NEW hi, NEW up, NEW rows,
         Tree(P, r, live, lev, lo, hi, up, rows),
         NEW q, NEW j, NEW n, NEW p, NEW m, NEW left, NEW right, NEW s, NEW P2,
         SplitTo(P, live, q, j, n, p, m, left, right, s, P2),
         NEW lo2, NEW hi2, SplitEnds(live, n, p, s, lo, hi, lo2, hi2)
  PROVE  Chained(P2, r, live \cup {p}, lo2, hi2)
<1>1. PICK a, b : Ranked(P, r, live, lo, hi, a, b)
  BY DEF Tree, Chained
<1>2. SplitKids(P, live, q, j, n, p, left, right, P2)
  BY SplitKidsAre
<1>3. /\ n \in live /\ q \in live /\ ~P[q].leaf /\ j \in 1 .. Len(P[q].kids) /\ P[q].kids[j] = n
      /\ Cut(P[n], m, left, right, s) /\ (P[n].leaf => left.next = p /\ right.next = P[n].next)
  BY DEF SplitTo
<1>4. r \in live /\ r # n
  <2>1. r \in live /\ \A x \in live : x # r => lev[x] < lev[r]
    BY DEF Tree
  <2>2. lev[n] + 1 = lev[q] /\ lev[n] \in Nat /\ lev[q] \in Nat
    BY <1>3, TreeNode
  <2> QED
    BY <1>3, <2>1, <2>2
<1>5. CASE P[n].leaf
  BY <1>1, <1>2, <1>3, <1>4, <1>5, ChainSplitLeaf
<1>6. CASE ~P[n].leaf
  <2>1. Halves(P, n, lo, hi, rows, m, left, right, s)
    BY <1>3, CutWithin
  <2>2. /\ Len(left.kids) = m /\ \A i \in 1 .. m : left.kids[i] = P[n].kids[i]
        /\ \A i \in 1 .. Len(right.kids) : right.kids[i] = P[n].kids[m + i]
        /\ Len(right.kids) = Len(P[n].kids) - m /\ m \in 1 .. Len(P[n].kids)
    BY <1>6, <2>1 DEF Halves
  <2>3. Parts(right.keys, right.kids, s, hi[n], lo, hi)
    BY <1>6, <2>1 DEF Halves
  <2>4. Len(right.kids) >= 1
    BY <2>3, PartsTyped
  <2>5. CutKids(P[n].kids, m, left.kids, right.kids)
    BY <2>2, <2>4 DEF CutKids
  <2> QED
    BY <1>1, <1>2, <1>4, <1>6, <2>5, ChainSplitInner
<1> QED
  BY <1>5, <1>6

LEMMA TreeSplit ==
  ASSUME NEW P, NEW r, NEW live, NEW lev, NEW lo, NEW hi, NEW up, NEW rows,
         Tree(P, r, live, lev, lo, hi, up, rows),
         NEW q, NEW j, NEW n, NEW p, NEW m, NEW left, NEW right, NEW s, NEW P2,
         SplitTo(P, live, q, j, n, p, m, left, right, s, P2)
  PROVE  TreeOf(P2, r, live \cup {p}, [lev EXCEPT ![p] = lev[n]], rows)
<1>00. /\ n \in live /\ q \in live /\ ~P[q].leaf
       /\ j \in 1 .. Len(P[q].kids) /\ P[q].kids[j] = n
       /\ p \in PageNo /\ p \notin live
       /\ P2 \in Pages /\ P2[n] = left /\ P2[p] = right
       /\ \A x \in live : x # n /\ x # q => P2[x] = P[x]
  BY DEF SplitTo
<1>01. Cut(P[n], m, left, right, s)
  BY DEF SplitTo
<1>02. P2[q] = Internal(InsertAt(P[q].keys, j, s), InsertAt(P[q].kids, j + 1, p))
  BY DEF SplitTo
<1>1. /\ P \in Pages /\ rows \in Rows /\ live \in SUBSET PageNo
      /\ lev \in [PageNo -> Nat] /\ lo \in [PageNo -> Ends] /\ hi \in [PageNo -> Ends]
      /\ up \in [PageNo -> PageNo] /\ r \in live /\ lo[r] = 1 /\ hi[r] = MaxKey + 1
  BY DEF Tree
<1>2. \A x \in live : x # r => lev[x] < lev[r] /\ up[x] \in live /\ HasChild(P[up[x]], x)
  BY DEF Tree
<1>3. \A x, y \in live : \A k \in Key :
        (P[x].leaf /\ lo[x] <= k /\ k < hi[x] /\ P[y].leaf /\ lo[y] <= k /\ k < hi[y])
        => x = y
  BY DEF Tree
<1>4. \A x \in live :
         /\ x \in PageNo /\ P[x] \in Node /\ P[x].leaf \in BOOLEAN
         /\ lev[x] \in Nat /\ lo[x] \in Ends /\ hi[x] \in Ends /\ lo[x] <= hi[x]
         /\ lev[x] = 0 <=> P[x].leaf
  BY <1>00, TreeNode
<1>5. \A x \in live : ~P[x].leaf => \A i \in 1 .. Len(P[x].kids) :
         /\ P[x].kids[i] \in live /\ lev[P[x].kids[i]] + 1 = lev[x] /\ up[P[x].kids[i]] = x
  BY <1>00, TreeNode
<1>6. /\ lev[n] + 1 = lev[q] /\ up[n] = q /\ n # q /\ p # n /\ p # q /\ n \in PageNo /\ q \in PageNo
  BY <1>00, <1>4, <1>5
<1>0. Halves(P, n, lo, hi, rows, m, left, right, s)
  BY <1>00, <1>01, CutWithin
<1>7. /\ s \in Key /\ s \in Ends /\ lo[n] <= s /\ s <= hi[n]
      /\ left \in Node /\ right \in Node /\ left.leaf = P[n].leaf /\ right.leaf = P[n].leaf
      /\ P[n].leaf => Holds(left.cells, lo[n], s, rows) /\ Holds(right.cells, s, hi[n], rows)
  <2>1. /\ s \in Key /\ lo[n] <= s /\ s <= hi[n]
        /\ P[n].leaf => Holds(left.cells, lo[n], s, rows) /\ Holds(right.cells, s, hi[n], rows)
    BY <1>00, <1>0 DEF Halves
  <2>2. left \in Node /\ right \in Node /\ left.leaf = P[n].leaf /\ right.leaf = P[n].leaf
    BY <1>01 DEF Cut
  <2>3. s \in Ends
    BY <1>00, <2>1, Sizes DEF Ends
  <2> QED
    BY <1>00, <2>1, <2>2, <2>3
<1>8. ~P[n].leaf => /\ Parts(left.keys, left.kids, lo[n], s, lo, hi)
                    /\ Parts(right.keys, right.kids, s, hi[n], lo, hi)
                    /\ Len(left.kids) = m /\ m \in 1 .. Len(P[n].kids)
                    /\ Len(right.kids) = Len(P[n].kids) - m
                    /\ \A i \in 1 .. m : i \in 1 .. Len(P[n].kids) /\ left.kids[i] = P[n].kids[i]
                    /\ \A i \in 1 .. Len(right.kids) :
                         m + i \in 1 .. Len(P[n].kids) /\ right.kids[i] = P[n].kids[m + i]
  BY <1>00, <1>0 DEF Halves
<1> DEFINE R == IF right.leaf THEN {} ELSE {right.kids[i] : i \in 1 .. Len(right.kids)}
           live2 == live \cup {p}
           lev2 == [lev EXCEPT ![p] = lev[n]]
           lo2 == [lo EXCEPT ![p] = s]
           hi2 == [hi EXCEPT ![p] = hi[n], ![n] = s]
           up2 == [x \in PageNo |-> IF x = p THEN q ELSE IF x \in R THEN p ELSE up[x]]
<1>9. ASSUME NEW x \in R
      PROVE  x \in live /\ up[x] = n /\ lev[x] + 1 = lev[n] /\ x # n /\ x # q /\ x # p
  <2>1. PICK i \in 1 .. Len(right.kids) : x = right.kids[i] /\ ~right.leaf
    BY <1>00, <1>9
  <2>2. m + i \in 1 .. Len(P[n].kids) /\ x = P[n].kids[m + i] /\ ~P[n].leaf
    BY <1>00, <1>7, <1>8, <2>1
  <2>3. x \in live /\ lev[x] + 1 = lev[n] /\ up[x] = n
    BY <1>00, <1>5, <2>2
  <2> QED
    BY <1>00, <1>4, <1>6, <2>3
<1>10. /\ lev2 \in [PageNo -> Nat] /\ lo2 \in [PageNo -> Ends] /\ hi2 \in [PageNo -> Ends]
       /\ up2 \in [PageNo -> PageNo] /\ live2 \in SUBSET PageNo
  BY <1>00, <1>1, <1>4, <1>6, <1>7
<1>11. /\ lev2[p] = lev[n] /\ lo2[p] = s /\ hi2[p] = hi[n] /\ up2[p] = q
       /\ lev2[n] = lev[n] /\ lo2[n] = lo[n] /\ hi2[n] = s
       /\ \A x \in live : lev2[x] = lev[x] /\ lo2[x] = lo[x] /\ (x # n => hi2[x] = hi[x])
       /\ \A x \in live : up2[x] = IF x \in R THEN p ELSE up[x]
       /\ p \in live2 /\ live \subseteq live2 /\ \A x \in live2 : x = p \/ x \in live
  BY <1>00, <1>1, <1>6
<1>0a. /\ \A x \in R : HasChild(right, x)
       /\ ~right.leaf => \A i \in 1 .. Len(right.kids) : right.kids[i] \in R
  BY DEF HasChild
<1>12. \A x \in R : x \in live2 /\ up2[x] = p /\ lev2[x] + 1 = lev2[p]
  BY <1>00, <1>9, <1>11
<1> HIDE DEF R, live2, lev2, lo2, hi2, up2
<1>13. ASSUME NEW x \in live, x # n, x # q
       PROVE  NodeFits(P2, x, live2, lev2, lo2, hi2, up2, rows)
  <2>1. P2[x] = P[x] /\ lo2[x] = lo[x] /\ hi2[x] = hi[x] /\ lev2[x] = lev[x]
    BY <1>00, <1>11, <1>13
  <2>2. CASE P[x].leaf
    <3>1. Holds(P[x].cells, lo[x], hi[x], rows) /\ lev[x] = 0
      BY <1>00, <2>2, TreeNode
    <3> QED
      BY <1>00, <1>4, <2>1, <2>2, <3>1 DEF NodeFits, LeafAt
  <2>3. CASE ~P[x].leaf
    <3>1. InnerAt(P[x], x, live, lev, lo, hi, up)
      BY <1>00, <2>3, TreeNode
    <3>2. ASSUME NEW i \in 1 .. Len(P[x].kids)
          PROVE  /\ P[x].kids[i] \in live2 /\ lev2[P[x].kids[i]] + 1 = lev2[x] /\ up2[P[x].kids[i]] = x
                 /\ lo2[P[x].kids[i]] = lo[P[x].kids[i]] /\ hi2[P[x].kids[i]] = hi[P[x].kids[i]]
      <4> DEFINE y == P[x].kids[i]
      <4>1. y \in live /\ lev[y] + 1 = lev[x] /\ up[y] = x
        BY <1>00, <1>5, <2>3
      <4>2. y \notin R /\ y # n
        BY <1>00, <1>6, <1>9, <1>13, <4>1
      <4> HIDE DEF y
      <4>3. y \in live2 /\ lev2[y] + 1 = lev2[x] /\ up2[y] = x /\ lo2[y] = lo[y] /\ hi2[y] = hi[y]
        BY <1>00, <1>11, <4>1, <4>2
      <4> QED
        BY <1>00, <4>3 DEF y
    <3>3. Parts(P[x].keys, P[x].kids, lo[x], hi[x], lo, hi) /\ Distinct(P[x].kids) /\ lev[x] > 0
      BY <1>00, <3>1 DEF InnerAt
    <3>4. \A i \in 1 .. Len(P[x].kids) : lo2[P[x].kids[i]] = lo[P[x].kids[i]] /\ hi2[P[x].kids[i]] = hi[P[x].kids[i]]
      BY <1>00, <3>2
    <3>5. Parts(P[x].keys, P[x].kids, lo[x], hi[x], lo2, hi2)
      <4> QED
        BY <1>00, <3>3, <3>4, PartsElse
    <3> QED
      BY <1>00, <1>4, <2>1, <2>3, <3>2, <3>3, <3>5 DEF NodeFits, InnerAt
  <2> QED
    BY <1>00, <2>2, <2>3
<1>14. /\ P2[q].leaf = FALSE /\ P2[q] \in Node
       /\ P2[q].keys = InsertAt(P[q].keys, j, s) /\ P2[q].kids = InsertAt(P[q].kids, j + 1, p)
       /\ P[q].keys \in Seq(Key) /\ P[q].kids \in Seq(PageNo)
       /\ Len(P[q].kids) = Len(P[q].keys) + 1 /\ Len(P[q].kids) \in Nat
       /\ Len(P2[q].kids) = Len(P[q].kids) + 1
       /\ \A i \in 1 .. (Len(P[q].kids) + 1) :
            P2[q].kids[i] = IF i < j + 1 THEN P[q].kids[i] ELSE IF i = j + 1 THEN p ELSE P[q].kids[i - 1]
  <2>1. TakesIn(P, q, j, s, p, P2)
    BY ParentTakes
  <2> QED
    BY <2>1 DEF TakesIn
<1>15. NodeFits(P2, q, live2, lev2, lo2, hi2, up2, rows)
  <2>1. InnerAt(P[q], q, live, lev, lo, hi, up)
    BY <1>00, TreeNode
  <2>2. \A i \in 1 .. Len(P[q].kids) : P[q].kids[i] # p
    BY <1>00, <1>5
  <2>3. Parts(P[q].keys, P[q].kids, lo[q], hi[q], lo, hi) /\ Distinct(P[q].kids) /\ lev[q] > 0
    BY <1>00, <2>1 DEF InnerAt
  <2>4. /\ Parts(P2[q].keys, P2[q].kids, lo[q], hi[q], [lo EXCEPT ![p] = s],
                 [hi EXCEPT ![p] = hi[P[q].kids[j]], ![P[q].kids[j]] = s])
        /\ Distinct(P2[q].kids)
    <3> DEFINE keys == P[q].keys
               kids == P[q].kids
    <3>1. /\ Parts(keys, kids, lo[q], hi[q], lo, hi) /\ Distinct(kids) /\ j \in 1 .. Len(kids)
          /\ \A i \in 1 .. Len(kids) : kids[i] # p
      BY <1>00, <2>2, <2>3
    <3>2. P2[q].keys = InsertAt(keys, j, s) /\ P2[q].kids = InsertAt(kids, j + 1, p)
      BY <1>00, <1>14
    <3> HIDE DEF keys, kids
    <3>3. /\ Parts(InsertAt(keys, j, s), InsertAt(kids, j + 1, p), lo[q], hi[q], [lo EXCEPT ![p] = s],
                   [hi EXCEPT ![p] = hi[kids[j]], ![kids[j]] = s])
          /\ Distinct(InsertAt(kids, j + 1, p))
      BY <1>00, <1>1, <1>7, <3>1, PartsTaken
    <3> QED
      BY <1>00, <3>2, <3>3 DEF kids
  <2>5. Parts(P2[q].keys, P2[q].kids, lo[q], hi[q], lo2, hi2)
    <3>1. P[q].kids[j] = n
      BY <1>00
    <3> QED
      BY <1>00, <2>4, <3>1 DEF lo2, hi2
  <2>6. ASSUME NEW i \in 1 .. Len(P2[q].kids)
        PROVE  P2[q].kids[i] \in live2 /\ lev2[P2[q].kids[i]] + 1 = lev2[q] /\ up2[P2[q].kids[i]] = q
    <3>1. CASE P2[q].kids[i] = p
      BY <1>00, <1>6, <1>11, <3>1
    <3>2. ASSUME NEW h \in 1 .. Len(P[q].kids), P2[q].kids[i] = P[q].kids[h]
          PROVE  P2[q].kids[i] \in live2 /\ lev2[P2[q].kids[i]] + 1 = lev2[q] /\ up2[P2[q].kids[i]] = q
      <4> DEFINE y == P[q].kids[h]
      <4>1. y \in live /\ lev[y] + 1 = lev[q] /\ up[y] = q
        BY <1>00, <1>5
      <4>2. y \notin R
        BY <1>00, <1>6, <1>9, <4>1
      <4> HIDE DEF y
      <4>3. y \in live2 /\ lev2[y] + 1 = lev2[q] /\ up2[y] = q
        BY <1>00, <1>11, <4>1, <4>2
      <4> QED
        BY <1>00, <3>2, <4>3 DEF y
    <3>3. i \in 1 .. (Len(P[q].kids) + 1)
      BY <1>00, <1>14
    <3>4. CASE i < j + 1
      <4>1. i \in 1 .. Len(P[q].kids) /\ P2[q].kids[i] = P[q].kids[i]
        BY <1>00, <1>14, <3>3, <3>4
      <4> QED
        BY <1>00, <3>2, <4>1
    <3>5. CASE i = j + 1
      BY <1>00, <1>14, <3>1, <3>3, <3>5
    <3>6. CASE i > j + 1
      <4>1. i - 1 \in 1 .. Len(P[q].kids) /\ P2[q].kids[i] = P[q].kids[i - 1]
        <5>1. ~(i < j + 1) /\ i # j + 1 /\ j \in Int /\ i \in Int
          BY <1>00, <3>3, <3>6
        <5>2. P2[q].kids[i] = P[q].kids[i - 1]
          BY <1>00, <1>14, <3>3, <5>1
        <5> QED
          BY <1>00, <1>14, <3>3, <3>6, <5>1, <5>2
      <4> QED
        BY <1>00, <3>2, <4>1
    <3> QED
      BY <1>00, <3>3, <3>4, <3>5, <3>6
  <2> QED
    BY <1>00, <1>4, <1>6, <1>11, <1>14, <2>3, <2>4, <2>5, <2>6 DEF NodeFits, InnerAt
<1>16. P[n].leaf => /\ NodeFits(P2, n, live2, lev2, lo2, hi2, up2, rows)
                    /\ NodeFits(P2, p, live2, lev2, lo2, hi2, up2, rows)
  BY <1>00, <1>4, <1>7, <1>11 DEF NodeFits, LeafAt
<1>17. ASSUME ~P[n].leaf PROVE Distinct(left.kids) /\ Distinct(right.kids)
  <2>1. Distinct(P[n].kids)
    BY <1>00, <1>17, TreeNode DEF InnerAt
  <2>2. Distinct(left.kids)
    BY <1>00, <1>8, <1>17, <2>1 DEF Distinct
  <2>3. ASSUME NEW h \in 1 .. Len(right.kids), NEW i \in 1 .. Len(right.kids), right.kids[h] = right.kids[i]
        PROVE  h = i
    <3>1. m \in Int
      BY <1>00, <1>8, <1>17
    <3>2. m + h \in 1 .. Len(P[n].kids) /\ m + i \in 1 .. Len(P[n].kids) /\ P[n].kids[m + h] = P[n].kids[m + i]
      BY <1>00, <1>8, <1>17, <2>3
    <3>3. m + h = m + i
      BY <1>00, <2>1, <3>2 DEF Distinct
    <3> QED
      BY <1>00, <3>1, <3>3
  <2> QED
    BY <1>00, <2>2, <2>3 DEF Distinct
<1>18. ASSUME ~P[n].leaf PROVE NodeFits(P2, n, live2, lev2, lo2, hi2, up2, rows)
  <2>1. ASSUME NEW i \in 1 .. Len(left.kids)
        PROVE  /\ left.kids[i] \in live2 /\ lev2[left.kids[i]] + 1 = lev2[n] /\ up2[left.kids[i]] = n
               /\ lo2[left.kids[i]] = lo[left.kids[i]] /\ hi2[left.kids[i]] = hi[left.kids[i]]
    <3> DEFINE y == left.kids[i]
    <3>1. i \in 1 .. Len(P[n].kids) /\ y = P[n].kids[i] /\ i <= m
      BY <1>00, <1>8, <1>18
    <3>2. y \in live /\ lev[y] + 1 = lev[n] /\ up[y] = n
      BY <1>00, <1>5, <1>18, <3>1
    <3>3. y \notin R
      <4>0. y \in R => HasChild(right, y)
        BY <1>00, <1>0a
      <4>1. ASSUME NEW h \in 1 .. Len(right.kids), right.kids[h] = y PROVE FALSE
        <5>1. P[n].kids[m + h] = P[n].kids[i] /\ m + h \in 1 .. Len(P[n].kids)
          BY <1>00, <1>8, <1>18, <3>1, <4>1
        <5>2. Distinct(P[n].kids)
          BY <1>00, <1>18, TreeNode DEF InnerAt
        <5>3. m + h = i
          BY <1>00, <3>1, <5>1, <5>2 DEF Distinct
        <5> QED
          BY <1>00, <1>8, <1>18, <3>1, <5>3
      <4> HIDE DEF y
      <4> QED
        BY <1>00, <4>0, <4>1 DEF HasChild
    <3> HIDE DEF y
    <3>4. y # n
      BY <1>00, <1>4, <3>2
    <3>5. y \in live2 /\ lev2[y] + 1 = lev2[n] /\ up2[y] = n /\ lo2[y] = lo[y] /\ hi2[y] = hi[y]
      BY <1>00, <1>11, <3>2, <3>3, <3>4
    <3> QED
      BY <1>00, <3>5 DEF y
  <2>2. Parts(left.keys, left.kids, lo[n], s, lo2, hi2)
    <3>1. \A i \in 1 .. Len(left.kids) : lo2[left.kids[i]] = lo[left.kids[i]] /\ hi2[left.kids[i]] = hi[left.kids[i]]
      BY <1>00, <2>1
    <3>2. Parts(left.keys, left.kids, lo[n], s, lo, hi)
      BY <1>00, <1>8, <1>18
    <3> QED
      BY <1>00, <3>1, <3>2, PartsElse
  <2>3. lev[n] > 0
    BY <1>00, <1>4, <1>18
  <2> QED
    BY <1>00, <1>4, <1>7, <1>11, <1>17, <1>18, <2>1, <2>2, <2>3 DEF NodeFits, InnerAt
<1>19. ASSUME ~P[n].leaf PROVE NodeFits(P2, p, live2, lev2, lo2, hi2, up2, rows)
  <2>1. ASSUME NEW i \in 1 .. Len(right.kids)
        PROVE  /\ right.kids[i] \in live2 /\ lev2[right.kids[i]] + 1 = lev2[p] /\ up2[right.kids[i]] = p
               /\ lo2[right.kids[i]] = lo[right.kids[i]] /\ hi2[right.kids[i]] = hi[right.kids[i]]
    <3> DEFINE y == right.kids[i]
    <3>1. y \in R
      BY <1>00, <1>0a, <1>7, <1>19
    <3> HIDE DEF y
    <3>2. y \in live2 /\ lev2[y] + 1 = lev2[p] /\ up2[y] = p /\ lo2[y] = lo[y] /\ hi2[y] = hi[y]
      BY <1>00, <1>9, <1>11, <1>12, <3>1
    <3> QED
      BY <1>00, <3>2 DEF y
  <2>2. Parts(right.keys, right.kids, s, hi[n], lo2, hi2)
    <3>1. \A i \in 1 .. Len(right.kids) : lo2[right.kids[i]] = lo[right.kids[i]] /\ hi2[right.kids[i]] = hi[right.kids[i]]
      BY <1>00, <2>1
    <3>2. Parts(right.keys, right.kids, s, hi[n], lo, hi)
      BY <1>00, <1>8, <1>19
    <3> QED
      BY <1>00, <3>1, <3>2, PartsElse
  <2>3. lev[n] > 0
    BY <1>00, <1>4, <1>19
  <2> QED
    BY <1>00, <1>4, <1>7, <1>11, <1>17, <1>19, <2>1, <2>2, <2>3 DEF NodeFits, InnerAt
<1>20. \A x \in live2 : NodeFits(P2, x, live2, lev2, lo2, hi2, up2, rows)
  BY <1>00, <1>11, <1>13, <1>15, <1>16, <1>18, <1>19
<1>21. n # r
  BY <1>00, <1>2, <1>4, <1>6
<1>22. ASSUME NEW x \in live2, x # r
       PROVE  lev2[x] < lev2[r] /\ up2[x] \in live2 /\ HasChild(P2[up2[x]], x)
  <2>1. CASE x = p
    <3>1. lev2[p] < lev2[r]
      BY <1>00, <1>1, <1>2, <1>11, <1>21
    <3>2. j + 1 \in 1 .. Len(P2[q].kids) /\ P2[q].kids[j + 1] = p
      BY <1>00, <1>14
    <3> QED
      BY <1>00, <1>11, <1>14, <2>1, <3>1, <3>2 DEF HasChild
  <2>2. CASE x \in R
    <3>1. lev2[x] < lev2[r] /\ up2[x] = p
      BY <1>00, <1>1, <1>2, <1>9, <1>11, <1>12, <1>22, <2>2
    <3>2. HasChild(right, x)
      BY <1>00, <1>0a, <2>2
    <3> QED
      BY <1>00, <1>11, <3>1, <3>2
  <2>3. CASE x \in live /\ x \notin R
    <3>1. /\ lev2[x] < lev2[r] /\ up2[x] = up[x] /\ up[x] \in live
          /\ HasChild(P[up[x]], x)
      BY <1>00, <1>1, <1>2, <1>11, <1>22, <2>3
    <3>2. PICK i \in 1 .. Len(P[up[x]].kids) : P[up[x]].kids[i] = x
      BY <1>00, <3>1 DEF HasChild
    <3>3. ~P[up[x]].leaf
      BY <1>00, <3>1 DEF HasChild
    <3>4. CASE up[x] = n
      <4>1. i \in 1 .. Len(P[n].kids) /\ P[n].kids[i] = x /\ ~P[n].leaf
        BY <1>00, <3>2, <3>3, <3>4
      <4>2. CASE i <= m
        <5>1. i \in 1 .. Len(left.kids) /\ left.kids[i] = x
          BY <1>00, <1>8, <4>1, <4>2
        <5> QED
          <6>1. ~left.leaf /\ P2[n] = left
            BY <1>00, <1>4, <1>7, <4>1
          <6> QED
            BY <1>00, <1>11, <3>1, <3>4, <5>1, <6>1 DEF HasChild
      <4>3. CASE i > m
        <5>1. i - m \in 1 .. Len(right.kids) /\ m + (i - m) = i
          BY <1>00, <1>8, <4>1, <4>3
        <5>2. right.kids[i - m] = x
          BY <1>00, <1>8, <4>1, <5>1
        <5> QED
          BY <1>00, <1>0a, <1>7, <2>3, <4>1, <5>1, <5>2
      <4> QED
        BY <1>00, <1>8, <4>1, <4>2, <4>3
    <3>5. CASE up[x] = q
      <4>1. i \in 1 .. Len(P[q].kids) /\ P[q].kids[i] = x
        BY <1>00, <3>2, <3>5
      <4>2. CASE i < j + 1
        <5>0. i \in 1 .. (Len(P[q].kids) + 1)
          BY <1>00, <1>14, <4>1
        <5>1. i \in 1 .. Len(P2[q].kids) /\ P2[q].kids[i] = x
          BY <1>00, <1>14, <4>1, <4>2, <5>0
        <5> QED
          BY <1>00, <1>11, <1>14, <3>1, <3>5, <5>1 DEF HasChild
      <4>3. CASE i >= j + 1
        <5>0. Len(P[q].kids) \in Nat /\ j \in Int
          BY <1>00, <1>14
        <5>1. /\ i + 1 \in 1 .. (Len(P[q].kids) + 1) /\ ~(i + 1 < j + 1) /\ i + 1 # j + 1
              /\ (i + 1) - 1 = i
          BY <4>1, <4>3, <5>0
        <5>2. i + 1 \in 1 .. Len(P2[q].kids) /\ P2[q].kids[i + 1] = x
          BY <1>00, <1>14, <4>1, <5>1
        <5> QED
          BY <1>00, <1>11, <1>14, <3>1, <3>5, <5>2 DEF HasChild
      <4> QED
        BY <1>00, <4>1, <4>2, <4>3
    <3>6. CASE up[x] # n /\ up[x] # q
      <4>1. P2[up[x]] = P[up[x]]
        BY <1>00, <3>1, <3>6
      <4> QED
        BY <1>00, <1>11, <3>1, <4>1
    <3> QED
      BY <1>00, <3>4, <3>5, <3>6
  <2> QED
    BY <1>00, <1>11, <2>1, <2>2, <2>3
<1>23. ASSUME NEW x \in live2, NEW y \in live2, NEW k \in Key,
              P2[x].leaf, lo2[x] <= k, k < hi2[x], P2[y].leaf, lo2[y] <= k, k < hi2[y]
       PROVE  x = y
  <2> DEFINE Was(z) == IF z = p THEN n ELSE z
  <2>0. Was(p) = n /\ \A z : z # p => Was(z) = z
    OBVIOUS
  <2> HIDE DEF Was
  <2>1. ASSUME NEW z \in live2, P2[z].leaf, lo2[z] <= k, k < hi2[z]
        PROVE  /\ Was(z) \in live /\ P[Was(z)].leaf /\ lo[Was(z)] <= k /\ k < hi[Was(z)]
               /\ z = p => s <= k
               /\ z = n => k < s
    <3>1. k \in Int /\ s \in Int /\ lo[n] \in Int /\ hi[n] \in Int
      BY <1>00, <1>4, <1>7, Sizes DEF Ends
    <3>2. CASE z = p
      BY <1>00, <1>7, <1>11, <2>0, <2>1, <3>1, <3>2
    <3>3. CASE z = n
      BY <1>00, <1>6, <1>7, <1>11, <2>0, <2>1, <3>1, <3>3
    <3>4. CASE z # p /\ z # n
      <4>1. z \in live /\ lo2[z] = lo[z] /\ hi2[z] = hi[z] /\ Was(z) = z
        BY <1>00, <1>11, <2>0, <3>4
      <4>2. z # q
        BY <1>00, <1>14, <2>1
      <4>3. P2[z] = P[z]
        BY <1>00, <3>4, <4>1, <4>2
      <4> QED
        BY <1>00, <2>1, <3>4, <4>1, <4>3
    <3> QED
      BY <1>00, <3>2, <3>3, <3>4
  <2>2. /\ Was(x) \in live /\ P[Was(x)].leaf /\ lo[Was(x)] <= k /\ k < hi[Was(x)]
        /\ Was(y) \in live /\ P[Was(y)].leaf /\ lo[Was(y)] <= k /\ k < hi[Was(y)]
        /\ (x = p => s <= k) /\ (x = n => k < s) /\ (y = p => s <= k) /\ (y = n => k < s)
    BY <1>00, <1>23, <2>1
  <2>3. Was(x) = Was(y)
    BY <1>00, <1>3, <2>2
  <2>4. ~(k < s /\ s <= k)
    BY <1>00, <1>7, Sizes
  <2> QED
    BY <1>00, <1>6, <2>0, <2>2, <2>3, <2>4
<1>24. lo2[r] = 1 /\ hi2[r] = MaxKey + 1 /\ r \in live2
  BY <1>00, <1>1, <1>11, <1>21
<1>0b. Chained(P2, r, live2, lo2, hi2)
  <2>1. SplitEnds(live, n, p, s, lo, hi, lo2, hi2)
    BY <1>11 DEF SplitEnds
  <2> QED
    BY <2>1, ChainSplit DEF live2
<1>25. Tree(P2, r, live2, lev2, lo2, hi2, up2, rows)
  BY <1>00, <1>0b, <1>1, <1>10, <1>20, <1>22, <1>23, <1>24 DEF Tree
<1>26. TreeOf(P2, r, live2, lev2, rows)
  BY <1>25 DEF TreeOf
<1> QED
  BY <1>26 DEF live2, lev2

(* The node that stands for two neighbours and the separator between them.   *)
Join(low, s, high, node) ==
  /\ node \in Node /\ node.leaf = low.leaf
  /\ node.leaf => node.cells = low.cells \o high.cells /\ node.next = high.next
  /\ ~node.leaf => node.keys = low.keys \o <<s>> \o high.keys /\ node.kids = low.kids \o high.kids

LEMMA Neighbours ==
  ASSUME NEW P, NEW r, NEW live, NEW lev, NEW lo, NEW hi, NEW up, NEW rows,
         Tree(P, r, live, lev, lo, hi, up, rows), NEW q \in live, ~P[q].leaf,
         NEW j \in 1 .. Len(P[q].keys)
  PROVE  LET n == P[q].kids[j]
             p == P[q].kids[j + 1]
             s == P[q].keys[j]
         IN  /\ j \in 1 .. Len(P[q].kids) /\ j + 1 \in 1 .. Len(P[q].kids)
             /\ n \in live /\ p \in live /\ n # p /\ n # q /\ p # q /\ p # r /\ n # r
             /\ s \in Key /\ s \in Ends /\ hi[n] = s /\ lo[p] = s /\ lo[n] <= s /\ s <= hi[p]
             /\ lev[n] + 1 = lev[q] /\ lev[p] = lev[n] /\ up[n] = q /\ up[p] = q
             /\ P[n].leaf = P[p].leaf
<1> DEFINE keys == P[q].keys
           kids == P[q].kids
           n == kids[j]
           p == kids[j + 1]
           s == keys[j]
<1>1. /\ Parts(keys, kids, lo[q], hi[q], lo, hi) /\ Distinct(kids)
      /\ \A i \in 1 .. Len(kids) : kids[i] \in live /\ lev[kids[i]] + 1 = lev[q] /\ up[kids[i]] = q
                                   /\ lo[kids[i]] <= hi[kids[i]]
  BY TreeNode DEF InnerAt
<1>2. \A x \in live : /\ lev[x] \in Nat /\ P[x].leaf \in BOOLEAN /\ (lev[x] = 0 <=> P[x].leaf)
                      /\ (x # r => lev[x] < lev[r])
  <2>1. \A x \in live : lev[x] \in Nat /\ P[x].leaf \in BOOLEAN /\ (lev[x] = 0 <=> P[x].leaf)
    BY TreeNode
  <2>2. \A x \in live : x # r => lev[x] < lev[r]
    BY DEF Tree
  <2> QED
    BY <2>1, <2>2
<1>3. r \in live
  BY DEF Tree
<1> HIDE DEF keys, kids
<1>4. /\ keys \in Seq(Key) /\ Len(kids) = Len(keys) + 1 /\ Len(keys) \in Nat /\ keys[j] \in Key
  BY <1>1, PartsTyped DEF keys
<1>5. j \in 1 .. Len(kids) /\ j + 1 \in 1 .. Len(kids) /\ j # j + 1 /\ j # Len(kids) /\ j + 1 # 1
      /\ (j + 1) - 1 = j
  BY <1>4 DEF keys
<1>6. hi[n] = s /\ lo[p] = s
  BY <1>1, <1>5 DEF Parts
<1>7. n \in live /\ p \in live /\ n # p
  BY <1>1, <1>5 DEF Distinct
<1>8. lev[n] + 1 = lev[q] /\ lev[p] + 1 = lev[q] /\ up[n] = q /\ up[p] = q /\ lo[n] <= hi[n] /\ lo[p] <= hi[p]
  BY <1>1, <1>5
<1>9. s \in Key /\ s \in Ends
  BY <1>4, Sizes DEF Ends
<1> HIDE DEF n, p, s
<1>10. lev[p] = lev[n] /\ n # q /\ p # q /\ n # r /\ p # r
  BY <1>2, <1>3, <1>7, <1>8
<1>11. P[n].leaf = P[p].leaf
  BY <1>2, <1>7, <1>10
<1> QED
  BY <1>5, <1>6, <1>7, <1>8, <1>9, <1>10, <1>11 DEF n, p, s, keys, kids

Whole(P, n, p, lo, hi, rows, left) ==
  /\ left \in Node /\ left.leaf = P[n].leaf
  /\ P[n].leaf => Holds(left.cells, lo[n], hi[p], rows)
  /\ ~P[n].leaf => /\ Parts(left.keys, left.kids, lo[n], hi[p], lo, hi) /\ Distinct(left.kids)
                   /\ \A i \in 1 .. Len(P[n].kids) :
                        i \in 1 .. Len(left.kids) /\ left.kids[i] = P[n].kids[i]
                   /\ \A i \in 1 .. Len(P[p].kids) :
                        /\ Len(P[n].kids) + i \in 1 .. Len(left.kids)
                        /\ left.kids[Len(P[n].kids) + i] = P[p].kids[i]
                   /\ \A i \in 1 .. Len(left.kids) :
                        \/ i \in 1 .. Len(P[n].kids) /\ left.kids[i] = P[n].kids[i]
                        \/ \E h \in 1 .. Len(P[p].kids) : left.kids[i] = P[p].kids[h]
                   /\ Appended(P[n].kids, P[p].kids, left.kids)

LEMMA JoinWithin ==
  ASSUME NEW P, NEW r, NEW live, NEW lev, NEW lo, NEW hi, NEW up, NEW rows,
         Tree(P, r, live, lev, lo, hi, up, rows), NEW n \in live, NEW p \in live,
         NEW s \in Key, hi[n] = s, lo[p] = s, n # p, P[n].leaf = P[p].leaf,
         NEW left, Join(P[n], s, P[p], left)
  PROVE  Whole(P, n, p, lo, hi, rows, left)
<1>1. left \in Node /\ left.leaf = P[n].leaf
  BY DEF Join
<1>2. lo[n] \in Ends /\ s \in Ends /\ hi[p] \in Ends /\ lo[n] <= s /\ s <= hi[p]
  BY TreeNode
<1>3. CASE P[n].leaf
  <2>1. Holds(P[n].cells, lo[n], s, rows)
    BY <1>3, TreeNode
  <2>2. Holds(P[p].cells, s, hi[p], rows)
    <3>1. P[p].leaf
      BY <1>3
    <3>2. Holds(P[p].cells, lo[p], hi[p], rows)
      BY <3>1, TreeNode
    <3> QED
      BY <3>2
  <2>3. left.cells = P[n].cells \o P[p].cells
    BY <1>1, <1>3 DEF Join
  <2>4. Holds(left.cells, lo[n], hi[p], rows)
    BY <1>2, <2>1, <2>2, <2>3, HoldsJoined
  <2> QED
    BY <1>1, <1>3, <2>4 DEF Whole
<1>4. CASE ~P[n].leaf
  <2> DEFINE c1 == P[n].kids
             c2 == P[p].kids
             c  == left.kids
  <2>1. /\ Parts(P[n].keys, c1, lo[n], s, lo, hi) /\ Distinct(c1)
        /\ \A i \in 1 .. Len(c1) : up[c1[i]] = n
    BY <1>4, TreeNode DEF InnerAt
  <2>2. /\ Parts(P[p].keys, c2, s, hi[p], lo, hi) /\ Distinct(c2)
        /\ \A i \in 1 .. Len(c2) : up[c2[i]] = p
    BY <1>4, TreeNode DEF InnerAt
  <2>3. left.keys = P[n].keys \o <<s>> \o P[p].keys /\ c = c1 \o c2
    BY <1>1, <1>4 DEF Join
  <2> HIDE DEF c1, c2, c
  <2>4. Parts(left.keys, c, lo[n], hi[p], lo, hi)
    BY <2>1, <2>2, <2>3, PartsJoined
  <2>5. c1 \in Seq(PageNo) /\ c2 \in Seq(PageNo) /\ Len(c1) \in Nat /\ Len(c2) \in Nat
    BY <2>1, <2>2, PartsTyped
  <2>6. /\ Len(c) = Len(c1) + Len(c2)
        /\ \A i \in 1 .. (Len(c1) + Len(c2)) : c[i] = IF i <= Len(c1) THEN c1[i] ELSE c2[i - Len(c1)]
    BY <2>3, <2>5, ConcatProperties
  <2>7. \A i \in 1 .. Len(c1) : i \in 1 .. Len(c) /\ c[i] = c1[i]
    BY <2>5, <2>6
  <2>8. ASSUME NEW i \in 1 .. Len(c2) PROVE Len(c1) + i \in 1 .. Len(c) /\ c[Len(c1) + i] = c2[i]
    <3>1. Len(c1) + i \in 1 .. (Len(c1) + Len(c2)) /\ ~(Len(c1) + i <= Len(c1)) /\ (Len(c1) + i) - Len(c1) = i
      BY <2>5
    <3> QED
      BY <2>6, <3>1
  <2>9. ASSUME NEW i \in 1 .. Len(c)
        PROVE  \/ i <= Len(c1) /\ i \in 1 .. Len(c1) /\ c[i] = c1[i] /\ up[c[i]] = n
               \/ i > Len(c1) /\ i - Len(c1) \in 1 .. Len(c2) /\ c[i] = c2[i - Len(c1)] /\ up[c[i]] = p
    <3>1. CASE i <= Len(c1)
      <4>1. i \in 1 .. Len(c1) /\ c[i] = c1[i]
        BY <2>5, <2>6, <3>1
      <4> QED
        BY <2>1, <3>1, <4>1
    <3>2. CASE i > Len(c1)
      <4>1. i - Len(c1) \in 1 .. Len(c2) /\ c[i] = c2[i - Len(c1)]
        BY <2>5, <2>6, <3>2
      <4> QED
        BY <2>2, <3>2, <4>1
    <3> QED
      BY <2>5, <3>1, <3>2
  <2>10. ASSUME NEW i \in 1 .. Len(c), NEW h \in 1 .. Len(c), c[i] = c[h] PROVE i = h
    <3>1. CASE i <= Len(c1) /\ h <= Len(c1)
      <4>1. i \in 1 .. Len(c1) /\ h \in 1 .. Len(c1) /\ c1[i] = c1[h]
        BY <2>5, <2>6, <2>7, <2>10, <3>1
      <4> QED
        BY <2>1, <4>1 DEF Distinct
    <3>2. CASE i > Len(c1) /\ h > Len(c1)
      <4>1. i - Len(c1) \in 1 .. Len(c2) /\ h - Len(c1) \in 1 .. Len(c2) /\ c2[i - Len(c1)] = c2[h - Len(c1)]
        <5>1. i \in 1 .. (Len(c1) + Len(c2)) /\ h \in 1 .. (Len(c1) + Len(c2)) /\ ~(i <= Len(c1)) /\ ~(h <= Len(c1))
          BY <2>5, <2>6, <3>2
        <5>2. c[i] = c2[i - Len(c1)] /\ c[h] = c2[h - Len(c1)]
          BY <2>6, <5>1
        <5>3. i - Len(c1) \in 1 .. Len(c2) /\ h - Len(c1) \in 1 .. Len(c2)
          BY <2>5, <5>1
        <5> QED
          BY <2>10, <5>2, <5>3
      <4>2. i - Len(c1) = h - Len(c1)
        BY <2>2, <4>1 DEF Distinct
      <4> QED
        BY <2>5, <4>2
    <3>3. ~(up[c[i]] = n /\ up[c[h]] = p) /\ ~(up[c[i]] = p /\ up[c[h]] = n)
      BY <2>10
    <3>4. (i <= Len(c1) => up[c[i]] = n) /\ (i > Len(c1) => up[c[i]] = p)
      BY <2>5, <2>9
    <3>5. (h <= Len(c1) => up[c[h]] = n) /\ (h > Len(c1) => up[c[h]] = p)
      BY <2>5, <2>9
    <3> QED
      BY <2>5, <3>1, <3>2, <3>3, <3>4, <3>5
  <2>11. Distinct(c)
    BY <2>10 DEF Distinct
  <2>12. \A i \in 1 .. Len(c) : \/ i \in 1 .. Len(c1) /\ c[i] = c1[i]
                                \/ \E h \in 1 .. Len(c2) : c[i] = c2[h]
    BY <2>9
  <2>13. Appended(c1, c2, c)
    BY <2>6, <2>7, <2>8 DEF Appended
  <2> QED
    BY <1>1, <1>4, <2>4, <2>7, <2>8, <2>11, <2>12, <2>13 DEF c1, c2, c, Whole
<1> QED
  BY <1>3, <1>4

(* Two neighbours become one, and their parent drops the higher one.         *)
MergedTo(P, live, q, j, n, p, left, P2) ==
  /\ q \in live /\ ~P[q].leaf /\ j \in 1 .. Len(P[q].keys)
  /\ n = P[q].kids[j] /\ p = P[q].kids[j + 1]
  /\ Join(P[n], P[q].keys[j], P[p], left)
  /\ P2 \in Pages /\ P2[n] = left
  /\ P2[q] = Internal(RemoveAt(P[q].keys, j), RemoveAt(P[q].kids, j + 1))
  /\ \A x \in live : x # n /\ x # q /\ x # p => P2[x] = P[x]

(* Neighbouring leaves follow each other in the chain.                       *)
LEMMA Adjacent ==
  ASSUME NEW P, NEW r, NEW live, NEW lo, NEW hi, NEW a, NEW b, Ranked(P, r, live, lo, hi, a, b),
         live \subseteq PageNo, NEW q \in live, ~P[q].leaf, NEW j \in 1 .. (Len(P[q].kids) - 1),
         NEW n, NEW p, n = P[q].kids[j], p = P[q].kids[j + 1], n \in live, p \in live,
         P[n].leaf, P[p].leaf
  PROVE  P[n].next = p
<1>1. /\ b \in [PageNo -> Nat] /\ a \in [PageNo -> Nat]
      /\ \A x \in live : P[x].leaf => Onward(P, x, live, lo, hi, a, b)
      /\ \A x \in live : ~P[x].leaf => Strung(P[x].kids, a, b, a[x], b[x])
      /\ \A x, y \in live : P[x].leaf /\ P[y].leaf /\ b[x] = b[y] => x = y
  BY DEF Ranked
<1>2. b[n] = a[p]
  <2>1. Strung(P[q].kids, a, b, a[q], b[q])
    BY <1>1
  <2> QED
    BY <2>1 DEF Strung
<1>3. a[p] = b[p] + 1 /\ b[p] \in Nat
  BY <1>1 DEF Onward
<1>4. b[n] # 0
  BY <1>2, <1>3
<1> DEFINE w == P[n].next
<1>5. w \in live /\ P[w].leaf /\ a[w] = b[n]
  BY <1>1, <1>4 DEF Onward
<1> HIDE DEF w
<1>6. a[w] = b[w] + 1 /\ b[w] \in Nat
  BY <1>1, <1>5 DEF Onward
<1>7. b[w] = b[p]
  BY <1>2, <1>3, <1>5, <1>6
<1>8. w = p
  BY <1>1, <1>5, <1>7
<1> QED
  BY <1>8 DEF w

LEMMA NextIs ==
  ASSUME NEW P, NEW r, NEW live, NEW lev, NEW lo, NEW hi, NEW up, NEW rows,
         Tree(P, r, live, lev, lo, hi, up, rows), NEW q \in live, ~P[q].leaf,
         NEW j \in 1 .. Len(P[q].keys), NEW n, NEW p, n = P[q].kids[j], p = P[q].kids[j + 1]
  PROVE  P[n].leaf => P[n].next = p
<1>1. n \in live /\ p \in live /\ P[n].leaf = P[p].leaf
  BY Neighbours
<1>2. j \in 1 .. (Len(P[q].kids) - 1)
  <2>1. Parts(P[q].keys, P[q].kids, lo[q], hi[q], lo, hi)
    BY TreeNode DEF InnerAt
  <2> QED
    BY <2>1, PartsTyped
<1>3. live \subseteq PageNo
  BY DEF Tree
<1>4. PICK a, b : Ranked(P, r, live, lo, hi, a, b)
  BY DEF Tree, Chained
<1> QED
  BY <1>1, <1>2, <1>3, <1>4, Adjacent

(* The chain, after two neighbours have become one: of two leaves the higher *)
(* one no longer counts.                                                     *)
MergeEnds(live, n, p, hi, hi2) ==
  hi2[n] = hi[p] /\ \A x \in live : x # n => hi2[x] = hi[x]

(* What the chain needs to know of a merge.                                  *)
MergeKids(P, live, q, j, n, p, left, P2) ==
  /\ n \in live /\ p \in live /\ q \in live /\ n # q /\ p # q /\ n # p /\ live \subseteq PageNo
  /\ ~P[q].leaf /\ j \in 1 .. (Len(P[q].kids) - 1) /\ P[q].kids[j] = n /\ P[q].kids[j + 1] = p
  /\ P2[n] = left /\ P2[q].leaf = FALSE /\ left.leaf = P[n].leaf /\ P[p].leaf = P[n].leaf
  /\ Dropped(P[q].kids, j, P2[q].kids)
  /\ \A x \in live : x # n /\ x # q /\ x # p => P2[x] = P[x]
  /\ \A i \in 1 .. Len(P[q].kids) : (i # j => P[q].kids[i] # n) /\ (i # j + 1 => P[q].kids[i] # p)
  /\ \A x \in live : P[x].leaf \in BOOLEAN
  /\ \A x \in live : ~P[x].leaf => \A i \in 1 .. Len(P[x].kids) :
       P[x].kids[i] \in live /\ (x # q => P[x].kids[i] # n /\ P[x].kids[i] # p)

LEMMA ChainMergeLeaf ==
  ASSUME NEW P, NEW r, NEW live, NEW lo, NEW hi, NEW a, NEW b, Ranked(P, r, live, lo, hi, a, b), r \in live,
         NEW q, NEW j, NEW n, NEW p, NEW left, NEW P2, MergeKids(P, live, q, j, n, p, left, P2), r # p,
         P[n].leaf, left.next = P[p].next, NEW hi2, MergeEnds(live, n, p, hi, hi2)
  PROVE  Chained(P2, r, live \ {p}, lo, hi2)
<1> DEFINE c  == b[p]
           f  == [v \in Nat |-> IF v > c THEN v - 1 ELSE v]
           a2 == [x \in PageNo |-> f[a[x]]]
           b2 == [x \in PageNo |-> f[b[x]]]
           live2 == live \ {p}
<1>1. /\ n \in live /\ p \in live /\ q \in live /\ n # q /\ p # q /\ n # p /\ live \subseteq PageNo
      /\ ~P[q].leaf /\ j \in 1 .. (Len(P[q].kids) - 1) /\ P[q].kids[j] = n /\ P[q].kids[j + 1] = p
      /\ P2[n] = left /\ P2[q].leaf = FALSE /\ left.leaf = P[n].leaf /\ P[p].leaf = P[n].leaf
      /\ \A x \in live : x # n /\ x # q /\ x # p => P2[x] = P[x]
  BY DEF MergeKids
<1>2. /\ Dropped(P[q].kids, j, P2[q].kids)
      /\ \A x \in live : ~P[x].leaf => \A i \in 1 .. Len(P[x].kids) : P[x].kids[i] \in live
      /\ \A x \in live : P[x].leaf \in BOOLEAN
  BY DEF MergeKids
<1>3. hi2[n] = hi[p] /\ \A x \in live : x # n => hi2[x] = hi[x]
  BY DEF MergeEnds
<1>4. /\ a \in [PageNo -> Nat] /\ b \in [PageNo -> Nat] /\ b[r] = 0
      /\ \A x \in live : P[x].leaf => Onward(P, x, live, lo, hi, a, b)
      /\ \A x \in live : ~P[x].leaf => Strung(P[x].kids, a, b, a[x], b[x])
      /\ \A x, y \in live : P[x].leaf /\ P[y].leaf /\ b[x] = b[y] => x = y
  BY DEF Ranked
<1>0. c \in Nat
  BY <1>1, <1>4
<1>5. \A v \in Nat : f[v] \in Nat /\ (v > c => f[v] = v - 1) /\ (v <= c => f[v] = v)
  <2> HIDE DEF c
  <2> QED
    BY <1>0
<1>6. /\ a2 \in [PageNo -> Nat] /\ b2 \in [PageNo -> Nat]
      /\ \A x \in live : a2[x] = f[a[x]] /\ b2[x] = f[b[x]]
  <2> HIDE DEF c, f
  <2> QED
    BY <1>1, <1>4, <1>5
<1>7. \A x \in live : x \in PageNo /\ a[x] \in Nat /\ b[x] \in Nat
  BY <1>1, <1>4
<1>8. \A x : x \in live2 <=> x \in live /\ x # p
  OBVIOUS
<1> HIDE DEF c, f, a2, b2, live2
<1>9. c = b[p]
  BY DEF c
<1>10. \A x \in live : x # p => P2[x].leaf = P[x].leaf
  BY <1>1, <1>2
<1>11. a[p] = c + 1 /\ b[n] = c + 1 /\ a[n] = c + 2
  <2>1. a[p] = b[p] + 1 /\ a[n] = b[n] + 1
    BY <1>1, <1>4 DEF Onward
  <2>2. b[n] = a[p]
    <3>1. Strung(P[q].kids, a, b, a[q], b[q])
      BY <1>1, <1>4
    <3> QED
      BY <1>1, <3>1 DEF Strung
  <2> QED
    BY <1>0, <1>9, <2>1, <2>2
<1>12. ASSUME NEW x \in live, P[x].leaf, x # p, x # n PROVE b[x] # c /\ b[x] # c + 1
  BY <1>1, <1>4, <1>9, <1>11, <1>12
<1>13. ASSUME NEW x \in live, P[x].leaf, b[x] # 0, b[x] # c + 1
       PROVE  /\ P[x].next \in live2 /\ P2[P[x].next].leaf /\ a2[P[x].next] = f[b[x]]
              /\ lo[P[x].next] = hi[x]
  <2>1. P[x].next \in live /\ P[P[x].next].leaf /\ a[P[x].next] = b[x] /\ lo[P[x].next] = hi[x]
    BY <1>4, <1>13 DEF Onward
  <2>2. P[x].next # p
    BY <1>11, <1>13, <2>1
  <2> QED
    BY <1>6, <1>8, <1>10, <2>1, <2>2
<1>14. Onward(P2, n, live2, lo, hi2, a2, b2)
  <2>1. b2[n] = c /\ a2[n] = c + 1
    <3>1. c + 1 \in Nat /\ c + 1 > c /\ c + 2 \in Nat /\ c + 2 > c
      BY <1>0
    <3>2. f[c + 1] = (c + 1) - 1 /\ f[c + 2] = (c + 2) - 1
      BY <1>5, <3>1
    <3> QED
      BY <1>0, <1>1, <1>6, <1>11, <3>2
  <2>2. c = 0 => P2[n].next = NoPage /\ hi2[n] = MaxKey + 1
    <3>1. Onward(P, p, live, lo, hi, a, b)
      BY <1>1, <1>4
    <3> QED
      BY <1>1, <1>3, <1>9, <3>1 DEF Onward
  <2>3. c # 0 => P2[n].next \in live2 /\ P2[P2[n].next].leaf /\ a2[P2[n].next] = c /\ lo[P2[n].next] = hi2[n]
    <3>1. f[c] = c /\ c # c + 1
      BY <1>0, <1>5
    <3> QED
      BY <1>1, <1>3, <1>9, <1>13, <3>1
  <2> QED
    BY <2>1, <2>2, <2>3 DEF Onward
<1>15. ASSUME NEW x \in live, P[x].leaf, x # n, x # p PROVE Onward(P2, x, live2, lo, hi2, a2, b2)
  <2>1. P2[x] = P[x] /\ hi2[x] = hi[x] /\ b2[x] = f[b[x]] /\ a2[x] = f[a[x]]
    BY <1>1, <1>3, <1>6, <1>15
  <2>2. Onward(P, x, live, lo, hi, a, b)
    BY <1>4, <1>15
  <2>3. b[x] # c /\ b[x] # c + 1 /\ a[x] = b[x] + 1
    BY <1>12, <1>15, <2>2 DEF Onward
  <2>4. f[a[x]] = f[b[x]] + 1 /\ (f[b[x]] = 0 => b[x] = 0) /\ (b[x] = 0 => f[b[x]] = 0)
    BY <1>0, <1>5, <1>7, <2>3
  <2>5. b2[x] = 0 => P2[x].next = NoPage /\ hi2[x] = MaxKey + 1
    BY <2>1, <2>2, <2>4 DEF Onward
  <2>6. b2[x] # 0 => P2[x].next \in live2 /\ P2[P2[x].next].leaf /\ a2[P2[x].next] = b2[x] /\ lo[P2[x].next] = hi2[x]
    BY <1>13, <1>15, <2>1, <2>3, <2>4
  <2> QED
    BY <2>1, <2>4, <2>5, <2>6 DEF Onward
<1>16. ASSUME NEW x \in live, ~P[x].leaf PROVE Strung(P2[x].kids, a2, b2, a2[x], b2[x])
  <2>1. x # n /\ x # p /\ Strung(P[x].kids, a, b, a[x], b[x]) /\ a2[x] = f[a[x]] /\ b2[x] = f[b[x]]
    BY <1>1, <1>4, <1>6, <1>16
  <2>2. \A i \in 1 .. Len(P[x].kids) :
          a2[P[x].kids[i]] = f[a[P[x].kids[i]]] /\ b2[P[x].kids[i]] = f[b[P[x].kids[i]]]
    BY <1>2, <1>6, <1>16
  <2>3. CASE x = q
    <3>1. b2[P[q].kids[j]] = f[b[P[q].kids[j + 1]]]
      <4>1. b2[n] = c /\ f[c] = c
        <5>1. c + 1 \in Nat /\ c + 1 > c /\ c <= c
          BY <1>0
        <5>2. f[c + 1] = (c + 1) - 1 /\ f[c] = c
          BY <1>0, <1>5, <5>1
        <5> QED
          BY <1>0, <1>1, <1>6, <1>11, <5>2
      <4> QED
        BY <1>1, <1>9, <4>1
    <3>2. TakesNext(P[q].kids, j, a, b, f, a2, b2)
      BY <2>2, <2>3, <3>1 DEF TakesNext
    <3>3. Strung(P2[q].kids, a2, b2, f[a[q]], f[b[q]])
      BY <1>2, <2>1, <2>3, <3>2, StrungDropped
    <3> QED
      BY <2>1, <2>3, <3>3
  <2>4. CASE x # q
    <3>1. Mapped(P[x].kids, a, b, f, a2, b2)
      BY <2>2 DEF Mapped
    <3>2. Strung(P[x].kids, a2, b2, f[a[x]], f[b[x]])
      BY <2>1, <3>1, StrungMapped
    <3>3. P2[x] = P[x]
      BY <1>1, <2>1, <2>4
    <3> QED
      BY <2>1, <3>2, <3>3
  <2> QED
    BY <2>3, <2>4
<1>17. ASSUME NEW x \in live2, NEW y \in live2, P2[x].leaf, P2[y].leaf, b2[x] = b2[y] PROVE x = y
  <2>1. x \in live /\ y \in live /\ x # p /\ y # p /\ P[x].leaf /\ P[y].leaf
    BY <1>8, <1>10, <1>17
  <2>2. b[x] # c /\ b[y] # c
    BY <1>1, <1>4, <1>9, <2>1
  <2>3. f[b[x]] = f[b[y]]
    BY <1>6, <1>17, <2>1
  <2>4. b[x] = b[y]
    BY <1>0, <1>5, <1>7, <2>1, <2>2, <2>3
  <2> QED
    BY <1>4, <2>1, <2>4
<1>18. b2[r] = 0
  <2>1. f[0] = 0
    BY <1>0, <1>5
  <2> QED
    BY <1>4, <1>6, <2>1
<1>19. \A x \in live2 : IF P2[x].leaf THEN Onward(P2, x, live2, lo, hi2, a2, b2)
                                     ELSE Strung(P2[x].kids, a2, b2, a2[x], b2[x])
  BY <1>1, <1>8, <1>10, <1>14, <1>15, <1>16
<1>20. Ranked(P2, r, live2, lo, hi2, a2, b2)
  BY <1>6, <1>17, <1>18, <1>19 DEF Ranked
<1> QED
  BY <1>20 DEF Chained, live2

LEMMA ChainMergeInner ==
  ASSUME NEW P, NEW r, NEW live, NEW lo, NEW hi, NEW a, NEW b, Ranked(P, r, live, lo, hi, a, b), r \in live,
         NEW q, NEW j, NEW n, NEW p, NEW left, NEW P2, MergeKids(P, live, q, j, n, p, left, P2), r # n,
         ~P[n].leaf, Appended(P[n].kids, P[p].kids, left.kids), NEW hi2, MergeEnds(live, n, p, hi, hi2)
  PROVE  Chained(P2, r, live \ {p}, lo, hi2)
<1> DEFINE b2 == [b EXCEPT ![n] = b[p]]
           live2 == live \ {p}
           f  == [x \in Nat |-> x]
<1>1. /\ n \in live /\ p \in live /\ q \in live /\ n # q /\ p # q /\ n # p /\ live \subseteq PageNo
      /\ ~P[q].leaf /\ j \in 1 .. (Len(P[q].kids) - 1) /\ P[q].kids[j] = n /\ P[q].kids[j + 1] = p
      /\ P2[n] = left /\ P2[q].leaf = FALSE /\ left.leaf = P[n].leaf /\ P[p].leaf = P[n].leaf
      /\ \A x \in live : x # n /\ x # q /\ x # p => P2[x] = P[x]
  BY DEF MergeKids
<1>2. /\ Dropped(P[q].kids, j, P2[q].kids)
      /\ \A i \in 1 .. Len(P[q].kids) : i # j => P[q].kids[i] # n
      /\ \A x \in live : ~P[x].leaf => \A i \in 1 .. Len(P[x].kids) :
           P[x].kids[i] \in live /\ (x # q => P[x].kids[i] # n)
      /\ \A x \in live : P[x].leaf \in BOOLEAN
  BY DEF MergeKids
<1>3. hi2[n] = hi[p] /\ \A x \in live : x # n => hi2[x] = hi[x]
  BY DEF MergeEnds
<1>4. /\ a \in [PageNo -> Nat] /\ b \in [PageNo -> Nat] /\ b[r] = 0
      /\ \A x \in live : P[x].leaf => Onward(P, x, live, lo, hi, a, b)
      /\ \A x \in live : ~P[x].leaf => Strung(P[x].kids, a, b, a[x], b[x])
      /\ \A x, y \in live : P[x].leaf /\ P[y].leaf /\ b[x] = b[y] => x = y
  BY DEF Ranked
<1>5. /\ b2 \in [PageNo -> Nat] /\ b2[n] = b[p] /\ \A x \in live : x # n => b2[x] = b[x]
  BY <1>1, <1>4
<1>6. \A x : x \in live2 <=> x \in live /\ x # p
  OBVIOUS
<1>7. \A x \in Nat : f[x] = x
  OBVIOUS
<1>8. \A x \in live : a[x] \in Nat /\ b[x] \in Nat
  BY <1>1, <1>4
<1> HIDE DEF b2, live2, f
<1>9. \A x \in live : x # p => P2[x].leaf = P[x].leaf
  BY <1>1, <1>2
<1>10. ASSUME NEW x \in live, P[x].leaf PROVE Onward(P2, x, live2, lo, hi2, a, b2)
  <2>1. P2[x] = P[x] /\ hi2[x] = hi[x] /\ b2[x] = b[x]
    BY <1>1, <1>3, <1>5, <1>10
  <2>2. Onward(P, x, live, lo, hi, a, b)
    BY <1>4, <1>10
  <2>3. ASSUME b[x] # 0
        PROVE  /\ P[x].next \in live2 /\ P2[P[x].next].leaf /\ a[P[x].next] = b[x]
               /\ lo[P[x].next] = hi[x]
    <3>1. P[x].next \in live /\ P[P[x].next].leaf /\ a[P[x].next] = b[x] /\ lo[P[x].next] = hi[x]
      BY <2>2, <2>3 DEF Onward
    <3>2. P[x].next # p
      BY <1>1, <3>1
    <3> QED
      BY <1>6, <1>9, <3>1, <3>2
  <2> QED
    BY <2>1, <2>2, <2>3 DEF Onward
<1>11. Strung(P2[n].kids, a, b2, a[n], b2[n])
  <2>1. Strung(P[n].kids, a, b, a[n], b[n]) /\ Strung(P[p].kids, a, b, a[p], b[p])
    BY <1>1, <1>4
  <2>2. b[n] = a[p]
    <3>1. Strung(P[q].kids, a, b, a[q], b[q])
      BY <1>1, <1>4
    <3> QED
      BY <1>1, <3>1 DEF Strung
  <2>3. Strung(left.kids, a, b, a[n], b[p])
    BY <2>1, <2>2, StrungJoined
  <2>4. Len(P[n].kids) \in Nat /\ Len(P[p].kids) \in Nat
    BY <2>1 DEF Strung
  <2>5. ASSUME NEW i \in 1 .. Len(left.kids) PROVE left.kids[i] \in live /\ left.kids[i] # n
    <3>1. /\ Len(left.kids) = Len(P[n].kids) + Len(P[p].kids)
          /\ \A h \in 1 .. Len(P[n].kids) : left.kids[h] = P[n].kids[h]
          /\ \A h \in 1 .. Len(P[p].kids) : left.kids[Len(P[n].kids) + h] = P[p].kids[h]
      BY DEF Appended
    <3>2. CASE i \in 1 .. Len(P[n].kids)
      BY <1>1, <1>2, <3>1, <3>2
    <3>3. CASE i \notin 1 .. Len(P[n].kids)
      <4> DEFINE A == Len(P[n].kids)
                 B == Len(P[p].kids)
                 h == i - A
      <4>0. i \in 1 .. (A + B) /\ A \in Nat /\ B \in Nat /\ i \notin 1 .. A
        BY <2>4, <3>1, <3>3
      <4> HIDE DEF A, B
      <4>1. h \in 1 .. B /\ A + h = i
        BY <4>0
      <4> HIDE DEF h
      <4>2. left.kids[i] = P[p].kids[h] /\ h \in 1 .. Len(P[p].kids)
        BY <3>1, <4>1 DEF A, B
      <4> QED
        BY <1>1, <1>2, <4>2
    <3> QED
      BY <3>2, <3>3
  <2>6. \A i \in 1 .. Len(left.kids) : a[left.kids[i]] = a[left.kids[i]] /\ b2[left.kids[i]] = b[left.kids[i]]
    BY <1>5, <2>5
  <2>7. Strung(left.kids, a, b2, a[n], b[p])
    BY <2>3, <2>6, StrungElse
  <2> QED
    BY <1>1, <1>5, <2>7
<1>12. ASSUME NEW x \in live, ~P[x].leaf, x # n, x # p PROVE Strung(P2[x].kids, a, b2, a[x], b2[x])
  <2>1. Strung(P[x].kids, a, b, a[x], b[x]) /\ b2[x] = b[x]
    BY <1>4, <1>5, <1>12
  <2>2. CASE x = q
    <3>1. \A i \in 1 .. Len(P[q].kids) : P[q].kids[i] \in live /\ (i # j => P[q].kids[i] # n)
      BY <1>1, <1>2
    <3>2. \A i \in 1 .. Len(P[q].kids) :
            a[P[q].kids[i]] = f[a[P[q].kids[i]]] /\ (i # j => b2[P[q].kids[i]] = f[b[P[q].kids[i]]])
      BY <1>5, <1>7, <1>8, <3>1
    <3>3. b2[P[q].kids[j]] = f[b[P[q].kids[j + 1]]]
      BY <1>1, <1>5, <1>7, <1>8
    <3>4. TakesNext(P[q].kids, j, a, b, f, a, b2)
      BY <3>2, <3>3 DEF TakesNext
    <3>5. Strung(P2[q].kids, a, b2, f[a[q]], f[b[q]])
      BY <1>2, <2>1, <2>2, <3>4, StrungDropped
    <3>6. f[a[q]] = a[q] /\ f[b[q]] = b[q]
      BY <1>1, <1>7, <1>8
    <3> QED
      BY <2>1, <2>2, <3>5, <3>6
  <2>3. CASE x # q
    <3>1. \A i \in 1 .. Len(P[x].kids) :
            a[P[x].kids[i]] = a[P[x].kids[i]] /\ b2[P[x].kids[i]] = b[P[x].kids[i]]
      BY <1>2, <1>5, <1>12, <2>3
    <3>2. Strung(P[x].kids, a, b2, a[x], b[x])
      BY <2>1, <3>1, StrungElse
    <3>3. P2[x] = P[x]
      BY <1>1, <1>12, <2>3
    <3> QED
      BY <2>1, <3>2, <3>3
  <2> QED
    BY <2>2, <2>3
<1>13. ASSUME NEW x \in live2, NEW y \in live2, P2[x].leaf, P2[y].leaf, b2[x] = b2[y] PROVE x = y
  <2>1. ASSUME NEW z \in live2, P2[z].leaf PROVE z \in live /\ P[z].leaf /\ z # n
    BY <1>1, <1>6, <1>9, <2>1
  <2>2. /\ x \in live /\ P[x].leaf /\ x # n /\ y \in live /\ P[y].leaf /\ y # n
    BY <1>13, <2>1
  <2> QED
    BY <1>4, <1>5, <1>13, <2>2
<1>14. b2[r] = 0
  BY <1>4, <1>5
<1>15. \A x \in live2 : IF P2[x].leaf THEN Onward(P2, x, live2, lo, hi2, a, b2)
                                     ELSE Strung(P2[x].kids, a, b2, a[x], b2[x])
  BY <1>1, <1>6, <1>9, <1>10, <1>11, <1>12
<1>16. Ranked(P2, r, live2, lo, hi2, a, b2)
  BY <1>4, <1>5, <1>13, <1>14, <1>15 DEF Ranked
<1> QED
  BY <1>16 DEF Chained, live2

LEMMA TreeMerge ==
  ASSUME NEW P, NEW r, NEW live, NEW lev, NEW lo, NEW hi, NEW up, NEW rows,
         Tree(P, r, live, lev, lo, hi, up, rows),
         NEW q, NEW j, NEW n, NEW p, NEW left, NEW P2, MergedTo(P, live, q, j, n, p, left, P2)
  PROVE  TreeOf(P2, r, live \ {p}, lev, rows)
<1>00. /\ q \in live /\ ~P[q].leaf /\ j \in 1 .. Len(P[q].keys)
       /\ P2 \in Pages /\ P2[n] = left
       /\ \A x \in live : x # n /\ x # q /\ x # p => P2[x] = P[x]
  BY DEF MergedTo
<1>01. n = P[q].kids[j] /\ p = P[q].kids[j + 1]
  BY DEF MergedTo
<1>02. Join(P[n], P[q].keys[j], P[p], left)
  BY DEF MergedTo
<1>03. P2[q] = Internal(RemoveAt(P[q].keys, j), RemoveAt(P[q].kids, j + 1))
  BY DEF MergedTo
<1>1. /\ P \in Pages /\ rows \in Rows /\ live \in SUBSET PageNo
      /\ lev \in [PageNo -> Nat] /\ lo \in [PageNo -> Ends] /\ hi \in [PageNo -> Ends]
      /\ up \in [PageNo -> PageNo] /\ r \in live /\ lo[r] = 1 /\ hi[r] = MaxKey + 1
  BY DEF Tree
<1>2. \A x \in live : x # r => lev[x] < lev[r] /\ up[x] \in live /\ HasChild(P[up[x]], x)
  BY DEF Tree
<1>3. \A x, y \in live : \A k \in Key :
        (P[x].leaf /\ lo[x] <= k /\ k < hi[x] /\ P[y].leaf /\ lo[y] <= k /\ k < hi[y])
        => x = y
  BY DEF Tree
<1>4. \A x \in live :
         /\ x \in PageNo /\ P[x] \in Node /\ P[x].leaf \in BOOLEAN
         /\ lev[x] \in Nat /\ lo[x] \in Ends /\ hi[x] \in Ends /\ lo[x] <= hi[x]
         /\ lev[x] = 0 <=> P[x].leaf
  BY <1>00, TreeNode
<1>5. \A x \in live : ~P[x].leaf => \A i \in 1 .. Len(P[x].kids) :
         /\ P[x].kids[i] \in live /\ lev[P[x].kids[i]] + 1 = lev[x] /\ up[P[x].kids[i]] = x
  BY <1>00, TreeNode
<1>6. /\ j \in 1 .. Len(P[q].kids) /\ j + 1 \in 1 .. Len(P[q].kids)
      /\ n \in live /\ p \in live /\ n # p /\ n # q /\ p # q /\ p # r /\ n # r
      /\ P[q].keys[j] \in Key /\ hi[n] = P[q].keys[j] /\ lo[p] = P[q].keys[j]
      /\ P[q].keys[j] \in Ends /\ lo[n] <= P[q].keys[j] /\ P[q].keys[j] <= hi[p]
      /\ lev[n] + 1 = lev[q] /\ lev[p] = lev[n] /\ up[n] = q /\ up[p] = q
      /\ P[n].leaf = P[p].leaf
  BY <1>00, <1>01, Neighbours
<1>7. /\ left \in Node /\ left.leaf = P[n].leaf
      /\ P[n].leaf => Holds(left.cells, lo[n], hi[p], rows)
      /\ ~P[n].leaf => /\ Parts(left.keys, left.kids, lo[n], hi[p], lo, hi) /\ Distinct(left.kids)
                       /\ \A i \in 1 .. Len(P[n].kids) :
                            i \in 1 .. Len(left.kids) /\ left.kids[i] = P[n].kids[i]
                       /\ \A i \in 1 .. Len(P[p].kids) :
                            /\ Len(P[n].kids) + i \in 1 .. Len(left.kids)
                            /\ left.kids[Len(P[n].kids) + i] = P[p].kids[i]
                       /\ \A i \in 1 .. Len(left.kids) :
                            \/ i \in 1 .. Len(P[n].kids) /\ left.kids[i] = P[n].kids[i]
                            \/ \E h \in 1 .. Len(P[p].kids) : left.kids[i] = P[p].kids[h]
                       /\ Appended(P[n].kids, P[p].kids, left.kids)
  <2> DEFINE s == P[q].keys[j]
  <2>1. s \in Key /\ hi[n] = s /\ lo[p] = s /\ n # p /\ P[n].leaf = P[p].leaf /\ n \in live /\ p \in live
    BY <1>00, <1>6
  <2>2. Join(P[n], s, P[p], left)
    BY <1>02
  <2> HIDE DEF s
  <2>3. Whole(P, n, p, lo, hi, rows, left)
    BY <1>00, <2>1, <2>2, JoinWithin
  <2> QED
    BY <1>00, <2>3 DEF Whole
<1>8. /\ P2[q].leaf = FALSE /\ P2[q] \in Node
      /\ P2[q].keys = RemoveAt(P[q].keys, j) /\ P2[q].kids = RemoveAt(P[q].kids, j + 1)
      /\ Len(P[q].kids) \in Nat /\ Len(P2[q].kids) = Len(P[q].kids) - 1
      /\ \A i \in 1 .. (Len(P[q].kids) - 1) :
           P2[q].kids[i] = IF i < j + 1 THEN P[q].kids[i] ELSE P[q].kids[i + 1]
  <2> DEFINE keys == P[q].keys
             kids == P[q].kids
             j1 == j + 1
  <2>0. InnerAt(P[q], q, live, lev, lo, hi, up)
    BY <1>00, TreeNode
  <2>1. Parts(keys, kids, lo[q], hi[q], lo, hi)
    BY <1>00, <2>0 DEF InnerAt
  <2>2. P2[q] = Internal(RemoveAt(keys, j), RemoveAt(kids, j1)) /\ j \in 1 .. Len(keys) /\ j1 \in 1 .. Len(kids)
    BY <1>00, <1>03, <1>6
  <2> HIDE DEF keys, kids, j1
  <2>3. keys \in Seq(Key) /\ kids \in Seq(PageNo) /\ Len(kids) = Len(keys) + 1 /\ Len(kids) \in Nat
    BY <1>00, <2>1, PartsTyped
  <2>4. RemoveAt(keys, j) \in Seq(Key)
    BY <1>00, <2>2, <2>3, Removed
  <2>5. /\ RemoveAt(kids, j1) \in Seq(PageNo) /\ Len(RemoveAt(kids, j1)) = Len(kids) - 1
        /\ \A i \in 1 .. (Len(kids) - 1) :
             RemoveAt(kids, j1)[i] = IF i < j1 THEN kids[i] ELSE kids[i + 1]
    BY <1>00, <2>2, <2>3, Removed
  <2>6. /\ P2[q].leaf = FALSE /\ P2[q] \in Node
        /\ P2[q].keys = RemoveAt(keys, j) /\ P2[q].kids = RemoveAt(kids, j1)
    BY <1>00, <2>2, <2>4, <2>5, NodeKinds
  <2>7. /\ Len(P2[q].kids) = Len(kids) - 1
        /\ \A i \in 1 .. (Len(kids) - 1) : P2[q].kids[i] = IF i < j1 THEN kids[i] ELSE kids[i + 1]
    BY <1>00, <2>5, <2>6
  <2> QED
    BY <1>00, <2>3, <2>6, <2>7 DEF keys, kids, j1
<1> DEFINE R == IF P[p].leaf THEN {} ELSE {P[p].kids[i] : i \in 1 .. Len(P[p].kids)}
           live2 == live \ {p}
           hi2 == [hi EXCEPT ![n] = hi[p]]
           up2 == [x \in PageNo |-> IF x \in R THEN n ELSE up[x]]
<1>9. ASSUME NEW x \in R
      PROVE  x \in live /\ up[x] = p /\ lev[x] + 1 = lev[p] /\ x # n /\ x # q /\ x # p
  <2>1. PICK i \in 1 .. Len(P[p].kids) : x = P[p].kids[i] /\ ~P[p].leaf
    BY <1>00, <1>9
  <2>2. x \in live /\ lev[x] + 1 = lev[p] /\ up[x] = p
    BY <1>00, <1>5, <1>6, <2>1
  <2> QED
    BY <1>00, <1>4, <1>6, <2>2
<1>10. hi2 \in [PageNo -> Ends] /\ up2 \in [PageNo -> PageNo] /\ live2 \in SUBSET PageNo
  BY <1>00, <1>1, <1>4, <1>6
<1>11. /\ hi2[n] = hi[p]
       /\ \A x \in live2 : x \in live /\ x # p /\ (x # n => hi2[x] = hi[x])
       /\ \A x \in live2 : up2[x] = IF x \in R THEN n ELSE up[x]
       /\ \A x \in live : x # p => x \in live2
       /\ p \notin live2 /\ n \in live2 /\ q \in live2
  BY <1>00, <1>1, <1>4, <1>6
<1>0a. ~P[p].leaf => \A i \in 1 .. Len(P[p].kids) : P[p].kids[i] \in R
  OBVIOUS
<1>0c. \A x \in live : x # n => hi2[x] = hi[x]
  BY <1>1, <1>4
<1> HIDE DEF R, live2, hi2, up2
<1>12. ASSUME NEW x \in live2, x # n, x # q
       PROVE  NodeFits(P2, x, live2, lev, lo, hi2, up2, rows)
  <2>1. P2[x] = P[x] /\ hi2[x] = hi[x] /\ x \in live /\ x # p
    BY <1>00, <1>11, <1>12
  <2>2. CASE P[x].leaf
    <3>1. Holds(P[x].cells, lo[x], hi[x], rows) /\ lev[x] = 0
      BY <1>00, <2>1, <2>2, TreeNode
    <3> QED
      BY <1>00, <1>4, <2>1, <2>2, <3>1 DEF NodeFits, LeafAt
  <2>3. CASE ~P[x].leaf
    <3>1. InnerAt(P[x], x, live, lev, lo, hi, up)
      BY <1>00, <2>1, <2>3, TreeNode
    <3>2. ASSUME NEW i \in 1 .. Len(P[x].kids)
          PROVE  /\ P[x].kids[i] \in live2 /\ lev[P[x].kids[i]] + 1 = lev[x] /\ up2[P[x].kids[i]] = x
                 /\ hi2[P[x].kids[i]] = hi[P[x].kids[i]]
      <4> DEFINE y == P[x].kids[i]
      <4>1. y \in live /\ lev[y] + 1 = lev[x] /\ up[y] = x
        BY <1>00, <1>5, <2>1, <2>3
      <4>2. y \notin R /\ y # n /\ y # p
        BY <1>00, <1>6, <1>9, <1>12, <2>1, <4>1
      <4> HIDE DEF y
      <4>3. y \in live2 /\ up2[y] = x /\ hi2[y] = hi[y]
        BY <1>00, <1>11, <4>1, <4>2
      <4> QED
        BY <1>00, <4>1, <4>3 DEF y
    <3>3. Parts(P[x].keys, P[x].kids, lo[x], hi[x], lo, hi) /\ Distinct(P[x].kids) /\ lev[x] > 0
      BY <1>00, <3>1 DEF InnerAt
    <3>4. \A i \in 1 .. Len(P[x].kids) : lo[P[x].kids[i]] = lo[P[x].kids[i]] /\ hi2[P[x].kids[i]] = hi[P[x].kids[i]]
      BY <1>00, <3>2
    <3>5. Parts(P[x].keys, P[x].kids, lo[x], hi[x], lo, hi2)
      <4> QED
        BY <1>00, <3>3, <3>4, PartsElse
    <3> QED
      BY <1>00, <1>4, <2>1, <2>3, <3>2, <3>3, <3>5 DEF NodeFits, InnerAt
  <2> QED
    BY <1>00, <2>2, <2>3
<1>13. NodeFits(P2, q, live2, lev, lo, hi2, up2, rows)
  <2>1. InnerAt(P[q], q, live, lev, lo, hi, up)
    BY <1>00, TreeNode
  <2>2. Parts(P[q].keys, P[q].kids, lo[q], hi[q], lo, hi) /\ Distinct(P[q].kids) /\ lev[q] > 0
    BY <1>00, <2>1 DEF InnerAt
  <2>3. Parts(P2[q].keys, P2[q].kids, lo[q], hi[q], lo, hi2) /\ Distinct(P2[q].kids)
    <3> DEFINE keys == P[q].keys
               kids == P[q].kids
    <3>1. Parts(keys, kids, lo[q], hi[q], lo, hi) /\ Distinct(kids) /\ j \in 1 .. Len(keys)
      BY <1>00, <2>2
    <3>2. P2[q].keys = RemoveAt(keys, j) /\ P2[q].kids = RemoveAt(kids, j + 1)
      BY <1>00, <1>8
    <3> HIDE DEF keys, kids
    <3>3. /\ Parts(RemoveAt(keys, j), RemoveAt(kids, j + 1), lo[q], hi[q],
                   lo, [hi EXCEPT ![kids[j]] = hi[kids[j + 1]]])
          /\ Distinct(RemoveAt(kids, j + 1))
      BY <1>00, <1>1, <3>1, PartsDropped
    <3> QED
      BY <1>01, <3>2, <3>3 DEF kids, hi2
  <2>4. ASSUME NEW i \in 1 .. Len(P2[q].kids)
        PROVE  P2[q].kids[i] \in live2 /\ lev[P2[q].kids[i]] + 1 = lev[q] /\ up2[P2[q].kids[i]] = q
    <3>1. ASSUME NEW h \in 1 .. Len(P[q].kids), h # j + 1, P2[q].kids[i] = P[q].kids[h]
          PROVE  P2[q].kids[i] \in live2 /\ lev[P2[q].kids[i]] + 1 = lev[q] /\ up2[P2[q].kids[i]] = q
      <4> DEFINE y == P[q].kids[h]
      <4>1. y \in live /\ lev[y] + 1 = lev[q] /\ up[y] = q
        BY <1>00, <1>5
      <4>2. y \notin R
        BY <1>00, <1>6, <1>9, <4>1
      <4>3. y # p
        BY <1>01, <1>6, <2>2, <3>1 DEF Distinct
      <4> HIDE DEF y
      <4>4. y \in live2 /\ lev[y] + 1 = lev[q] /\ up2[y] = q
        BY <1>00, <1>11, <4>1, <4>2, <4>3
      <4> QED
        BY <1>00, <3>1, <4>4 DEF y
    <3>2. \/ i < j + 1 /\ i \in 1 .. Len(P[q].kids) /\ i # j + 1
          \/ i >= j + 1 /\ i + 1 \in 1 .. Len(P[q].kids) /\ i + 1 # j + 1
      BY <1>00, <1>8
    <3>3. i \in 1 .. (Len(P[q].kids) - 1)
      BY <1>00, <1>8
    <3>4. CASE i < j + 1
      <4>1. P2[q].kids[i] = P[q].kids[i] /\ i \in 1 .. Len(P[q].kids) /\ i # j + 1
        BY <1>00, <1>8, <3>3, <3>4
      <4> QED
        BY <1>00, <3>1, <4>1
    <3>5. CASE i >= j + 1
      <4>1. P2[q].kids[i] = P[q].kids[i + 1] /\ i + 1 \in 1 .. Len(P[q].kids) /\ i + 1 # j + 1
        BY <1>00, <1>8, <3>3, <3>5
      <4> QED
        BY <1>00, <3>1, <4>1
    <3> QED
      BY <1>00, <3>2, <3>4, <3>5
  <2> QED
    BY <1>00, <1>4, <1>6, <1>8, <1>11, <2>2, <2>3, <2>4 DEF NodeFits, InnerAt
<1>14. ASSUME P[n].leaf PROVE NodeFits(P2, n, live2, lev, lo, hi2, up2, rows)
  <2>1. lo[n] <= hi2[n] /\ lev[n] = 0
    <3>1. lo[n] \in Int /\ hi[p] \in Int /\ P[q].keys[j] \in Int
      BY <1>00, <1>4, <1>6, EndsTyped
    <3> QED
      BY <1>00, <1>4, <1>6, <1>11, <1>14, <3>1
  <2> QED
    BY <1>00, <1>7, <1>11, <1>14, <2>1 DEF NodeFits, LeafAt
<1>15. ASSUME ~P[n].leaf PROVE NodeFits(P2, n, live2, lev, lo, hi2, up2, rows)
  <2>1. ASSUME NEW i \in 1 .. Len(left.kids)
        PROVE  /\ left.kids[i] \in live2 /\ lev[left.kids[i]] + 1 = lev[n] /\ up2[left.kids[i]] = n
               /\ hi2[left.kids[i]] = hi[left.kids[i]]
    <3> DEFINE y == left.kids[i]
    <3>1. CASE i \in 1 .. Len(P[n].kids) /\ y = P[n].kids[i]
      <4>1. y \in live /\ lev[y] + 1 = lev[n] /\ up[y] = n
        <5>1. i \in 1 .. Len(P[n].kids) /\ y = P[n].kids[i]
          BY <1>00, <3>1
        <5>2. \A h \in 1 .. Len(P[n].kids) : /\ P[n].kids[h] \in live
                                              /\ lev[P[n].kids[h]] + 1 = lev[n] /\ up[P[n].kids[h]] = n
          BY <1>00, <1>5, <1>6, <1>15
        <5> QED
          BY <1>00, <5>1, <5>2
      <4> HIDE DEF y
      <4>2. y # p /\ y \notin R /\ y # n
        BY <1>00, <1>4, <1>6, <1>9, <4>1
      <4>3. y \in live2 /\ lev[y] + 1 = lev[n] /\ up2[y] = n /\ hi2[y] = hi[y]
        BY <1>00, <1>11, <4>1, <4>2
      <4> QED
        BY <1>00, <4>3 DEF y
    <3>2. ASSUME NEW h \in 1 .. Len(P[p].kids), y = P[p].kids[h]
          PROVE  y \in live2 /\ lev[y] + 1 = lev[n] /\ up2[y] = n /\ hi2[y] = hi[y]
      <4>1. y \in R
        BY <1>00, <1>0a, <1>6, <1>15, <3>2
      <4> HIDE DEF y
      <4> QED
        BY <1>00, <1>6, <1>9, <1>11, <4>1
    <3>3. \/ i \in 1 .. Len(P[n].kids) /\ y = P[n].kids[i]
          \/ \E h \in 1 .. Len(P[p].kids) : y = P[p].kids[h]
      BY <1>00, <1>7, <1>15
    <3> QED
      BY <1>00, <3>1, <3>2, <3>3
  <2>2. Parts(left.keys, left.kids, lo[n], hi[p], lo, hi2) /\ Distinct(left.kids)
    <3>1. \A i \in 1 .. Len(left.kids) : lo[left.kids[i]] = lo[left.kids[i]] /\ hi2[left.kids[i]] = hi[left.kids[i]]
      BY <1>00, <2>1
    <3>2. Parts(left.keys, left.kids, lo[n], hi[p], lo, hi) /\ Distinct(left.kids)
      BY <1>00, <1>7, <1>15
    <3> QED
      BY <1>00, <3>1, <3>2, PartsElse
  <2>3. lev[n] > 0 /\ lo[n] <= hi2[n]
    <3>1. lo[n] \in Int /\ hi[p] \in Int /\ P[q].keys[j] \in Int
      BY <1>00, <1>4, <1>6, EndsTyped
    <3> QED
      BY <1>00, <1>4, <1>6, <1>11, <1>15, <3>1
  <2> QED
    <3>1. InnerAt(left, n, live2, lev, lo, hi2, up2)
      BY <1>00, <1>11, <2>1, <2>2, <2>3 DEF InnerAt
    <3>2. P2[n] = left /\ left.leaf = FALSE
      BY <1>00, <1>4, <1>6, <1>7, <1>15
    <3> QED
      BY <1>00, <1>7, <2>3, <3>1, <3>2 DEF NodeFits
<1>16. \A x \in live2 : NodeFits(P2, x, live2, lev, lo, hi2, up2, rows)
  BY <1>00, <1>12, <1>13, <1>14, <1>15
<1>17. ASSUME NEW x \in live2, x # r
       PROVE  lev[x] < lev[r] /\ up2[x] \in live2 /\ HasChild(P2[up2[x]], x)
  <2>1. /\ lev[x] < lev[r] /\ up[x] \in live /\ x \in live /\ x # p
        /\ HasChild(P[up[x]], x)
    BY <1>00, <1>2, <1>11, <1>17
  <2>2. PICK i \in 1 .. Len(P[up[x]].kids) : P[up[x]].kids[i] = x
    BY <1>00, <2>1 DEF HasChild
  <2>3. ~P[up[x]].leaf
    BY <1>00, <2>1 DEF HasChild
  <2>4. CASE x \in R
    <3>1. up[x] = p /\ up2[x] = n /\ n \in live2
      BY <1>00, <1>6, <1>9, <1>11, <2>4
    <3>2. i \in 1 .. Len(P[p].kids) /\ P[p].kids[i] = x /\ ~P[p].leaf
      BY <1>00, <2>2, <2>3, <3>1
    <3>3. Len(P[n].kids) + i \in 1 .. Len(left.kids) /\ left.kids[Len(P[n].kids) + i] = x /\ ~left.leaf
      BY <1>00, <1>6, <1>7, <3>2
    <3> QED
      BY <1>00, <2>1, <3>1, <3>3 DEF HasChild
  <2>5. CASE x \notin R
    <3>1. up2[x] = up[x]
      BY <1>00, <1>11, <2>5
    <3>2. up[x] # p
      BY <1>00, <1>0a, <2>2, <2>3, <2>5
    <3>3. up2[x] \in live2
      BY <1>00, <1>11, <2>1, <3>1, <3>2
    <3>4. CASE up[x] = n
      <4>1. i \in 1 .. Len(P[n].kids) /\ P[n].kids[i] = x /\ ~P[n].leaf
        BY <1>00, <2>2, <2>3, <3>4
      <4>2. i \in 1 .. Len(left.kids) /\ left.kids[i] = x /\ ~left.leaf
        BY <1>00, <1>7, <4>1
      <4> QED
        BY <1>00, <2>1, <3>1, <3>3, <3>4, <4>2 DEF HasChild
    <3>5. CASE up[x] = q
      <4>1. i \in 1 .. Len(P[q].kids) /\ P[q].kids[i] = x
        BY <1>00, <2>2, <3>5
      <4>2. i # j + 1
        BY <1>01, <2>1, <4>1
      <4>3. CASE i < j + 1
        <5>1. i \in 1 .. (Len(P[q].kids) - 1)
          BY <1>00, <1>6, <1>8, <4>1, <4>3
        <5>2. i \in 1 .. Len(P2[q].kids) /\ P2[q].kids[i] = x
          BY <1>00, <1>8, <4>1, <4>3, <5>1
        <5> QED
          BY <1>00, <1>8, <2>1, <3>1, <3>3, <3>5, <5>2 DEF HasChild
      <4>4. CASE i > j + 1
        <5>1. i - 1 \in 1 .. (Len(P[q].kids) - 1) /\ ~(i - 1 < j + 1) /\ (i - 1) + 1 = i
          BY <1>00, <1>6, <1>8, <4>1, <4>4
        <5>2. i - 1 \in 1 .. Len(P2[q].kids) /\ P2[q].kids[i - 1] = x
          BY <1>00, <1>8, <4>1, <5>1
        <5> QED
          BY <1>00, <1>8, <2>1, <3>1, <3>3, <3>5, <5>2 DEF HasChild
      <4> QED
        BY <1>00, <4>1, <4>2, <4>3, <4>4
    <3>6. CASE up[x] # n /\ up[x] # q
      BY <1>00, <2>1, <3>1, <3>2, <3>3, <3>6
    <3> QED
      BY <1>00, <3>4, <3>5, <3>6
  <2> QED
    BY <1>00, <2>4, <2>5
<1>18. ASSUME NEW x \in live2, NEW y \in live2, NEW k \in Key,
              P2[x].leaf, lo[x] <= k, k < hi2[x], P2[y].leaf, lo[y] <= k, k < hi2[y]
       PROVE  x = y
  <2> DEFINE Was(z) == IF z = n /\ ~(k < hi[n]) THEN p ELSE z
  <2>0. \A z : Was(z) = IF z = n /\ ~(k < hi[n]) THEN p ELSE z
    OBVIOUS
  <2> HIDE DEF Was
  <2>1. ASSUME NEW z \in live2, P2[z].leaf, lo[z] <= k, k < hi2[z]
        PROVE  Was(z) \in live /\ P[Was(z)].leaf /\ lo[Was(z)] <= k /\ k < hi[Was(z)]
    <3>1. k \in Int /\ hi[n] \in Int /\ lo[n] \in Int /\ hi[p] \in Int
      BY <1>00, <1>4, <1>6, EndsTyped
    <3>2. CASE z = n /\ ~(k < hi[n])
      <4>1. Was(z) = p /\ k < hi[p]
        BY <1>00, <1>11, <2>0, <2>1, <3>2
      <4>2. lo[p] <= k
        BY <1>00, <1>6, <3>1, <3>2
      <4>3. P[p].leaf
        BY <1>00, <1>6, <1>7, <2>1, <3>2
      <4> QED
        BY <1>00, <1>6, <4>1, <4>2, <4>3
    <3>3. CASE z = n /\ k < hi[n]
      <4>1. Was(z) = n
        BY <1>00, <2>0, <3>3
      <4> QED
        BY <1>00, <1>6, <1>7, <2>1, <3>1, <3>3, <4>1
    <3>4. CASE z # n
      <4>1. z \in live /\ hi2[z] = hi[z] /\ Was(z) = z /\ z # p
        BY <1>00, <1>11, <2>0, <3>4
      <4>2. z # q
        BY <1>00, <1>8, <2>1
      <4>3. P2[z] = P[z]
        BY <1>00, <3>4, <4>1, <4>2
      <4> QED
        BY <1>00, <2>1, <4>1, <4>3
    <3> QED
      BY <1>00, <3>2, <3>3, <3>4
  <2>2. /\ Was(x) \in live /\ P[Was(x)].leaf /\ lo[Was(x)] <= k /\ k < hi[Was(x)]
        /\ Was(y) \in live /\ P[Was(y)].leaf /\ lo[Was(y)] <= k /\ k < hi[Was(y)]
    BY <1>00, <1>18, <2>1
  <2>3. Was(x) = Was(y)
    BY <1>00, <1>3, <2>2
  <2>4. x # p /\ y # p
    BY <1>00, <1>11
  <2> QED
    BY <1>00, <1>6, <2>0, <2>3, <2>4
<1>19. lo[r] = 1 /\ hi2[r] = MaxKey + 1 /\ r \in live2
  BY <1>00, <1>1, <1>6, <1>11
<1>0b. Chained(P2, r, live2, lo, hi2)
  <2>1. PICK a, b : Ranked(P, r, live, lo, hi, a, b)
    BY DEF Tree, Chained
  <2>2. MergeEnds(live, n, p, hi, hi2)
    BY <1>0c, <1>11 DEF MergeEnds
  <2>3. MergeKids(P, live, q, j, n, p, left, P2)
    <3>1. Distinct(P[q].kids)
      BY <1>00, TreeNode DEF InnerAt
    <3>2. \A i \in 1 .. Len(P[q].kids) : (i # j => P[q].kids[i] # n) /\ (i # j + 1 => P[q].kids[i] # p)
      BY <1>01, <1>6, <3>1 DEF Distinct
    <3>3. j \in 1 .. (Len(P[q].kids) - 1)
      BY <1>6, <1>8
    <3>4. Dropped(P[q].kids, j, P2[q].kids)
      BY <1>8, <3>3 DEF Dropped
    <3>5. \A x \in live : ~P[x].leaf => \A i \in 1 .. Len(P[x].kids) :
            P[x].kids[i] \in live /\ (x # q => P[x].kids[i] # n /\ P[x].kids[i] # p)
      BY <1>5, <1>6
    <3>6. P2[n] = left /\ left.leaf = P[n].leaf /\ P2[q].leaf = FALSE /\ P[p].leaf = P[n].leaf
      BY <1>00, <1>6, <1>7, <1>8
    <3> QED
      BY <1>00, <1>01, <1>1, <1>4, <1>6, <3>2, <3>3, <3>4, <3>5, <3>6 DEF MergeKids
  <2>4. CASE P[n].leaf
    <3>1. left.next = P[p].next
      BY <1>02, <1>7, <2>4 DEF Join
    <3> QED
      BY <1>1, <1>6, <2>1, <2>2, <2>3, <2>4, <3>1, ChainMergeLeaf DEF live2
  <2>5. CASE ~P[n].leaf
    <3>1. Appended(P[n].kids, P[p].kids, left.kids)
      BY <1>7, <2>5
    <3> QED
      BY <1>1, <1>6, <2>1, <2>2, <2>3, <2>5, <3>1, ChainMergeInner DEF live2
  <2> QED
    BY <2>4, <2>5
<1>20. Tree(P2, r, live2, lev, lo, hi2, up2, rows)
  <2> QED
    BY <1>00, <1>0b, <1>1, <1>10, <1>16, <1>17, <1>18, <1>19 DEF Tree
<1>21. TreeOf(P2, r, live2, lev, rows)
  BY <1>20 DEF TreeOf
<1> QED
  BY <1>21 DEF live2

(* The chain stays when nothing that it goes by changes.                     *)
LEMMA ChainKept ==
  ASSUME NEW P, NEW r, NEW live, NEW lo, NEW hi, Chained(P, r, live, lo, hi), NEW P2,
         \A x \in live : P2[x].leaf = P[x].leaf,
         \A x \in live : /\ P[x].leaf => P2[x].next = P[x].next
                         /\ ~P[x].leaf => P2[x].kids = P[x].kids
  PROVE  Chained(P2, r, live, lo, hi)
<1>1. PICK a, b : Ranked(P, r, live, lo, hi, a, b)
  BY DEF Chained
<1>2. /\ a \in [PageNo -> Nat] /\ b \in [PageNo -> Nat] /\ b[r] = 0
      /\ \A x \in live : IF P[x].leaf THEN Onward(P, x, live, lo, hi, a, b)
                                      ELSE Strung(P[x].kids, a, b, a[x], b[x])
      /\ \A x, y \in live : P[x].leaf /\ P[y].leaf /\ b[x] = b[y] => x = y
  BY <1>1 DEF Ranked
<1>3. ASSUME NEW x \in live
      PROVE  IF P2[x].leaf THEN Onward(P2, x, live, lo, hi, a, b)
                           ELSE Strung(P2[x].kids, a, b, a[x], b[x])
  <2>1. CASE P[x].leaf
    <3>1. P2[x].leaf /\ P2[x].next = P[x].next
      BY <2>1
    <3>2. Onward(P, x, live, lo, hi, a, b)
      BY <1>2, <2>1
    <3>3. Onward(P2, x, live, lo, hi, a, b)
      BY <3>1, <3>2 DEF Onward
    <3> QED
      BY <3>1, <3>3
  <2>2. CASE ~P[x].leaf
    <3>1. ~P2[x].leaf /\ P2[x].kids = P[x].kids
      BY <2>2
    <3>2. Strung(P[x].kids, a, b, a[x], b[x])
      BY <1>2, <2>2
    <3> QED
      BY <3>1, <3>2
  <2> QED
    BY <2>1, <2>2
<1>4. \A x, y \in live : P2[x].leaf /\ P2[y].leaf /\ b[x] = b[y] => x = y
  BY <1>2
<1>5. Ranked(P2, r, live, lo, hi, a, b)
  BY <1>2, <1>3, <1>4 DEF Ranked
<1> QED
  BY <1>5 DEF Chained

(* A leaf's cells change with the row of one of its keys.                    *)
LEMMA TreeLeaf ==
  ASSUME NEW P, NEW r, NEW live, NEW lev, NEW lo, NEW hi, NEW up, NEW rows,
         Tree(P, r, live, lev, lo, hi, up, rows), NEW n \in live, P[n].leaf,
         NEW key \in Key, lo[n] <= key, key < hi[n], NEW row \in Lengths \cup {NoRow},
         NEW node \in Node, node.leaf, Holds(node.cells, lo[n], hi[n], [rows EXCEPT ![key] = row]),
         node.next = P[n].next, NEW P2, P2 = [P EXCEPT ![n] = node]
  PROVE  Tree(P2, r, live, lev, lo, hi, up, [rows EXCEPT ![key] = row])
<1> DEFINE now == [rows EXCEPT ![key] = row]
<1>1. /\ P \in Pages /\ rows \in Rows /\ live \in SUBSET PageNo
      /\ lev \in [PageNo -> Nat] /\ lo \in [PageNo -> Ends] /\ hi \in [PageNo -> Ends]
      /\ up \in [PageNo -> PageNo] /\ r \in live /\ lo[r] = 1 /\ hi[r] = MaxKey + 1
  BY DEF Tree
<1>2. \A x \in live : x # r => lev[x] < lev[r] /\ up[x] \in live /\ HasChild(P[up[x]], x)
  BY DEF Tree
<1>3. \A x, y \in live : \A k \in Key :
        (P[x].leaf /\ lo[x] <= k /\ k < hi[x] /\ P[y].leaf /\ lo[y] <= k /\ k < hi[y])
        => x = y
  BY DEF Tree
<1>4. \A x \in live : /\ x \in PageNo /\ P[x] \in Node /\ P[x].leaf \in BOOLEAN /\ lo[x] <= hi[x]
                      /\ (lev[x] = 0 <=> P[x].leaf)
  BY TreeNode
<1>5. P2 \in Pages /\ P2[n] = node /\ \A x \in live : x # n => P2[x] = P[x]
  BY <1>1, <1>4 DEF Pages
<1>6. now \in Rows
  BY <1>1 DEF Rows
<1>7. Holds(node.cells, lo[n], hi[n], now)
  OBVIOUS
<1>8. node.leaf = TRUE
  BY NodeKinds
<1> HIDE DEF now
<1>9. NodeFits(P2, n, live, lev, lo, hi, up, now)
  BY <1>4, <1>5, <1>7, <1>8 DEF NodeFits, LeafAt
<1>10. ASSUME NEW x \in live, x # n PROVE NodeFits(P2, x, live, lev, lo, hi, up, now)
  <2>1. P2[x] = P[x]
    BY <1>5, <1>10
  <2>2. CASE P[x].leaf
    <3>1. Holds(P[x].cells, lo[x], hi[x], rows) /\ lev[x] = 0
      BY <2>2, TreeNode
    <3>2. ~(lo[x] <= key /\ key < hi[x])
      BY <1>3, <1>10, <2>2
    <3>3. Holds(P[x].cells, lo[x], hi[x], now)
      BY <1>1, <3>1, <3>2, HoldsElse DEF now
    <3> QED
      BY <1>4, <2>1, <2>2, <3>1, <3>3 DEF NodeFits, LeafAt
  <2>3. CASE ~P[x].leaf
    <3>1. InnerAt(P[x], x, live, lev, lo, hi, up)
      BY <2>3, TreeNode
    <3> QED
      BY <1>4, <2>1, <2>3, <3>1 DEF NodeFits
  <2> QED
    BY <2>2, <2>3
<1>11. \A x \in live : NodeFits(P2, x, live, lev, lo, hi, up, now)
  BY <1>9, <1>10
<1>12. ASSUME NEW x \in live, x # r
       PROVE  lev[x] < lev[r] /\ up[x] \in live /\ HasChild(P2[up[x]], x)
  <2>1. lev[x] < lev[r] /\ up[x] \in live /\ HasChild(P[up[x]], x)
    BY <1>2, <1>12
  <2>2. up[x] # n
    BY <2>1 DEF HasChild
  <2> QED
    BY <1>5, <2>1, <2>2
<1>13. \A x \in live : P2[x].leaf = P[x].leaf
  BY <1>4, <1>5, <1>8
<1>14. ASSUME NEW x \in live, NEW y \in live, NEW k \in Key, P2[x].leaf, lo[x] <= k, k < hi[x],
              P2[y].leaf, lo[y] <= k, k < hi[y]
       PROVE  x = y
  BY <1>3, <1>13, <1>14
<1>0. Chained(P2, r, live, lo, hi)
  <2>1. \A x \in live : /\ P[x].leaf => P2[x].next = P[x].next
                        /\ ~P[x].leaf => P2[x].kids = P[x].kids
    BY <1>5
  <2>2. Chained(P, r, live, lo, hi)
    BY DEF Tree
  <2> QED
    BY <1>13, <2>1, <2>2, ChainKept
<1>15. Tree(P2, r, live, lev, lo, hi, up, now)
  BY <1>0, <1>1, <1>5, <1>6, <1>11, <1>12, <1>14 DEF Tree
<1> QED
  BY <1>15 DEF now

(* A new root over the old one.                                              *)
LEMMA TreeAddRoot ==
  ASSUME NEW P, NEW r, NEW live, NEW lev, NEW lo, NEW hi, NEW up, NEW rows,
         Tree(P, r, live, lev, lo, hi, up, rows), NEW q \in PageNo, q \notin live,
         NEW P2 \in Pages, P2[q] = Internal(<< >>, <<r>>), \A x \in live : P2[x] = P[x]
  PROVE  TreeOf(P2, q, live \cup {q}, [lev EXCEPT ![q] = lev[r] + 1], rows)
<1> DEFINE live2 == live \cup {q}
           lev2 == [lev EXCEPT ![q] = lev[r] + 1]
           lo2 == [lo EXCEPT ![q] = 1]
           hi2 == [hi EXCEPT ![q] = MaxKey + 1]
           up2 == [up EXCEPT ![r] = q]
           top == Internal(<< >>, <<r>>)
<1>1. /\ P \in Pages /\ rows \in Rows /\ live \in SUBSET PageNo
      /\ lev \in [PageNo -> Nat] /\ lo \in [PageNo -> Ends] /\ hi \in [PageNo -> Ends]
      /\ up \in [PageNo -> PageNo] /\ r \in live /\ lo[r] = 1 /\ hi[r] = MaxKey + 1
  BY DEF Tree
<1>2. \A x \in live : x # r => lev[x] < lev[r] /\ up[x] \in live /\ HasChild(P[up[x]], x)
  BY DEF Tree
<1>3. \A x, y \in live : \A k \in Key :
        (P[x].leaf /\ lo[x] <= k /\ k < hi[x] /\ P[y].leaf /\ lo[y] <= k /\ k < hi[y])
        => x = y
  BY DEF Tree
<1>4. \A x \in live : /\ x \in PageNo /\ P[x] \in Node /\ P[x].leaf \in BOOLEAN /\ lo[x] <= hi[x]
                      /\ (lev[x] = 0 <=> P[x].leaf) /\ lev[x] \in Nat
  BY TreeNode
<1>5. \A x \in live : ~P[x].leaf => \A i \in 1 .. Len(P[x].kids) :
         P[x].kids[i] \in live /\ lev[P[x].kids[i]] + 1 = lev[x] /\ up[P[x].kids[i]] = x
  BY TreeNode
<1>6. /\ top \in Node /\ top.leaf = FALSE /\ top.keys = << >> /\ top.kids = <<r>>
      /\ << >> \in Seq(Key) /\ <<r>> \in Seq(PageNo)
  <2>1. << >> \in Seq(Key) /\ <<r>> \in Seq(PageNo)
    BY <1>1
  <2> DEFINE e == << >>
             k == <<r>>
  <2>2. e \in Seq(Key) /\ k \in Seq(PageNo) /\ top = Internal(e, k)
    BY <2>1
  <2> HIDE DEF e, k, top
  <2>3. top \in Node /\ top.leaf = FALSE /\ top.keys = e /\ top.kids = k
    BY <2>2, NodeKinds
  <2> QED
    BY <2>1, <2>3 DEF e, k
<1>7. /\ live2 \in SUBSET PageNo /\ lev2 \in [PageNo -> Nat] /\ lo2 \in [PageNo -> Ends]
      /\ hi2 \in [PageNo -> Ends] /\ up2 \in [PageNo -> PageNo]
  BY <1>1, <1>4, EndsTyped
<1>8. /\ lev2[q] = lev[r] + 1 /\ lo2[q] = 1 /\ hi2[q] = MaxKey + 1 /\ up2[r] = q /\ q # r
      /\ \A x \in live : lev2[x] = lev[x] /\ lo2[x] = lo[x] /\ hi2[x] = hi[x] /\ x # q
      /\ \A x \in live : x # r => up2[x] = up[x]
      /\ q \in live2 /\ live \subseteq live2 /\ \A x \in live2 : x = q \/ x \in live
  BY <1>1, <1>4
<1>9. P2 \in Pages /\ P2[q] = top /\ \A x \in live : P2[x] = P[x]
  OBVIOUS
<1> HIDE DEF live2, lev2, lo2, hi2, up2, top
<1>10. NodeFits(P2, q, live2, lev2, lo2, hi2, up2, rows)
  <2>1. Parts(top.keys, top.kids, 1, MaxKey + 1, lo2, hi2) /\ Distinct(top.kids)
    BY <1>1, <1>6, <1>8 DEF Parts, Distinct
  <2>2. \A i \in 1 .. Len(top.kids) : top.kids[i] = r
    BY <1>6
  <2>3. lev2[q] > 0 /\ 1 <= MaxKey + 1 /\ lev2[r] + 1 = lev2[q]
    <3>1. MaxKey \in Nat /\ lev[r] \in Nat /\ lev2[r] = lev[r]
      BY <1>1, <1>4, <1>8, Sizes
    <3> QED
      BY <1>8, <3>1
  <2>4. InnerAt(top, q, live2, lev2, lo2, hi2, up2)
    BY <1>1, <1>8, <2>1, <2>2, <2>3 DEF InnerAt
  <2> QED
    BY <1>6, <1>8, <1>9, <2>3, <2>4 DEF NodeFits
<1>11. ASSUME NEW x \in live PROVE NodeFits(P2, x, live2, lev2, lo2, hi2, up2, rows)
  <2>1. P2[x] = P[x] /\ lo2[x] = lo[x] /\ hi2[x] = hi[x] /\ lev2[x] = lev[x]
    BY <1>8, <1>9
  <2>2. CASE P[x].leaf
    <3>1. Holds(P[x].cells, lo[x], hi[x], rows) /\ lev[x] = 0
      BY <2>2, TreeNode
    <3> QED
      BY <1>4, <2>1, <2>2, <3>1 DEF NodeFits, LeafAt
  <2>3. CASE ~P[x].leaf
    <3>1. InnerAt(P[x], x, live, lev, lo, hi, up)
      BY <2>3, TreeNode
    <3>2. ASSUME NEW i \in 1 .. Len(P[x].kids)
          PROVE  /\ P[x].kids[i] \in live2 /\ lev2[P[x].kids[i]] + 1 = lev2[x] /\ up2[P[x].kids[i]] = x
                 /\ lo2[P[x].kids[i]] = lo[P[x].kids[i]] /\ hi2[P[x].kids[i]] = hi[P[x].kids[i]]
      <4> DEFINE y == P[x].kids[i]
      <4>1. y \in live /\ lev[y] + 1 = lev[x] /\ up[y] = x
        BY <1>5, <2>3
      <4> HIDE DEF y
      <4>2. y # r
        BY <1>2, <1>4, <4>1
      <4>3. y \in live2 /\ lev2[y] + 1 = lev2[x] /\ up2[y] = x /\ lo2[y] = lo[y] /\ hi2[y] = hi[y]
        BY <1>8, <4>1, <4>2
      <4> QED
        BY <4>3 DEF y
    <3>3. Parts(P[x].keys, P[x].kids, lo[x], hi[x], lo, hi) /\ Distinct(P[x].kids) /\ lev[x] > 0
      BY <3>1 DEF InnerAt
    <3>4. \A i \in 1 .. Len(P[x].kids) : lo2[P[x].kids[i]] = lo[P[x].kids[i]] /\ hi2[P[x].kids[i]] = hi[P[x].kids[i]]
      BY <3>2
    <3>5. Parts(P[x].keys, P[x].kids, lo[x], hi[x], lo2, hi2)
      BY <3>3, <3>4, PartsElse
    <3> QED
      BY <1>4, <2>1, <2>3, <3>2, <3>3, <3>5 DEF NodeFits, InnerAt
  <2> QED
    BY <2>2, <2>3
<1>12. \A x \in live2 : NodeFits(P2, x, live2, lev2, lo2, hi2, up2, rows)
  BY <1>8, <1>10, <1>11
<1>13. ASSUME NEW x \in live2, x # q
       PROVE  lev2[x] < lev2[q] /\ up2[x] \in live2 /\ HasChild(P2[up2[x]], x)
  <2>1. x \in live
    BY <1>8, <1>13
  <2>2. CASE x = r
    <3>1. HasChild(top, r)
      BY <1>6 DEF HasChild
    <3> QED
      BY <1>1, <1>4, <1>8, <1>9, <2>2, <3>1
  <2>3. CASE x # r
    BY <1>1, <1>2, <1>4, <1>8, <1>9, <2>1, <2>3
  <2> QED
    BY <2>2, <2>3
<1>14. ASSUME NEW x \in live2, NEW y \in live2, NEW k \in Key, P2[x].leaf, lo2[x] <= k, k < hi2[x],
              P2[y].leaf, lo2[y] <= k, k < hi2[y]
       PROVE  x = y
  <2>1. x \in live /\ y \in live
    BY <1>6, <1>8, <1>9, <1>14
  <2> QED
    BY <1>3, <1>8, <1>9, <1>14, <2>1
<1>0. Chained(P2, q, live2, lo2, hi2)
  <2>1. PICK a, b : Ranked(P, r, live, lo, hi, a, b)
    BY DEF Tree, Chained
  <2>2. /\ a \in [PageNo -> Nat] /\ b \in [PageNo -> Nat] /\ b[r] = 0
        /\ \A x \in live : P[x].leaf => Onward(P, x, live, lo, hi, a, b)
        /\ \A x \in live : ~P[x].leaf => Strung(P[x].kids, a, b, a[x], b[x])
        /\ \A x, y \in live : P[x].leaf /\ P[y].leaf /\ b[x] = b[y] => x = y
    BY <2>1 DEF Ranked
  <2> DEFINE a2 == [a EXCEPT ![q] = a[r]]
             b2 == [b EXCEPT ![q] = 0]
  <2>3. /\ a2 \in [PageNo -> Nat] /\ b2 \in [PageNo -> Nat] /\ b2[q] = 0 /\ a2[q] = a[r]
        /\ \A x \in live : a2[x] = a[x] /\ b2[x] = b[x]
    BY <1>1, <2>2
  <2> HIDE DEF a2, b2
  <2>4. ASSUME NEW x \in live, P[x].leaf PROVE Onward(P2, x, live2, lo2, hi2, a2, b2)
    <3>1. P2[x] = P[x] /\ hi2[x] = hi[x] /\ a2[x] = a[x] /\ b2[x] = b[x]
      BY <1>8, <1>9, <2>3
    <3>2. Onward(P, x, live, lo, hi, a, b)
      BY <2>2, <2>4
    <3>3. ASSUME b[x] # 0
          PROVE  /\ P[x].next \in live2 /\ P2[P[x].next].leaf /\ a2[P[x].next] = b[x]
                 /\ lo2[P[x].next] = hi[x]
      <4>1. P[x].next \in live /\ P[P[x].next].leaf /\ a[P[x].next] = b[x] /\ lo[P[x].next] = hi[x]
        BY <3>2, <3>3 DEF Onward
      <4> QED
        BY <1>8, <1>9, <2>3, <4>1
    <3> QED
      BY <3>1, <3>2, <3>3 DEF Onward
  <2>5. ASSUME NEW x \in live, ~P[x].leaf PROVE Strung(P2[x].kids, a2, b2, a2[x], b2[x])
    <3>1. \A i \in 1 .. Len(P[x].kids) : a2[P[x].kids[i]] = a[P[x].kids[i]] /\ b2[P[x].kids[i]] = b[P[x].kids[i]]
      BY <1>5, <2>3, <2>5
    <3>2. Strung(P[x].kids, a, b, a[x], b[x])
      BY <2>2, <2>5
    <3>3. Strung(P[x].kids, a2, b2, a[x], b[x])
      BY <3>1, <3>2, StrungElse
    <3> QED
      BY <1>9, <2>3, <3>3
  <2>6. Strung(P2[q].kids, a2, b2, a2[q], b2[q])
    <3> DEFINE k == P2[q].kids
    <3>1. Len(k) = 1 /\ k[1] = r
      BY <1>6, <1>9
    <3>2. a2[r] = a2[q] /\ b2[r] = b2[q]
      BY <1>1, <2>2, <2>3
    <3> HIDE DEF k
    <3>3. Strung(k, a2, b2, a2[q], b2[q])
      BY <3>1, <3>2 DEF Strung
    <3> QED
      BY <3>3 DEF k
  <2>7. \A x \in live : P2[x].leaf = P[x].leaf
    BY <1>9
  <2>8. P2[q].leaf = FALSE
    BY <1>6, <1>9
  <2>9. \A x \in live2 : IF P2[x].leaf THEN Onward(P2, x, live2, lo2, hi2, a2, b2)
                                       ELSE Strung(P2[x].kids, a2, b2, a2[x], b2[x])
    BY <1>8, <2>4, <2>5, <2>6, <2>7, <2>8
  <2>10. ASSUME NEW x \in live2, NEW y \in live2, P2[x].leaf, P2[y].leaf, b2[x] = b2[y] PROVE x = y
    BY <1>8, <2>2, <2>3, <2>7, <2>8, <2>10
  <2>11. Ranked(P2, q, live2, lo2, hi2, a2, b2)
    BY <2>3, <2>9, <2>10 DEF Ranked
  <2> QED
    BY <2>11 DEF Chained
<1>15. Tree(P2, q, live2, lev2, lo2, hi2, up2, rows)
  <2>1. /\ P2 \in Pages /\ rows \in Rows
        /\ q \in live2 /\ lo2[q] = 1 /\ hi2[q] = MaxKey + 1
    BY <1>1, <1>8
  <2>2. \A x \in live2 : x # q => lev2[x] < lev2[q] /\ up2[x] \in live2 /\ HasChild(P2[up2[x]], x)
    BY <1>13
  <2>3. \A x, y \in live2 : \A k \in Key :
          (P2[x].leaf /\ lo2[x] <= k /\ k < hi2[x] /\ P2[y].leaf /\ lo2[y] <= k /\ k < hi2[y])
          => x = y
    BY <1>14
  <2> QED
    BY <1>0, <1>7, <1>12, <2>1, <2>2, <2>3, TreeMade
<1>16. TreeOf(P2, q, live2, lev2, rows)
  BY <1>15 DEF TreeOf
<1> QED
  BY <1>16 DEF live2, lev2

(* A root without a separator gives way to its only child.                   *)
LEMMA TreeDropRoot ==
  ASSUME NEW P, NEW r, NEW live, NEW lev, NEW lo, NEW hi, NEW up, NEW rows,
         Tree(P, r, live, lev, lo, hi, up, rows), ~P[r].leaf, P[r].keys = << >>
  PROVE  Tree(P, P[r].kids[1], live \ {r}, lev, lo, hi, up, rows)
<1> DEFINE c == P[r].kids[1]
           live2 == live \ {r}
<1>1. /\ P \in Pages /\ rows \in Rows /\ live \in SUBSET PageNo
      /\ lev \in [PageNo -> Nat] /\ lo \in [PageNo -> Ends] /\ hi \in [PageNo -> Ends]
      /\ up \in [PageNo -> PageNo] /\ r \in live /\ lo[r] = 1 /\ hi[r] = MaxKey + 1
  BY DEF Tree
<1>2. \A x \in live : x # r => lev[x] < lev[r] /\ up[x] \in live /\ HasChild(P[up[x]], x)
  BY DEF Tree
<1>3. \A x, y \in live : \A k \in Key :
        (P[x].leaf /\ lo[x] <= k /\ k < hi[x] /\ P[y].leaf /\ lo[y] <= k /\ k < hi[y])
        => x = y
  BY DEF Tree
<1>4. \A x \in live : /\ x \in PageNo /\ P[x] \in Node /\ P[x].leaf \in BOOLEAN /\ lo[x] <= hi[x]
                      /\ (lev[x] = 0 <=> P[x].leaf) /\ lev[x] \in Nat
  BY TreeNode
<1>5. \A x \in live : ~P[x].leaf => \A i \in 1 .. Len(P[x].kids) :
         P[x].kids[i] \in live /\ lev[P[x].kids[i]] + 1 = lev[x] /\ up[P[x].kids[i]] = x
  BY TreeNode
<1>6. Len(P[r].kids) = 1 /\ lo[c] = 1 /\ hi[c] = MaxKey + 1
  <2>1. Parts(P[r].keys, P[r].kids, lo[r], hi[r], lo, hi)
    BY <1>1, TreeNode DEF InnerAt
  <2>2. Len(P[r].kids) = 1
    BY <2>1 DEF Parts
  <2> QED
    BY <1>1, <2>1, <2>2 DEF Parts
<1>7. c \in live /\ lev[c] + 1 = lev[r] /\ c # r
  BY <1>1, <1>4, <1>5, <1>6
<1> HIDE DEF c
<1>8. ASSUME NEW x \in live2, x # c PROVE lev[x] < lev[c] /\ up[x] \in live2 /\ HasChild(P[up[x]], x)
  <2>1. x \in live /\ x # r
    BY <1>8
  <2>2. up[x] \in live /\ HasChild(P[up[x]], x) /\ lev[x] < lev[r]
    BY <1>2, <2>1
  <2>3. PICK i \in 1 .. Len(P[up[x]].kids) : P[up[x]].kids[i] = x /\ ~P[up[x]].leaf
    BY <2>2 DEF HasChild
  <2>4. lev[x] + 1 = lev[up[x]]
    BY <1>5, <2>2, <2>3
  <2>5. up[x] # r
    <3> SUFFICES ASSUME up[x] = r PROVE FALSE
      OBVIOUS
    <3>1. i = 1
      BY <1>6, <2>3
    <3> QED
      BY <1>8, <2>3, <3>1 DEF c
  <2>6. lev[up[x]] < lev[r]
    BY <1>2, <2>2, <2>5
  <2> QED
    BY <1>1, <1>4, <1>7, <2>1, <2>2, <2>4, <2>5, <2>6
<1>9. ASSUME NEW x \in live2 PROVE NodeFits(P, x, live2, lev, lo, hi, up, rows)
  <2>1. x \in live /\ x # r
    BY <1>9
  <2>2. CASE P[x].leaf
    <3>1. Holds(P[x].cells, lo[x], hi[x], rows) /\ lev[x] = 0
      BY <2>1, <2>2, TreeNode
    <3> QED
      BY <1>4, <2>1, <2>2, <3>1 DEF NodeFits, LeafAt
  <2>3. CASE ~P[x].leaf
    <3>1. InnerAt(P[x], x, live, lev, lo, hi, up)
      BY <2>1, <2>3, TreeNode
    <3>2. ASSUME NEW i \in 1 .. Len(P[x].kids) PROVE P[x].kids[i] \in live2
      <4> DEFINE y == P[x].kids[i]
      <4>1. y \in live /\ lev[y] + 1 = lev[x]
        BY <1>5, <2>1, <2>3
      <4> HIDE DEF y
      <4>2. y # r
        BY <1>2, <1>4, <2>1, <4>1
      <4> QED
        BY <4>1, <4>2 DEF y
    <3>3. InnerAt(P[x], x, live2, lev, lo, hi, up)
      BY <3>1, <3>2 DEF InnerAt
    <3> QED
      BY <1>4, <2>1, <2>3, <3>3 DEF NodeFits
  <2> QED
    BY <2>2, <2>3
<1>0. Chained(P, c, live2, lo, hi)
  <2>1. PICK a, b : Ranked(P, r, live, lo, hi, a, b)
    BY DEF Tree, Chained
  <2>2. /\ a \in [PageNo -> Nat] /\ b \in [PageNo -> Nat] /\ b[r] = 0
        /\ \A x \in live : P[x].leaf => Onward(P, x, live, lo, hi, a, b)
        /\ \A x \in live : ~P[x].leaf => Strung(P[x].kids, a, b, a[x], b[x])
        /\ \A x, y \in live : P[x].leaf /\ P[y].leaf /\ b[x] = b[y] => x = y
    BY <2>1 DEF Ranked
  <2>3. b[c] = 0
    <3>1. Strung(P[r].kids, a, b, a[r], b[r])
      BY <1>1, <2>2
    <3> QED
      BY <1>6, <2>2, <3>1 DEF Strung, c
  <2>4. ASSUME NEW x \in live2, P[x].leaf PROVE Onward(P, x, live2, lo, hi, a, b)
    <3>1. Onward(P, x, live, lo, hi, a, b)
      BY <2>2, <2>4
    <3>2. b[x] # 0 => P[x].next \in live2
      BY <3>1 DEF Onward
    <3> QED
      BY <3>1, <3>2 DEF Onward
  <2>5. \A x \in live2 : IF P[x].leaf THEN Onward(P, x, live2, lo, hi, a, b)
                                      ELSE Strung(P[x].kids, a, b, a[x], b[x])
    BY <2>2, <2>4
  <2>6. Ranked(P, c, live2, lo, hi, a, b)
    BY <2>2, <2>3, <2>5 DEF Ranked
  <2> QED
    BY <2>6 DEF Chained
<1>10. Tree(P, c, live2, lev, lo, hi, up, rows)
  BY <1>0, <1>1, <1>3, <1>6, <1>7, <1>8, <1>9 DEF Tree
<1> QED
  BY <1>10 DEF c

(* An element taken out and another put in its place.                        *)
LEMMA Reinserted ==
  ASSUME NEW S, NEW s \in Seq(S), NEW i \in 1 .. Len(s), NEW e \in S
  PROVE  InsertAt(RemoveAt(s, i), i, e) = ReplaceAt(s, i, e)
<1> DEFINE cut == RemoveAt(s, i)
           old == ReplaceAt(s, i, e)
<1>1. /\ cut \in Seq(S) /\ Len(cut) = Len(s) - 1 /\ Len(s) \in Nat
      /\ \A j \in 1 .. (Len(s) - 1) : cut[j] = IF j < i THEN s[j] ELSE s[j + 1]
  BY Removed
<1>2. old \in Seq(S) /\ Len(old) = Len(s) /\ \A j \in 1 .. Len(s) : old[j] = IF j = i THEN e ELSE s[j]
  BY DEF ReplaceAt
<1> HIDE DEF cut, old
<1>3. cut \in Seq(S) /\ i \in 1 .. (Len(cut) + 1)
  BY <1>1
<1>4. PICK new : /\ new = InsertAt(cut, i, e) /\ new \in Seq(S) /\ Len(new) = Len(cut) + 1
                 /\ \A j \in 1 .. (Len(cut) + 1) :
                      new[j] = IF j < i THEN cut[j] ELSE IF j = i THEN e ELSE cut[j - 1]
  <2>1. ASSUME NEW t \in Seq(S), NEW x \in 1 .. (Len(t) + 1)
        PROVE  \E new : /\ new = InsertAt(t, x, e) /\ new \in Seq(S) /\ Len(new) = Len(t) + 1
                        /\ \A j \in 1 .. (Len(t) + 1) :
                             new[j] = IF j < x THEN t[j] ELSE IF j = x THEN e ELSE t[j - 1]
    BY <2>1, Inserted
  <2> QED
    BY <1>3, <2>1
<1>5. Len(new) = Len(s)
  BY <1>1, <1>4
<1>6. ASSUME NEW j \in 1 .. Len(s) PROVE new[j] = old[j]
  <2>1. j \in 1 .. (Len(cut) + 1) /\ i \in Int
    BY <1>1
  <2>2. CASE j < i
    <3>1. j \in 1 .. (Len(s) - 1)
      BY <1>1, <1>3, <2>2
    <3> QED
      BY <1>1, <1>2, <1>4, <2>1, <2>2, <3>1
  <2>3. CASE j = i
    BY <1>2, <1>4, <2>1, <2>3
  <2>4. CASE j > i
    <3>1. j - 1 \in 1 .. (Len(s) - 1) /\ ~(j - 1 < i) /\ (j - 1) + 1 = j /\ ~(j < i) /\ j # i
      BY <1>1, <1>3, <2>4
    <3>2. new[j] = cut[j - 1] /\ cut[j - 1] = s[j] /\ old[j] = s[j]
      BY <1>1, <1>2, <1>4, <2>1, <3>1
    <3> QED
      BY <3>2
  <2>5. j < i \/ j = i \/ j > i
    OBVIOUS
  <2> QED
    BY <2>2, <2>3, <2>4, <2>5
<1>7. new = old
  BY <1>1, <1>2, <1>4, <1>5, <1>6, SeqEqual
<1> QED
  BY <1>4, <1>7 DEF old, cut

LEMMA Replaced ==
  ASSUME NEW S, NEW s \in Seq(S), NEW i \in 1 .. Len(s)
  PROVE  ReplaceAt(s, i, s[i]) = s
BY DEF ReplaceAt

(* Entries go from a node to its neighbour.                                  *)
ShiftTo(P, live, q, j, n, p, joined, m, left, right, s, P2) ==
  /\ q \in live /\ ~P[q].leaf /\ j \in 1 .. Len(P[q].keys)
  /\ n = P[q].kids[j] /\ p = P[q].kids[j + 1]
  /\ Join(P[n], P[q].keys[j], P[p], joined)
  /\ Cut(joined, m, left, right, s) /\ s \in Key
  /\ P[n].leaf => left.next = P[n].next /\ right.next = P[p].next
  /\ P2 \in Pages /\ P2[n] = left /\ P2[p] = right
  /\ P2[q] = Internal(ReplaceAt(P[q].keys, j, s), P[q].kids)
  /\ \A x \in live : x # n /\ x # q /\ x # p => P2[x] = P[x]

LEMMA TreeShift ==
  ASSUME NEW P, NEW r, NEW live, NEW lev, NEW lo, NEW hi, NEW up, NEW rows,
         Tree(P, r, live, lev, lo, hi, up, rows),
         NEW q, NEW j, NEW n, NEW p, NEW joined, NEW m, NEW left, NEW right, NEW s, NEW P2,
         ShiftTo(P, live, q, j, n, p, joined, m, left, right, s, P2)
  PROVE  TreeOf(P2, r, live, lev, rows)
<1>1. /\ q \in live /\ ~P[q].leaf /\ j \in 1 .. Len(P[q].keys)
      /\ s \in Key /\ P2 \in Pages /\ P2[n] = left /\ P2[p] = right
      /\ \A x \in live : x # n /\ x # q /\ x # p => P2[x] = P[x]
  BY DEF ShiftTo
<1>2. /\ n = P[q].kids[j] /\ p = P[q].kids[j + 1] /\ Join(P[n], P[q].keys[j], P[p], joined)
      /\ Cut(joined, m, left, right, s)
      /\ P2[q] = Internal(ReplaceAt(P[q].keys, j, s), P[q].kids)
  BY DEF ShiftTo
<1>3. n \in live /\ p \in live /\ n # p /\ n # q /\ p # q /\ j + 1 \in 1 .. Len(P[q].kids)
  BY <1>1, <1>2, Neighbours
<1>4. live \in SUBSET PageNo /\ P \in Pages
  BY DEF Tree
<1> DEFINE keys == P[q].keys
           kids == P[q].kids
           j1 == j + 1
           cut == Internal(RemoveAt(keys, j), RemoveAt(kids, j1))
           P1 == [x \in PageNo |-> IF x = n THEN joined ELSE IF x = q THEN cut ELSE P[x]]
<1>5. Parts(keys, kids, lo[q], hi[q], lo, hi)
  BY <1>1, TreeNode DEF InnerAt
<1>6. /\ keys \in Seq(Key) /\ kids \in Seq(PageNo) /\ Len(kids) = Len(keys) + 1 /\ Len(keys) \in Nat
      /\ j \in 1 .. Len(keys) /\ j1 \in 1 .. Len(kids) /\ p = kids[j1] /\ n = kids[j]
  <2>1. j \in 1 .. Len(keys) /\ j1 \in 1 .. Len(kids) /\ p = kids[j1] /\ n = kids[j]
    BY <1>1, <1>2, <1>3
  <2> HIDE DEF keys, kids, j1
  <2> QED
    BY <1>5, <2>1, PartsTyped
<1> HIDE DEF keys, kids, j1
<1>7. RemoveAt(keys, j) \in Seq(Key)
  BY <1>6, Removed
<1>8. /\ RemoveAt(kids, j1) \in Seq(PageNo) /\ Len(RemoveAt(kids, j1)) = Len(kids) - 1
      /\ \A i \in 1 .. (Len(kids) - 1) : RemoveAt(kids, j1)[i] = IF i < j1 THEN kids[i] ELSE kids[i + 1]
  BY <1>6, Removed
<1>9. cut \in Node /\ cut.leaf = FALSE /\ cut.keys = RemoveAt(keys, j) /\ cut.kids = RemoveAt(kids, j1)
  BY <1>7, <1>8, NodeKinds
<1>10. joined \in Node
  BY <1>2 DEF Join
<1>11. /\ P1 \in Pages /\ P1[n] = joined /\ P1[q] = cut
       /\ \A x \in live : x # n /\ x # q => P1[x] = P[x]
  BY <1>1, <1>3, <1>4, <1>9, <1>10 DEF Pages
<1> HIDE DEF P1
<1>12. P1[q] = Internal(RemoveAt(P[q].keys, j), RemoveAt(P[q].kids, j + 1))
  BY <1>11 DEF keys, kids, j1
<1> HIDE DEF cut
<1>13. MergedTo(P, live, q, j, n, p, joined, P1)
  BY <1>1, <1>2, <1>11, <1>12 DEF MergedTo
<1> DEFINE live1 == live \ {p}
<1>14. TreeOf(P1, r, live1, lev, rows)
  BY <1>13, TreeMerge
<1> HIDE DEF live1
<1>15. j \in 1 .. Len(P1[q].kids) /\ P1[q].kids[j] = n /\ ~P1[q].leaf
  <2>1. j \in 1 .. (Len(kids) - 1) /\ j < j1
    BY <1>6 DEF j1
  <2> QED
    BY <1>6, <1>8, <1>9, <1>11, <2>1
<1>16. P2[q] = Internal(InsertAt(P1[q].keys, j, s), InsertAt(P1[q].kids, j + 1, p))
  <2>1. InsertAt(RemoveAt(keys, j), j, s) = ReplaceAt(keys, j, s)
    BY <1>1, <1>6, Reinserted
  <2>2. InsertAt(RemoveAt(kids, j1), j1, p) = kids
    <3>1. kids[j1] \in PageNo
      BY <1>6
    <3>2. InsertAt(RemoveAt(kids, j1), j1, kids[j1]) = ReplaceAt(kids, j1, kids[j1])
      BY <1>6, <3>1, Reinserted
    <3>3. ReplaceAt(kids, j1, kids[j1]) = kids
      BY <1>6, Replaced
    <3> QED
      BY <1>6, <3>2, <3>3
  <2>3. P2[q] = Internal(ReplaceAt(keys, j, s), kids)
    BY <1>2 DEF keys, kids
  <2>4. P1[q].keys = RemoveAt(keys, j) /\ P1[q].kids = RemoveAt(kids, j1)
    BY <1>9, <1>11
  <2> QED
    BY <2>1, <2>2, <2>3, <2>4 DEF j1
<1>17. SplitTo(P1, live1, q, j, n, p, m, left, right, s, P2)
  <2>0. P1[n].leaf => left.next = p /\ right.next = P1[n].next
    <3>1. joined.leaf = P[n].leaf /\ (joined.leaf => joined.next = P[p].next)
      BY <1>2 DEF Join
    <3>2. P[n].leaf => P[n].next = p
      BY <1>1, <1>2, NextIs
    <3>3. P[n].leaf => left.next = P[n].next /\ right.next = P[p].next
      BY DEF ShiftTo
    <3> QED
      BY <1>11, <3>1, <3>2, <3>3
  <2>1. n \in live1 /\ q \in live1 /\ p \in PageNo /\ p \notin live1
    BY <1>1, <1>3, <1>4 DEF live1
  <2>2. Cut(P1[n], m, left, right, s)
    BY <1>2, <1>11
  <2>3. \A x \in live1 : x # n /\ x # q => P2[x] = P1[x]
    BY <1>1, <1>11 DEF live1
  <2> QED
    BY <1>1, <1>15, <1>16, <2>0, <2>1, <2>2, <2>3 DEF SplitTo
<1>18. PICK lo1, hi1, up1 : Tree(P1, r, live1, lev, lo1, hi1, up1, rows)
  BY <1>14 DEF TreeOf
<1>19. TreeOf(P2, r, live1 \cup {p}, [lev EXCEPT ![p] = lev[n]], rows)
  BY <1>17, <1>18, TreeSplit
<1>20. live1 \cup {p} = live
  BY <1>3 DEF live1
<1>21. [lev EXCEPT ![p] = lev[n]] = lev
  <2>1. lev[n] = lev[p]
    BY <1>1, <1>2, Neighbours
  <2> QED
    BY <1>3, <1>4, <2>1 DEF Tree
<1> QED
  BY <1>19, <1>20, <1>21

(* The size of a leaf without cells.                                         *)
LEMMA EmptySize == \A next : serialized_size(Leaf(<< >>, next)) = 9
<1> DEFINE Body(f, s) == IF s = {} THEN 9 ELSE LET x == Max(s) IN f[s \ {x}] + 12 + << >>[x].len
           sum == CHOOSE f : f = [s \in SUBSET {} |-> Body(f, s)]
<1>1. FoldLeft(LAMBDA f, c : f + 12 + c.len, 9, << >>) = sum[{}]
  <2>1. DOMAIN << >> = {}
    OBVIOUS
  <2> QED
    BY <2>1 DEF FoldLeft, MapThenFoldSet
<1>2. \E f : f = [s \in SUBSET {} |-> Body(f, s)]
  <2>1. [s \in SUBSET {} |-> 9] = [s \in SUBSET {} |-> Body([x \in SUBSET {} |-> 9], s)]
    OBVIOUS
  <2> QED
    BY <2>1
<1>3. sum = [s \in SUBSET {} |-> Body(sum, s)]
  BY <1>2, Zenon
<1>4. sum[{}] = 9
  BY <1>3
<1>5. FoldLeft(LAMBDA f, c : f + 12 + c.len, 9, << >>) = 9
  BY <1>1, <1>4, Zenon
<1> QED
  BY <1>5 DEF serialized_size, Leaf
=============================================================================
