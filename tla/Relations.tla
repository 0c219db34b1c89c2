----------------------------- MODULE Relations -----------------------------
(***************************************************************************)
(* What a join means: sets of combinations of rows, whatever the order and   *)
(* the algorithm that finds them.  A combination is the sequence of the row  *)
(* ids of its parts, NoRow for a part an outer join left empty.              *)
(***************************************************************************)
EXTENDS Naturals, Sequences, TLAPS

NoRow == 0

Empty(width) == [i \in 1 .. width |-> NoRow]

(* The pairs of M match: M is a subset of left \X right.                     *)
JoinOf(how, left, right, M, width) ==
  {Append(m[1], m[2]) : m \in M}
    \cup (IF how \in {"LEFT", "FULL"}
          THEN {Append(c, NoRow) : c \in left \ {m[1] : m \in M}} ELSE {})
    \cup (IF how \in {"RIGHT", "FULL"}
          THEN {Append(Empty(width), r) : r \in right \ {m[2] : m \in M}} ELSE {})

-----------------------------------------------------------------------------
(* Why terms of WHERE may be applied before a join, and below which joins.   *)

(* The planner applies a term as soon as the tables it names are joined      *)
(* (planner.py:86).  P are the left rows of which the term is true, K the    *)
(* combinations of which it is: a term that names no column of the new table *)
(* is as true of a combination as of its left part.  Below an inner or a left *)
(* join the result is then the same as after it.                             *)
THEOREM FilterBelowJoin ==
  ASSUME NEW how \in {"INNER", "LEFT"}, NEW left, NEW right, NEW width,
         NEW M, M \subseteq left \X right,
         NEW P, NEW K, \A c \in left : \A r : Append(c, r) \in K <=> c \in P
  PROVE  JoinOf(how, left \cap P, right, {m \in M : m[1] \in P}, width)
           = JoinOf(how, left, right, M, width) \cap K
<1> DEFINE Q == {m \in M : m[1] \in P}
           Pairs(N) == {Append(m[1], m[2]) : m \in N}
           Alone(rows, N) == {Append(c, NoRow) : c \in rows \ {m[1] : m \in N}}
<1>1. \A m \in M : m[1] \in left
  OBVIOUS
<1>2. Pairs(Q) = Pairs(M) \cap K
  BY <1>1
<1>3. Alone(left \cap P, Q) = Alone(left, M) \cap K
  <2>1. (left \cap P) \ {m[1] : m \in Q} = (left \ {m[1] : m \in M}) \cap P
    OBVIOUS
  <2> QED
    BY <2>1
<1>4. CASE how = "INNER"
  BY <1>2, <1>4 DEF JoinOf
<1>5. CASE how = "LEFT"
  BY <1>2, <1>3, <1>5 DEF JoinOf
<1> QED
  BY <1>4, <1>5

(* Below a RIGHT or FULL join it is not (planner.py:108): a right row that    *)
(* has a partner, but none of which the term is true, comes back alone.      *)
THEOREM FilterBelowOuterJoin ==
  ASSUME NEW how \in {"RIGHT", "FULL"}, NEW left, NEW right, NEW width,
         NEW M, M \subseteq left \X right,
         NEW P, NEW m \in M, \A n \in M : n[2] = m[2] => n[1] \notin P
  PROVE  Append(Empty(width), m[2]) \in JoinOf(how, left \cap P, right, {n \in M : n[1] \in P}, width)
<1>1. m[2] \in right \ {n[2] : n \in {k \in M : k[1] \in P}}
  OBVIOUS
<1> QED
  BY <1>1 DEF JoinOf
=============================================================================
