---------------------------- MODULE WalLogProofs ----------------------------
(* What the operators of WalLog return, for every log. *)
EXTENDS WalLog, FiniteSetTheorems, WellFoundedInduction, TLAPS

LEMMA SmallestInSet ==
  ASSUME NEW S \in SUBSET Nat, S # {}
  PROVE  \E m \in S : \A x \in S : m <= x
<1> DEFINE Less == OpToRel(<, Nat)
<1>1. IsWellFoundedOn(Less, Nat)
  BY NatLessThanWellFounded
<1> HIDE DEF Less
<1>2. PICK m \in S : \A x \in S : ~(<<x, m>> \in Less)
  BY <1>1, WFMin
<1>3. ASSUME NEW x \in S, x < m
      PROVE  FALSE
  <2>1. x \in Nat /\ m \in Nat
    OBVIOUS
  <2>2. <<x, m>> \in Less
    BY <1>3, <2>1 DEF OpToRel, Less
  <2> QED
    BY <1>2, <2>2
<1>4. \A x \in S : x \in Nat /\ m \in Nat
  OBVIOUS
<1> QED
  BY <1>3, <1>4

(* A nonempty set of naturals under a bound has the largest element that    *)
(* FlushInto, Replay and LatestImage choose.                                *)
LEMMA LargestInSet ==
  ASSUME NEW N \in Nat, NEW S \in SUBSET (0 .. N), S # {}
  PROVE  /\ Largest(S) \in S
         /\ \A x \in S : x <= Largest(S)
<1> DEFINE T == {N - x : x \in S}
<1>1. \A x \in S : x \in 0 .. N /\ N - x \in Nat /\ N - x \in T
  OBVIOUS
<1>2. T \in SUBSET Nat /\ T # {}
  BY <1>1
<1>3. PICK m \in T : \A y \in T : m <= y
  BY <1>2, SmallestInSet
<1>4. PICK x \in S : m = N - x
  OBVIOUS
<1>5. ASSUME NEW y \in S PROVE y <= x
  <2>1. N - x <= N - y
    BY <1>1, <1>3, <1>4
  <2>2. x \in Nat /\ y \in Nat
    OBVIOUS
  <2> QED
    BY <2>1, <2>2
<1> QED
  BY <1>5 DEF Largest

LEMMA LargestIs ==
  ASSUME NEW N \in Nat, NEW S \in SUBSET (0 .. N), NEW m \in S, \A x \in S : x <= m
  PROVE  Largest(S) = m
<1>1. Largest(S) \in S /\ \A x \in S : x <= Largest(S)
  BY LargestInSet
<1>2. Largest(S) \in 0 .. N /\ m \in 0 .. N
  BY <1>1
<1>3. m <= Largest(S) /\ Largest(S) <= m
  BY <1>1
<1> QED
  BY <1>2, <1>3

(* A group that every other holder of page n precedes has its image. *)
LEMMA LatestIsLast ==
  ASSUME NEW T, NEW w \in Seq(T), NEW K \in SUBSET DOMAIN w, NEW n \in Page,
         NEW m \in K, w[m].images[n] # Absent,
         \A k \in K : w[k].images[n] # Absent => k <= m
  PROVE  Merged(w, K)[n] = w[m].images[n]
<1> DEFINE H == {k \in K : w[k].images[n] # Absent}
<1>1. H \in SUBSET (0 .. Len(w)) /\ Len(w) \in Nat /\ m \in H /\ \A x \in H : x <= m
  OBVIOUS
<1>2. Largest(H) = m
  BY <1>1, LargestIs
<1>3. LatestImage(w, K, n) = w[Largest(H)].images[n]
  BY <1>1 DEF LatestImage
<1> QED
  BY <1>2, <1>3 DEF Merged

LEMMA NotHeldNotMerged ==
  ASSUME NEW w, NEW K, NEW n \in Page, \A k \in K : w[k].images[n] = Absent
  PROVE  Merged(w, K)[n] = Absent
BY DEF Merged, LatestImage

(* Conversely a merged image comes from the last group that holds its page. *)
LEMMA MergedFromLast ==
  ASSUME NEW T, NEW w \in Seq(T), NEW K \in SUBSET DOMAIN w, NEW n \in Page,
         Merged(w, K)[n] # Absent
  PROVE  \E m \in K : /\ w[m].images[n] # Absent /\ Merged(w, K)[n] = w[m].images[n]
                      /\ \A k \in K : w[k].images[n] # Absent => k <= m
<1> DEFINE H == {k \in K : w[k].images[n] # Absent}
<1>1. Merged(w, K)[n] = IF H = {} THEN Absent ELSE w[Largest(H)].images[n]
  BY DEF Merged, LatestImage
<1>2. H \in SUBSET (0 .. Len(w)) /\ Len(w) \in Nat /\ H # {}
  BY <1>1
<1>3. Largest(H) \in H /\ \A x \in H : x <= Largest(H)
  BY <1>2, LargestInSet
<1> QED
  BY <1>1, <1>2, <1>3

LEMMA NothingMerged ==
  ASSUME NEW T, NEW w \in Seq(T), NEW K \in SUBSET DOMAIN w, NEW n \in Page,
         Merged(w, K)[n] = Absent
  PROVE  \A k \in K : w[k].images[n] = Absent
<1> DEFINE H == {k \in K : w[k].images[n] # Absent}
<1>1. Merged(w, K)[n] = IF H = {} THEN Absent ELSE w[Largest(H)].images[n]
  BY DEF Merged, LatestImage
<1>2. H \in SUBSET (0 .. Len(w)) /\ Len(w) \in Nat
  OBVIOUS
<1>3. H # {} => Largest(H) \in H
  BY <1>2, LargestInSet
<1> QED
  BY <1>1, <1>3
=============================================================================
