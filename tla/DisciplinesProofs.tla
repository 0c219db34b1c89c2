-------------------------- MODULE DisciplinesProofs --------------------------
(* Theorems about PageStore and Disciplines, for every number of sessions,  *)
(* pages, transactions and crashes and every pool capacity: first what      *)
(* holds whatever the callers do, then what recovery rebuilds and sessions  *)
(* see while all the disciplines are observed.                              *)
EXTENDS Disciplines, WalLogProofs

-----------------------------------------------------------------------------
(* Whatever the callers do                                                  *)

(* A flush yields a file, each page of it written back or left as it was.   *)
LEMMA FlushIntoFile ==
  ASSUME NEW f \in File, NEW pl \in PageMap, NEW d \in SUBSET Cached(pl)
  PROVE  /\ FlushInto(f, pl, d) \in File
         /\ \A n \in Page : FlushInto(f, pl, d).page[n] = IF n \in d THEN pl[n] ELSE f.page[n]
<1> DEFINE S == {f.len} \cup {n + 1 : n \in d}
<1>1. d \subseteq Page /\ \A n \in d : pl[n] \in Image
  BY DEF Cached, PageMap
<1>2. S \in SUBSET (0 .. MaxPages) /\ S # {}
  BY <1>1, MaxPagesAssumption DEF File, Page
<1>3. Largest(S) \in 0 .. MaxPages
  BY <1>2, LargestInSet, MaxPagesAssumption
<1>4. [n \in Page |-> IF n \in d THEN pl[n] ELSE f.page[n]] \in [Page -> Image]
  BY <1>1 DEF File
<1> QED
  BY <1>3, <1>4 DEF FlushInto, File

(* Merging groups of the log gives, page by page, nothing or an image that  *)
(* one of them holds.                                                       *)
LEMMA MergedFromLog ==
  ASSUME NEW w \in Seq(Group), NEW K \in SUBSET DOMAIN w
  PROVE  /\ Merged(w, K) \in PageMap
         /\ \A n \in Page : Merged(w, K)[n] # Absent =>
              \E i \in K : w[i].images[n] # Absent /\ Merged(w, K)[n] = w[i].images[n]
<1>1. ASSUME NEW n \in Page
      PROVE  \/ LatestImage(w, K, n) = Absent
             \/ \E i \in K : w[i].images[n] # Absent /\ LatestImage(w, K, n) = w[i].images[n]
  <2> DEFINE H == {k \in K : w[k].images[n] # Absent}
  <2>1. CASE H = {}
    BY <2>1 DEF LatestImage
  <2>2. CASE H # {}
    <3>1. Len(w) \in Nat /\ H \in SUBSET (0 .. Len(w))
      OBVIOUS
    <3>2. Largest(H) \in H
      BY <2>2, <3>1, LargestInSet
    <3>3. LatestImage(w, K, n) = w[Largest(H)].images[n]
      BY <2>2 DEF LatestImage
    <3> QED
      BY <3>2, <3>3
  <2> QED
    BY <2>1, <2>2
<1>2. \A i \in K, n \in Page : w[i].images[n] \in Image \cup {Absent}
  <2>1. \A i \in K : w[i] \in Group
    OBVIOUS
  <2> QED
    BY <2>1 DEF Group, PageMap
<1> QED
  BY <1>1, <1>2 DEF Merged, PageMap

(* Recovery yields a file: each page is what the file had or an image that  *)
(* the log holds.                                                           *)
LEMMA ReplayFile ==
  ASSUME NEW w \in Seq(Group), NEW f \in File
  PROVE  /\ Replay(w, f) \in File
         /\ \A n \in Page :
              \/ Replay(w, f).page[n] = f.page[n]
              \/ \E i \in DOMAIN w : /\ w[i].images[n] # Absent
                                     /\ Replay(w, f).page[n] = w[i].images[n]
<1> DEFINE M == Merged(w, Applied(w))
           S == {f.len} \cup {w[j].num : j \in CommitsFrom(w, 1)} \cup {n + 1 : n \in Held(M)}
<1>1. Applied(w) \in SUBSET DOMAIN w
  BY DEF Applied
<1>2. /\ M \in PageMap
      /\ \A n \in Page : M[n] # Absent =>
           \E i \in Applied(w) : w[i].images[n] # Absent /\ M[n] = w[i].images[n]
  BY <1>1, MergedFromLog
<1>3. \A j \in CommitsFrom(w, 1) : w[j].num \in 0 .. MaxPages
  <2>1. \A j \in CommitsFrom(w, 1) : w[j] \in Group
    BY DEF CommitsFrom
  <2> QED
    BY <2>1 DEF Group
<1>4. \A n \in Held(M) : n + 1 \in 0 .. MaxPages
  BY MaxPagesAssumption DEF Held, Page
<1>5. S \in SUBSET (0 .. MaxPages) /\ S # {}
  BY <1>3, <1>4 DEF File
<1>6. Largest(S) \in 0 .. MaxPages
  BY <1>5, LargestInSet, MaxPagesAssumption
<1>7. Replay(w, f) = [len |-> Largest(S), page |-> Overlay(f.page, M)]
  BY DEF Replay
<1>8. Overlay(f.page, M) \in [Page -> Image]
  BY <1>2 DEF Overlay, File, PageMap
<1>9. \A n \in Page : Overlay(f.page, M)[n] = IF M[n] # Absent THEN M[n] ELSE f.page[n]
  BY DEF Overlay
<1> QED
  BY <1>1, <1>2, <1>6, <1>7, <1>8, <1>9 DEF File

(* The log v is the log w and one group behind it, of the given images.      *)
Longer(v, w, images) ==
  /\ v \in Seq(Group) /\ v # << >>
  /\ Len(v) = Len(w) + 1
  /\ \A i \in DOMAIN w : v[i] = w[i]
  /\ v[Len(v)].images = images

(* An append leaves the log as it was and adds one group.                   *)
LEMMA AppendedGroup ==
  ASSUME NEW w \in Seq(Group), NEW images \in PageMap, NEW num \in 0 .. MaxPages,
         NEW how \in {"commit", "none", "torn"}
  PROVE  Longer(AppendGroup(w, images, num, how), w, images)
<1> DEFINE g == [images |-> images, num |-> num, end |-> how,
                 upto |-> LogSize(w) + PageFrameBytes * Cardinality(Held(images))
                            + EndBytes(how)]
<1>1. LogSize(w) \in Nat
  <2>1. w # << >> => w[Len(w)] \in Group
    OBVIOUS
  <2> QED
    BY <2>1 DEF LogSize, HeaderBytes, Group
<1>2. Cardinality(Held(images)) \in Nat
  <2>1. IsFiniteSet(Page)
    BY FS_Interval, MaxPagesAssumption DEF Page
  <2>2. Held(images) \subseteq Page
    BY DEF Held
  <2> QED
    BY <2>1, <2>2, FS_Subset, FS_CardinalityType
<1>3. EndBytes(how) \in Nat
  BY DEF EndBytes, CommitFrameBytes, TornBytes
<1>4. g \in Group
  BY <1>1, <1>2, <1>3 DEF Group, PageFrameBytes
<1>5. AppendGroup(w, images, num, how) = Append(w, g)
  BY DEF AppendGroup
<1> HIDE DEF g
<1>6. Append(w, g) \in Seq(Group) /\ Len(Append(w, g)) = Len(w) + 1
  BY <1>4
<1>7. \A i \in DOMAIN w : Append(w, g)[i] = w[i]
  BY <1>4
<1>8. Append(w, g)[Len(w) + 1] = g
  BY <1>4
<1>9. g.images = images
  BY DEF g
<1>10. Append(w, g) # << >>
  <2>1. Len(Append(w, g)) # 0
    BY <1>6
  <2> QED
    BY <2>1
<1>11. Longer(Append(w, g), w, images)
  BY <1>6, <1>7, <1>8, <1>9, <1>10 DEF Longer
<1> QED
  BY <1>5, <1>11

-----------------------------------------------------------------------------
(* The inductive invariant *)

(* Marked pages are cached, only a transaction marks pages touched, and the *)
(* transactions that run are distinct and still undecided.                  *)
Marks ==
  \A s \in Session :
    /\ touched[s] \cup dirty[s] \subseteq Cached(pool[s])
    /\ ~InTxn(s) => touched[s] = {}
    /\ InTxn(s) => tx[s] \in Txn /\ fate[tx[s]] = "active"
    /\ ~InTxn(s) => tx[s] = NoTxn
    /\ \A o \in Session : InTxn(s) /\ InTxn(o) /\ tx[s] = tx[o] => s = o

(* Every image anywhere is made of logged transactions, save what a running *)
(* transaction wrote into its own pool.                                     *)
Provenance ==
  /\ NoUncommittedBytes
  /\ \A i \in DOMAIN log : \A n \in Page :
       log[i].images[n] # Absent => log[i].images[n] \subseteq LoggedTxns
  /\ \A s \in Session : \A n \in Page :
       /\ pool[s][n] # Absent /\ n \notin touched[s] => pool[s][n] \subseteq LoggedTxns
       /\ n \in touched[s] => pool[s][n] \subseteq LoggedTxns \cup {tx[s]}
       /\ n \in touched[s] /\ shadow[s][n] # Absent => shadow[s][n] \subseteq LoggedTxns

(* What was cached at the beginning is still there, in the pool or shadow.  *)
Snapshots ==
  \A s \in Session : InTxn(s) => \A n \in Page : atBegin[s][n] # Absent =>
    atBegin[s][n] = IF n \in touched[s] THEN shadow[s][n] ELSE pool[s][n]

Inv == TypeOK /\ Marks /\ Provenance /\ Snapshots
LEMMA LogSizeNat ==
  ASSUME NEW w \in Seq(Group)
  PROVE  LogSize(w) \in Nat
<1>1. w # << >> => w[Len(w)] \in Group
  OBVIOUS
<1> QED
  BY <1>1 DEF LogSize, HeaderBytes, Group

LEMMA PageBounds == 0 \in Page /\ MaxPages \in Nat /\ 1 \in 1 .. MaxPages
BY MaxPagesAssumption DEF Page

-----------------------------------------------------------------------------
(* Every step preserves the invariant *)

LEMMA InitInv == Init => Inv
<1> SUFFICES ASSUME Init PROVE Inv
  OBVIOUS
<1> USE DEF Init
<1>1. TypeOK
  BY PageBounds, MaxPagesAssumption, StoreAssumption
  DEF TypeOK, EmptyFile, File, Blank, Image, NoImages, PageMap, Modes, Fates, HeaderBytes
<1>2. Marks
  BY DEF Marks, InTxn
<1>3. Provenance
  <2>1. NoUncommittedBytes
    BY DEF NoUncommittedBytes, EmptyFile, Blank
  <2> QED
    BY <2>1 DEF Provenance, NoImages
<1>4. Snapshots
  BY DEF Snapshots, InTxn
<1> QED
  BY <1>1, <1>2, <1>3, <1>4 DEF Inv

LEMMA OpenReplayStep ==
  ASSUME Inv, NEW s \in Session, OpenReplay(s)
  PROVE  Inv'
<1> USE DEF Inv, OpenReplay, storage, caches, txnState, history
<1>1. /\ file' \in File
      /\ \A n \in Page : \/ file'.page[n] = file.page[n]
                         \/ \E i \in DOMAIN log : /\ log[i].images[n] # Absent
                                                  /\ file'.page[n] = log[i].images[n]
  BY ReplayFile DEF TypeOK
<1>2. TypeOK'
  BY <1>1 DEF TypeOK, Modes
<1>3. \A o \in Session : InTxn(o)' <=> InTxn(o)
  BY DEF TypeOK, InTxn
<1>4. Marks'
  BY <1>3 DEF Marks, Cached
<1>5. LoggedTxns' = LoggedTxns
  BY DEF LoggedTxns
<1>6. Provenance'
  BY <1>1, <1>5 DEF Provenance, NoUncommittedBytes
<1>7. Snapshots'
  BY <1>3 DEF Snapshots
<1> QED
  BY <1>2, <1>4, <1>6, <1>7

LEMMA OpenResetStep ==
  ASSUME Inv, NEW s \in Session, OpenReset(s)
  PROVE  Inv'
<1> USE DEF Inv, OpenReset, storage, caches, txnState, history
<1>1. file.page[0] \in Image /\ PagesIn(file) \in 1 .. MaxPages
  BY PageBounds DEF TypeOK, File, PagesIn, Larger
<1>2. TypeOK'
  <2>1. pool' \in [Session -> PageMap]
    BY <1>1, PageBounds DEF TypeOK, PageMap
  <2>2. disk' \in File /\ log' \in Seq(Group)
    <3>1. << >> \in Seq(Group)
      OBVIOUS
    <3>2. disk' \in {disk, file} /\ log' \in {log, << >>}
      BY DEF Synced
    <3> QED
      BY <3>1, <3>2 DEF TypeOK
  <2>3. mode' \in [Session -> Modes] /\ numPages' \in [Session -> 1 .. MaxPages]
    BY <1>1 DEF TypeOK, Modes
  <2> QED
    BY <2>1, <2>2, <2>3 DEF TypeOK
<1>3. \A o \in Session : InTxn(o)' <=> InTxn(o)
  BY DEF TypeOK, InTxn
<1>4. \A o \in Session : Cached(pool[o]) \subseteq Cached(pool'[o])
  BY <1>1, AbsentAssumption DEF TypeOK, Cached, PageMap
<1>5. Marks'
  BY <1>3, <1>4 DEF Marks
<1>6. LoggedTxns' = LoggedTxns
  BY DEF LoggedTxns
<1>7. 0 \notin touched[s]
  BY DEF Marks, InTxn, TypeOK
<1>8. NoUncommittedBytes'
  BY <1>6 DEF Provenance, NoUncommittedBytes, Synced
<1>9. Provenance'
  <2>1. \A o \in Session, n \in Page :
          pool'[o][n] = IF o = s /\ n = 0 THEN file.page[0] ELSE pool[o][n]
    BY PageBounds DEF TypeOK, PageMap
  <2>2. file.page[0] \subseteq LoggedTxns
    BY PageBounds DEF Provenance, NoUncommittedBytes
  <2> QED
    BY <1>6, <1>7, <1>8, <2>1, <2>2 DEF Provenance
<1>10. Snapshots'
  <2>1. ~InTxn(s)
    BY DEF InTxn
  <2> QED
    BY <1>3, <2>1 DEF Snapshots, TypeOK
<1> QED
  BY <1>2, <1>5, <1>9, <1>10
LEMMA OpenRegisterStep ==
  ASSUME Inv, NEW s \in Session, OpenRegister(s)
  PROVE  Inv'
<1> USE DEF Inv, OpenRegister, storage, caches, txnState, history
<1>1. TypeOK'
  <2>1. LogSize(log) \in Nat
    BY LogSizeNat DEF TypeOK
  <2> QED
    BY <2>1 DEF TypeOK, Modes
<1>2. \A o \in Session : InTxn(o)' <=> InTxn(o)
  BY DEF TypeOK, InTxn
<1>3. Marks'
  BY <1>2 DEF Marks, Cached
<1>4. Provenance'
  BY DEF Provenance, NoUncommittedBytes, LoggedTxns
<1>5. Snapshots'
  BY <1>2 DEF Snapshots
<1> QED
  BY <1>1, <1>3, <1>4, <1>5

(* Outside a transaction nothing is touched, so evicting takes no mark off  *)
(* a page the transaction needs; inside one nothing is evicted.             *)
LEMMA ReadStep ==
  ASSUME Inv, NEW s \in Session, NEW n \in Page, Read(s, n)
  PROVE  Inv'
<1> USE DEF Inv, caches, txnState, history
<1>1. PICK V \in Victims(s) :
        /\ pool' = [pool EXCEPT ![s] = [m \in Page |-> IF m = n THEN file.page[n]
                                                       ELSE IF m \in V THEN Absent
                                                       ELSE pool[s][m]]]
        /\ file' = WrittenBack(s, V)
        /\ dirty' = [dirty EXCEPT ![s] = @ \ V]
  BY DEF Read
<1>2. /\ UNCHANGED <<disk, log, sharedEnd, writer, mode, touched, shadow, tx, atBegin,
                     numPages, walPos, fate, wrote, crashes>>
      /\ pool[s][n] = Absent
  BY DEF Read
<1>3. V \in SUBSET Cached(pool[s]) /\ (InTxn(s) => V = {})
  BY <1>1 DEF Victims
<1>4. V \cap dirty[s] \in SUBSET Cached(pool[s]) /\ V \cap touched[s] = {}
  BY <1>3 DEF Marks
<1>5. /\ file' \in File
      /\ \A m \in Page : file'.page[m] = IF m \in V \cap dirty[s] THEN pool[s][m]
                                                                  ELSE file.page[m]
  <2>1. file \in File /\ pool[s] \in PageMap
    BY DEF TypeOK
  <2> QED
    BY <1>1, <1>4, <2>1, FlushIntoFile DEF WrittenBack
<1>6. /\ file.page[n] \in Image
      /\ \A o \in Session, m \in Page :
           pool'[o][m] = IF o = s THEN IF m = n THEN file.page[n]
                                       ELSE IF m \in V THEN Absent ELSE pool[s][m]
                         ELSE pool[o][m]
  BY <1>1 DEF TypeOK, File, PageMap
<1>7. TypeOK'
  <2>1. pool' \in [Session -> PageMap]
    BY <1>1, <1>6 DEF TypeOK, PageMap
  <2>2. dirty' \in [Session -> SUBSET Page]
    BY <1>1 DEF TypeOK
  <2> QED
    BY <1>2, <1>5, <2>1, <2>2 DEF TypeOK
<1>8. \A o \in Session : InTxn(o)' <=> InTxn(o)
  BY <1>2 DEF InTxn
<1>9. Marks'
  <2>1. \A o \in Session : touched'[o] \cup dirty'[o] \subseteq Cached(pool'[o])
    <3>1. touched[s] \cup (dirty[s] \ V) \subseteq Cached(pool'[s])
      <4>1. \A m \in touched[s] \cup (dirty[s] \ V) : m \in Page /\ pool[s][m] # Absent
        BY DEF Marks, Cached
      <4>2. \A m \in touched[s] \cup (dirty[s] \ V) : m \notin V
        BY <1>4
      <4> QED
        BY <1>6, <4>1, <4>2, AbsentAssumption DEF Cached
    <3>2. \A o \in Session \ {s} : Cached(pool'[o]) = Cached(pool[o])
      BY <1>6 DEF Cached
    <3>3. dirty'[s] = dirty[s] \ V /\ \A o \in Session \ {s} : dirty'[o] = dirty[o]
      BY <1>1 DEF TypeOK
    <3> QED
      BY <1>2, <3>1, <3>2, <3>3 DEF Marks
  <2> QED
    BY <1>2, <1>8, <2>1 DEF Marks
<1>10. LoggedTxns' = LoggedTxns
  BY <1>2 DEF LoggedTxns
<1>11. n \notin touched[s]
  BY <1>2 DEF Marks, Cached
<1>12. \A m \in Page : m \in V => pool[s][m] \subseteq LoggedTxns
  BY <1>3, <1>4 DEF Provenance, Cached
<1>13. Provenance'
  <2>1. NoUncommittedBytes'
    BY <1>2, <1>5, <1>10, <1>12 DEF Provenance, NoUncommittedBytes
  <2>2. file.page[n] \subseteq LoggedTxns
    BY DEF Provenance, NoUncommittedBytes
  <2>3. \A o \in Session, m \in Page :
          /\ m \notin touched[o] /\ pool'[o][m] # Absent => pool'[o][m] \subseteq LoggedTxns
          /\ m \in touched[o] => pool'[o][m] = pool[o][m]
    BY <1>4, <1>6, <1>11, <2>2 DEF Provenance
  <2> QED
    BY <1>2, <1>10, <2>1, <2>3 DEF Provenance
<1>14. Snapshots'
  <2>1. \A o \in Session, m \in Page :
          InTxn(o) /\ pool[o][m] # Absent => pool'[o][m] = pool[o][m]
    BY <1>2, <1>3, <1>6
  <2> QED
    BY <1>2, <1>8, <2>1 DEF Snapshots
<1> QED
  BY <1>7, <1>9, <1>13, <1>14

LEMMA RefreshFirstStep ==
  ASSUME Inv, NEW s \in Session, RefreshFirst(s)
  PROVE  Inv'
<1> USE DEF Inv, RefreshFirst, storage, caches, txnState, history
<1>1. TypeOK'
  BY DEF TypeOK
<1>2. Marks'
  BY DEF Marks, Cached, InTxn
<1>3. Provenance'
  BY DEF Provenance, NoUncommittedBytes, LoggedTxns
<1>4. Snapshots'
  BY DEF Snapshots, InTxn
<1> QED
  BY <1>1, <1>2, <1>3, <1>4

(* A session that adopts a batch runs no transaction, and a batch in the    *)
(* log is made of logged transactions.                                      *)
(* Entering a group behind some of its frames only hides images.            *)
LEMMA EnteredLog ==
  ASSUME NEW w \in Seq(Group), NEW i \in DOMAIN w, NEW c \in Nat
  PROVE  /\ EnteredAt(w, i, c) \in Seq(Group)
         /\ DOMAIN EnteredAt(w, i, c) = DOMAIN w
         /\ \A k \in DOMAIN w, n \in Page :
              EnteredAt(w, i, c)[k].images[n] \in {Absent, w[k].images[n]}
<1> DEFINE g == [w[i] EXCEPT !.images = Rest(@, c)]
<1>1. w[i] \in Group
  OBVIOUS
<1>2. Rest(w[i].images, c) \in PageMap
      /\ \A n \in Page : Rest(w[i].images, c)[n] \in {Absent, w[i].images[n]}
  BY <1>1 DEF Rest, Group, PageMap
<1>3. g \in Group /\ g.images = Rest(w[i].images, c)
  BY <1>1, <1>2 DEF Group
<1>4. EnteredAt(w, i, c) = [w EXCEPT ![i] = g]
  BY DEF EnteredAt
<1> HIDE DEF g
<1>5. [w EXCEPT ![i] = g] \in Seq(Group) /\ DOMAIN [w EXCEPT ![i] = g] = DOMAIN w
  BY <1>3
<1>6. \A k \in DOMAIN w : [w EXCEPT ![i] = g][k] = IF k = i THEN g ELSE w[k]
  OBVIOUS
<1> QED
  BY <1>2, <1>3, <1>4, <1>5, <1>6

LEMMA RefreshStep ==
  ASSUME Inv, NEW s \in Session, Refresh(s)
  PROVE  Inv'
<1> USE DEF Inv, storage, txnState, history
<1>1. PICK i, j \in DOMAIN log, c \in 0 .. MaxPages :
        LET images == Merged(EnteredAt(log, i, c), i .. j) IN
        /\ pool' = [pool EXCEPT ![s] = Adopted(@, images)]
        /\ dirty' = [dirty EXCEPT ![s] = @ \ Held(images)]
        /\ numPages' = [numPages EXCEPT ![s] = Larger(@, log[j].num)]
        /\ walPos' = [walPos EXCEPT ![s] = log[j].upto]
  BY DEF Refresh
<1>2. /\ UNCHANGED <<file, disk, log, sharedEnd, writer, mode, touched, shadow, tx, atBegin,
                     fate, wrote, crashes>>
      /\ ~InTxn(s)
  BY DEF Refresh, MayRefresh, InTxn
<1> DEFINE w == EnteredAt(log, i, c)
           M == Merged(w, i .. j)
<1>3. log \in Seq(Group) /\ i .. j \in SUBSET DOMAIN log
  BY <1>1 DEF TypeOK
<1>4. /\ M \in PageMap
      /\ \A m \in Page : M[m] # Absent =>
           \E k \in i .. j : log[k].images[m] # Absent /\ M[m] = log[k].images[m]
  <2>1. /\ w \in Seq(Group) /\ DOMAIN w = DOMAIN log
        /\ \A k \in DOMAIN log, n \in Page : w[k].images[n] \in {Absent, log[k].images[n]}
    BY <1>1, <1>3, EnteredLog
  <2> HIDE DEF w
  <2>2. /\ M \in PageMap
        /\ \A m \in Page : M[m] # Absent =>
             \E k \in i .. j : w[k].images[m] # Absent /\ M[m] = w[k].images[m]
    BY <1>3, <2>1, MergedFromLog
  <2>3. \A m \in Page, k \in i .. j : w[k].images[m] # Absent => w[k].images[m] = log[k].images[m]
    BY <1>3, <2>1
  <2> QED
    BY <2>2, <2>3
<1>5. log[j].num \in 0 .. MaxPages /\ log[j].upto \in Nat
  <2>1. log[j] \in Group
    BY <1>1, <1>3
  <2> QED
    BY <2>1 DEF Group
<1> HIDE DEF M
<1>6. \A o \in Session, m \in Page :
        pool'[o][m] = IF o = s /\ M[m] # Absent THEN M[m] ELSE pool[o][m]
  BY <1>1 DEF Adopted, Overlay, TypeOK, PageMap, M
<1>7. TypeOK'
  <2>1. pool' \in [Session -> PageMap]
    BY <1>1, <1>4 DEF Adopted, Overlay, TypeOK, PageMap, M
  <2>2. numPages' \in [Session -> 1 .. MaxPages]
    BY <1>1, <1>5 DEF TypeOK, Larger
  <2> QED
    BY <1>1, <1>2, <1>5, <2>1, <2>2 DEF TypeOK
<1>8. \A o \in Session : InTxn(o)' <=> InTxn(o)
  BY <1>2 DEF InTxn
<1>9. Marks'
  <2>1. \A o \in Session : Cached(pool[o]) \subseteq Cached(pool'[o])
    BY <1>6 DEF Cached
  <2>2. \A o \in Session : dirty'[o] \subseteq dirty[o]
    BY <1>1 DEF TypeOK
  <2> QED
    BY <1>2, <1>8, <2>1, <2>2 DEF Marks
<1>10. LoggedTxns' = LoggedTxns
  BY <1>2 DEF LoggedTxns
<1>11. \A m \in Page : M[m] # Absent => M[m] \subseteq LoggedTxns
  BY <1>3, <1>4 DEF Provenance
<1>12. touched[s] = {}
  BY <1>2 DEF Marks
<1>13. Provenance'
  <2>1. NoUncommittedBytes'
    BY <1>2, <1>10 DEF Provenance, NoUncommittedBytes
  <2> QED
    BY <1>2, <1>6, <1>10, <1>11, <1>12, <2>1 DEF Provenance
<1>14. Snapshots'
  BY <1>2, <1>6, <1>8 DEF Snapshots
<1> QED
  BY <1>7, <1>9, <1>13, <1>14

LEMMA BeginStep ==
  ASSUME Inv, NEW s \in Session, NEW how \in {"auto", "txn"}, Begin(s, how)
  PROVE  Inv'
<1> USE DEF Inv, storage, caches
<1>1. PICK t \in Txn : /\ fate[t] = "unused"
                       /\ tx' = [tx EXCEPT ![s] = t]
                       /\ fate' = [fate EXCEPT ![t] = "active"]
  BY DEF Begin, IsNextTxn
<1>2. /\ UNCHANGED <<file, disk, log, sharedEnd, pool, dirty, touched, shadow, numPages,
                     walPos, wrote, crashes>>
      /\ ~InTxn(s)
      /\ writer' \in {writer, s}
      /\ mode' = [mode EXCEPT ![s] = how]
      /\ atBegin' = [atBegin EXCEPT ![s] = pool[s]]
  BY DEF Begin, InTxn
<1>3. TypeOK'
  BY <1>1, <1>2 DEF TypeOK, Modes, Fates
<1>4. \A o \in Session : InTxn(o)' <=> (InTxn(o) \/ o = s)
  BY <1>2 DEF InTxn, TypeOK
<1>5. touched[s] = {}
  BY <1>2 DEF Marks
<1>6. \A o \in Session \ {s} : tx'[o] = tx[o] /\ (InTxn(o) => tx[o] # t)
  BY <1>1 DEF Marks, TypeOK
<1>7. Marks'
  <2>1. tx'[s] = t /\ fate'[t] = "active"
    BY <1>1 DEF TypeOK
  <2>2. \A o \in Session \ {s} : InTxn(o) => tx[o] \in Txn /\ fate'[tx[o]] = "active"
    BY <1>1, <1>6 DEF Marks, TypeOK
  <2>3. \A o, p \in Session : InTxn(o)' /\ InTxn(p)' /\ tx'[o] = tx'[p] => o = p
    BY <1>4, <1>6, <2>1 DEF Marks
  <2> QED
    BY <1>2, <1>4, <1>5, <1>6, <2>1, <2>2, <2>3 DEF Marks
<1>8. LoggedTxns' = LoggedTxns
  BY <1>1 DEF LoggedTxns, TypeOK
<1>9. Provenance'
  <2>1. NoUncommittedBytes'
    BY <1>2, <1>8 DEF Provenance, NoUncommittedBytes
  <2> QED
    BY <1>2, <1>5, <1>6, <1>8, <2>1 DEF Provenance
<1>10. Snapshots'
  BY <1>2, <1>4, <1>5 DEF Snapshots, TypeOK
<1> QED
  BY <1>3, <1>7, <1>9, <1>10
(* Pager.write inside a transaction: the first touch of a page keeps as its *)
(* pre-image what the pool holds, which is what was cached at the beginning.*)
LEMMA PutStep ==
  ASSUME Inv, NEW s \in Session, NEW n \in Page, NEW img \in Image,
         InTxn(s), Put(s, n, img), img \subseteq LoggedTxns \cup {tx[s]},
         numPages' \in [Session -> 1 .. MaxPages],
         UNCHANGED <<file, disk, log, sharedEnd, writer, mode, tx, atBegin, walPos, fate,
                     wrote, crashes>>
  PROVE  Inv'
<1> USE DEF Inv
<1>1. ShadowImage(s, n) \in Image \cup {Absent}
  BY DEF ShadowImage, TypeOK, PageMap, File
<1>2. /\ shadow' \in [Session -> PageMap] /\ pool' \in [Session -> PageMap]
      /\ \A o \in Session, m \in Page :
           /\ shadow'[o][m] = IF o = s /\ m = n THEN ShadowImage(s, n) ELSE shadow[o][m]
           /\ pool'[o][m] = IF o = s /\ m = n THEN img ELSE pool[o][m]
  <2>1. shadow \in [Session -> PageMap] /\ pool \in [Session -> PageMap]
    BY DEF TypeOK
  <2> QED
    BY <1>1, <2>1 DEF Put, PageMap
<1>3. /\ \A o \in Session : touched'[o] = IF o = s THEN touched[s] \cup {n} ELSE touched[o]
      /\ \A o \in Session : dirty'[o] = IF o = s THEN dirty[s] \cup {n} ELSE dirty[o]
      /\ touched' \in [Session -> SUBSET Page] /\ dirty' \in [Session -> SUBSET Page]
  BY DEF Put, TypeOK
<1>4. TypeOK'
  BY <1>2, <1>3 DEF TypeOK
<1>5. \A o \in Session : InTxn(o)' <=> InTxn(o)
  BY DEF InTxn
<1>6. Marks'
  <2>1. \A o \in Session : Cached(pool[o]) \subseteq Cached(pool'[o])
    BY <1>2, AbsentAssumption DEF Cached
  <2>2. n \in Cached(pool'[s])
    BY <1>2, AbsentAssumption DEF Cached
  <2> QED
    BY <1>3, <1>5, <2>1, <2>2 DEF Marks
<1>7. LoggedTxns' = LoggedTxns
  BY DEF LoggedTxns
<1>8. Provenance'
  <2>1. NoUncommittedBytes'
    BY <1>7 DEF Provenance, NoUncommittedBytes
  <2>2. ShadowImage(s, n) # Absent => ShadowImage(s, n) \subseteq LoggedTxns
    BY DEF ShadowImage, Provenance, NoUncommittedBytes
  <2> QED
    BY <1>2, <1>3, <1>7, <2>1, <2>2 DEF Provenance
<1>9. Snapshots'
  <2>1. n \notin touched[s] /\ pool[s][n] # Absent => ShadowImage(s, n) = pool[s][n]
    BY DEF ShadowImage
  <2>2. n \in touched[s] => ShadowImage(s, n) = shadow[s][n]
    BY DEF ShadowImage
  <2> QED
    BY <1>2, <1>3, <1>5, <2>1, <2>2 DEF Snapshots
<1> QED
  BY <1>4, <1>6, <1>8, <1>9

LEMMA WriteStep ==
  ASSUME Inv, NEW s \in Session, NEW n \in Page, Write(s, n)
  PROVE  Inv'
<1> DEFINE img == View(s, n) \cup {tx[s]}
<1>1. tx[s] \in Txn
  BY DEF Write, Inv, Marks
<1>2. View(s, n) \in Image
  BY DEF View, Inv, TypeOK, PageMap, File
<1>3. img \in Image
  BY <1>1, <1>2 DEF Image
<1>4. img \subseteq LoggedTxns \cup {tx[s]}
  BY DEF View, Inv, Provenance, NoUncommittedBytes
<1> HIDE DEF img
<1>5. /\ InTxn(s) /\ Put(s, n, img)
      /\ UNCHANGED <<file, disk, log, sharedEnd, writer, mode, tx, atBegin, walPos, fate,
                     wrote, crashes>>
      /\ numPages' = numPages
  BY DEF Write, img, storage, history
<1>6. numPages' \in [Session -> 1 .. MaxPages]
  BY <1>5 DEF Inv, TypeOK
<1> QED
  BY <1>3, <1>4, <1>5, <1>6, PutStep

LEMMA AllocateStep ==
  ASSUME Inv, NEW s \in Session, Allocate(s)
  PROVE  Inv'
<1> DEFINE n == numPages[s]
           img == {tx[s]}
<1>1. tx[s] \in Txn
  BY DEF Allocate, Inv, Marks
<1>2. img \in Image /\ img \subseteq LoggedTxns \cup {tx[s]}
  BY <1>1 DEF Image
<1>3. n \in Page /\ n + 1 \in 1 .. MaxPages
  BY MaxPagesAssumption DEF Allocate, Inv, TypeOK, Page
<1>4. numPages' \in [Session -> 1 .. MaxPages]
  BY <1>3 DEF Allocate, Inv, TypeOK
<1> HIDE DEF n, img
<1>5. /\ InTxn(s) /\ Put(s, n, img)
      /\ UNCHANGED <<file, disk, log, sharedEnd, writer, mode, tx, atBegin, walPos, fate,
                     wrote, crashes>>
  BY DEF Allocate, n, img, storage, history
<1> QED
  BY <1>2, <1>3, <1>4, <1>5, PutStep

-----------------------------------------------------------------------------

(* The end of a transaction: the running transactions are those that ran,   *)
(* less this one, and only its fate is decided.                             *)
LEMMA EndedTxn ==
  ASSUME Inv, NEW s \in Session, InTxn(s), NEW outcome \in {"committed", "aborted"},
         NEW next \in {"idle", "closing", "leaving"}, EndTxn(s, outcome, next)
  PROVE  /\ mode' \in [Session -> Modes] /\ writer' \in Session \cup {NoOne}
         /\ touched' \in [Session -> SUBSET Page] /\ shadow' \in [Session -> PageMap]
         /\ tx' \in [Session -> Txn \cup {NoTxn}] /\ fate' \in [Txn -> Fates]
         /\ atBegin' \in [Session -> PageMap]
         /\ \A o \in Session : InTxn(o)' <=> (InTxn(o) /\ o # s)
         /\ touched'[s] = {} /\ tx'[s] = NoTxn
         /\ \A o \in Session \ {s} : /\ touched'[o] = touched[o] /\ shadow'[o] = shadow[o]
                                     /\ tx'[o] = tx[o] /\ atBegin'[o] = atBegin[o]
         /\ \A o \in Session \ {s} : InTxn(o) => fate'[tx[o]] = "active"
         /\ LoggedTxns' = IF outcome = "committed" THEN LoggedTxns \cup {tx[s]} ELSE LoggedTxns
<1> USE DEF Inv
<1>1. NoImages \in PageMap
  BY DEF NoImages, PageMap
<1>2. tx[s] \in Txn /\ fate[tx[s]] = "active"
  BY DEF Marks
<1>3. /\ mode' \in [Session -> Modes] /\ writer' \in Session \cup {NoOne}
      /\ touched' \in [Session -> SUBSET Page] /\ shadow' \in [Session -> PageMap]
      /\ tx' \in [Session -> Txn \cup {NoTxn}] /\ fate' \in [Txn -> Fates]
      /\ atBegin' \in [Session -> PageMap]
  BY <1>1 DEF EndTxn, TypeOK, Modes, Fates
<1>4. \A o \in Session : InTxn(o)' <=> (InTxn(o) /\ o # s)
  BY DEF EndTxn, TypeOK, InTxn
<1>5. /\ touched'[s] = {} /\ tx'[s] = NoTxn
      /\ \A o \in Session \ {s} : /\ touched'[o] = touched[o] /\ shadow'[o] = shadow[o]
                                  /\ tx'[o] = tx[o] /\ atBegin'[o] = atBegin[o]
  BY DEF EndTxn, TypeOK
<1>6. \A t \in Txn : fate'[t] = IF t = tx[s] THEN outcome ELSE fate[t]
  BY DEF EndTxn, TypeOK
<1>7. \A o \in Session \ {s} : InTxn(o) => fate'[tx[o]] = "active"
  BY <1>6 DEF Marks
<1>8. LoggedTxns' = IF outcome = "committed" THEN LoggedTxns \cup {tx[s]} ELSE LoggedTxns
  <2>1. CASE outcome = "committed"
    BY <1>2, <1>6, <2>1 DEF LoggedTxns
  <2>2. CASE outcome = "aborted"
    BY <1>2, <1>6, <2>2 DEF LoggedTxns
  <2> QED
    BY <2>1, <2>2
<1> QED
  BY <1>3, <1>4, <1>5, <1>7, <1>8

LEMMA BatchOfPool ==
  ASSUME Inv, NEW s \in Session
  PROVE  /\ Batch(s) \in PageMap
         /\ \A n \in Page : Batch(s)[n] # Absent => Batch(s)[n] \subseteq LoggedTxns \cup {tx[s]}
<1>1. Batch(s) \in PageMap
  BY DEF Inv, TypeOK, Batch, PageMap
<1>2. \A n \in Page : Batch(s)[n] # Absent => n \in touched[s] /\ Batch(s)[n] = pool[s][n]
  BY DEF Batch
<1> QED
  BY <1>1, <1>2 DEF Inv, Provenance

(* Committing logs what the pool holds of the touched pages, and with it    *)
(* the transaction: its pages may then be evicted like any others.          *)
LEMMA CommitStep ==
  ASSUME Inv, NEW s \in Session, Commit(s)
  PROVE  Inv'
<1> USE DEF Inv, caches
<1>1. InTxn(s) /\ EndTxn(s, "committed", "idle") /\ UNCHANGED <<file, disk, pool, dirty, numPages, crashes>>
  BY DEF Commit
<1>2. /\ mode' \in [Session -> Modes] /\ writer' \in Session \cup {NoOne}
      /\ touched' \in [Session -> SUBSET Page] /\ shadow' \in [Session -> PageMap]
      /\ tx' \in [Session -> Txn \cup {NoTxn}] /\ fate' \in [Txn -> Fates]
      /\ atBegin' \in [Session -> PageMap]
      /\ \A o \in Session : InTxn(o)' <=> (InTxn(o) /\ o # s)
      /\ touched'[s] = {} /\ tx'[s] = NoTxn
      /\ \A o \in Session \ {s} : /\ touched'[o] = touched[o] /\ shadow'[o] = shadow[o]
                                  /\ tx'[o] = tx[o] /\ atBegin'[o] = atBegin[o]
      /\ \A o \in Session \ {s} : InTxn(o) => fate'[tx[o]] = "active"
      /\ LoggedTxns' = LoggedTxns \cup {tx[s]}
  BY <1>1, EndedTxn
<1>3. tx[s] \in Txn
  BY <1>1 DEF Marks
<1>4. /\ log' \in Seq(Group) /\ sharedEnd' \in Nat /\ walPos' \in [Session -> Nat]
      /\ wrote' \in [Txn -> SUBSET Page]
      /\ \A i \in DOMAIN log', n \in Page : log'[i].images[n] # Absent =>
           \/ i \in DOMAIN log /\ log'[i] = log[i]
           \/ log'[i].images = Batch(s)
  <2>1. CASE touched[s] = {} /\ UNCHANGED <<log, walPos, sharedEnd, wrote>>
    BY <2>1 DEF TypeOK
  <2>2. CASE /\ log' = AppendGroup(log, Batch(s), numPages[s], "commit")
             /\ walPos' = [walPos EXCEPT ![s] = LogSize(log')]
             /\ sharedEnd' = Larger(sharedEnd, LogSize(log'))
             /\ wrote' = [wrote EXCEPT ![tx[s]] = touched[s]]
    <3>1. Batch(s) \in PageMap /\ numPages[s] \in 0 .. MaxPages /\ log \in Seq(Group)
      BY BatchOfPool DEF TypeOK
    <3>2. /\ log' \in Seq(Group)
          /\ Len(log') = Len(log) + 1
          /\ \A i \in DOMAIN log : log'[i] = log[i]
          /\ log'[Len(log')].images = Batch(s)
      <4>1. Longer(log', log, Batch(s))
        BY <2>2, <3>1, AppendedGroup
      <4> QED
        BY <4>1 DEF Longer
    <3>3. LogSize(log') \in Nat
      BY <3>2, LogSizeNat
    <3>4. sharedEnd' \in Nat /\ walPos' \in [Session -> Nat] /\ wrote' \in [Txn -> SUBSET Page]
      BY <1>3, <2>2, <3>3 DEF TypeOK, Larger
    <3>5. \A i \in DOMAIN log' : i \in DOMAIN log \/ i = Len(log')
      BY <3>1, <3>2
    <3> QED
      BY <3>2, <3>4, <3>5
  <2> QED
    BY <2>1, <2>2 DEF Commit
<1>5. TypeOK'
  BY <1>1, <1>2, <1>4 DEF TypeOK
<1>6. Marks'
  <2>1. \A o \in Session : touched'[o] \subseteq touched[o]
    BY <1>2
  <2> QED
    BY <1>1, <1>2, <2>1 DEF Marks
<1>7. Provenance'
  <2>1. NoUncommittedBytes'
    BY <1>1, <1>2 DEF Provenance, NoUncommittedBytes
  <2>2. \A i \in DOMAIN log', n \in Page :
          log'[i].images[n] # Absent => log'[i].images[n] \subseteq LoggedTxns'
    BY <1>2, <1>4, BatchOfPool DEF Provenance
  <2>3. \A n \in Page : pool[s][n] # Absent => pool[s][n] \subseteq LoggedTxns'
    BY <1>2 DEF Provenance
  <2> QED
    BY <1>1, <1>2, <2>1, <2>2, <2>3 DEF Provenance
<1>8. Snapshots'
  BY <1>1, <1>2 DEF Snapshots
<1> QED
  BY <1>5, <1>6, <1>7, <1>8

(* What a rollback puts back: images from before the transaction, and marks *)
(* on cached pages only.                                                    *)
LEMMA Restored ==
  ASSUME Inv, NEW s \in Session
  PROVE  /\ RestoredPool(s) \in PageMap
         /\ RestoredDirty(s) \in SUBSET Cached(RestoredPool(s))
         /\ \A n \in Page : RestoredPool(s)[n] # Absent => RestoredPool(s)[n] \subseteq LoggedTxns
<1> USE DEF Inv
<1>1. RestoredPool(s) \in PageMap
  BY DEF TypeOK, RestoredPool, PageMap
<1>2. \A n \in Page : RestoredPool(s)[n] = IF n \in touched[s] THEN shadow[s][n] ELSE pool[s][n]
  BY DEF RestoredPool
<1>3. RestoredDirty(s) \in SUBSET Cached(RestoredPool(s))
  <2>1. \A n \in RestoredDirty(s) : n \in Page /\ n \notin touched[s] /\ pool[s][n] # Absent
    BY DEF RestoredDirty, Marks, Cached
  <2> QED
    BY <1>2, <2>1 DEF Cached
<1>4. \A n \in Page : RestoredPool(s)[n] # Absent => RestoredPool(s)[n] \subseteq LoggedTxns
  BY <1>2 DEF Provenance
<1> QED
  BY <1>1, <1>3, <1>4

(* A transaction rolled back, by ROLLBACK or by closing its session.        *)
LEMMA RolledBack ==
  ASSUME Inv, NEW s \in Session, InTxn(s), Restore(s),
         NEW next \in {"idle", "closing", "leaving"}, EndTxn(s, "aborted", next),
         UNCHANGED <<file, disk, log, sharedEnd, numPages, walPos, wrote, crashes>>
  PROVE  Inv'
<1> USE DEF Inv
<1>1. /\ pool' = [pool EXCEPT ![s] = RestoredPool(s)]
      /\ dirty' = [dirty EXCEPT ![s] = RestoredDirty(s)]
  BY DEF Restore
<1>2. /\ mode' \in [Session -> Modes] /\ writer' \in Session \cup {NoOne}
      /\ touched' \in [Session -> SUBSET Page] /\ shadow' \in [Session -> PageMap]
      /\ tx' \in [Session -> Txn \cup {NoTxn}] /\ fate' \in [Txn -> Fates]
      /\ atBegin' \in [Session -> PageMap]
      /\ \A o \in Session : InTxn(o)' <=> (InTxn(o) /\ o # s)
      /\ touched'[s] = {} /\ tx'[s] = NoTxn
      /\ \A o \in Session \ {s} : /\ touched'[o] = touched[o] /\ shadow'[o] = shadow[o]
                                  /\ tx'[o] = tx[o] /\ atBegin'[o] = atBegin[o]
      /\ \A o \in Session \ {s} : InTxn(o) => fate'[tx[o]] = "active"
      /\ LoggedTxns' = LoggedTxns
  BY EndedTxn
<1>3. /\ RestoredPool(s) \in PageMap
      /\ RestoredDirty(s) \in SUBSET Cached(RestoredPool(s))
      /\ \A n \in Page : RestoredPool(s)[n] # Absent => RestoredPool(s)[n] \subseteq LoggedTxns
  BY Restored
<1>4. /\ pool' \in [Session -> PageMap] /\ dirty' \in [Session -> SUBSET Page]
      /\ pool'[s] = RestoredPool(s) /\ dirty'[s] = RestoredDirty(s)
      /\ \A o \in Session \ {s} : pool'[o] = pool[o] /\ dirty'[o] = dirty[o]
  BY <1>1, <1>3 DEF TypeOK, Cached
<1>5. TypeOK'
  BY <1>1, <1>2, <1>4 DEF TypeOK
<1>6. Marks'
  BY <1>2, <1>3, <1>4 DEF Marks
<1>7. Provenance'
  <2>1. NoUncommittedBytes'
    BY <1>1, <1>2 DEF Provenance, NoUncommittedBytes
  <2> QED
    BY <1>1, <1>2, <1>3, <1>4, <2>1 DEF Provenance
<1>8. Snapshots'
  BY <1>2, <1>4 DEF Snapshots
<1> QED
  BY <1>5, <1>6, <1>7, <1>8

LEMMA RollbackStep ==
  ASSUME Inv, NEW s \in Session, Rollback(s)
  PROVE  Inv'
BY RolledBack DEF Rollback, storage

-----------------------------------------------------------------------------

LEMMA CheckpointFlushStep ==
  ASSUME Inv, NEW s \in Session, CheckpointFlush(s)
  PROVE  Inv'
<1> USE DEF Inv, CheckpointFlush, txnState, history
<1>1. /\ file' \in File
      /\ \A n \in Page : file'.page[n] = IF n \in dirty[s] THEN pool[s][n] ELSE file.page[n]
  <2>1. file \in File /\ pool[s] \in PageMap /\ dirty[s] \in SUBSET Cached(pool[s])
    BY DEF TypeOK, Marks
  <2> QED
    BY <2>1, FlushIntoFile
<1>2. TypeOK'
  <2>1. dirty' \in [Session -> SUBSET Page] /\ mode' \in [Session -> Modes]
    BY DEF TypeOK, Modes
  <2> QED
    BY <1>1, <2>1 DEF TypeOK
<1>3. \A o \in Session : InTxn(o)' <=> InTxn(o)
  BY DEF TypeOK, InTxn
<1>4. Marks'
  <2>1. \A o \in Session : dirty'[o] \subseteq dirty[o]
    BY DEF TypeOK
  <2> QED
    BY <1>3, <2>1 DEF Marks, Cached
<1>5. LoggedTxns' = LoggedTxns
  BY DEF LoggedTxns
<1>6. Provenance'
  <2>1. touched[s] = {}
    BY DEF Marks, InTxn
  <2>2. \A n \in dirty[s] : pool[s][n] # Absent
    BY DEF Marks, Cached
  <2>3. NoUncommittedBytes'
    BY <1>1, <1>5, <2>1, <2>2 DEF Provenance, NoUncommittedBytes
  <2> QED
    BY <1>5, <2>3 DEF Provenance
<1>7. Snapshots'
  BY <1>3 DEF Snapshots
<1> QED
  BY <1>2, <1>4, <1>6, <1>7

LEMMA EmptyLog == << >> \in Seq(Group)
OBVIOUS

LEMMA CheckpointResetStep ==
  ASSUME Inv, NEW s \in Session, CheckpointReset(s)
  PROVE  Inv'
<1> USE DEF Inv, CheckpointReset, caches, txnState, history
<1>1. TypeOK'
  BY EmptyLog DEF TypeOK, Modes, Synced, HeaderBytes
<1>2. \A o \in Session : InTxn(o)' <=> InTxn(o)
  BY DEF TypeOK, InTxn
<1>3. Marks'
  BY <1>2 DEF Marks, Cached
<1>4. Provenance'
  BY DEF Provenance, NoUncommittedBytes, LoggedTxns, Synced
<1>5. Snapshots'
  BY <1>2 DEF Snapshots
<1> QED
  BY <1>1, <1>3, <1>4, <1>5

(* Sessions that end leave nothing marked.                                  *)
LEMMA Forgotten ==
  ASSUME Inv, NEW S \in SUBSET Session, Forget(S)
  PROVE  /\ pool' \in [Session -> PageMap] /\ dirty' \in [Session -> SUBSET Page]
         /\ touched' \in [Session -> SUBSET Page] /\ shadow' \in [Session -> PageMap]
         /\ tx' \in [Session -> Txn \cup {NoTxn}] /\ atBegin' \in [Session -> PageMap]
         /\ numPages' \in [Session -> 1 .. MaxPages] /\ walPos' \in [Session -> Nat]
         /\ \A o \in Session :
              IF o \in S THEN pool'[o] = NoImages /\ dirty'[o] = {} /\ touched'[o] = {} /\ tx'[o] = NoTxn
              ELSE /\ pool'[o] = pool[o] /\ dirty'[o] = dirty[o] /\ touched'[o] = touched[o]
                   /\ shadow'[o] = shadow[o] /\ tx'[o] = tx[o] /\ atBegin'[o] = atBegin[o]
<1> USE DEF Inv, TypeOK
<1>1. NoImages \in PageMap
  BY DEF NoImages, PageMap
<1>2. /\ pool' \in [Session -> PageMap] /\ dirty' \in [Session -> SUBSET Page]
      /\ touched' \in [Session -> SUBSET Page] /\ shadow' \in [Session -> PageMap]
  BY <1>1 DEF Forget
<1>3. tx' \in [Session -> Txn \cup {NoTxn}] /\ atBegin' \in [Session -> PageMap]
  BY <1>1 DEF Forget
<1>4. numPages' \in [Session -> 1 .. MaxPages] /\ walPos' \in [Session -> Nat]
  BY PageBounds DEF Forget, HeaderBytes
<1>5. \A o \in Session :
        IF o \in S THEN pool'[o] = NoImages /\ dirty'[o] = {} /\ touched'[o] = {} /\ tx'[o] = NoTxn
        ELSE /\ pool'[o] = pool[o] /\ dirty'[o] = dirty[o] /\ touched'[o] = touched[o]
             /\ shadow'[o] = shadow[o] /\ tx'[o] = tx[o] /\ atBegin'[o] = atBegin[o]
  BY DEF Forget
<1> QED
  BY <1>2, <1>3, <1>4, <1>5

LEMMA ForgottenOne ==
  ASSUME Inv, NEW s \in Session, ~InTxn(s), Forget({s}),
         mode' = [mode EXCEPT ![s] = "closed"],
         file' \in File, \A n \in Page : file'.page[n] \subseteq LoggedTxns,
         UNCHANGED <<disk, log, sharedEnd, writer, fate, wrote, crashes>>
  PROVE  Inv'
<1> USE DEF Inv
<1>1. /\ pool' \in [Session -> PageMap] /\ dirty' \in [Session -> SUBSET Page]
      /\ touched' \in [Session -> SUBSET Page] /\ shadow' \in [Session -> PageMap]
      /\ tx' \in [Session -> Txn \cup {NoTxn}] /\ atBegin' \in [Session -> PageMap]
      /\ numPages' \in [Session -> 1 .. MaxPages] /\ walPos' \in [Session -> Nat]
      /\ pool'[s] = NoImages /\ dirty'[s] = {} /\ touched'[s] = {} /\ tx'[s] = NoTxn
      /\ \A o \in Session \ {s} :
           /\ pool'[o] = pool[o] /\ dirty'[o] = dirty[o] /\ touched'[o] = touched[o]
           /\ shadow'[o] = shadow[o] /\ tx'[o] = tx[o] /\ atBegin'[o] = atBegin[o]
  BY Forgotten
<1>2. LoggedTxns' = LoggedTxns
  BY DEF LoggedTxns
<1>3. TypeOK'
  <2>1. mode' \in [Session -> Modes]
    BY DEF TypeOK, Modes
  <2> QED
    BY <1>1, <2>1 DEF TypeOK
<1>4. \A o \in Session : InTxn(o)' <=> InTxn(o)
  BY DEF TypeOK, InTxn
<1>5. Marks'
  <2>1. ~InTxn(s)' /\ touched'[s] \cup dirty'[s] = {} /\ tx'[s] = NoTxn
    BY <1>1, <1>4
  <2>2. ASSUME NEW o \in Session \ {s}
        PROVE  /\ touched'[o] \cup dirty'[o] \subseteq Cached(pool'[o])
               /\ ~InTxn(o)' => touched'[o] = {} /\ tx'[o] = NoTxn
               /\ InTxn(o)' => tx'[o] \in Txn /\ fate'[tx'[o]] = "active"
    BY <1>1, <1>4 DEF Marks
  <2>3. \A o, r \in Session : InTxn(o)' /\ InTxn(r)' /\ tx'[o] = tx'[r] => o = r
    BY <1>1, <1>4 DEF Marks
  <2> QED
    BY <2>1, <2>2, <2>3 DEF Marks
<1>6. Provenance'
  <2>1. NoUncommittedBytes'
    BY <1>2 DEF Provenance, NoUncommittedBytes
  <2>2. \A n \in Page : pool'[s][n] = Absent
    BY <1>1 DEF NoImages
  <2> QED
    BY <1>1, <1>2, <2>1, <2>2 DEF Provenance
<1>7. Snapshots'
  BY <1>1, <1>4 DEF Snapshots
<1> QED
  BY <1>3, <1>5, <1>6, <1>7

LEMMA CloseStep ==
  ASSUME Inv, NEW s \in Session, Close(s)
  PROVE  Inv'
<1> USE DEF storage, caches, txnState
<1>1. PICK next \in {"closing", "leaving"} :
        \/ /\ mode[s] = "idle" /\ mode' = [mode EXCEPT ![s] = next]
           /\ UNCHANGED <<writer, pool, dirty, touched, shadow, tx, atBegin, fate>>
        \/ mode[s] = "txn" /\ Restore(s) /\ EndTxn(s, "aborted", next)
  BY DEF Close
<1>2. UNCHANGED <<file, disk, log, sharedEnd, numPages, walPos, wrote, crashes>>
  BY DEF Close
<1>3. CASE mode[s] = "txn" /\ Restore(s) /\ EndTxn(s, "aborted", next)
  BY <1>2, <1>3, RolledBack DEF InTxn
<1>4. CASE /\ mode[s] = "idle" /\ mode' = [mode EXCEPT ![s] = next]
           /\ UNCHANGED <<writer, pool, dirty, touched, shadow, tx, atBegin, fate>>
  <2>1. TypeOK'
    BY <1>2, <1>4 DEF Inv, TypeOK, Modes
  <2>2. \A o \in Session : InTxn(o)' <=> InTxn(o)
    BY <1>4 DEF Inv, TypeOK, InTxn
  <2>3. Marks'
    BY <1>4, <2>2 DEF Inv, Marks, Cached
  <2>4. Provenance'
    BY <1>2, <1>4 DEF Inv, Provenance, NoUncommittedBytes, LoggedTxns
  <2>5. Snapshots'
    BY <1>4, <2>2 DEF Inv, Snapshots
  <2> QED
    BY <2>1, <2>3, <2>4, <2>5 DEF Inv
<1> QED
  BY <1>1, <1>3, <1>4

LEMMA CloseRefusedStep ==
  ASSUME Inv, NEW s \in Session, CloseRefused(s)
  PROVE  Inv'
<1>1. file \in File /\ \A n \in Page : file.page[n] \subseteq LoggedTxns
  BY DEF Inv, TypeOK, Provenance, NoUncommittedBytes
<1>2. /\ ~InTxn(s) /\ Forget({s}) /\ mode' = [mode EXCEPT ![s] = "closed"]
      /\ UNCHANGED <<file, disk, log, sharedEnd, writer, fate, wrote, crashes>>
  BY DEF CloseRefused, InTxn, storage, history
<1> QED
  BY <1>1, <1>2, ForgottenOne

LEMMA LeaveStep ==
  ASSUME Inv, NEW s \in Session, Leave(s)
  PROVE  Inv'
<1>1. /\ ~InTxn(s) /\ Forget({s}) /\ mode' = [mode EXCEPT ![s] = "closed"]
      /\ file' = FlushInto(file, pool[s], dirty[s])
      /\ UNCHANGED <<disk, log, sharedEnd, writer, fate, wrote, crashes>>
  BY DEF Leave, InTxn, history
<1>2. /\ file \in File /\ pool[s] \in PageMap /\ dirty[s] \in SUBSET Cached(pool[s])
      /\ touched[s] = {}
  BY <1>1 DEF Inv, TypeOK, Marks
<1>3. /\ file' \in File
      /\ \A n \in Page : file'.page[n] = IF n \in dirty[s] THEN pool[s][n] ELSE file.page[n]
  BY <1>1, <1>2, FlushIntoFile
<1>4. \A n \in Page : file'.page[n] \subseteq LoggedTxns
  BY <1>2, <1>3 DEF Inv, Provenance, NoUncommittedBytes, Cached
<1> QED
  BY <1>1, <1>3, <1>4, ForgottenOne

(* A crash forgets every session; a transaction whose commit it interrupts  *)
(* counts as logged from then on.                                           *)
LEMMA CrashStep ==
  ASSUME Inv, Crash
  PROVE  Inv'
<1> USE DEF Inv
<1>1. /\ Forget(Session)
      /\ mode' = [s \in Session |-> "closed"] /\ sharedEnd' = 0 /\ writer' = NoOne
      /\ crashes < MaxCrashes /\ crashes' = crashes + 1
  BY DEF Crash
<1>2. /\ pool' \in [Session -> PageMap] /\ dirty' \in [Session -> SUBSET Page]
      /\ touched' \in [Session -> SUBSET Page] /\ shadow' \in [Session -> PageMap]
      /\ tx' \in [Session -> Txn \cup {NoTxn}] /\ atBegin' \in [Session -> PageMap]
      /\ numPages' \in [Session -> 1 .. MaxPages] /\ walPos' \in [Session -> Nat]
      /\ \A o \in Session :
           pool'[o] = NoImages /\ dirty'[o] = {} /\ touched'[o] = {} /\ tx'[o] = NoTxn
  BY <1>1, Forgotten
<1>3. PICK kept \in SUBSET Page, len \in 0 .. MaxPages :
        file' = Survivor(file, disk, len, kept) /\ disk' = Survivor(file, disk, len, kept)
  <2>1. PICK kept \in SUBSET {n \in Page : file.page[n] # disk.page[n]},
             len \in disk.len .. file.len :
          file' = Survivor(file, disk, len, kept) /\ disk' = Survivor(file, disk, len, kept)
    BY DEF Crash
  <2>2. disk.len \in 0 .. MaxPages /\ file.len \in 0 .. MaxPages
    BY DEF TypeOK, File
  <2>3. len \in 0 .. MaxPages /\ kept \in SUBSET Page
    BY <2>2, PageBounds
  <2> QED
    BY <2>1, <2>3
<1>4. /\ file' \in File /\ disk' \in File
      /\ \A n \in Page : file'.page[n] \in {file.page[n], disk.page[n]} /\ disk'.page[n] = file'.page[n]
  BY <1>3 DEF Survivor, TypeOK, File
<1>5. Dropped \in [Txn -> Fates]
      /\ {t \in Txn : Dropped[t] \in {"committed", "indoubt"}} = LoggedTxns
  <2>1. \A t \in Txn : Dropped[t] = IF fate[t] = "active" THEN "aborted" ELSE fate[t]
    BY DEF Dropped
  <2>2. Dropped \in [Txn -> Fates]
    BY DEF Dropped, TypeOK, Fates
  <2> QED
    BY <2>1, <2>2 DEF LoggedTxns
<1>6. /\ log' \in Seq(Group) /\ wrote' \in [Txn -> SUBSET Page] /\ fate' \in [Txn -> Fates]
      /\ LoggedTxns \subseteq LoggedTxns'
      /\ \A i \in DOMAIN log', n \in Page : log'[i].images[n] # Absent =>
           log'[i].images[n] \subseteq LoggedTxns'
  <2>1. CASE UNCHANGED <<log, wrote>> /\ fate' = Dropped
    <3>1. LoggedTxns' = LoggedTxns
      BY <1>5, <2>1 DEF LoggedTxns
    <3> QED
      BY <1>5, <2>1, <3>1 DEF TypeOK, Provenance
  <2>2. ASSUME NEW s \in Session, InterruptedAppend(s)
        PROVE  /\ log' \in Seq(Group) /\ wrote' \in [Txn -> SUBSET Page] /\ fate' \in [Txn -> Fates]
               /\ LoggedTxns \subseteq LoggedTxns'
               /\ \A i \in DOMAIN log', n \in Page : log'[i].images[n] # Absent =>
                    log'[i].images[n] \subseteq LoggedTxns'
    <3>1. /\ fate' = [Dropped EXCEPT ![tx[s]] = "indoubt"]
          /\ wrote' = [wrote EXCEPT ![tx[s]] = touched[s]]
      BY <2>2 DEF InterruptedAppend
    <3>2. PICK g \in Fragments(s) : log' = AppendGroup(log, g.images, numPages[s], g.end)
      BY <2>2 DEF InterruptedAppend
    <3>3. tx[s] \in Txn
      BY <2>2 DEF InterruptedAppend, Marks
    <3>4. /\ fate' \in [Txn -> Fates] /\ wrote' \in [Txn -> SUBSET Page]
          /\ LoggedTxns' = LoggedTxns \cup {tx[s]}
      <4>1. \A t \in Txn : fate'[t] = IF t = tx[s] THEN "indoubt" ELSE Dropped[t]
        BY <1>5, <3>1
      <4>2. LoggedTxns' = LoggedTxns \cup {tx[s]}
        BY <1>5, <3>3, <4>1 DEF LoggedTxns
      <4>3. fate' \in [Txn -> Fates]
        BY <1>5, <3>1 DEF Fates
      <4> QED
        BY <3>1, <3>3, <4>2, <4>3 DEF TypeOK
    <3>5. /\ g.images \in PageMap /\ g.end \in {"commit", "none", "torn"}
          /\ \A n \in Page : g.images[n] # Absent => g.images[n] = Batch(s)[n]
      <4>1. Batch(s) \in PageMap
        BY BatchOfPool
      <4>2. CASE g = [images |-> Batch(s), end |-> "commit"]
        BY <4>1, <4>2
      <4>3. ASSUME NEW cut \in 0 .. MaxPages, NEW how \in {"none", "torn"},
                   g = [images |-> [n \in Page |-> IF n < cut THEN Batch(s)[n] ELSE Absent],
                        end |-> how]
            PROVE  /\ g.images \in PageMap /\ g.end \in {"commit", "none", "torn"}
                   /\ \A n \in Page : g.images[n] # Absent => g.images[n] = Batch(s)[n]
        BY <4>1, <4>3 DEF PageMap
      <4> QED
        BY <3>2, <4>2, <4>3 DEF Fragments
    <3>6. log \in Seq(Group) /\ numPages[s] \in 0 .. MaxPages
      BY DEF TypeOK
    <3>7. /\ log' \in Seq(Group)
          /\ Len(log') = Len(log) + 1
          /\ \A i \in DOMAIN log : log'[i] = log[i]
          /\ log'[Len(log')].images = g.images
      <4> DEFINE im == g.images
                 how == g.end
                 num == numPages[s]
      <4>1. im \in PageMap /\ how \in {"commit", "none", "torn"} /\ num \in 0 .. MaxPages
        BY <3>5, <3>6
      <4>2. log' = AppendGroup(log, im, num, how)
        BY <3>2
      <4> HIDE DEF im, how, num
      <4>3. /\ log' \in Seq(Group) /\ Len(log') = Len(log) + 1
            /\ \A i \in DOMAIN log : log'[i] = log[i]
            /\ log'[Len(log')].images = im
        <5>1. Longer(log', log, im)
          BY <3>6, <4>1, <4>2, AppendedGroup
        <5> QED
          BY <5>1 DEF Longer
      <4> QED
        BY <4>3 DEF im
    <3>8. \A i \in DOMAIN log' : i \in DOMAIN log \/ i = Len(log')
      BY <3>6, <3>7
    <3>9. \A i \in DOMAIN log', n \in Page : log'[i].images[n] # Absent =>
            log'[i].images[n] \subseteq LoggedTxns \cup {tx[s]}
      <4>1. \A n \in Page : g.images[n] # Absent => g.images[n] \subseteq LoggedTxns \cup {tx[s]}
        BY <3>5, BatchOfPool
      <4> QED
        BY <3>7, <3>8, <4>1 DEF Provenance
    <3> QED
      BY <3>4, <3>7, <3>9
  <2> QED
    BY <2>1, <2>2 DEF Crash
<1>7. TypeOK'
  <2>1. mode' \in [Session -> Modes] /\ crashes' \in 0 .. MaxCrashes
    BY <1>1, StoreAssumption DEF TypeOK, Modes
  <2> QED
    BY <1>1, <1>2, <1>4, <1>6, <2>1 DEF TypeOK
<1>8. \A s \in Session : ~InTxn(s)'
  BY <1>1 DEF InTxn
<1>9. Marks'
  BY <1>2, <1>8 DEF Marks
<1>10. Provenance'
  <2>1. NoUncommittedBytes'
    BY <1>4, <1>6 DEF Provenance, NoUncommittedBytes
  <2>2. \A s \in Session, n \in Page : pool'[s][n] = Absent
    BY <1>2 DEF NoImages
  <2> QED
    BY <1>2, <1>6, <2>1, <2>2 DEF Provenance
<1>11. Snapshots'
  BY <1>8 DEF Snapshots
<1> QED
  BY <1>7, <1>9, <1>10, <1>11

LEMMA InvNext ==
  ASSUME Inv, [Next]_vars
  PROVE  Inv'
<1>1. ASSUME NEW s \in Session, Step(s)
      PROVE  Inv'
  <2>1. CASE OpenReplay(s) \/ OpenReset(s) \/ OpenRegister(s)
    BY <2>1, OpenReplayStep, OpenResetStep, OpenRegisterStep
  <2>2. CASE \E n \in Page : Read(s, n) \/ Write(s, n)
    BY <2>2, ReadStep, WriteStep
  <2>3. CASE RefreshFirst(s) \/ Refresh(s)
    BY <2>3, RefreshFirstStep, RefreshStep
  <2>4. CASE \E how \in {"auto", "txn"} : Begin(s, how)
    BY <2>4, BeginStep
  <2>5. CASE Allocate(s) \/ Commit(s) \/ Rollback(s)
    BY <2>5, AllocateStep, CommitStep, RollbackStep
  <2>6. CASE CheckpointFlush(s) \/ CheckpointReset(s)
    BY <2>6, CheckpointFlushStep, CheckpointResetStep
  <2>7. CASE Close(s) \/ CloseRefused(s) \/ Leave(s)
    BY <2>7, CloseStep, CloseRefusedStep, LeaveStep
  <2> QED
    BY <1>1, <2>1, <2>2, <2>3, <2>4, <2>5, <2>6, <2>7 DEF Step
<1>2. CASE Crash
  BY <1>2, CrashStep
<1>3. CASE UNCHANGED vars
  <2>1. UNCHANGED vars
    BY <1>3
  <2> QED
    BY <2>1 DEF vars, Inv, TypeOK, Marks, Provenance, NoUncommittedBytes, Snapshots,
               LoggedTxns, InTxn, Cached
<1> QED
  BY <1>1, <1>2, <1>3 DEF Next

LEMMA InvAlways == Spec => []Inv
<1>1. Init => Inv
  BY InitInv
<1>2. Inv /\ [Next]_vars => Inv'
  BY InvNext
<1> QED
  BY <1>1, <1>2, PTL DEF Spec

-----------------------------------------------------------------------------
(* The theorems *)

(* Every variable keeps its type in every reachable state: numbers of pages *)
(* within bounds, logs of whole groups, pools that map every page to an      *)
(* image or to nothing (engine.py:63, pager.py:35, wal.py:27).               *)
THEOREM TypeCorrect == Spec => []TypeOK
<1>1. Inv => TypeOK
  BY DEF Inv
<1> QED
  BY <1>1, InvAlways, PTL

(* No-steal: the database file never carries a transaction that has not     *)
(* reached the log, whatever eviction (pager.py:66), flush (pager.py:134)    *)
(* and close (engine.py:182) write back, and across any crash.               *)
THEOREM FileHoldsLoggedOnly == Spec => []NoUncommittedBytes
<1>1. Inv => NoUncommittedBytes
  BY DEF Inv, Provenance
<1> QED
  BY <1>1, InvAlways, PTL

(* Whatever Pager.get (pager.py:75) returns to a session is made of logged  *)
(* transactions and of the session's own: no dirty reads.                    *)
THEOREM ReadsLoggedOrOwn == Spec => []NoDirtyReads
<1>1. Inv => NoDirtyReads
  <2> SUFFICES ASSUME Inv, NEW s \in Session, NEW n \in Page
               PROVE  View(s, n) \subseteq LoggedTxns \cup {tx[s]}
    BY DEF NoDirtyReads
  <2>1. CASE pool[s][n] # Absent
    BY <2>1 DEF View, Inv, Provenance
  <2>2. CASE pool[s][n] = Absent
    BY <2>2 DEF View, Inv, Provenance, NoUncommittedBytes
  <2> QED
    BY <2>1, <2>2
<1> QED
  BY <1>1, InvAlways, PTL

(* Every page collect_commit (pager.py:129) and flush (pager.py:136) look up *)
(* in the pool is there.                                                     *)
THEOREM MarkedPagesStay == Spec => []MarkedPagesCached
<1>1. Inv => MarkedPagesCached
  BY DEF Inv, Marks, MarkedPagesCached
<1> QED
  BY <1>1, InvAlways, PTL

(* A transaction keeps reading the same image of every page that was cached *)
(* when it began and that it has not written (engine.py:101, pager.py:67).   *)
THEOREM SnapshotHolds == Spec => []CachedSnapshotHolds
<1>1. Inv => CachedSnapshotHolds
  BY DEF Inv, Snapshots, CachedSnapshotHolds
<1> QED
  BY <1>1, InvAlways, PTL

(* A rollback (engine.py:421, 186; pager.py:116) gives every page that was cached *)
(* when its transaction began the image it had then.                         *)
THEOREM RollbackIsExact == Spec => RollbackRestores
<1> DEFINE Restores(s) ==
      (InTxn(s) /\ mode'[s] \in {"idle", "closing", "leaving"} /\ fate'[tx[s]] = "aborted") =>
        \A n \in Page : atBegin[s][n] # Absent => pool'[s][n] = atBegin[s][n]
<1>1. Inv /\ [Next]_vars => [\A s \in Session : Restores(s)]_vars
  <2> SUFFICES ASSUME Inv, Next, NEW s \in Session, InTxn(s),
                      mode'[s] \in {"idle", "closing", "leaving"}, fate'[tx[s]] = "aborted"
               PROVE  \A n \in Page : atBegin[s][n] # Absent => pool'[s][n] = atBegin[s][n]
    OBVIOUS
  <2>1. mode \in [Session -> Modes] /\ fate \in [Txn -> Fates] /\ tx[s] \in Txn
    BY DEF Inv, TypeOK, Marks
  <2>2. ~Crash
    BY DEF Crash
  <2>3. PICK o \in Session : Step(o)
    BY <2>2 DEF Next
  <2>4. mode[s] \in {"auto", "txn"} /\ mode'[s] # mode[s]
    BY DEF InTxn
  <2>5. o = s
    <3>1. mode' = mode \/ \E m \in Modes : mode' = [mode EXCEPT ![o] = m]
      BY <2>3 DEF Step, OpenReplay, OpenReset, OpenRegister, Read, Write, RefreshFirst,
                  Refresh, Begin, Allocate, Commit, Rollback, EndTxn, CheckpointFlush,
                  CheckpointReset, Close, CloseRefused, Leave, Modes
    <3> QED
      BY <2>1, <2>4, <3>1
  <2>6. ~Commit(s)
    BY <2>1 DEF Commit, EndTxn
  <2>7. Rollback(s) \/ Close(s)
    BY <2>1, <2>3, <2>4, <2>5, <2>6
    DEF Step, OpenReplay, OpenReset, OpenRegister, Read, Write, RefreshFirst, MayRefresh,
        Refresh, Begin, Allocate, CheckpointFlush, CheckpointReset, CloseRefused, Leave
  <2>8. Restore(s)
    BY <2>4, <2>7 DEF Rollback, Close
  <2>9. pool'[s] = RestoredPool(s)
    BY <2>8 DEF Restore, Inv, TypeOK
  <2> QED
    BY <2>9 DEF RestoredPool, Inv, Snapshots
<1> QED
  BY <1>1, InvAlways, PTL DEF Spec, RollbackRestores

-----------------------------------------------------------------------------
(* While the disciplines are observed: logs                                 *)

(* A log that appends behind an interrupted batch never made: only its last *)
(* group may lack the commit frame, and the groups follow one another.      *)
Laid(w) ==
  /\ \A k \in DOMAIN w : k < Len(w) => w[k].end = "commit"
  /\ \A k \in DOMAIN w :
       /\ w[k].upto = GroupStart(w, k) + PageFrameBytes * Cardinality(Held(w[k].images))
                        + EndBytes(w[k].end)
       /\ HeaderBytes < w[k].upto
       /\ \A n \in Held(w[k].images) : n < w[k].num
  /\ \A i, k \in DOMAIN w : i < k => w[i].upto < w[k].upto

Whole(w) == \A k \in DOMAIN w : w[k].end = "commit"

(* Where a session may stand in a log, and the groups it has not adopted.   *)
Boundaries(w) == {HeaderBytes} \cup {w[k].upto : k \in DOMAIN w}
Beyond(w, p)  == {k \in DOMAIN w : w[k].upto > p}

(* The images that recovery would apply. *)
Images(w) == Merged(w, Applied(w))

(* Recovery applies every committed group, and no other. *)
LEMMA AppliedCommits ==
  ASSUME NEW w \in Seq(Group), Laid(w)
  PROVE  /\ CommitsFrom(w, 1) = {k \in DOMAIN w : w[k].end = "commit"}
         /\ Applied(w) = {k \in DOMAIN w : w[k].end = "commit"}
<1>1. DOMAIN w = 1 .. Len(w) /\ Len(w) \in Nat
  OBVIOUS
<1>2. CommitsFrom(w, 1) = {k \in DOMAIN w : w[k].end = "commit"}
  <2> SUFFICES ASSUME NEW j \in 1 .. Len(w), NEW k \in 1 .. (j - 1)
               PROVE  w[k].end # "torn"
    BY <1>1 DEF CommitsFrom
  <2>1. k \in DOMAIN w /\ k < Len(w)
    BY <1>1
  <2> QED
    BY <2>1 DEF Laid
<1>3. ASSUME NEW k \in DOMAIN w, NEW j \in CommitsFrom(w, 1), k <= j
      PROVE  w[k].end = "commit"
  <2>1. j \in DOMAIN w /\ w[j].end = "commit"
    BY <1>2
  <2>2. k = j \/ k < Len(w)
    BY <1>1, <1>3, <2>1
  <2> QED
    BY <2>1, <2>2 DEF Laid
<1>4. \A k \in DOMAIN w : k <= k
  BY <1>1
<1> QED
  BY <1>2, <1>3, <1>4 DEF Applied

LEMMA NoImagesInEmptyLog == \A n \in Page : Images(<< >>)[n] = Absent
BY DEF Images, Merged, LatestImage, Applied

LEMMA CardinalityOfHeld ==
  ASSUME NEW images
  PROVE  /\ Cardinality(Held(images)) \in Nat
         /\ Held(images) # {} => Cardinality(Held(images)) > 0
<1>1. IsFiniteSet(Page)
  BY FS_Interval, MaxPagesAssumption DEF Page
<1>2. IsFiniteSet(Held(images))
  BY <1>1, FS_Subset DEF Held
<1> QED
  BY <1>2, FS_CardinalityType, FS_EmptySet

(* Every group ends by the size of the log. *)
LEMMA SizeOfLog ==
  ASSUME NEW w \in Seq(Group), Laid(w)
  PROVE  /\ LogSize(w) \in Nat /\ HeaderBytes <= LogSize(w)
         /\ \A k \in DOMAIN w : w[k].upto \in Nat /\ w[k].upto <= LogSize(w)
         /\ LogSize(w) \in Boundaries(w) /\ Beyond(w, LogSize(w)) = {}
<1>1. LogSize(w) \in Nat
  BY LogSizeNat
<1>2. \A k \in DOMAIN w : w[k] \in Group
  OBVIOUS
<1>3. \A k \in DOMAIN w : w[k].upto \in Nat
  BY <1>2 DEF Group
<1>4. ASSUME NEW k \in DOMAIN w
      PROVE  w[k].upto <= LogSize(w) /\ LogSize(w) = w[Len(w)].upto /\ Len(w) \in DOMAIN w
  <2>1. w # << >> /\ Len(w) \in DOMAIN w
    OBVIOUS
  <2>2. k = Len(w) \/ k < Len(w)
    OBVIOUS
  <2>3. LogSize(w) = w[Len(w)].upto
    BY <2>1 DEF LogSize
  <2>4. w[k].upto = w[Len(w)].upto \/ w[k].upto < w[Len(w)].upto
    BY <2>1, <2>2 DEF Laid
  <2> QED
    BY <1>3, <2>1, <2>3, <2>4
<1>5. w = << >> \/ Len(w) \in DOMAIN w
  OBVIOUS
<1>6. w = << >> => LogSize(w) = HeaderBytes
  BY DEF LogSize
<1>7. HeaderBytes <= LogSize(w)
  BY <1>3, <1>4, <1>5, <1>6 DEF Laid, HeaderBytes
<1>8. LogSize(w) \in Boundaries(w)
  BY <1>4, <1>5, <1>6 DEF Boundaries
<1>9. Beyond(w, LogSize(w)) = {}
  BY <1>1, <1>3, <1>4 DEF Beyond
<1> QED
  BY <1>1, <1>3, <1>4, <1>7, <1>8, <1>9

(* An append to a whole log: the log stays laid out, and recovery applies    *)
(* the new group on top of what it applied before, or not at all.            *)
LEMMA AppendedLog ==
  ASSUME NEW w \in Seq(Group), Laid(w), Whole(w),
         NEW images \in PageMap, NEW num \in 0 .. MaxPages,
         NEW how \in {"commit", "none", "torn"},
         how = "none" => Held(images) # {}, \A n \in Held(images) : n < num,
         NEW v, v = AppendGroup(w, images, num, how)
  PROVE  /\ Laid(v)
         /\ v[Len(v)].end = how /\ LogSize(v) = v[Len(v)].upto
         /\ LogSize(w) < LogSize(v)
         /\ \A n \in Page : Images(v)[n] = IF how = "commit" /\ images[n] # Absent THEN images[n]
                                            ELSE Images(w)[n]
<1> DEFINE size == LogSize(w) + PageFrameBytes * Cardinality(Held(images)) + EndBytes(how)
           g == [images |-> images, num |-> num, end |-> how, upto |-> size]
           L == Len(w) + 1
<1>1. /\ v \in Seq(Group) /\ Len(v) = L /\ L \in DOMAIN v /\ Len(w) \in Nat
      /\ \A i \in DOMAIN w : v[i] = w[i] /\ i \in DOMAIN v /\ i \in Nat /\ i < L
      /\ \A i \in DOMAIN v : i = L \/ i \in DOMAIN w
  <2>1. v \in Seq(Group) /\ Len(v) = L /\ \A i \in DOMAIN w : v[i] = w[i]
    <3>1. Longer(v, w, images)
      BY AppendedGroup
    <3> QED
      BY <3>1 DEF Longer
  <2>2. DOMAIN v = 1 .. L /\ DOMAIN w = 1 .. Len(w) /\ Len(w) \in Nat
    BY <2>1
  <2> QED
    BY <2>1, <2>2
<1>2. v[L] = g
  <2>1. v = Append(w, g)
    BY DEF AppendGroup
  <2> QED
    BY <2>1
<1>3. /\ size \in Nat /\ LogSize(w) < size /\ HeaderBytes <= LogSize(w)
      /\ \A k \in DOMAIN w : w[k].upto \in Nat /\ w[k].upto <= LogSize(w)
  <2>1. LogSize(w) \in Nat /\ Cardinality(Held(images)) \in Nat
    BY SizeOfLog, CardinalityOfHeld
  <2>2. EndBytes(how) \in Nat /\ (EndBytes(how) = 0 => Cardinality(Held(images)) > 0)
    BY CardinalityOfHeld DEF EndBytes, CommitFrameBytes, TornBytes
  <2>3. size \in Nat /\ LogSize(w) < size
    BY <2>1, <2>2 DEF PageFrameBytes
  <2> QED
    BY <2>3, SizeOfLog
<1>4. GroupStart(v, L) = LogSize(w) /\ \A k \in DOMAIN w : GroupStart(v, k) = GroupStart(w, k)
  <2>1. \A k \in DOMAIN w : k # 1 => k - 1 \in DOMAIN w
    OBVIOUS
  <2>2. w # << >> => Len(w) \in DOMAIN w /\ L # 1 /\ L - 1 = Len(w)
    BY <1>1
  <2>3. w = << >> => L = 1
    OBVIOUS
  <2> QED
    BY <1>1, <2>1, <2>2, <2>3 DEF GroupStart, LogSize
<1>5. Laid(v)
  <2>1. \A k \in DOMAIN v : k < Len(v) => v[k].end = "commit"
    BY <1>1 DEF Whole
  <2>2. \A k \in DOMAIN v :
          /\ v[k].upto = GroupStart(v, k) + PageFrameBytes * Cardinality(Held(v[k].images))
                           + EndBytes(v[k].end)
          /\ HeaderBytes < v[k].upto
          /\ \A n \in Held(v[k].images) : n < v[k].num
    <3>1. \A k \in DOMAIN w :
            /\ v[k].upto = GroupStart(v, k) + PageFrameBytes * Cardinality(Held(v[k].images))
                             + EndBytes(v[k].end)
            /\ HeaderBytes < v[k].upto
            /\ \A n \in Held(v[k].images) : n < v[k].num
      BY <1>1, <1>4 DEF Laid
    <3>2. /\ v[L].upto = GroupStart(v, L) + PageFrameBytes * Cardinality(Held(v[L].images))
                           + EndBytes(v[L].end)
          /\ \A n \in Held(v[L].images) : n < v[L].num
      BY <1>2, <1>4
    <3>3. HeaderBytes < v[L].upto
      <4>1. LogSize(w) \in Nat /\ HeaderBytes \in Nat
        BY SizeOfLog DEF HeaderBytes
      <4> QED
        BY <1>2, <1>3, <4>1
    <3> QED
      BY <1>1, <3>1, <3>2, <3>3
  <2>3. \A i, k \in DOMAIN v : i < k => v[i].upto < v[k].upto
    <3> SUFFICES ASSUME NEW i \in DOMAIN v, NEW k \in DOMAIN v, i < k
                 PROVE  v[i].upto < v[k].upto
      OBVIOUS
    <3>1. i \in DOMAIN w
      BY <1>1
    <3>2. CASE k = L
      <4>1. v[i].upto <= LogSize(w) /\ v[i].upto \in Nat /\ v[k].upto = size /\ LogSize(w) \in Nat
        BY <1>1, <1>2, <1>3, <3>1, <3>2, SizeOfLog
      <4> QED
        BY <1>3, <4>1
    <3>3. CASE k \in DOMAIN w
      BY <1>1, <3>1, <3>3 DEF Laid
    <3> QED
      BY <1>1, <3>2, <3>3
  <2> QED
    BY <2>1, <2>2, <2>3 DEF Laid
<1>6. LogSize(v) = v[Len(v)].upto /\ LogSize(v) = size /\ v[Len(v)].end = how
  <2>1. v # << >>
    BY <1>1
  <2> QED
    BY <1>1, <1>2, <2>1 DEF LogSize
<1>7. ASSUME NEW n \in Page
      PROVE  Images(v)[n] = IF how = "commit" /\ images[n] # Absent THEN images[n]
                            ELSE Images(w)[n]
  <2>1. Applied(w) = DOMAIN w
    BY AppliedCommits DEF Whole
  <2>2. Applied(v) = IF how = "commit" THEN DOMAIN w \cup {L} ELSE DOMAIN w
    <3>1. Applied(v) = {k \in DOMAIN v : v[k].end = "commit"}
      BY <1>1, <1>5, AppliedCommits
    <3> QED
      BY <1>1, <1>2, <3>1 DEF Whole
  <2>3. CASE how = "commit" /\ images[n] # Absent
    <3>1. Applied(v) \in SUBSET DOMAIN v /\ L \in Applied(v) /\ v[L].images[n] = images[n]
      BY <1>1, <1>2, <2>2, <2>3
    <3>2. \A k \in Applied(v) : k <= L
      BY <1>1, <2>2
    <3>3. Merged(v, Applied(v))[n] = v[L].images[n]
      BY <1>1, <2>3, <3>1, <3>2, LatestIsLast
    <3> QED
      BY <2>3, <3>1, <3>3 DEF Images
  <2>4. CASE ~(how = "commit" /\ images[n] # Absent)
    <3>1. {k \in Applied(v) : v[k].images[n] # Absent} = {k \in Applied(w) : w[k].images[n] # Absent}
      BY <1>1, <1>2, <2>1, <2>2, <2>4
    <3>2. \A k \in Applied(w) : v[k] = w[k]
      BY <1>1, <2>1
    <3>3. LatestImage(v, Applied(v), n) = LatestImage(w, Applied(w), n)
      <4> DEFINE H == {k \in Applied(w) : w[k].images[n] # Absent}
      <4>1. CASE H = {}
        BY <3>1, <4>1 DEF LatestImage
      <4>2. CASE H # {}
        <5>1. H \in SUBSET (0 .. Len(w)) /\ Len(w) \in Nat
          BY <2>1
        <5>2. Largest(H) \in H
          BY <4>2, <5>1, LargestInSet
        <5> QED
          BY <3>1, <3>2, <4>2, <5>2 DEF LatestImage
      <4> QED
        BY <4>1, <4>2
    <3> QED
      BY <2>4, <3>3 DEF Images, Merged
  <2> QED
    BY <2>3, <2>4
<1> QED
  BY <1>3, <1>5, <1>6, <1>7

IsNextGroup(w, p, i, c, j) ==
  /\ j = i /\ w[i].upto > p
  /\ Beyond(w, p) = {k \in DOMAIN w : i <= k}
  /\ Beyond(w, w[i].upto) = {k \in DOMAIN w : i < k}
  /\ \A n \in Page : Merged(EnteredAt(w, i, c), i .. j)[n] = w[i].images[n]

(* The next batch of a session that stands on a boundary is the first group *)
(* beyond, entered at its start, and it brings the session to the group's   *)
(* end.                                                                     *)
LEMMA NextBatchIsGroup ==
  ASSUME NEW w \in Seq(Group), Laid(w), NEW p \in Boundaries(w),
         NEW end, NEW i \in DOMAIN w, NEW j \in DOMAIN w, NEW c \in 0 .. MaxPages,
         NextBatch(w, p, end, i, c, j)
  PROVE  IsNextGroup(w, p, i, c, j)
<1> DEFINE start == GroupStart(w, i)
           held == Cardinality(Held(w[i].images))
<1>1. /\ c <= held /\ start + PageFrameBytes * c = p
      /\ j \in CommitsFrom(w, i) /\ \A k \in i .. (j - 1) : w[k].end # "commit"
  BY DEF NextBatch
<1>2. Len(w) \in Nat /\ DOMAIN w = 1 .. Len(w)
  OBVIOUS
<1>3. \A k \in DOMAIN w : w[k].upto \in Nat /\ HeaderBytes < w[k].upto
  BY SizeOfLog DEF Laid
<1>4. w[i].end = "commit" /\ j = i
  <2>1. i <= j /\ w[j].end = "commit"
    BY <1>1 DEF CommitsFrom
  <2>2. i = j \/ i < Len(w)
    BY <1>2, <2>1
  <2>3. w[i].end = "commit"
    BY <2>1, <2>2 DEF Laid
  <2>4. ~(i \in i .. (j - 1))
    BY <1>1, <2>3
  <2> QED
    BY <1>2, <2>1, <2>3, <2>4
<1>5. held \in Nat /\ start \in Nat /\ w[i].upto = start + PageFrameBytes * held + CommitFrameBytes
  <2>1. held \in Nat
    BY CardinalityOfHeld
  <2>2. start \in Nat
    <3>1. CASE i = 1
      BY <3>1 DEF GroupStart, HeaderBytes
    <3>2. CASE i # 1
      <4>1. i - 1 \in DOMAIN w
        BY <1>2, <3>2
      <4> QED
        BY <1>3, <3>2, <4>1 DEF GroupStart
    <3> QED
      BY <3>1, <3>2
  <2>3. w[i].upto = start + PageFrameBytes * held + EndBytes("commit")
    BY <1>4 DEF Laid
  <2> QED
    BY <2>1, <2>2, <2>3 DEF EndBytes
<1> HIDE DEF held, start
<1>6. p \in Nat /\ start <= p /\ p < w[i].upto
  <2>1. c \in Nat /\ PageFrameBytes * c <= PageFrameBytes * held
    BY <1>1, <1>5 DEF PageFrameBytes
  <2> QED
    BY <1>1, <1>5, <2>1 DEF PageFrameBytes, CommitFrameBytes
<1>7. start = p /\ \A k \in DOMAIN w : k < i => w[k].upto <= p
  <2>1. CASE i = 1
    <3>1. start = HeaderBytes
      BY <2>1 DEF GroupStart, start
    <3>2. p = HeaderBytes
      <4> SUFFICES ASSUME NEW m \in DOMAIN w, p = w[m].upto
                   PROVE  FALSE
        BY DEF Boundaries
      <4>1. m = i \/ i < m
        BY <1>2, <2>1
      <4>2. w[i].upto <= w[m].upto
        BY <1>3, <4>1 DEF Laid
      <4> QED
        BY <1>3, <1>6, <4>2
    <3> QED
      BY <1>2, <2>1, <3>1, <3>2
  <2>2. CASE i # 1
    <3>1. i - 1 \in DOMAIN w /\ start = w[i - 1].upto
      BY <1>2, <2>2 DEF GroupStart, start
    <3>2. start = p
      <4>1. PICK m \in DOMAIN w : p = w[m].upto
        BY <1>3, <1>6, <3>1 DEF Boundaries, HeaderBytes
      <4>2. ~(m = i) /\ ~(i < m)
        BY <1>3, <1>6, <4>1 DEF Laid
      <4>3. m = i - 1 \/ m < i - 1
        BY <1>2, <4>2
      <4>4. w[m].upto <= w[i - 1].upto
        BY <1>3, <3>1, <4>3 DEF Laid
      <4> QED
        BY <1>3, <1>5, <1>6, <3>1, <4>1, <4>4
    <3>3. ASSUME NEW k \in DOMAIN w, k < i
          PROVE  w[k].upto <= p
      <4>1. k = i - 1 \/ k < i - 1
        BY <1>2, <3>3
      <4>2. k < i - 1 => w[k].upto < w[i - 1].upto
        BY <3>1 DEF Laid
      <4>3. w[k].upto \in Nat /\ w[i - 1].upto \in Nat /\ p = w[i - 1].upto
        BY <1>3, <3>1, <3>2
      <4> QED
        BY <4>1, <4>2, <4>3
    <3> QED
      BY <3>2, <3>3
  <2> QED
    BY <2>1, <2>2
<1>8. c = 0
  BY <1>1, <1>5, <1>6, <1>7 DEF PageFrameBytes
<1>9. ASSUME NEW k \in DOMAIN w
      PROVE  (w[k].upto > p <=> i <= k) /\ (w[k].upto > w[i].upto <=> i < k)
  <2>1. k < i \/ k = i \/ i < k
    BY <1>2
  <2>2. (k < i => w[k].upto < w[i].upto) /\ (i < k => w[i].upto < w[k].upto)
    BY DEF Laid
  <2> QED
    BY <1>2, <1>3, <1>6, <1>7, <2>1, <2>2
<1>10. ASSUME NEW n \in Page
       PROVE  Merged(EnteredAt(w, i, c), i .. j)[n] = w[i].images[n]
  <2> DEFINE e == EnteredAt(w, i, 0)
  <2>1. e \in Seq(Group) /\ DOMAIN e = DOMAIN w
    BY EnteredLog
  <2>2. e[i].images[n] = Rest(w[i].images, 0)[n]
    <3>1. w[i] \in Group
      OBVIOUS
    <3> QED
      BY <3>1 DEF EnteredAt, Group
  <2>3. w[i].images[n] # Absent => e[i].images[n] = w[i].images[n]
    <3> DEFINE M == {m \in Held(w[i].images) : m <= n}
    <3> SUFFICES ASSUME w[i].images[n] # Absent
                 PROVE  Cardinality(M) > 0
      BY <2>2 DEF Rest
    <3>1. n \in M
      BY DEF Held, Page
    <3>2. IsFiniteSet(M)
      <4>1. IsFiniteSet(Page)
        BY FS_Interval, MaxPagesAssumption DEF Page
      <4> QED
        BY <4>1, FS_Subset DEF Held
    <3>3. Cardinality(M) \in Nat /\ Cardinality(M) # 0
      BY <3>1, <3>2, FS_CardinalityType, FS_EmptySet
    <3> QED
      BY <3>3
  <2>4. w[i].images[n] = Absent => e[i].images[n] = Absent
    BY <2>2 DEF Rest
  <2>5. i .. i = {i}
    BY <1>2
  <2> HIDE DEF e
  <2>6. Merged(e, {i})[n] = e[i].images[n]
    <3>1. CASE e[i].images[n] # Absent
      <4>1. {i} \in SUBSET DOMAIN e /\ i \in {i} /\ \A k \in {i} : k <= i
        BY <1>2, <2>1
      <4> QED
        BY <2>1, <3>1, <4>1, LatestIsLast
    <3>2. CASE e[i].images[n] = Absent
      BY <3>2, NotHeldNotMerged
    <3> QED
      BY <3>1, <3>2
  <2> QED
    BY <1>4, <1>8, <2>3, <2>4, <2>5, <2>6 DEF e
<1>11. w[i].upto > p
  BY <1>3, <1>6
<1>12. Beyond(w, p) = {k \in DOMAIN w : i <= k} /\ Beyond(w, w[i].upto) = {k \in DOMAIN w : i < k}
  BY <1>9 DEF Beyond
<1> QED
  BY <1>4, <1>10, <1>11, <1>12 DEF IsNextGroup

(* A session that stands before the end of the log has a next batch.        *)
LEMMA NextBatchExists ==
  ASSUME NEW w \in Seq(Group), Laid(w), NEW p \in Boundaries(w), Beyond(w, p) # {},
         NEW end \in Nat, \A k \in Beyond(w, p) : w[k].end = "commit" /\ w[k].upto <= end
  PROVE  \E i \in DOMAIN w : NextBatch(w, p, end, i, 0, i)
<1>1. Len(w) \in Nat /\ DOMAIN w = 1 .. Len(w)
  OBVIOUS
<1>2. \A k \in DOMAIN w : w[k].upto \in Nat /\ HeaderBytes < w[k].upto
  BY SizeOfLog DEF Laid
<1>3. PICK i \in Beyond(w, p) : GroupStart(w, i) = p
  <2>1. CASE p = HeaderBytes
    <3>1. 1 \in DOMAIN w
      BY <1>1 DEF Beyond
    <3>2. 1 \in Beyond(w, p) /\ GroupStart(w, 1) = p
      BY <1>2, <2>1, <3>1 DEF Beyond, GroupStart, HeaderBytes
    <3> QED
      BY <3>2
  <2>2. CASE p # HeaderBytes
    <3>1. PICK m \in DOMAIN w : p = w[m].upto
      BY <2>2 DEF Boundaries
    <3>2. PICK k \in DOMAIN w : w[k].upto > p
      BY DEF Beyond
    <3>3. m < k
      <4>1. ~(k = m) /\ ~(k < m)
        BY <1>2, <3>1, <3>2 DEF Laid
      <4> QED
        BY <1>1, <4>1
    <3>4. m + 1 \in DOMAIN w /\ m < m + 1 /\ m + 1 # 1 /\ (m + 1) - 1 = m
      BY <1>1, <3>3
    <3>5. w[m].upto < w[m + 1].upto
      BY <3>4 DEF Laid
    <3>6. m + 1 \in Beyond(w, p)
      BY <1>2, <3>1, <3>4, <3>5 DEF Beyond
    <3>7. GroupStart(w, m + 1) = p
      BY <3>1, <3>4 DEF GroupStart
    <3> QED
      BY <3>6, <3>7
  <2> QED
    BY <2>1, <2>2
<1>4. i \in DOMAIN w /\ w[i].end = "commit" /\ w[i].upto <= end
  BY DEF Beyond
<1>5. i \in CommitsFrom(w, i) /\ \A k \in i .. (i - 1) : w[k].end # "commit"
  BY <1>1, <1>4 DEF CommitsFrom
<1>6. 0 <= Cardinality(Held(w[i].images))
  BY CardinalityOfHeld
<1>7. GroupStart(w, i) + PageFrameBytes * 0 = p
  <2>1. p \in Nat
    BY <1>2 DEF Boundaries, HeaderBytes
  <2> QED
    BY <1>3, <2>1 DEF PageFrameBytes
<1> QED
  BY <1>4, <1>5, <1>6, <1>7 DEF NextBatch

-----------------------------------------------------------------------------
(* Files *)

LEMMA FlushIntoLength ==
  ASSUME NEW f \in File, NEW pl, NEW d \in SUBSET Page
  PROVE  /\ f.len <= FlushInto(f, pl, d).len
         /\ \A n \in d : n < FlushInto(f, pl, d).len
<1> DEFINE S == {f.len} \cup {n + 1 : n \in d}
<1>1. S \in SUBSET (0 .. MaxPages)
  BY MaxPagesAssumption DEF File, Page
<1>2. Largest(S) \in 0 .. MaxPages /\ \A x \in S : x <= Largest(S)
  BY <1>1, LargestInSet, MaxPagesAssumption
<1>3. FlushInto(f, pl, d).len = Largest(S)
  BY DEF FlushInto
<1>4. f.len <= Largest(S) /\ \A n \in d : n + 1 <= Largest(S)
  BY <1>2
<1> HIDE DEF S
<1>5. \A n \in d : n \in Int
  BY DEF Page
<1> QED
  BY <1>2, <1>3, <1>4, <1>5

(* Recovery puts the images of the log over the file's pages.               *)
LEMMA ReplayedFile ==
  ASSUME NEW w \in Seq(Group), NEW f \in File
  PROVE  /\ Replay(w, f).page \in [Page -> Image]
         /\ \A n \in Page : Replay(w, f).page[n] = IF Images(w)[n] # Absent THEN Images(w)[n]
                                                  ELSE f.page[n]
         /\ f.len <= Replay(w, f).len
         /\ \A n \in Page : Images(w)[n] # Absent => n < Replay(w, f).len
<1> DEFINE S == {f.len} \cup {w[j].num : j \in CommitsFrom(w, 1)}
                  \cup {n + 1 : n \in Held(Images(w))}
<1>1. Replay(w, f).page \in [Page -> Image]
  BY ReplayFile DEF File
<1>2. Replay(w, f) = [len |-> Largest(S), page |-> Overlay(f.page, Images(w))]
  BY DEF Replay, Images
<1>3. \A j \in CommitsFrom(w, 1) : w[j].num \in 0 .. MaxPages
  <2>1. \A j \in CommitsFrom(w, 1) : w[j] \in Group
    BY DEF CommitsFrom
  <2> QED
    BY <2>1 DEF Group
<1>4. S \in SUBSET (0 .. MaxPages)
  BY <1>3, MaxPagesAssumption DEF File, Page, Held
<1>5. Largest(S) \in 0 .. MaxPages /\ \A x \in S : x <= Largest(S)
  BY <1>4, LargestInSet, MaxPagesAssumption
<1>6. \A n \in Page : Images(w)[n] # Absent => n + 1 \in S /\ n \in Int
  BY DEF Held, Page
<1>7. f.len <= Largest(S)
  BY <1>5
<1>8. \A n \in Page : Images(w)[n] # Absent => n < Largest(S)
  <2>1. \A n \in Page : Images(w)[n] # Absent => n + 1 <= Largest(S)
    BY <1>5, <1>6
  <2> QED
    BY <1>5, <1>6, <2>1
<1> QED
  BY <1>1, <1>2, <1>7, <1>8 DEF Overlay

-----------------------------------------------------------------------------
(* The inductive invariant *)

Outside == {"closed", "replayed", "scanned"}
Calm    == Outside \cup {"idle", "auto", "txn"}
Special == {"loaded", "checkpoint", "closing", "lastcheckpoint", "leaving"}

Latest == Recovered(file)

(* The image of page n in a pool, without what the running transaction made *)
(* of it.                                                                   *)
Settled(s, n) == IF n \in touched[s] THEN shadow[s][n] ELSE pool[s][n]

Ahead(s) == IF mode[s] = "loaded" THEN {} ELSE Beyond(log, walPos[s])

(* Session s has yet to adopt an image of page n. *)
Overtaken(s, n) == \E k \in Ahead(s) : log[k].images[n] # Absent

(* The two files differ only where the log will overwrite them.             *)
FilesAgree ==
  \A n \in Page : /\ n >= file.len => file.page[n] = Blank
                  /\ n >= disk.len => disk.page[n] = Blank
                  /\ Images(log)[n] = Absent => disk.page[n] = file.page[n]

Bookkept(s) ==
  /\ touched[s] \subseteq dirty[s] /\ \A n \in touched[s] : n < numPages[s]
  /\ mode[s] \in Outside => pool[s] = NoImages
  /\ mode[s] \in Outside \cup {"loaded"} => dirty[s] = {}

(* A session stands between two batches, and those ahead of it are within   *)
(* the published end of the log.                                            *)
Placed(s) ==
  mode[s] \notin Outside \cup {"loaded"} =>
    /\ walPos[s] \in Boundaries(log)
    /\ \A k \in Ahead(s) : log[k].end = "commit" /\ log[k].upto <= sharedEnd

(* What a session sees is the latest image of each page, but for the pages  *)
(* it has yet to adopt and for its own changes on top.                      *)
SeesLatest(s) ==
  mode[s] \notin Outside => \A n \in Page : ~Overtaken(s, n) =>
    /\ Settled(s, n) # Absent => Settled(s, n) = Latest[n]
    /\ Settled(s, n) = Absent => file.page[n] = Latest[n]
    /\ n \in touched[s] => pool[s][n] = Latest[n] \cup {tx[s]}
    /\ Latest[n] # Blank => n < numPages[s]

SessionOK(s) == Bookkept(s) /\ Placed(s) /\ SeesLatest(s)

(* The file is up to date after a replay and after a flush, until the log   *)
(* is reset; nobody falls behind while it checkpoints or closes.            *)
InFile == {"replayed", "scanned", "loaded", "checkpoint", "lastcheckpoint"}
Ending == {"checkpoint", "closing", "lastcheckpoint", "leaving"}

Current ==
  \A s \in Session :
    /\ mode[s] \in InFile => \A n \in Page : file.page[n] = Latest[n]
    /\ mode[s] \in Ending => HasAdopted(s)

(* Loading, checkpointing and closing exclude each other. *)
Solitary ==
  \A s \in Session :
    /\ mode[s] \in Special => \A o \in Session \ {s} : mode[o] \in Calm
    /\ mode[s] = "closing" => Alone(s)

(* While there are sessions, what the file lacks is dirty in one of them    *)
(* that would write the latest image.                                       *)
Holder(s, n) == n \in dirty[s] /\ ~Overtaken(s, n) /\ Settled(s, n) # Absent

NothingUnheld ==
  (\E s \in Session : mode[s] \notin Outside) =>
    \A n \in Page : file.page[n] # Latest[n] => \E s \in Session : Holder(s, n)

Outcomes ==
  \A t \in Txn :
    /\ fate[t] \in {"unused", "active", "aborted"} => wrote[t] = {}
    /\ fate[t] = "committed" => \A n \in wrote[t] : t \in Latest[n]

DInv ==
  /\ Laid(log) /\ FilesAgree
  /\ \A s \in Session : SessionOK(s)
  /\ Current /\ Solitary /\ NothingUnheld /\ Outcomes

-----------------------------------------------------------------------------
(* Steps that recovery does not notice *)

LEMMA LatestIs ==
  ASSUME Inv
  PROVE  /\ Latest \in [Page -> Image]
         /\ \A n \in Page : Latest[n] = IF Images(log)[n] # Absent THEN Images(log)[n]
                                        ELSE file.page[n]
BY ReplayedFile DEF Inv, TypeOK, Latest, Recovered

LEMMA LatestIsNext ==
  ASSUME Inv'
  PROVE  /\ Latest' \in [Page -> Image]
         /\ \A n \in Page : Latest'[n] = IF Images(log')[n] # Absent THEN Images(log')[n]
                                         ELSE file'.page[n]
BY ReplayedFile DEF Inv, TypeOK, Latest, Recovered

(* To the abstract store the step is a stuttering one. *)
Invisible == Latest' = Latest /\ wrote' = wrote /\ Acknowledged' = Acknowledged

(* What a step of session s has to keep, when it changes neither what       *)
(* recovery rebuilds nor the mode of another session.                       *)
LEMMA StepKeeps ==
  ASSUME Inv, Inv', DInv, NEW s \in Session,
         Laid(log'), FilesAgree', Latest' = Latest,
         \A n \in Page : file'.page[n] \in {file.page[n], Latest[n]},
         \A o \in Session : SessionOK(o)',
         \A o \in Session \ {s} : /\ mode'[o] = mode[o]
                                  /\ mode[o] \in Ending => HasAdopted(o)'
                                  /\ \A n \in Page : Holder(o, n) => Holder(o, n)',
         mode'[s] \in InFile => \A n \in Page : file'.page[n] = Latest[n],
         mode'[s] \in Ending => HasAdopted(s)',
         mode'[s] \in Special => \/ mode[s] \in Special
                                \/ \A o \in Session \ {s} : mode[o] \in Calm,
         mode'[s] = "closing" => mode[s] = "closing" \/ Alone(s),
         mode[s] \in Outside => mode'[s] \in Outside \cup {"loaded"},
         \A n \in Page : Holder(s, n) => file'.page[n] = Latest[n] \/ Holder(s, n)',
         wrote' = wrote, \A t \in Txn : fate'[t] = fate[t] \/ wrote[t] = {}
  PROVE  DInv' /\ Invisible
<1> mode \in [Session -> Modes] /\ mode' \in [Session -> Modes]
  BY DEF Inv, TypeOK
<1>1. Current'
  <2> SUFFICES ASSUME NEW o \in Session
               PROVE  /\ mode'[o] \in InFile => \A n \in Page : file'.page[n] = Latest[n]
                      /\ mode'[o] \in Ending => HasAdopted(o)'
    BY DEF Current
  <2>1. CASE o = s
    BY <2>1
  <2>2. CASE o # s
    BY <2>2 DEF DInv, Current
  <2> QED
    BY <2>1, <2>2
<1>2. Solitary'
  <2>1. ASSUME NEW p \in Session, NEW o \in Session \ {p}, mode'[p] \in Special
        PROVE  mode'[o] \in Calm
    <3>1. CASE p = s
      BY <2>1, <3>1 DEF DInv, Solitary
    <3>2. CASE p # s /\ o # s
      BY <2>1, <3>2 DEF DInv, Solitary
    <3>3. CASE p # s /\ o = s
      <4>1. mode[p] \in Special /\ mode[s] \in Calm
        BY <2>1, <3>3 DEF DInv, Solitary
      <4>2. mode[s] \notin Special
        BY <4>1 DEF Calm, Special, Outside
      <4>3. mode'[s] \notin Special
        BY <3>3, <4>1, <4>2 DEF Calm, Special, Outside
      <4> QED
        BY <3>3, <4>3 DEF Calm, Special, Outside, Modes
    <3> QED
      BY <3>1, <3>2, <3>3
  <2>2. ASSUME NEW p \in Session, mode'[p] = "closing", NEW o \in Session \ {p}
        PROVE  ~Registered(o)'
    <3>1. CASE p = s
      <4>1. Alone(s)
        BY <2>2, <3>1 DEF DInv, Solitary
      <4> QED
        BY <2>2, <3>1, <4>1 DEF Alone, Registered
    <3>2. CASE p # s /\ o # s
      BY <2>2, <3>2 DEF DInv, Solitary, Alone, Registered
    <3>3. CASE p # s /\ o = s
      <4>1. ~Registered(s) /\ mode[s] \in Calm
        BY <2>2, <3>3 DEF DInv, Solitary, Alone, Special
      <4>2. mode[s] \in Outside
        BY <4>1 DEF Registered, Calm, Outside
      <4> QED
        BY <3>3, <4>2 DEF Registered, Outside
    <3> QED
      BY <3>1, <3>2, <3>3
  <2> QED
    BY <2>1, <2>2 DEF Solitary, Alone
<1>3. NothingUnheld'
  <2> SUFFICES ASSUME NEW p \in Session, mode'[p] \notin Outside,
                      NEW n \in Page, file'.page[n] # Latest[n]
               PROVE  \E o \in Session : Holder(o, n)'
    BY DEF NothingUnheld
  <2>1. file.page[n] # Latest[n]
    OBVIOUS
  <2>2. mode[p] \notin Outside
    <3>1. CASE p = s
      BY <3>1 DEF Outside, InFile
    <3>2. CASE p # s
      BY <3>2
    <3> QED
      BY <3>1, <3>2
  <2>3. PICK o \in Session : Holder(o, n)
    BY <2>1, <2>2 DEF DInv, NothingUnheld
  <2> QED
    BY <2>3
<1>4. Outcomes'
  BY DEF DInv, Outcomes
<1>5. Acknowledged' = Acknowledged
  BY DEF Acknowledged
<1> QED
  BY <1>1, <1>2, <1>3, <1>4, <1>5 DEF DInv, Invisible

(* Nothing of session o changes. *)
Unmoved(o) ==
  /\ mode'[o] = mode[o] /\ pool'[o] = pool[o] /\ dirty'[o] = dirty[o]
  /\ touched'[o] = touched[o] /\ shadow'[o] = shadow[o] /\ tx'[o] = tx[o]
  /\ numPages'[o] = numPages[o] /\ walPos'[o] = walPos[o]

LEMMA Bystander ==
  ASSUME Inv, Inv', NEW o \in Session, SessionOK(o), Unmoved(o),
         log' = log, Latest' = Latest, sharedEnd' >= sharedEnd,
         \A n \in Page : file'.page[n] \in {file.page[n], Latest[n]}
  PROVE  /\ SessionOK(o)' /\ (HasAdopted(o) => HasAdopted(o)')
         /\ \A n \in Page : Holder(o, n) => Holder(o, n)'
<1> USE DEF Unmoved
<1>1. Ahead(o)' = Ahead(o)
  BY DEF Ahead
<1>2. \A n \in Page : /\ Overtaken(o, n)' <=> Overtaken(o, n)
                      /\ Settled(o, n)' = Settled(o, n)
  BY <1>1 DEF Overtaken, Settled
<1>3. Bookkept(o)'
  BY DEF SessionOK, Bookkept
<1>4. Placed(o)'
  <2>1. sharedEnd \in Nat /\ sharedEnd' \in Nat
    BY DEF Inv, TypeOK
  <2>2. \A k \in Ahead(o) : log[k].upto \in Nat
    <3>1. \A k \in DOMAIN log : log[k] \in Group
      BY DEF Inv, TypeOK
    <3> QED
      BY <3>1 DEF Ahead, Beyond, Group
  <2> QED
    BY <1>1, <2>1, <2>2 DEF SessionOK, Placed
<1>5. SeesLatest(o)'
  BY <1>2 DEF SessionOK, SeesLatest
<1>6. HasAdopted(o) => HasAdopted(o)'
  BY DEF HasAdopted
<1> QED
  BY <1>2, <1>3, <1>4, <1>5, <1>6 DEF SessionOK, Holder

(* A step of session s that leaves the log alone and writes nothing to the  *)
(* file but latest images.                                                  *)
LEMMA LogKept ==
  ASSUME Inv, Inv', DInv, NEW s \in Session,
         log' = log, disk' = disk, sharedEnd' >= sharedEnd,
         \A n \in Page : file'.page[n] \in {file.page[n], Latest[n]},
         \A n \in Page : n >= file'.len => file'.page[n] = Blank,
         \A o \in Session \ {s} : Unmoved(o)
  PROVE  /\ Laid(log') /\ FilesAgree' /\ Latest' = Latest
         /\ \A o \in Session \ {s} : /\ mode'[o] = mode[o] /\ SessionOK(o)'
                                     /\ mode[o] \in Ending => HasAdopted(o)'
                                     /\ \A n \in Page : Holder(o, n) => Holder(o, n)'
<1>1. Laid(log')
  BY DEF DInv
<1>2. ASSUME NEW n \in Page
      PROVE  Latest'[n] = Latest[n] /\ (Images(log)[n] = Absent => file'.page[n] = file.page[n])
  BY LatestIs, LatestIsNext
<1>3. Latest' = Latest
  BY <1>2, LatestIs, LatestIsNext
<1>4. FilesAgree'
  BY <1>2 DEF DInv, FilesAgree
<1>5. ASSUME NEW o \in Session \ {s}
      PROVE  /\ mode'[o] = mode[o] /\ SessionOK(o)'
             /\ mode[o] \in Ending => HasAdopted(o)'
             /\ \A n \in Page : Holder(o, n) => Holder(o, n)'
  <2>1. SessionOK(o) /\ (mode[o] \in Ending => HasAdopted(o))
    BY DEF DInv, Current
  <2> QED
    BY <1>3, <2>1, Bystander DEF Unmoved
<1> QED
  BY <1>1, <1>3, <1>4, <1>5

(* A file that does not change. *)
LEMMA FileKept ==
  ASSUME Inv, DInv, file' = file
  PROVE  /\ \A n \in Page : file'.page[n] \in {file.page[n], Latest[n]}
         /\ \A n \in Page : n >= file'.len => file'.page[n] = Blank
BY DEF DInv, FilesAgree

(* A step of session s that empties a log whose images are all in the file, *)
(* and syncs the file.                                                      *)
LEMMA LogEmptied ==
  ASSUME Inv, Inv', DInv, NEW s \in Session,
         log' = << >>, file' = file, disk' = file, sharedEnd' = sharedEnd,
         \A n \in Page : file.page[n] = Latest[n],
         \A o \in Session \ {s} : Unmoved(o),
         log # << >> => \A o \in Session \ {s} : mode[o] \in Outside
  PROVE  /\ Laid(log') /\ FilesAgree' /\ Latest' = Latest
         /\ \A o \in Session \ {s} : /\ mode'[o] = mode[o] /\ SessionOK(o)'
                                     /\ mode[o] \in Ending => HasAdopted(o)'
                                     /\ \A n \in Page : Holder(o, n) => Holder(o, n)'
<1>1. Laid(log')
  BY DEF Laid
<1>2. \A n \in Page : Images(log')[n] = Absent
  BY NoImagesInEmptyLog
<1>3. Latest' = Latest
  BY <1>2, LatestIs, LatestIsNext
<1>4. FilesAgree'
  BY DEF DInv, FilesAgree
<1>5. ASSUME NEW o \in Session \ {s}
      PROVE  /\ mode'[o] = mode[o] /\ SessionOK(o)'
             /\ mode[o] \in Ending => HasAdopted(o)'
             /\ \A n \in Page : Holder(o, n) => Holder(o, n)'
  <2>1. Unmoved(o) /\ SessionOK(o) /\ (mode[o] \in Ending => HasAdopted(o))
    BY DEF DInv, Current
  <2>2. CASE log = << >>
    <3>1. sharedEnd' >= sharedEnd
      BY DEF Inv, TypeOK
    <3> QED
      BY <1>3, <2>1, <2>2, <3>1, Bystander DEF Unmoved
  <2>3. CASE log # << >>
    <3>1. mode[o] \in Outside /\ mode'[o] = mode[o]
      BY <2>1, <2>3 DEF Unmoved
    <3>2. dirty[o] = {} /\ pool[o] = NoImages /\ touched[o] = {}
      BY <2>1, <3>1 DEF SessionOK, Bookkept
    <3>3. SessionOK(o)'
      BY <2>1, <3>1, <3>2 DEF Unmoved, SessionOK, Bookkept, Placed, SeesLatest, NoImages
    <3> QED
      BY <3>1, <3>2, <3>3 DEF Holder, Outside, Ending
  <2> QED
    BY <2>2, <2>3
<1> QED
  BY <1>1, <1>3, <1>4, <1>5

-----------------------------------------------------------------------------
(* Opening *)

LEMMA OpenReplayKeeps ==
  ASSUME Inv, Inv', DInv, NEW s \in Session, OpenReplay(s)
  PROVE  DInv' /\ Invisible
<1> USE DEF caches, txnState, history
<1>1. /\ mode[s] = "closed" /\ mode'[s] \in {"replayed", "scanned"}
      /\ file' = Replay(log, file)
      /\ log' = log /\ disk' = disk /\ sharedEnd' = sharedEnd /\ wrote' = wrote /\ fate' = fate
      /\ UNCHANGED <<pool, dirty, touched, shadow, tx, numPages, walPos>>
      /\ \A o \in Session \ {s} : mode'[o] = mode[o]
  BY DEF OpenReplay, Inv, TypeOK
<1>2. \A n \in Page : file'.page[n] = Latest[n]
  BY <1>1 DEF Latest, Recovered
<1>3. \A n \in Page : n >= file'.len => file'.page[n] = Blank
  <2> SUFFICES ASSUME NEW n \in Page, n >= file'.len
               PROVE  file'.page[n] = Blank
    OBVIOUS
  <2>1. /\ file.len \in Int /\ file'.len \in Int /\ n \in Int
        /\ file \in File /\ log \in Seq(Group)
    BY DEF Inv, TypeOK, File, Page
  <2>2. file.len <= file'.len /\ (Images(log)[n] # Absent => n < file'.len)
    BY <1>1, <2>1, ReplayedFile
  <2>3. file'.page[n] = file.page[n]
    BY <1>1, <2>1, <2>2, ReplayedFile
  <2> QED
    BY <2>1, <2>2, <2>3 DEF DInv, FilesAgree
<1>4. \A o \in Session \ {s} : Unmoved(o)
  BY <1>1 DEF Unmoved
<1>5. sharedEnd' >= sharedEnd
  BY <1>1 DEF Inv, TypeOK
<1>6. /\ Laid(log') /\ FilesAgree' /\ Latest' = Latest
      /\ \A o \in Session \ {s} : /\ mode'[o] = mode[o] /\ SessionOK(o)'
                                  /\ mode[o] \in Ending => HasAdopted(o)'
                                  /\ \A n \in Page : Holder(o, n) => Holder(o, n)'
  BY <1>1, <1>2, <1>3, <1>4, <1>5, LogKept
<1>7. pool[s] = NoImages /\ dirty[s] = {} /\ touched[s] = {}
  BY <1>1 DEF DInv, SessionOK, Bookkept, Outside
<1>8. SessionOK(s)'
  BY <1>1, <1>7 DEF SessionOK, Bookkept, Placed, SeesLatest, Outside
<1> QED
  BY <1>1, <1>2, <1>6, <1>7, <1>8, StepKeeps
  DEF Holder, Ending, Special, Outside

(* The catalog page is read from a file that is up to date. *)
LEMMA Loaded ==
  ASSUME Inv, DInv, NEW s \in Session, mode[s] \in {"replayed", "scanned"},
         mode'[s] = "loaded", file' = file, Latest' = Latest,
         numPages'[s] = PagesIn(file),
         \A n \in Page : pool'[s][n] = IF n = 0 THEN file.page[0] ELSE pool[s][n],
         dirty'[s] = dirty[s], touched'[s] = touched[s]
  PROVE  SessionOK(s)'
<1>1. pool[s] = NoImages /\ dirty[s] = {} /\ touched[s] = {}
  BY DEF DInv, SessionOK, Bookkept, Outside
<1>2. \A n \in Page : file.page[n] = Latest[n]
  BY DEF DInv, Current, InFile
<1>3. \A n \in Page : /\ Settled(s, n)' = IF n = 0 THEN file.page[0] ELSE Absent
                      /\ n \notin touched'[s]
  BY <1>1 DEF Settled, NoImages
<1>4. \A n \in Page : Latest[n] # Blank => n < numPages'[s]
  <2> SUFFICES ASSUME NEW n \in Page, Latest[n] # Blank
               PROVE  n < PagesIn(file)
    OBVIOUS
  <2>1. file.len \in Nat /\ n \in Int
    BY DEF Inv, TypeOK, File, Page
  <2>2. n < file.len
    BY <1>2, <2>1 DEF DInv, FilesAgree
  <2> QED
    BY <2>1, <2>2 DEF PagesIn, Larger
<1> QED
  BY <1>1, <1>2, <1>3, <1>4
  DEF SessionOK, Bookkept, Placed, SeesLatest, Outside

LEMMA OpenResetKeeps ==
  ASSUME Inv, Inv', DInv, NEW s \in Session, OpenReset(s), ResetsAlone
  PROVE  DInv' /\ Invisible
<1> USE DEF txnState, history
<1>1. /\ mode[s] \in {"replayed", "scanned"} /\ mode'[s] = "loaded"
      /\ file' = file /\ sharedEnd' = sharedEnd /\ wrote' = wrote /\ fate' = fate
      /\ UNCHANGED <<dirty, touched, shadow, tx, walPos>>
      /\ numPages'[s] = PagesIn(file)
      /\ \A n \in Page : pool'[s][n] = IF n = 0 THEN file.page[0] ELSE pool[s][n]
      /\ \A o \in Session \ {s} : Unmoved(o)
  BY DEF OpenReset, Inv, TypeOK, PageMap, Unmoved
<1>2. \/ log' = << >> /\ disk' = file
      \/ log' = log /\ disk' = disk
  BY DEF OpenReset, Synced
<1>3. \A n \in Page : file.page[n] = Latest[n]
  BY <1>1 DEF DInv, Current, InFile
<1>4. /\ Laid(log') /\ FilesAgree' /\ Latest' = Latest
      /\ \A o \in Session \ {s} : /\ mode'[o] = mode[o] /\ SessionOK(o)'
                                  /\ mode[o] \in Ending => HasAdopted(o)'
                                  /\ \A n \in Page : Holder(o, n) => Holder(o, n)'
  <2>1. CASE log' = << >> /\ disk' = file
    <3>1. log # << >> => \A o \in Session \ {s} : mode[o] \in Outside
      BY <1>1, <2>1 DEF ResetsAlone, Resets, Unmoved, Outside
    <3> QED
      BY <1>1, <1>3, <2>1, <3>1, LogEmptied
  <2>2. CASE log' = log /\ disk' = disk
    <3>1. sharedEnd' >= sharedEnd
      BY <1>1 DEF Inv, TypeOK
    <3> QED
      BY <1>1, <2>2, <3>1, FileKept, LogKept
  <2> QED
    BY <1>2, <2>1, <2>2
<1>5. SessionOK(s)'
  BY <1>1, <1>4, Loaded
<1>6. \A o \in Session \ {s} : mode[o] \in Calm
  BY <1>1 DEF ResetsAlone, Loads, Calm, Outside
<1>7. \A n \in Page : ~Holder(s, n)
  BY <1>1 DEF DInv, SessionOK, Bookkept, Holder, Outside
<1>8. mode[s] \in Outside /\ mode'[s] \notin Ending
  BY <1>1 DEF Outside, Ending
<1> QED
  BY <1>1, <1>3, <1>4, <1>5, <1>6, <1>7, <1>8, StepKeeps

LEMMA OpenRegisterKeeps ==
  ASSUME Inv, Inv', DInv, NEW s \in Session, OpenRegister(s)
  PROVE  DInv' /\ Invisible
<1> USE DEF storage, caches, txnState, history
<1>1. /\ mode[s] = "loaded" /\ mode'[s] = "idle" /\ walPos'[s] = LogSize(log)
      /\ file' = file /\ disk' = disk /\ log' = log /\ sharedEnd' = sharedEnd
      /\ wrote' = wrote /\ fate' = fate
      /\ UNCHANGED <<pool, dirty, touched, shadow, tx, numPages>>
      /\ \A o \in Session \ {s} : Unmoved(o)
  BY DEF OpenRegister, Inv, TypeOK, Unmoved
<1>2. sharedEnd' >= sharedEnd
  BY <1>1 DEF Inv, TypeOK
<1>3. /\ Laid(log') /\ FilesAgree' /\ Latest' = Latest
      /\ \A o \in Session \ {s} : /\ mode'[o] = mode[o] /\ SessionOK(o)'
                                  /\ mode[o] \in Ending => HasAdopted(o)'
                                  /\ \A n \in Page : Holder(o, n) => Holder(o, n)'
  BY <1>1, <1>2, FileKept, LogKept
<1>4. Boundaries(log)' = Boundaries(log) /\ LogSize(log) \in Boundaries(log)
      /\ Ahead(s)' = {} /\ Ahead(s) = {}
  <2>1. LogSize(log) \in Boundaries(log) /\ Beyond(log, LogSize(log)) = {}
    BY SizeOfLog DEF Inv, TypeOK, DInv
  <2> QED
    BY <1>1, <2>1 DEF Ahead
<1>5. SessionOK(s)'
  <2>1. SessionOK(s)
    BY DEF DInv
  <2>2. Bookkept(s)'
    BY <1>1, <2>1 DEF SessionOK, Bookkept, Outside
  <2>3. Placed(s)'
    BY <1>1, <1>4 DEF Placed
  <2>4. SeesLatest(s)'
    BY <1>1, <1>3, <1>4, <2>1 DEF SessionOK, SeesLatest, Overtaken, Settled, Outside
  <2> QED
    BY <2>2, <2>3, <2>4 DEF SessionOK
<1>6. \A n \in Page : ~Holder(s, n)
  BY <1>1 DEF DInv, SessionOK, Bookkept, Holder
<1>7. mode[s] \notin Outside /\ mode'[s] \notin Ending \cup Special \cup InFile
  BY <1>1 DEF Outside, Ending, Special, InFile
<1> QED
  BY <1>1, <1>3, <1>5, <1>6, <1>7, FileKept, StepKeeps

-----------------------------------------------------------------------------
(* Reading *)

(* An evicted page is in the file as it is, or goes there as the latest.    *)
LEMMA ReadKeeps ==
  ASSUME Inv, Inv', DInv, NEW s \in Session, NEW n \in Page, Read(s, n), EvictsSafely
  PROVE  DInv' /\ Invisible
<1> USE DEF caches, txnState, history
<1>1. PICK V \in Victims(s) :
        /\ pool' = [pool EXCEPT ![s] = [m \in Page |-> IF m = n THEN file.page[n]
                                                       ELSE IF m \in V THEN Absent
                                                       ELSE pool[s][m]]]
        /\ file' = WrittenBack(s, V)
        /\ dirty' = [dirty EXCEPT ![s] = @ \ V]
  BY DEF Read
<1>2. /\ mode[s] \in {"idle", "auto", "txn"} /\ pool[s][n] = Absent
      /\ mode' = mode /\ log' = log /\ disk' = disk /\ sharedEnd' = sharedEnd
      /\ wrote' = wrote /\ fate' = fate
      /\ UNCHANGED <<touched, shadow, tx, numPages, walPos>>
  BY DEF Read
<1>3. /\ dirty'[s] = dirty[s] \ V
      /\ \A m \in Page : pool'[s][m] = IF m = n THEN file.page[n]
                                       ELSE IF m \in V THEN Absent ELSE pool[s][m]
      /\ \A o \in Session \ {s} : Unmoved(o)
  BY <1>1, <1>2 DEF Inv, TypeOK, Unmoved
<1>4. V \in SUBSET Cached(pool[s]) /\ (InTxn(s) => V = {}) /\ n \notin V
  BY <1>1, <1>2 DEF Victims, Cached
<1>5. touched[s] \cap V = {} /\ n \notin touched[s] /\ touched[s] \subseteq Page
  BY <1>2, <1>4 DEF Inv, Marks, TypeOK, Cached
<1>6. \A m \in V : /\ m \in Page /\ pool[s][m] # Absent
                   /\ \/ m \in dirty[s] /\ HasAdopted(s)
                      \/ m \notin dirty[s] /\ pool[s][m] = file.page[m]
  <2> SUFFICES ASSUME NEW m \in V
               PROVE  /\ m \in Page /\ pool[s][m] # Absent
                      /\ \/ m \in dirty[s] /\ HasAdopted(s)
                         \/ m \notin dirty[s] /\ pool[s][m] = file.page[m]
    OBVIOUS
  <2>1. mode[s] = "idle" /\ mode'[s] = "idle"
    BY <1>2, <1>4 DEF InTxn
  <2>2. m \in Page /\ pool[s][m] # Absent /\ pool'[s][m] = Absent
    BY <1>3, <1>4 DEF Cached
  <2> QED
    BY <2>1, <2>2 DEF EvictsSafely, Evicted
<1>7. SessionOK(s)
  BY DEF DInv
<1>8. HasAdopted(s) => \A m \in Page : ~Overtaken(s, m)
  <2>1. Beyond(log, LogSize(log)) = {}
    BY SizeOfLog DEF Inv, TypeOK, DInv
  <2> QED
    BY <2>1 DEF HasAdopted, Overtaken, Ahead
<1>9. \A m \in Page : /\ ~Overtaken(s, m) /\ m \notin touched[s] /\ pool[s][m] # Absent
                           => pool[s][m] = Latest[m]
                      /\ ~Overtaken(s, m) /\ m \notin touched[s] /\ pool[s][m] = Absent
                           => file.page[m] = Latest[m]
  BY <1>2, <1>7 DEF SessionOK, SeesLatest, Settled, Outside
<1>10. \A m \in V \cap dirty[s] : pool[s][m] = Latest[m]
  BY <1>5, <1>6, <1>8, <1>9
<1>11. /\ file \in File /\ V \cap dirty[s] \in SUBSET Page
       /\ \A m \in Page : file'.page[m] = IF m \in V \cap dirty[s] THEN pool[s][m]
                                                                   ELSE file.page[m]
  <2>1. file \in File /\ pool[s] \in PageMap /\ V \cap dirty[s] \in SUBSET Cached(pool[s])
    BY <1>4 DEF Inv, TypeOK
  <2> QED
    BY <1>1, <2>1, FlushIntoFile DEF WrittenBack, Cached
<1>12. \A m \in Page : file'.page[m] \in {file.page[m], Latest[m]}
  BY <1>10, <1>11
<1>13. \A m \in Page : m >= file'.len => file'.page[m] = Blank
  <2> SUFFICES ASSUME NEW m \in Page, m >= file'.len
               PROVE  file'.page[m] = Blank
    OBVIOUS
  <2>1. file.len <= file'.len /\ \A k \in V \cap dirty[s] : k < file'.len
    BY <1>1, <1>11, FlushIntoLength DEF WrittenBack
  <2>2. file.len \in Int /\ file'.len \in Int /\ m \in Int
    BY DEF Inv, TypeOK, File, Page
  <2>3. m \notin V \cap dirty[s] /\ m >= file.len
    BY <2>1, <2>2
  <2> QED
    BY <1>11, <2>3 DEF DInv, FilesAgree
<1>14. sharedEnd' >= sharedEnd
  BY <1>2 DEF Inv, TypeOK
<1>15. /\ Laid(log') /\ FilesAgree' /\ Latest' = Latest
       /\ \A o \in Session \ {s} : /\ mode'[o] = mode[o] /\ SessionOK(o)'
                                   /\ mode[o] \in Ending => HasAdopted(o)'
                                   /\ \A m \in Page : Holder(o, m) => Holder(o, m)'
  BY <1>2, <1>3, <1>12, <1>13, <1>14, LogKept
<1>16. \A m \in Page : /\ Overtaken(s, m)' <=> Overtaken(s, m)
                       /\ Settled(s, m)' = IF m = n THEN file.page[n]
                                           ELSE IF m \in V THEN Absent ELSE Settled(s, m)
  <2>1. Ahead(s)' = Ahead(s)
    BY <1>2 DEF Ahead
  <2> QED
    BY <1>2, <1>3, <1>5, <2>1 DEF Overtaken, Settled
<1>17. SessionOK(s)'
  <2>1. Bookkept(s)'
    BY <1>2, <1>3, <1>5, <1>7 DEF SessionOK, Bookkept, Outside
  <2>2. Placed(s)'
    BY <1>2, <1>7 DEF SessionOK, Placed, Ahead
  <2>3. SeesLatest(s)'
    <3> SUFFICES ASSUME NEW m \in Page, ~Overtaken(s, m)
                 PROVE  /\ Settled(s, m)' # Absent => Settled(s, m)' = Latest[m]
                        /\ Settled(s, m)' = Absent => file'.page[m] = Latest[m]
                        /\ m \in touched[s] => pool'[s][m] = Latest[m] \cup {tx[s]}
                        /\ Latest[m] # Blank => m < numPages[s]
      BY <1>2, <1>15, <1>16 DEF SeesLatest
    <3>1. /\ Settled(s, m) # Absent => Settled(s, m) = Latest[m]
          /\ Settled(s, m) = Absent => file.page[m] = Latest[m]
          /\ m \in touched[s] => pool[s][m] = Latest[m] \cup {tx[s]}
          /\ Latest[m] # Blank => m < numPages[s]
      BY <1>2, <1>7 DEF SessionOK, SeesLatest, Outside
    <3>2. m \in touched[s] => pool'[s][m] = Latest[m] \cup {tx[s]}
      BY <1>3, <1>5, <3>1
    <3>3. CASE m = n
      <4>1. file.page[m] = Latest[m]
        BY <1>2, <1>5, <1>9, <3>3
      <4> QED
        BY <1>12, <1>16, <3>1, <3>2, <3>3, <4>1
    <3>4. CASE m \in V /\ m # n
      <4>1. file'.page[m] = Latest[m]
        BY <1>5, <1>6, <1>9, <1>10, <1>11, <3>4
      <4> QED
        BY <1>16, <3>1, <3>2, <3>4, <4>1
    <3>5. CASE m \notin V /\ m # n
      BY <1>12, <1>16, <3>1, <3>2, <3>5
    <3> QED
      BY <3>3, <3>4, <3>5
  <2> QED
    BY <2>1, <2>2, <2>3 DEF SessionOK
<1>18. \A m \in Page : Holder(s, m) => file'.page[m] = Latest[m] \/ Holder(s, m)'
  <2> SUFFICES ASSUME NEW m \in Page, Holder(s, m), file'.page[m] # Latest[m]
               PROVE  Holder(s, m)'
    OBVIOUS
  <2>1. m \in dirty[s] /\ m # n
    BY <1>2 DEF Holder, Inv, Marks, Cached
  <2>2. m \notin V
    BY <1>10, <1>11, <2>1
  <2> QED
    BY <1>3, <1>16, <2>1, <2>2 DEF Holder
<1>19. mode[s] \notin Outside /\ mode'[s] \notin Ending \cup Special \cup InFile
  BY <1>2 DEF Outside, Ending, Special, InFile
<1> QED
  BY <1>2, <1>12, <1>15, <1>17, <1>18, <1>19, StepKeeps

LEMMA RefreshFirstKeeps ==
  ASSUME Inv, Inv', DInv, NEW s \in Session, RefreshFirst(s)
  PROVE  DInv' /\ Invisible
<1> USE DEF storage, caches, txnState, history
<1>1. /\ mode[s] = "idle" /\ mode'[s] = "idle" /\ sharedEnd = 0 /\ sharedEnd' \in Nat
      /\ file' = file /\ disk' = disk /\ log' = log /\ wrote' = wrote /\ fate' = fate
      /\ \A o \in Session : Unmoved(o)
  BY DEF RefreshFirst, MayRefresh, Inv, TypeOK, Unmoved
<1>2. sharedEnd' >= sharedEnd
  BY <1>1
<1>3. /\ Laid(log') /\ FilesAgree' /\ Latest' = Latest
      /\ \A o \in Session \ {s} : /\ mode'[o] = mode[o] /\ SessionOK(o)'
                                  /\ mode[o] \in Ending => HasAdopted(o)'
                                  /\ \A n \in Page : Holder(o, n) => Holder(o, n)'
  BY <1>1, <1>2, FileKept, LogKept
<1>4. SessionOK(s)' /\ \A n \in Page : Holder(s, n) => Holder(s, n)'
  BY <1>1, <1>2, <1>3, FileKept, Bystander DEF DInv
<1>5. mode[s] \notin Outside /\ mode'[s] \notin Ending \cup Special \cup InFile
  BY <1>1 DEF Outside, Ending, Special, InFile
<1> QED
  BY <1>1, <1>3, <1>4, <1>5, FileKept, StepKeeps

(* Session s adopts group i, the first one ahead of it. *)
AdoptsGroup(s, i) ==
  /\ \A n \in Page : pool'[s][n] = IF log[i].images[n] # Absent THEN log[i].images[n]
                                    ELSE pool[s][n]
  /\ dirty'[s] = dirty[s] \ Held(log[i].images)
  /\ numPages'[s] = Larger(numPages[s], log[i].num) /\ walPos'[s] = log[i].upto
  /\ \A o \in Session \ {s} : Unmoved(o)
  /\ Ahead(s) = {k \in DOMAIN log : i <= k} /\ Ahead(s)' = {k \in DOMAIN log : i < k}
  /\ i \in Ahead(s) /\ Ahead(s)' \subseteq Ahead(s)
  /\ \A k \in Ahead(s) : k = i \/ k \in Ahead(s)'

LEMMA RefreshMoves ==
  ASSUME Inv, DInv, NEW s \in Session, Refresh(s)
  PROVE  \E i \in DOMAIN log : AdoptsGroup(s, i)
<1> USE DEF storage, txnState, history
<1>1. PICK i, j \in DOMAIN log, c \in 0 .. MaxPages :
        LET images == Merged(EnteredAt(log, i, c), i .. j) IN
        /\ NextBatch(log, walPos[s], sharedEnd, i, c, j)
        /\ pool' = [pool EXCEPT ![s] = Adopted(@, images)]
        /\ dirty' = [dirty EXCEPT ![s] = @ \ Held(images)]
        /\ numPages' = [numPages EXCEPT ![s] = Larger(@, log[j].num)]
        /\ walPos' = [walPos EXCEPT ![s] = log[j].upto]
  BY DEF Refresh
<1> DEFINE images == Merged(EnteredAt(log, i, c), i .. j)
<1>2. /\ mode[s] = "idle" /\ mode' = mode /\ touched[s] = {}
      /\ file' = file /\ disk' = disk /\ log' = log /\ sharedEnd' = sharedEnd
      /\ wrote' = wrote /\ fate' = fate
      /\ UNCHANGED <<touched, shadow, tx>>
  BY DEF Refresh, MayRefresh, Inv, Marks, InTxn
<1>3. SessionOK(s) /\ Laid(log) /\ log \in Seq(Group)
  BY DEF DInv, Inv, TypeOK
<1>4. walPos[s] \in Boundaries(log) /\ Ahead(s) = Beyond(log, walPos[s])
  BY <1>2, <1>3 DEF SessionOK, Placed, Outside, Ahead
<1>5. /\ j = i /\ log[i].upto > walPos[s]
      /\ Beyond(log, walPos[s]) = {k \in DOMAIN log : i <= k}
      /\ Beyond(log, log[i].upto) = {k \in DOMAIN log : i < k}
      /\ \A n \in Page : images[n] = log[i].images[n]
  <2>1. /\ NextBatch(log, walPos[s], sharedEnd, i, c, j)
        /\ i \in DOMAIN log /\ j \in DOMAIN log /\ c \in 0 .. MaxPages
    BY <1>1
  <2>2. log \in Seq(Group) /\ Laid(log) /\ walPos[s] \in Boundaries(log)
    BY <1>3, <1>4
  <2>3. IsNextGroup(log, walPos[s], i, c, j)
    BY <2>1, <2>2, NextBatchIsGroup
  <2> QED
    BY <2>3 DEF IsNextGroup
<1>6. Held(images) = Held(log[i].images)
  BY <1>5 DEF Held
<1> HIDE DEF images
<1>7. /\ \A n \in Page : pool'[s][n] = IF log[i].images[n] # Absent THEN log[i].images[n]
                                       ELSE pool[s][n]
      /\ dirty'[s] = dirty[s] \ Held(log[i].images)
      /\ numPages'[s] = Larger(numPages[s], log[i].num) /\ walPos'[s] = log[i].upto
      /\ \A o \in Session \ {s} : Unmoved(o)
  BY <1>1, <1>2, <1>5, <1>6 DEF Inv, TypeOK, Unmoved, Adopted, Overlay, images
<1>8. /\ Ahead(s) = {k \in DOMAIN log : i <= k} /\ Ahead(s)' = {k \in DOMAIN log : i < k}
       /\ i \in Ahead(s) /\ Ahead(s)' \subseteq Ahead(s)
       /\ \A k \in Ahead(s) : k = i \/ k \in Ahead(s)'
  <2>1. DOMAIN log \subseteq Int
    BY <1>3
  <2>2. Ahead(s) = {k \in DOMAIN log : i <= k} /\ Ahead(s)' = {k \in DOMAIN log : i < k}
    BY <1>2, <1>4, <1>5, <1>7 DEF Ahead
  <2> QED
    BY <2>1, <2>2
<1> QED
  BY <1>7, <1>8 DEF AdoptsGroup

(* The adopted batch is the next group; the pages it holds that no later    *)
(* group holds are the latest.                                              *)
LEMMA RefreshKeeps ==
  ASSUME Inv, Inv', DInv, NEW s \in Session, Refresh(s)
  PROVE  DInv' /\ Invisible
<1> USE DEF storage, txnState, history
<1>1. PICK i \in DOMAIN log : AdoptsGroup(s, i)
  BY RefreshMoves
<1>2. /\ mode[s] = "idle" /\ mode' = mode /\ touched[s] = {}
      /\ file' = file /\ disk' = disk /\ log' = log /\ sharedEnd' = sharedEnd
      /\ wrote' = wrote /\ fate' = fate
      /\ UNCHANGED <<touched, shadow, tx>>
  BY DEF Refresh, MayRefresh, Inv, Marks, InTxn
<1>3. SessionOK(s) /\ Laid(log) /\ log \in Seq(Group)
  BY DEF DInv, Inv, TypeOK
<1>4. /\ \A n \in Page : pool'[s][n] = IF log[i].images[n] # Absent THEN log[i].images[n]
                                       ELSE pool[s][n]
      /\ dirty'[s] = dirty[s] \ Held(log[i].images)
      /\ numPages'[s] = Larger(numPages[s], log[i].num) /\ walPos'[s] = log[i].upto
      /\ \A o \in Session \ {s} : Unmoved(o)
  BY <1>1 DEF AdoptsGroup
<1>5. sharedEnd' >= sharedEnd
  BY <1>2 DEF Inv, TypeOK
<1>6. /\ Laid(log') /\ FilesAgree' /\ Latest' = Latest
      /\ \A o \in Session \ {s} : /\ mode'[o] = mode[o] /\ SessionOK(o)'
                                  /\ mode[o] \in Ending => HasAdopted(o)'
                                  /\ \A n \in Page : Holder(o, n) => Holder(o, n)'
  BY <1>2, <1>4, <1>5, FileKept, LogKept
<1>7. /\ Ahead(s) = {k \in DOMAIN log : i <= k} /\ Ahead(s)' = {k \in DOMAIN log : i < k}
       /\ i \in Ahead(s) /\ Ahead(s)' \subseteq Ahead(s)
       /\ \A k \in Ahead(s) : k = i \/ k \in Ahead(s)'
  BY <1>1 DEF AdoptsGroup
<1>8. \A n \in Page : Overtaken(s, n) <=> log[i].images[n] # Absent \/ Overtaken(s, n)'
  BY <1>2, <1>7 DEF Overtaken
<1>9. ASSUME NEW n \in Page, log[i].images[n] # Absent, ~Overtaken(s, n)'
       PROVE  Latest[n] = log[i].images[n] /\ n < log[i].num
  <2>1. log[i].end = "commit"
    BY <1>2, <1>3, <1>7 DEF SessionOK, Placed, Outside
  <2>2. i \in Applied(log) /\ Applied(log) \in SUBSET DOMAIN log
    BY <1>3, <2>1, AppliedCommits
  <2>3. \A k \in Applied(log) : log[k].images[n] # Absent => k <= i
    <3> SUFFICES ASSUME NEW k \in DOMAIN log, log[k].images[n] # Absent
                 PROVE  k <= i
      BY <2>2
    <3>1. k \notin Ahead(s)'
      BY <1>2, <1>9 DEF Overtaken
    <3>2. k \in Int /\ i \in Int
      BY <1>3
    <3> QED
      BY <1>7, <3>1, <3>2
  <2>4. Images(log)[n] = log[i].images[n]
    BY <1>3, <1>9, <2>2, <2>3, LatestIsLast DEF Images
  <2>5. n < log[i].num
    BY <1>3, <1>9 DEF Laid, Held
  <2> QED
    BY <1>9, <2>4, <2>5, LatestIs
<1>10. SessionOK(s)'
  <2>1. Bookkept(s)'
    BY <1>2, <1>4 DEF Bookkept, Outside
  <2>2. Placed(s)'
    <3>1. walPos'[s] \in Boundaries(log)
      BY <1>4 DEF Boundaries
    <3> QED
      BY <1>2, <1>3, <1>7, <3>1 DEF SessionOK, Placed, Outside
  <2>3. SeesLatest(s)'
    <3> SUFFICES ASSUME NEW n \in Page, ~Overtaken(s, n)'
                 PROVE  /\ pool'[s][n] # Absent => pool'[s][n] = Latest[n]
                        /\ pool'[s][n] = Absent => file.page[n] = Latest[n]
                        /\ Latest[n] # Blank => n < numPages'[s]
      BY <1>2, <1>6 DEF SeesLatest, Settled
    <3>0. numPages[s] \in Int /\ log[i].num \in Int /\ n \in Int
      <4>1. log[i] \in Group
        BY <1>3
      <4> QED
        BY <4>1 DEF Inv, TypeOK, Group, Page
    <3>1. CASE log[i].images[n] # Absent
      <4>1. n < numPages'[s]
        BY <1>4, <1>9, <3>0, <3>1 DEF Larger
      <4> QED
        BY <1>4, <1>9, <3>1, <4>1
    <3>2. CASE log[i].images[n] = Absent
      <4>1. ~Overtaken(s, n)
        BY <1>8, <3>2
      <4>2. /\ pool[s][n] # Absent => pool[s][n] = Latest[n]
            /\ pool[s][n] = Absent => file.page[n] = Latest[n]
            /\ Latest[n] # Blank => n < numPages[s]
        BY <1>2, <1>3, <4>1 DEF SessionOK, SeesLatest, Settled, Outside
      <4>3. n < numPages[s] => n < numPages'[s]
        BY <1>4, <3>0 DEF Larger
      <4> QED
        BY <1>4, <3>2, <4>2, <4>3
    <3> QED
      BY <3>1, <3>2
  <2> QED
    BY <2>1, <2>2, <2>3 DEF SessionOK
<1>11. \A n \in Page : Holder(s, n) => Holder(s, n)'
  <2> SUFFICES ASSUME NEW n \in Page, Holder(s, n)
               PROVE  Holder(s, n)'
    OBVIOUS
  <2>1. log[i].images[n] = Absent /\ ~Overtaken(s, n)'
    BY <1>8 DEF Holder
  <2> QED
    BY <1>2, <1>4, <2>1 DEF Holder, Held, Settled
<1>12. mode[s] \notin Outside /\ mode'[s] \notin Ending \cup Special \cup InFile
  BY <1>2 DEF Outside, Ending, Special, InFile
<1> QED
  BY <1>2, <1>6, <1>10, <1>11, <1>12, FileKept, StepKeeps

-----------------------------------------------------------------------------
(* Transactions *)

(* A step of session s that touches neither the files nor the log.          *)
LEMMA OwnStepKeeps ==
  ASSUME Inv, Inv', DInv, NEW s \in Session,
         file' = file, disk' = disk, log' = log, sharedEnd' = sharedEnd, wrote' = wrote,
         \A o \in Session \ {s} : Unmoved(o),
         SessionOK(s)', mode[s] \notin Outside, mode'[s] \notin InFile,
         mode'[s] \in Ending => HasAdopted(s)',
         mode'[s] \in Special => \A o \in Session \ {s} : mode[o] \in Calm,
         mode'[s] = "closing" => Alone(s),
         \A n \in Page : Holder(s, n) => file.page[n] = Latest[n] \/ Holder(s, n)',
         \A t \in Txn : fate'[t] = fate[t] \/ wrote[t] = {}
  PROVE  DInv' /\ Invisible
<1>1. sharedEnd' >= sharedEnd
  BY DEF Inv, TypeOK
<1>2. /\ Laid(log') /\ FilesAgree' /\ Latest' = Latest
      /\ \A o \in Session \ {s} : /\ mode'[o] = mode[o] /\ SessionOK(o)'
                                  /\ mode[o] \in Ending => HasAdopted(o)'
                                  /\ \A n \in Page : Holder(o, n) => Holder(o, n)'
  BY <1>1, FileKept, LogKept
<1> QED
  BY <1>2, FileKept, StepKeeps

LEMMA LatestKept == file' = file /\ log' = log => Latest' = Latest
BY DEF Latest, Recovered

LEMMA BeginKeeps ==
  ASSUME Inv, Inv', DInv, NEW s \in Session, NEW how \in {"auto", "txn"}, Begin(s, how)
  PROVE  DInv' /\ Invisible
<1> USE DEF storage, caches
<1>1. PICK t \in Txn : /\ fate[t] = "unused"
                       /\ tx' = [tx EXCEPT ![s] = t]
                       /\ fate' = [fate EXCEPT ![t] = "active"]
  BY DEF Begin, IsNextTxn
<1>2. /\ mode[s] = "idle" /\ mode'[s] = how /\ touched[s] = {}
      /\ file' = file /\ disk' = disk /\ log' = log /\ sharedEnd' = sharedEnd /\ wrote' = wrote
      /\ UNCHANGED <<pool, dirty, touched, shadow, numPages, walPos>>
      /\ \A o \in Session \ {s} : mode'[o] = mode[o]
  <2>1. mode \in [Session -> Modes] /\ (~InTxn(s) => touched[s] = {})
    BY DEF Inv, TypeOK, Marks
  <2> QED
    BY <2>1 DEF Begin, InTxn
<1>3. \A o \in Session \ {s} : Unmoved(o)
  BY <1>1, <1>2 DEF Inv, TypeOK, Unmoved
<1>4. \A u \in Txn : fate'[u] = fate[u] \/ wrote[u] = {}
  BY <1>1 DEF Inv, TypeOK, DInv, Outcomes
<1>5. /\ Latest' = Latest /\ Ahead(s)' = Ahead(s)
      /\ \A n \in Page : /\ Overtaken(s, n)' <=> Overtaken(s, n)
                         /\ Settled(s, n)' = Settled(s, n)
  BY <1>2, LatestKept DEF Ahead, Overtaken, Settled
<1>6. SessionOK(s)'
  BY <1>2, <1>5 DEF DInv, SessionOK, Bookkept, Placed, SeesLatest, Outside
<1>7. \A n \in Page : Holder(s, n) => Holder(s, n)'
  BY <1>2, <1>5 DEF Holder
<1>8. mode[s] \notin Outside /\ mode'[s] \notin Ending \cup Special \cup InFile
  BY <1>2 DEF Outside, Ending, Special, InFile
<1> QED
  BY <1>2, <1>3, <1>4, <1>6, <1>7, <1>8, OwnStepKeeps DEF Ending, Special

(* A page put into the pool has its latest image as pre-image, unless it    *)
(* has none, and that image with the transaction on it as content.          *)
LEMMA PutKeeps ==
  ASSUME Inv, Inv', DInv, NEW s \in Session, NEW n \in Page, NEW img,
         InTxn(s), Put(s, n, img), ~Overtaken(s, n) => img = Latest[n] \cup {tx[s]},
         n < numPages'[s], numPages[s] <= numPages'[s],
         \A o \in Session \ {s} : numPages'[o] = numPages[o],
         UNCHANGED <<file, disk, log, sharedEnd, mode, tx, walPos, fate, wrote>>
  PROVE  DInv' /\ Invisible
<1>1. /\ pool' = [pool EXCEPT ![s][n] = img]
      /\ shadow' = [shadow EXCEPT ![s][n] = ShadowImage(s, n)]
      /\ touched'[s] = touched[s] \cup {n} /\ dirty'[s] = dirty[s] \cup {n}
      /\ \A o \in Session \ {s} : Unmoved(o)
  BY DEF Put, Inv, TypeOK, Unmoved
<1>2. \A m \in Page : /\ pool'[s][m] = IF m = n THEN img ELSE pool[s][m]
                      /\ shadow'[s][m] = IF m = n THEN ShadowImage(s, n) ELSE shadow[s][m]
  BY <1>1 DEF Inv, TypeOK, PageMap
<1>3. /\ Latest' = Latest /\ Ahead(s)' = Ahead(s)
      /\ \A m \in Page : Overtaken(s, m)' <=> Overtaken(s, m)
  BY LatestKept DEF Ahead, Overtaken
<1>4. \A m \in Page : Settled(s, m)' = IF m = n THEN ShadowImage(s, n) ELSE Settled(s, m)
  BY <1>1, <1>2 DEF Settled
<1>5. SessionOK(s) /\ mode[s] \notin Outside \cup Special \cup Ending \cup InFile
  BY DEF DInv, InTxn, Outside, Special, Ending, InFile
<1>6. Settled(s, n) # Absent => ShadowImage(s, n) = Settled(s, n)
  BY DEF ShadowImage, Settled
<1>7. Settled(s, n) = Absent => \/ ShadowImage(s, n) = Absent
                                \/ ShadowImage(s, n) = file.page[n]
  BY DEF ShadowImage, Settled
<1>8. Bookkept(s)'
  <2>1. \A m \in touched[s] : m < numPages'[s]
    <3>1. \A m \in touched[s] : m < numPages[s] /\ m \in Page
      BY <1>5 DEF SessionOK, Bookkept, Inv, TypeOK
    <3>2. numPages[s] \in Int /\ numPages'[s] \in Int /\ \A m \in Page : m \in Int
      BY DEF Inv, TypeOK, Page
    <3> QED
      BY <3>1, <3>2
  <2> QED
    BY <1>1, <1>5, <2>1 DEF SessionOK, Bookkept, Special
<1>9. Placed(s)'
  BY <1>3, <1>5 DEF SessionOK, Placed
<1>10. SeesLatest(s)'
  <2> SUFFICES ASSUME NEW m \in Page, ~Overtaken(s, m)
               PROVE  /\ Settled(s, m)' # Absent => Settled(s, m)' = Latest[m]
                      /\ Settled(s, m)' = Absent => file.page[m] = Latest[m]
                      /\ m \in touched'[s] => pool'[s][m] = Latest[m] \cup {tx[s]}
                      /\ Latest[m] # Blank => m < numPages'[s]
    BY <1>3 DEF SeesLatest
  <2>1. /\ Settled(s, m) # Absent => Settled(s, m) = Latest[m]
        /\ Settled(s, m) = Absent => file.page[m] = Latest[m]
        /\ m \in touched[s] => pool[s][m] = Latest[m] \cup {tx[s]}
        /\ Latest[m] # Blank => m < numPages[s]
    BY <1>5 DEF SessionOK, SeesLatest
  <2>2. Latest[m] # Blank => m < numPages'[s]
    <3>1. numPages[s] \in Int /\ numPages'[s] \in Int /\ m \in Int
      BY DEF Inv, TypeOK, Page
    <3> QED
      BY <2>1, <3>1
  <2>3. CASE m = n
    BY <1>2, <1>4, <1>6, <1>7, <2>1, <2>2, <2>3
  <2>4. CASE m # n
    BY <1>1, <1>2, <1>4, <2>1, <2>2, <2>4
  <2> QED
    BY <2>3, <2>4
<1>11. \A m \in Page : Holder(s, m) => Holder(s, m)'
  BY <1>1, <1>3, <1>4, <1>6 DEF Holder
<1>12. SessionOK(s)'
  BY <1>8, <1>9, <1>10 DEF SessionOK
<1>13. /\ file' = file /\ disk' = disk /\ log' = log /\ sharedEnd' = sharedEnd
       /\ wrote' = wrote /\ fate' = fate /\ mode' = mode
  OBVIOUS
<1>14. mode'[s] \notin InFile \cup Special \cup Ending /\ mode'[s] # "closing"
  BY <1>5, <1>13 DEF Ending
<1> QED
  BY <1>1, <1>5, <1>11, <1>12, <1>13, <1>14, OwnStepKeeps

LEMMA WriteKeeps ==
  ASSUME Inv, Inv', DInv, NEW s \in Session, NEW n \in Page, Write(s, n)
  PROVE  DInv' /\ Invisible
<1> USE DEF storage, history
<1>1. /\ InTxn(s) /\ n < numPages[s] /\ Put(s, n, View(s, n) \cup {tx[s]})
      /\ UNCHANGED <<file, disk, log, sharedEnd, mode, tx, numPages, walPos, fate, wrote>>
  BY DEF Write
<1>2. ~Overtaken(s, n) => View(s, n) \cup {tx[s]} = Latest[n] \cup {tx[s]}
  <2>1. mode[s] \notin Outside
    BY <1>1 DEF InTxn, Outside
  <2> QED
    <3>1. SeesLatest(s) /\ (n \in touched[s] => pool[s][n] # Absent)
      BY DEF DInv, SessionOK, Inv, Marks, Cached
    <3>2. CASE n \in touched[s]
      BY <2>1, <3>1, <3>2 DEF SeesLatest, View
    <3>3. CASE n \notin touched[s]
      BY <2>1, <3>1, <3>3 DEF SeesLatest, Settled, View
    <3> QED
      BY <3>2, <3>3
<1>3. numPages[s] <= numPages'[s]
  BY <1>1 DEF Inv, TypeOK
<1> QED
  BY <1>1, <1>2, <1>3, PutKeeps

LEMMA AllocateKeeps ==
  ASSUME Inv, Inv', DInv, NEW s \in Session, Allocate(s)
  PROVE  DInv' /\ Invisible
<1> USE DEF storage, history
<1>1. /\ InTxn(s) /\ numPages[s] < MaxPages /\ Put(s, numPages[s], {tx[s]})
      /\ numPages'[s] = numPages[s] + 1
      /\ \A o \in Session \ {s} : numPages'[o] = numPages[o]
      /\ UNCHANGED <<file, disk, log, sharedEnd, mode, tx, walPos, fate, wrote>>
  BY DEF Allocate, Inv, TypeOK
<1>2. numPages[s] \in Page /\ numPages[s] \in Nat
  BY <1>1, MaxPagesAssumption DEF Inv, TypeOK, Page
<1>3. ~Overtaken(s, numPages[s]) => {tx[s]} = Latest[numPages[s]] \cup {tx[s]}
  <2>1. mode[s] \notin Outside
    BY <1>1 DEF InTxn, Outside
  <2>2. ~Overtaken(s, numPages[s]) => Latest[numPages[s]] = Blank
    BY <1>2, <2>1 DEF DInv, SessionOK, SeesLatest
  <2> QED
    BY <2>2 DEF Blank
<1>4. numPages[s] < numPages'[s] /\ numPages[s] <= numPages'[s]
  BY <1>1, <1>2
<1> QED
  BY <1>1, <1>2, <1>3, <1>4, PutKeeps

(* The end of a transaction, for its session and for fate. *)
LEMMA EndMoves ==
  ASSUME Inv, NEW s \in Session, InTxn(s), NEW outcome, NEW next, EndTxn(s, outcome, next)
  PROVE  /\ tx[s] \in Txn /\ fate[tx[s]] = "active" /\ mode[s] \in {"auto", "txn"}
         /\ mode'[s] = next /\ touched'[s] = {}
         /\ \A t \in Txn : fate'[t] = IF t = tx[s] THEN outcome ELSE fate[t]
         /\ \A o \in Session \ {s} : /\ mode'[o] = mode[o] /\ touched'[o] = touched[o]
                                     /\ shadow'[o] = shadow[o] /\ tx'[o] = tx[o]
<1>1. tx[s] \in Txn /\ fate[tx[s]] = "active"
  BY DEF Inv, Marks
<1> QED
  BY <1>1 DEF EndTxn, InTxn, Inv, TypeOK

(* The restored pages are clean, but the file has them as they are.         *)
LEMMA AbortKeeps ==
  ASSUME Inv, Inv', DInv, NEW s \in Session, InTxn(s), Restore(s),
         NEW next \in {"idle", "closing", "leaving"}, EndTxn(s, "aborted", next),
         UNCHANGED <<file, disk, log, sharedEnd, numPages, walPos, wrote>>,
         next # "idle" => /\ HasAdopted(s)
                          /\ \A o \in Session \ {s} : mode[o] \in Calm,
         next = "closing" => Alone(s),
         RollsBackCleanPages
  PROVE  DInv' /\ Invisible
<1>1. /\ tx[s] \in Txn /\ fate[tx[s]] = "active" /\ mode[s] \in {"auto", "txn"}
      /\ mode'[s] = next /\ touched'[s] = {}
      /\ \A t \in Txn : fate'[t] = IF t = tx[s] THEN "aborted" ELSE fate[t]
      /\ \A o \in Session \ {s} : /\ mode'[o] = mode[o] /\ touched'[o] = touched[o]
                                  /\ shadow'[o] = shadow[o] /\ tx'[o] = tx[o]
  BY EndMoves
<1>2. /\ dirty'[s] = dirty[s] \ touched[s]
      /\ \A n \in Page : pool'[s][n] = Settled(s, n)
      /\ \A o \in Session \ {s} : pool'[o] = pool[o] /\ dirty'[o] = dirty[o]
  BY DEF Restore, RestoredPool, RestoredDirty, Settled, Inv, TypeOK
<1>3. \A o \in Session \ {s} : Unmoved(o)
  BY <1>1, <1>2 DEF Unmoved
<1>4. SessionOK(s) /\ mode[s] \notin Outside \cup {"loaded"} /\ mode'[s] \notin Outside \cup {"loaded"}
  BY <1>1 DEF DInv, Outside
<1>5. /\ Latest' = Latest /\ Ahead(s)' = Ahead(s)
      /\ \A n \in Page : /\ Overtaken(s, n)' <=> Overtaken(s, n)
                         /\ Settled(s, n)' = Settled(s, n)
  BY <1>1, <1>2, <1>4, LatestKept DEF Ahead, Overtaken, Settled
<1>6. SessionOK(s)'
  BY <1>1, <1>4, <1>5 DEF SessionOK, Bookkept, Placed, SeesLatest
<1>7. ASSUME NEW n \in Page, Holder(s, n)
      PROVE  file.page[n] = Latest[n] \/ Holder(s, n)'
  <2>1. CASE n \in touched[s]
    <3>1. shadow[s][n] \in {Absent, file.page[n]}
      BY <1>1, <2>1 DEF RollsBackCleanPages, Aborts
    <3>2. Settled(s, n) = shadow[s][n] /\ Settled(s, n) = Latest[n]
      BY <1>4, <1>7, <2>1 DEF Holder, Settled, SessionOK, SeesLatest
    <3> QED
      BY <1>7, <3>1, <3>2 DEF Holder
  <2>2. CASE n \notin touched[s]
    BY <1>2, <1>5, <1>7, <2>2 DEF Holder
  <2> QED
    BY <2>1, <2>2
<1>8. \A t \in Txn : fate'[t] = fate[t] \/ wrote[t] = {}
  BY <1>1 DEF DInv, Outcomes
<1>9. mode'[s] \in Special \cup Ending => next # "idle"
  BY <1>1 DEF Special, Ending
<1>10. mode'[s] \notin InFile /\ (HasAdopted(s) => HasAdopted(s)')
  BY <1>1 DEF InFile, HasAdopted
<1>11. /\ mode'[s] \in Ending => HasAdopted(s)'
       /\ mode'[s] \in Special => \A o \in Session \ {s} : mode[o] \in Calm
       /\ mode'[s] = "closing" => Alone(s)
  BY <1>1, <1>9, <1>10
<1>12. file' = file /\ disk' = disk /\ log' = log /\ sharedEnd' = sharedEnd /\ wrote' = wrote
  OBVIOUS
<1> QED
  BY <1>3, <1>4, <1>6, <1>7, <1>8, <1>10, <1>11, <1>12, OwnStepKeeps

LEMMA RollbackKeeps ==
  ASSUME Inv, Inv', DInv, NEW s \in Session, Rollback(s), RollsBackCleanPages
  PROVE  DInv' /\ Invisible
BY AbortKeeps DEF Rollback, storage

LEMMA EmptyCommitKeeps ==
  ASSUME Inv, Inv', DInv, NEW s \in Session, Commit(s), touched[s] = {}
  PROVE  DInv' /\ Invisible
<1> USE DEF caches
<1>1. /\ InTxn(s) /\ EndTxn(s, "committed", "idle")
      /\ UNCHANGED <<file, disk, log, sharedEnd, pool, dirty, numPages, walPos, wrote>>
  BY DEF Commit
<1>2. /\ tx[s] \in Txn /\ fate[tx[s]] = "active" /\ mode[s] \in {"auto", "txn"}
      /\ mode'[s] = "idle" /\ touched'[s] = {}
      /\ \A t \in Txn : fate'[t] = IF t = tx[s] THEN "committed" ELSE fate[t]
      /\ \A o \in Session \ {s} : /\ mode'[o] = mode[o] /\ touched'[o] = touched[o]
                                  /\ shadow'[o] = shadow[o] /\ tx'[o] = tx[o]
  BY <1>1, EndMoves
<1>3. \A o \in Session \ {s} : Unmoved(o)
  BY <1>1, <1>2 DEF Unmoved
<1>4. SessionOK(s) /\ mode[s] \notin Outside \cup {"loaded"}
      /\ mode'[s] \notin Outside \cup {"loaded"} \cup InFile \cup Special \cup Ending
  BY <1>2 DEF DInv, Outside, InFile, Special, Ending
<1>5. /\ Latest' = Latest /\ Ahead(s)' = Ahead(s)
      /\ \A n \in Page : /\ Overtaken(s, n)' <=> Overtaken(s, n)
                         /\ Settled(s, n)' = Settled(s, n)
  BY <1>1, <1>2, <1>4, LatestKept DEF Ahead, Overtaken, Settled
<1>6. SessionOK(s)'
  BY <1>1, <1>2, <1>4, <1>5 DEF SessionOK, Bookkept, Placed, SeesLatest
<1>7. \A n \in Page : Holder(s, n) => Holder(s, n)'
  BY <1>1, <1>5 DEF Holder
<1>8. \A t \in Txn : fate'[t] = fate[t] \/ wrote[t] = {}
  BY <1>2 DEF DInv, Outcomes
<1>9. /\ file' = file /\ disk' = disk /\ log' = log /\ sharedEnd' = sharedEnd /\ wrote' = wrote
      /\ mode'[s] # "closing"
  BY <1>1, <1>2
<1> QED
  BY <1>3, <1>4, <1>6, <1>7, <1>8, <1>9, OwnStepKeeps

-----------------------------------------------------------------------------
(* Checkpoint and close *)

LEMMA AdoptedAll ==
  ASSUME Inv, DInv, NEW s \in Session, HasAdopted(s)
  PROVE  Ahead(s) = {} /\ \A n \in Page : ~Overtaken(s, n)
<1>1. Beyond(log, LogSize(log)) = {}
  BY SizeOfLog DEF Inv, TypeOK, DInv
<1> QED
  BY <1>1 DEF HasAdopted, Overtaken, Ahead

(* Who has adopted everything flushes nothing but latest images. *)
LEMMA FlushedLatest ==
  ASSUME Inv, DInv, NEW s \in Session, mode[s] \notin Outside, ~InTxn(s), HasAdopted(s),
         file' = FlushInto(file, pool[s], dirty[s])
  PROVE  /\ \A n \in Page : file'.page[n] = IF n \in dirty[s] THEN Latest[n] ELSE file.page[n]
         /\ \A n \in Page : n >= file'.len => file'.page[n] = Blank
<1>1. /\ touched[s] = {} /\ file \in File /\ pool[s] \in PageMap /\ dirty[s] \in SUBSET Page
      /\ dirty[s] \in SUBSET Cached(pool[s]) /\ SessionOK(s) /\ FilesAgree
  BY DEF Inv, TypeOK, Marks, DInv
<1>2. \A n \in Page : file'.page[n] = IF n \in dirty[s] THEN pool[s][n] ELSE file.page[n]
  BY <1>1, FlushIntoFile
<1>3. \A n \in dirty[s] : pool[s][n] = Latest[n]
  <2>1. \A n \in dirty[s] : n \in Page /\ pool[s][n] # Absent /\ Settled(s, n) = pool[s][n]
    BY <1>1 DEF Settled, Cached
  <2> QED
    BY <1>1, <2>1, AdoptedAll DEF SessionOK, SeesLatest
<1>4. file.len <= file'.len /\ \A n \in dirty[s] : n < file'.len
  BY <1>1, FlushIntoLength
<1>5. ASSUME NEW n \in Page, n >= file'.len
      PROVE  file'.page[n] = Blank
  <2>1. file.len \in Int /\ file'.len \in Int /\ n \in Int
    <3>1. file' \in File
      BY <1>1, FlushIntoFile
    <3> QED
      BY <1>1, <3>1 DEF File, Page
  <2>2. n \notin dirty[s] /\ n >= file.len
    BY <1>4, <1>5, <2>1
  <2> QED
    BY <1>1, <1>2, <2>2 DEF FilesAgree
<1> QED
  BY <1>2, <1>3, <1>5

(* The only session there is brings the file up to date. *)
LEMMA CheckpointFlushKeeps ==
  ASSUME Inv, Inv', DInv, NEW s \in Session, CheckpointFlush(s), ResetsAlone, FlushesLatest
  PROVE  DInv' /\ Invisible
<1> USE DEF storage, txnState, history
<1>1. /\ Alone(s)
      /\ \/ mode[s] = "idle" /\ mode'[s] = "checkpoint"
         \/ mode[s] = "closing" /\ mode'[s] = "lastcheckpoint"
      /\ file' = FlushInto(file, pool[s], dirty[s]) /\ dirty'[s] = {}
      /\ disk' = disk /\ log' = log /\ sharedEnd' = sharedEnd /\ wrote' = wrote /\ fate' = fate
      /\ UNCHANGED <<pool, touched, shadow, tx, numPages, walPos>>
      /\ \A o \in Session \ {s} : Unmoved(o)
  BY DEF CheckpointFlush, Inv, TypeOK, Unmoved
<1>2. SessionOK(s) /\ mode[s] \notin Outside /\ ~InTxn(s) /\ touched[s] = {}
  BY <1>1 DEF DInv, Outside, InTxn, Inv, Marks
<1>3. HasAdopted(s)
  <2>1. CASE mode[s] = "idle"
    BY <1>1, <2>1 DEF FlushesLatest, Flushes
  <2>2. CASE mode[s] = "closing"
    BY <2>2 DEF DInv, Current, Ending
  <2> QED
    BY <1>1, <2>1, <2>2
<1>4. \A o \in Session \ {s} : mode[o] \in Calm
  <2>1. CASE mode[s] = "idle"
    BY <1>1, <2>1 DEF ResetsAlone, Flushes, Calm, Outside
  <2>2. CASE mode[s] = "closing"
    BY <2>2 DEF DInv, Solitary, Special
  <2> QED
    BY <1>1, <2>1, <2>2
<1>5. \A o \in Session \ {s} : mode[o] \in Outside
  BY <1>1, <1>4 DEF Alone, Registered, Calm
<1>6. /\ \A n \in Page : file'.page[n] = IF n \in dirty[s] THEN Latest[n] ELSE file.page[n]
      /\ \A n \in Page : n >= file'.len => file'.page[n] = Blank
  BY <1>1, <1>2, <1>3, FlushedLatest
<1>7. ASSUME NEW n \in Page
      PROVE  file'.page[n] = Latest[n]
  <2>1. CASE file.page[n] = Latest[n]
    BY <1>6, <2>1
  <2>2. CASE file.page[n] # Latest[n]
    <3>1. PICK o \in Session : Holder(o, n)
      BY <1>2, <2>2 DEF DInv, NothingUnheld
    <3>2. o = s
      BY <1>5, <3>1 DEF Holder, DInv, SessionOK, Bookkept
    <3> QED
      BY <1>6, <3>1, <3>2 DEF Holder
  <2> QED
    BY <2>1, <2>2
<1>8. sharedEnd' >= sharedEnd
  BY <1>1 DEF Inv, TypeOK
<1>9. /\ Laid(log') /\ FilesAgree' /\ Latest' = Latest
      /\ \A o \in Session \ {s} : /\ mode'[o] = mode[o] /\ SessionOK(o)'
                                  /\ mode[o] \in Ending => HasAdopted(o)'
                                  /\ \A n \in Page : Holder(o, n) => Holder(o, n)'
  BY <1>1, <1>6, <1>7, <1>8, LogKept
<1>10. Ahead(s)' = {} /\ Ahead(s) = {} /\ HasAdopted(s)'
  BY <1>1, <1>3, AdoptedAll DEF Ahead, HasAdopted
<1>11. SessionOK(s)'
  <2>1. Bookkept(s)'
    BY <1>1, <1>2 DEF SessionOK, Bookkept, Outside
  <2>2. Placed(s)'
    BY <1>1, <1>2, <1>10 DEF SessionOK, Placed, Outside
  <2>3. SeesLatest(s)'
    <3>1. \A n \in Page : ~Overtaken(s, n) /\ Settled(s, n)' = Settled(s, n)
      BY <1>1, <1>10 DEF Overtaken, Settled
    <3> QED
      BY <1>1, <1>2, <1>7, <1>9, <3>1 DEF SessionOK, SeesLatest
  <2> QED
    BY <2>1, <2>2, <2>3 DEF SessionOK
<1>12. mode'[s] # "closing"
  BY <1>1
<1> QED
  BY <1>1, <1>2, <1>4, <1>6, <1>7, <1>9, <1>10, <1>11, <1>12, StepKeeps

LEMMA CheckpointResetKeeps ==
  ASSUME Inv, Inv', DInv, NEW s \in Session, CheckpointReset(s), ResetsAlone
  PROVE  DInv' /\ Invisible
<1> USE DEF caches, txnState, history
<1>1. /\ \/ mode[s] = "checkpoint" /\ mode'[s] = "idle"
         \/ mode[s] = "lastcheckpoint" /\ mode'[s] = "leaving"
      /\ log' = << >> /\ disk' = file /\ walPos'[s] = HeaderBytes
      /\ file' = file /\ sharedEnd' = sharedEnd /\ wrote' = wrote /\ fate' = fate
      /\ UNCHANGED <<pool, dirty, touched, shadow, tx, numPages>>
      /\ \A o \in Session \ {s} : Unmoved(o)
  BY DEF CheckpointReset, Synced, Inv, TypeOK, Unmoved
<1>2. /\ SessionOK(s) /\ HasAdopted(s) /\ mode[s] \in Special
      /\ mode[s] \notin Outside \cup {"loaded"}
      /\ mode'[s] \notin Outside \cup {"loaded", "closing"} \cup InFile
      /\ \A n \in Page : file.page[n] = Latest[n]
  BY <1>1 DEF DInv, Current, Ending, InFile, Special, Outside
<1>3. log # << >> => \A o \in Session \ {s} : mode[o] \in Outside
  BY <1>1 DEF ResetsAlone, Resets, Unmoved, Outside
<1>4. /\ Laid(log') /\ FilesAgree' /\ Latest' = Latest
      /\ \A o \in Session \ {s} : /\ mode'[o] = mode[o] /\ SessionOK(o)'
                                  /\ mode[o] \in Ending => HasAdopted(o)'
                                  /\ \A n \in Page : Holder(o, n) => Holder(o, n)'
  BY <1>1, <1>2, <1>3, LogEmptied
<1>5. HasAdopted(s)' /\ Ahead(s)' = {} /\ HeaderBytes \in Boundaries(log')
  BY <1>1, <1>2 DEF HasAdopted, LogSize, Ahead, Beyond, Boundaries
<1>6. \A n \in Page : ~Overtaken(s, n) /\ ~Overtaken(s, n)' /\ Settled(s, n)' = Settled(s, n)
  BY <1>1, <1>2, <1>5, AdoptedAll DEF Overtaken, Settled
<1>7. SessionOK(s)'
  <2>1. Bookkept(s)'
    BY <1>1, <1>2 DEF SessionOK, Bookkept
  <2>2. Placed(s)'
    BY <1>1, <1>5 DEF Placed
  <2>3. SeesLatest(s)'
    BY <1>1, <1>2, <1>4, <1>6 DEF SessionOK, SeesLatest
  <2> QED
    BY <2>1, <2>2, <2>3 DEF SessionOK
<1>8. mode'[s] # "closing"
  BY <1>2
<1> QED
  BY <1>1, <1>2, <1>4, <1>5, <1>7, <1>8, StepKeeps

LEMMA CloseKeeps ==
  ASSUME Inv, Inv', DInv, NEW s \in Session, Close(s),
         RollsBackCleanPages, ResetsAlone, FlushesLatest
  PROVE  DInv' /\ Invisible
<1> USE DEF storage, caches, txnState
<1>1. PICK next \in {"closing", "leaving"} :
        /\ next = "closing" => Alone(s)
        /\ \/ /\ mode[s] = "idle"
              /\ mode' = [mode EXCEPT ![s] = next]
              /\ UNCHANGED <<writer, caches, txnState, fate>>
           \/ /\ mode[s] = "txn"
              /\ Restore(s)
              /\ EndTxn(s, "aborted", next)
  BY DEF Close
<1>2. /\ file' = file /\ disk' = disk /\ log' = log /\ sharedEnd' = sharedEnd /\ wrote' = wrote
      /\ UNCHANGED <<numPages, walPos>> /\ mode[s] \in {"idle", "txn"} /\ mode'[s] = next
      /\ SessionOK(s)
  BY <1>1 DEF Close, EndTxn, Inv, TypeOK, DInv
<1>3. HasAdopted(s) /\ \A o \in Session \ {s} : mode[o] \in Calm
  <2>1. Flushes(s)
    BY <1>1, <1>2 DEF Flushes
  <2> QED
    BY <2>1 DEF FlushesLatest, ResetsAlone, Calm, Outside
<1>4. CASE /\ mode[s] = "idle"
           /\ mode' = [mode EXCEPT ![s] = next]
           /\ UNCHANGED <<writer, caches, txnState, fate>>
  <2>1. \A o \in Session \ {s} : Unmoved(o)
    BY <1>2, <1>4 DEF Inv, TypeOK, Unmoved
  <2>2. /\ Latest' = Latest /\ Ahead(s)' = Ahead(s) /\ HasAdopted(s)'
        /\ \A n \in Page : /\ Overtaken(s, n)' <=> Overtaken(s, n)
                           /\ Settled(s, n)' = Settled(s, n)
    BY <1>1, <1>2, <1>3, <1>4, LatestKept DEF Ahead, HasAdopted, Overtaken, Settled
  <2>3. /\ mode[s] \notin Outside \cup {"loaded"} /\ mode'[s] \notin Outside \cup {"loaded"}
        /\ mode'[s] \notin InFile
    BY <1>1, <1>2 DEF Outside, InFile
  <2>4. SessionOK(s)'
    BY <1>2, <1>4, <2>2, <2>3 DEF SessionOK, Bookkept, Placed, SeesLatest
  <2>5. \A n \in Page : Holder(s, n) => Holder(s, n)'
    BY <1>4, <2>2 DEF Holder
  <2>6. fate' = fate /\ (mode'[s] = "closing" => Alone(s))
    BY <1>1, <1>2, <1>4
  <2> QED
    BY <1>2, <1>3, <2>1, <2>2, <2>3, <2>4, <2>5, <2>6, OwnStepKeeps
<1>5. CASE mode[s] = "txn" /\ Restore(s) /\ EndTxn(s, "aborted", next)
  <2>1. InTxn(s) /\ UNCHANGED <<file, disk, log, sharedEnd, numPages, walPos, wrote>>
    BY <1>2, <1>5 DEF InTxn
  <2> QED
    BY <1>1, <1>3, <1>5, <2>1, AbortKeeps
<1> QED
  BY <1>1, <1>4, <1>5

(* No session opens while the last one is closing. *)
LEMMA NoCloseRefused ==
  ASSUME DInv, NEW s \in Session
  PROVE  ~CloseRefused(s)
BY DEF DInv, Solitary, CloseRefused

(* A session that leaves has written to the file what only it held. *)
LEMMA LeaveKeeps ==
  ASSUME Inv, Inv', DInv, NEW s \in Session, Leave(s)
  PROVE  DInv' /\ Invisible
<1> USE DEF history
<1>1. /\ mode[s] = "leaving" /\ mode'[s] = "closed"
      /\ file' = FlushInto(file, pool[s], dirty[s])
      /\ disk' = disk /\ log' = log /\ sharedEnd' = sharedEnd /\ wrote' = wrote /\ fate' = fate
      /\ pool'[s] = NoImages /\ dirty'[s] = {} /\ touched'[s] = {}
      /\ \A o \in Session \ {s} : Unmoved(o)
  BY DEF Leave, Forget, Inv, TypeOK, Unmoved
<1>2. mode[s] \notin Outside /\ ~InTxn(s) /\ HasAdopted(s) /\ SessionOK(s)
  BY <1>1 DEF Outside, InTxn, DInv, Current, Ending
<1>3. /\ \A n \in Page : file'.page[n] = IF n \in dirty[s] THEN Latest[n] ELSE file.page[n]
      /\ \A n \in Page : n >= file'.len => file'.page[n] = Blank
  BY <1>1, <1>2, FlushedLatest
<1>4. sharedEnd' >= sharedEnd
  BY <1>1 DEF Inv, TypeOK
<1>5. /\ Laid(log') /\ FilesAgree' /\ Latest' = Latest
      /\ \A o \in Session \ {s} : /\ mode'[o] = mode[o] /\ SessionOK(o)'
                                  /\ mode[o] \in Ending => HasAdopted(o)'
                                  /\ \A n \in Page : Holder(o, n) => Holder(o, n)'
  BY <1>1, <1>3, <1>4, LogKept
<1>6. SessionOK(s)'
  BY <1>1 DEF SessionOK, Bookkept, Placed, SeesLatest, Outside
<1>7. mode'[s] \notin InFile \cup Ending \cup Special /\ mode'[s] \in Outside
  BY <1>1 DEF InFile, Ending, Special, Outside
<1>8. \A n \in Page : Holder(s, n) => file'.page[n] = Latest[n]
  BY <1>3 DEF Holder
<1>9. mode'[s] # "closing"
  BY <1>1
<1> QED
  BY <1>1, <1>2, <1>3, <1>5, <1>6, <1>7, <1>8, <1>9, StepKeeps

-----------------------------------------------------------------------------
(* Commits *)

(* Behind a whole log, the batch of a session that has adopted everything   *)
(* gives recovery the transaction on all its pages; a fragment, on none.    *)
LEMMA LoggedBatch ==
  ASSUME Inv, DInv, NEW s \in Session, InTxn(s), Whole(log), HasAdopted(s),
         NEW images \in PageMap, NEW how \in {"commit", "none", "torn"},
         how = "commit" => images = Batch(s),
         \A n \in Page : images[n] # Absent => images[n] = Batch(s)[n],
         how = "none" => Held(images) # {},
         log' = AppendGroup(log, images, numPages[s], how)
  PROVE  /\ Laid(log') /\ log' # << >> /\ log' # log
         /\ LogSize(log') = log'[Len(log')].upto /\ log'[Len(log')].end = how
         /\ LogSize(log) < LogSize(log')
         /\ \A n \in Page : Images(log')[n] =
              IF how = "commit" /\ n \in touched[s] THEN Latest[n] \cup {tx[s]}
                                                    ELSE Images(log)[n]
<1>1. /\ log \in Seq(Group) /\ Laid(log) /\ numPages[s] \in 0 .. MaxPages
      /\ touched[s] \in SUBSET Cached(pool[s]) /\ SessionOK(s)
  BY DEF Inv, TypeOK, DInv, Marks
<1>2. \A n \in Page : images[n] # Absent => n \in touched[s]
  BY DEF Batch
<1>3. \A n \in Held(images) : n < numPages[s]
  BY <1>1, <1>2 DEF Held, SessionOK, Bookkept
<1>4. /\ Laid(log')
      /\ log'[Len(log')].end = how /\ LogSize(log') = log'[Len(log')].upto
      /\ LogSize(log) < LogSize(log')
      /\ \A n \in Page : Images(log')[n] =
           IF how = "commit" /\ images[n] # Absent THEN images[n] ELSE Images(log)[n]
  BY <1>1, <1>3, AppendedLog
<1>5. log' # << >> /\ log' # log
  <2>1. Len(log') = Len(log) + 1 /\ log' # << >>
    <3>1. Longer(log', log, images)
      BY <1>1, AppendedGroup
    <3> QED
      BY <3>1 DEF Longer
  <2>2. Len(log) \in Nat
    BY <1>1
  <2> QED
    BY <2>1, <2>2
<1>6. \A n \in touched[s] : pool[s][n] = Latest[n] \cup {tx[s]} /\ pool[s][n] # Absent
  <2>1. mode[s] \notin Outside
    BY DEF InTxn, Outside
  <2> QED
    BY <1>1, <2>1, AdoptedAll DEF SessionOK, SeesLatest, Cached
<1>7. ASSUME NEW n \in Page
      PROVE  Images(log')[n] = IF how = "commit" /\ n \in touched[s] THEN Latest[n] \cup {tx[s]}
                                                                   ELSE Images(log)[n]
  <2>1. CASE how = "commit" /\ n \in touched[s]
    <3>1. images[n] = pool[s][n] /\ images[n] # Absent
      BY <1>6, <2>1 DEF Batch
    <3> QED
      BY <1>4, <1>6, <2>1, <3>1
  <2>2. CASE ~(how = "commit" /\ n \in touched[s])
    BY <1>2, <1>4, <2>2
  <2> QED
    BY <2>1, <2>2
<1> QED
  BY <1>4, <1>5, <1>7

LEMMA CommitMoves ==
  ASSUME Inv, Inv', DInv, NEW s \in Session, Commit(s), touched[s] # {},
         AppendsToWholeLog, CommitsOnLatest, CommitsInQuiet
  PROVE  /\ InTxn(s) /\ HasAdopted(s) /\ Quiet
         /\ Laid(log') /\ log' \in Seq(Group) /\ LogSize(log) < LogSize(log')
         /\ log'[Len(log) + 1].end = "commit" /\ log'[Len(log) + 1].upto = LogSize(log')
         /\ \A n \in Page : log'[Len(log) + 1].images[n] # Absent <=> n \in touched[s]
         /\ \A k \in DOMAIN log : k \in DOMAIN log' /\ log'[k] = log[k]
         /\ \A k \in DOMAIN log' : k \in DOMAIN log \/ k = Len(log) + 1
         /\ Len(log) + 1 \in DOMAIN log'
         /\ \A n \in Page : Images(log')[n] =
              IF n \in touched[s] THEN Latest[n] \cup {tx[s]} ELSE Images(log)[n]
<1>1. /\ InTxn(s) /\ log' = AppendGroup(log, Batch(s), numPages[s], "commit")
      /\ Batch(s) \in PageMap /\ log \in Seq(Group) /\ log' \in Seq(Group)
      /\ numPages[s] \in 0 .. MaxPages
  BY BatchOfPool DEF Commit, Inv, TypeOK
<1>2. /\ Len(log') = Len(log) + 1 /\ log' # << >>
      /\ \A i \in DOMAIN log : log'[i] = log[i]
      /\ log'[Len(log')].images = Batch(s)
  <2> DEFINE how == "commit"
             im == Batch(s)
             num == numPages[s]
  <2>1. /\ how \in {"commit", "none", "torn"} /\ im \in PageMap /\ num \in 0 .. MaxPages
        /\ log \in Seq(Group) /\ log' = AppendGroup(log, im, num, how)
    BY <1>1
  <2> HIDE DEF how, im, num
  <2>2. /\ Len(log') = Len(log) + 1 /\ log' # << >>
        /\ \A i \in DOMAIN log : log'[i] = log[i]
        /\ log'[Len(log')].images = im
    <3>1. Longer(log', log, im)
      BY <2>1, AppendedGroup
    <3> QED
      BY <3>1 DEF Longer
  <2> QED
    BY <2>1, <2>2 DEF im
<1>3. Len(log) \in Nat /\ log' # << >> /\ log' # log
  <2>1. Len(log) \in Nat
    BY <1>1
  <2> QED
    BY <1>1, <1>2, <2>1
<1>4. Appends(s)
  BY <1>1, <1>3 DEF Appends
<1>5. HasAdopted(s) /\ Whole(log) /\ Quiet
  BY <1>4 DEF CommitsOnLatest, AppendsToWholeLog, CommitsInQuiet, Whole
<1>6. /\ Laid(log')
      /\ LogSize(log') = log'[Len(log')].upto /\ log'[Len(log')].end = "commit"
      /\ LogSize(log) < LogSize(log')
      /\ \A n \in Page : Images(log')[n] =
           IF n \in touched[s] THEN Latest[n] \cup {tx[s]} ELSE Images(log)[n]
  <2> DEFINE how == "commit"
  <2>1. /\ how \in {"commit", "none", "torn"} /\ (how = "commit" => Batch(s) = Batch(s))
        /\ \A n \in Page : Batch(s)[n] # Absent => Batch(s)[n] = Batch(s)[n]
        /\ how = "none" => Held(Batch(s)) # {}
        /\ log' = AppendGroup(log, Batch(s), numPages[s], how)
    BY <1>1
  <2> HIDE DEF how
  <2>2. /\ Laid(log')
        /\ LogSize(log') = log'[Len(log')].upto /\ log'[Len(log')].end = how
        /\ LogSize(log) < LogSize(log')
        /\ \A n \in Page : Images(log')[n] =
             IF how = "commit" /\ n \in touched[s] THEN Latest[n] \cup {tx[s]}
                                                   ELSE Images(log)[n]
    BY <1>1, <1>5, <2>1, LoggedBatch
  <2> QED
    BY <2>2 DEF how
<1>7. Len(log') = Len(log) + 1 /\ \A n \in Page : log'[Len(log')].images[n] = Batch(s)[n]
  BY <1>1, <1>2
<1>8. /\ \A k \in DOMAIN log : k \in DOMAIN log' /\ log'[k] = log[k]
      /\ \A k \in DOMAIN log' : k \in DOMAIN log \/ k = Len(log) + 1
      /\ Len(log) + 1 \in DOMAIN log'
  <2>1. DOMAIN log = 1 .. Len(log) /\ DOMAIN log' = 1 .. (Len(log) + 1)
    BY <1>1, <1>7
  <2> QED
    BY <1>1, <1>2, <1>3, <2>1
<1>9. \A n \in Page : Batch(s)[n] # Absent <=> n \in touched[s]
  BY DEF Batch, Inv, Marks, Cached
<1>10. log'[Len(log) + 1].end = "commit" /\ log'[Len(log) + 1].upto = LogSize(log')
  BY <1>6, <1>7
<1>11. \A n \in Page : log'[Len(log) + 1].images[n] # Absent <=> n \in touched[s]
  BY <1>7, <1>9
<1> QED
  BY <1>1, <1>5, <1>6, <1>8, <1>10, <1>11

(* To the abstract store a commit is the acknowledged installation of the   *)
(* transaction on the pages it touched.                                     *)
LEMMA CommitKeeps ==
  ASSUME Inv, Inv', DInv, NEW s \in Session, Commit(s), touched[s] # {},
         AppendsToWholeLog, CommitsOnLatest, CommitsInQuiet
  PROVE  DInv' /\ AfterDeath!Acknowledge(tx[s], touched[s])
<1> USE DEF caches
<1> DEFINE L == Len(log) + 1
           T == touched[s]
           t == tx[s]
<1>1. /\ InTxn(s) /\ HasAdopted(s) /\ Quiet
      /\ Laid(log') /\ log' \in Seq(Group) /\ LogSize(log) < LogSize(log')
      /\ log'[L].end = "commit" /\ log'[L].upto = LogSize(log')
      /\ \A n \in Page : log'[L].images[n] # Absent <=> n \in T
      /\ \A k \in DOMAIN log : k \in DOMAIN log' /\ log'[k] = log[k]
      /\ \A k \in DOMAIN log' : k \in DOMAIN log \/ k = L
      /\ L \in DOMAIN log'
      /\ \A n \in Page : Images(log')[n] =
           IF n \in T THEN Latest[n] \cup {t} ELSE Images(log)[n]
  BY CommitMoves
<1> HIDE DEF L
<1>2. /\ EndTxn(s, "committed", "idle")
      /\ file' = file /\ disk' = disk /\ UNCHANGED <<pool, dirty, numPages>>
      /\ walPos' = [walPos EXCEPT ![s] = LogSize(log')]
      /\ sharedEnd' = Larger(sharedEnd, LogSize(log'))
      /\ wrote' = [wrote EXCEPT ![t] = T]
  BY DEF Commit
<1>3. /\ t \in Txn /\ fate[t] = "active" /\ mode[s] \in {"auto", "txn"}
      /\ mode'[s] = "idle" /\ touched'[s] = {}
      /\ \A u \in Txn : fate'[u] = IF u = t THEN "committed" ELSE fate[u]
      /\ \A o \in Session \ {s} : /\ mode'[o] = mode[o] /\ touched'[o] = touched[o]
                                  /\ shadow'[o] = shadow[o] /\ tx'[o] = tx[o]
  BY <1>1, <1>2, EndMoves
<1>4. /\ \A u \in Txn : wrote'[u] = IF u = t THEN T ELSE wrote[u]
      /\ walPos'[s] = LogSize(log') /\ \A o \in Session \ {s} : walPos'[o] = walPos[o]
      /\ T \in SUBSET Page
  BY <1>2, <1>3 DEF Inv, TypeOK
<1>5. /\ sharedEnd \in Nat /\ LogSize(log) \in Nat /\ LogSize(log') \in Nat
      /\ sharedEnd <= sharedEnd' /\ LogSize(log') <= sharedEnd'
      /\ \A k \in DOMAIN log : log[k].upto \in Nat /\ log[k].upto <= LogSize(log)
      /\ LogSize(log') \in Boundaries(log') /\ Beyond(log', LogSize(log')) = {}
  <2>1. log \in Seq(Group) /\ sharedEnd \in Nat
    BY DEF Inv, TypeOK
  <2>2. LogSize(log) \in Nat /\ LogSize(log') \in Nat
    BY <1>1, <2>1, LogSizeNat
  <2>3. sharedEnd <= sharedEnd' /\ LogSize(log') <= sharedEnd'
    BY <1>2, <2>1, <2>2 DEF Larger
  <2> QED
    BY <1>1, <2>1, <2>2, <2>3, SizeOfLog DEF DInv
<1>6. /\ \A n \in Page : Latest'[n] = IF n \in T THEN Latest[n] \cup {t} ELSE Latest[n]
      /\ \A n \in Page : ~Overtaken(s, n)
      /\ \A n \in T : Latest[n] \cup {t} # Absent
  <2>1. \A n \in T : Latest[n] \cup {t} # Absent
    BY <1>3, <1>4, LatestIs, AbsentAssumption DEF Image
  <2> QED
    BY <1>1, <1>2, <2>1, LatestIs, LatestIsNext, AdoptedAll
<1>7. FilesAgree'
  <2>1. \A n \in Page : Images(log')[n] = Absent => Images(log)[n] = Absent
    BY <1>1, <1>6
  <2> QED
    BY <1>2, <2>1 DEF DInv, FilesAgree
<1>8. /\ SessionOK(s) /\ T \subseteq dirty[s] /\ \A n \in T : n < numPages[s] /\ pool[s][n] # Absent
      /\ \A n \in T : pool[s][n] = Latest[n] \cup {t}
      /\ mode[s] \notin Outside
  BY <1>1, <1>3, <1>4, <1>6 DEF DInv, SessionOK, Bookkept, SeesLatest, Outside, Inv, Marks, Cached
<1>9. /\ Ahead(s)' = {} /\ \A n \in Page : ~Overtaken(s, n)'
      /\ \A n \in Page : Settled(s, n)' = IF n \in T THEN pool[s][n] ELSE Settled(s, n)
  BY <1>2, <1>3, <1>4, <1>5 DEF Ahead, Overtaken, Settled
<1>10. SessionOK(s)'
  <2>1. Bookkept(s)'
    BY <1>3 DEF Bookkept, Outside
  <2>2. Placed(s)'
    BY <1>4, <1>5, <1>9 DEF Placed
  <2>3. SeesLatest(s)'
    <3> SUFFICES ASSUME NEW n \in Page
                 PROVE  /\ Settled(s, n)' # Absent => Settled(s, n)' = Latest'[n]
                        /\ Settled(s, n)' = Absent => file'.page[n] = Latest'[n]
                        /\ Latest'[n] # Blank => n < numPages'[s]
      BY <1>3 DEF SeesLatest
    <3>1. CASE n \in T
      BY <1>2, <1>6, <1>8, <1>9, <3>1
    <3>2. CASE n \notin T
      BY <1>2, <1>6, <1>8, <1>9, <3>2 DEF SessionOK, SeesLatest
    <3> QED
      BY <3>1, <3>2
  <2> QED
    BY <2>1, <2>2, <2>3 DEF SessionOK
<1>11. ASSUME NEW o \in Session \ {s}
       PROVE  /\ SessionOK(o)' /\ mode'[o] \in {"closed", "idle", "auto", "txn"}
              /\ \A n \in Page \ T : Holder(o, n) => Holder(o, n)'
  <2>1. /\ mode'[o] = mode[o] /\ mode[o] \in {"closed", "idle", "auto", "txn"} /\ SessionOK(o)
        /\ walPos'[o] = walPos[o] /\ walPos[o] \in Nat
        /\ UNCHANGED <<pool, dirty, numPages>>
        /\ touched'[o] = touched[o] /\ shadow'[o] = shadow[o] /\ tx'[o] = tx[o]
    BY <1>1, <1>2, <1>3, <1>4 DEF Quiet, DInv, Inv, TypeOK
  <2>2. Bookkept(o)' /\ \A n \in Page : Settled(o, n)' = Settled(o, n)
    BY <2>1 DEF SessionOK, Bookkept, Settled
  <2>3. CASE mode[o] = "closed"
    <3>1. SessionOK(o)'
      BY <2>1, <2>2, <2>3 DEF SessionOK, Placed, SeesLatest, Outside
    <3>2. dirty[o] = {}
      BY <2>1, <2>3 DEF SessionOK, Bookkept, Outside
    <3> QED
      BY <2>1, <3>1, <3>2 DEF Holder
  <2>4. CASE mode[o] # "closed"
    <3>1. /\ mode[o] \notin Outside \cup {"loaded"} /\ walPos[o] \in Boundaries(log)
          /\ \A k \in Ahead(o) : log[k].end = "commit" /\ log[k].upto <= sharedEnd
          /\ \A k : k \in Ahead(o) <=> k \in DOMAIN log /\ log[k].upto > walPos[o]
          /\ \A k : k \in Ahead(o)' <=> k \in DOMAIN log' /\ log'[k].upto > walPos[o]
      BY <2>1, <2>4 DEF SessionOK, Placed, Outside, Ahead, Beyond
    <3>2. walPos[o] <= LogSize(log)
      <4>1. HeaderBytes <= LogSize(log)
        BY SizeOfLog DEF Inv, TypeOK, DInv
      <4> QED
        BY <1>5, <3>1, <4>1 DEF Boundaries
    <3>3. \A k \in DOMAIN log' : k \in Ahead(o)' <=> k \in Ahead(o) \/ k = L
      <4>1. log'[L].upto > walPos[o]
        BY <1>1, <1>5, <2>1, <3>2
      <4>2. L \notin DOMAIN log
        <5>1. Len(log) \in Nat /\ DOMAIN log = 1 .. Len(log)
          BY DEF Inv, TypeOK
        <5> QED
          BY <5>1 DEF L
      <4> QED
        BY <1>1, <3>1, <4>1, <4>2
    <3>4. Ahead(o)' \subseteq DOMAIN log' /\ Ahead(o) \subseteq DOMAIN log
      BY <3>1
    <3>5. Placed(o)'
      <4>1. walPos[o] \in Boundaries(log')
        BY <1>1, <3>1 DEF Boundaries
      <4>2. ASSUME NEW k \in Ahead(o)'
            PROVE  log'[k].end = "commit" /\ log'[k].upto <= sharedEnd'
        <5>1. CASE k = L
          BY <1>1, <1>5, <5>1
        <5>2. CASE k # L
          <6>1. k \in Ahead(o) /\ k \in DOMAIN log /\ log'[k] = log[k]
            BY <1>1, <3>3, <3>4, <4>2, <5>2
          <6>2. log[k].end = "commit" /\ log[k].upto <= sharedEnd /\ log[k].upto \in Nat
            BY <1>5, <3>1, <6>1
          <6>3. sharedEnd' \in Nat
            BY DEF Inv, TypeOK
          <6> QED
            BY <1>5, <6>1, <6>2, <6>3
        <5> QED
          BY <5>1, <5>2
      <4> QED
        BY <2>1, <4>1, <4>2 DEF Placed
    <3>6. \A n \in Page : Overtaken(o, n)' <=> Overtaken(o, n) \/ n \in T
      BY <1>1, <3>3, <3>4 DEF Overtaken
    <3>7. SeesLatest(o)'
      <4> SUFFICES ASSUME NEW n \in Page, n \notin T, ~Overtaken(o, n)
                   PROVE  /\ Settled(o, n)' # Absent => Settled(o, n)' = Latest'[n]
                          /\ Settled(o, n)' = Absent => file'.page[n] = Latest'[n]
                          /\ n \in touched'[o] => pool'[o][n] = Latest'[n] \cup {tx'[o]}
                          /\ Latest'[n] # Blank => n < numPages'[o]
        BY <3>6 DEF SeesLatest
      <4>1. Latest'[n] = Latest[n] /\ Settled(o, n)' = Settled(o, n)
        BY <1>6, <2>2
      <4> QED
        BY <1>2, <2>1, <3>1, <4>1 DEF SessionOK, SeesLatest
    <3>8. \A n \in Page \ T : Holder(o, n) => Holder(o, n)'
      BY <2>1, <2>2, <3>6 DEF Holder
    <3> QED
      BY <2>1, <2>2, <3>5, <3>7, <3>8 DEF SessionOK
  <2> QED
    BY <2>3, <2>4
<1>12. \A o \in Session : SessionOK(o)' /\ mode'[o] \in {"closed", "idle", "auto", "txn"}
  BY <1>3, <1>10, <1>11
<1>13. Current' /\ Solitary'
  BY <1>12 DEF Current, Solitary, InFile, Ending, Special
<1>14. NothingUnheld'
  <2> SUFFICES ASSUME NEW n \in Page, file.page[n] # Latest'[n]
               PROVE  \E o \in Session : Holder(o, n)'
    BY <1>2 DEF NothingUnheld
  <2>1. CASE n \in T
    <3>1. Holder(s, n)'
      BY <1>2, <1>8, <1>9, <2>1 DEF Holder
    <3> QED
      BY <3>1
  <2>2. CASE n \notin T
    <3>1. PICK o \in Session : Holder(o, n)
      BY <1>6, <1>8, <2>2 DEF DInv, NothingUnheld
    <3>2. CASE o = s
      <4>1. Holder(s, n)'
        BY <1>2, <1>9, <2>2, <3>1, <3>2 DEF Holder
      <4> QED
        BY <4>1
    <3>3. CASE o # s
      BY <1>11, <2>2, <3>1, <3>3
    <3> QED
      BY <3>2, <3>3
  <2> QED
    BY <2>1, <2>2
<1>15. Outcomes'
  <2> SUFFICES ASSUME NEW u \in Txn
               PROVE  /\ fate'[u] \in {"unused", "active", "aborted"} => wrote'[u] = {}
                      /\ fate'[u] = "committed" => \A n \in wrote'[u] : u \in Latest'[n]
    BY DEF Outcomes
  <2>1. CASE u = t
    BY <1>3, <1>4, <1>6, <2>1
  <2>2. CASE u # t
    <3>1. wrote[u] \in SUBSET Page /\ fate'[u] = fate[u] /\ wrote'[u] = wrote[u]
      BY <1>3, <1>4, <2>2 DEF Inv, TypeOK
    <3>2. \A n \in Page : u \in Latest[n] => u \in Latest'[n]
      BY <1>6
    <3> QED
      BY <3>1, <3>2 DEF DInv, Outcomes
  <2> QED
    BY <2>1, <2>2
<1>16. AfterDeath!Acknowledge(t, T)
  <2>1. AfterDeath!Decide(t, T)
    <3>1. wrote[t] = {}
      BY <1>3 DEF DInv, Outcomes
    <3> QED
      BY <1>2, <3>1 DEF AfterDeath!Decide
  <2>2. Latest' = [n \in Page |-> IF n \in T THEN Latest[n] \cup {t} ELSE Latest[n]]
    BY <1>6, LatestIsNext
  <2>3. Acknowledged' = Acknowledged \cup {t}
    BY <1>3, <1>4 DEF Acknowledged
  <2> QED
    BY <2>1, <2>2, <2>3 DEF AfterDeath!Acknowledge, AfterDeath!Install, Latest
<1> QED
  BY <1>1, <1>7, <1>12, <1>13, <1>14, <1>15, <1>16 DEF DInv

-----------------------------------------------------------------------------
(* Crashes *)

(* What a crash leaves of the sessions, and the file in all that recovery   *)
(* looks at.                                                                *)
LEMMA CrashMoves ==
  ASSUME Inv, Inv', DInv, Crash
  PROVE  /\ \A s \in Session : SessionOK(s)' /\ mode'[s] = "closed"
         /\ \A n \in Page : /\ n >= file'.len => file'.page[n] = Blank
                            /\ Images(log)[n] = Absent => file'.page[n] = file.page[n]
         /\ disk' = file'
<1>1. Forget(Session) /\ mode' = [s \in Session |-> "closed"]
  BY DEF Crash
<1>2. \A s \in Session : /\ mode'[s] = "closed" /\ pool'[s] = NoImages
                         /\ dirty'[s] = {} /\ touched'[s] = {}
  BY <1>1 DEF Forget
<1>3. \A s \in Session : SessionOK(s)'
  BY <1>2 DEF SessionOK, Bookkept, Placed, SeesLatest, Outside
<1>4. PICK kept \in SUBSET {n \in Page : file.page[n] # disk.page[n]},
           len \in disk.len .. file.len :
        file' = Survivor(file, disk, len, kept) /\ disk' = Survivor(file, disk, len, kept)
  BY DEF Crash
<1>5. /\ file'.len = len /\ disk' = file'
      /\ \A n \in Page : file'.page[n] = IF n \in kept /\ n < len THEN file.page[n]
                                                                  ELSE disk.page[n]
  BY <1>4 DEF Survivor
<1>6. ASSUME NEW n \in Page, n >= file'.len
      PROVE  file'.page[n] = Blank
  <2>1. disk.len \in Int /\ file.len \in Int /\ n \in Int
    BY DEF Inv, TypeOK, File, Page
  <2>2. len \in Int /\ disk.len <= len
    BY <1>4, <2>1
  <2>3. ~(n < len) /\ n >= disk.len
    BY <1>5, <1>6, <2>1, <2>2
  <2> QED
    BY <1>5, <2>3 DEF DInv, FilesAgree
<1>7. \A n \in Page : Images(log)[n] = Absent => file'.page[n] = file.page[n]
  BY <1>5 DEF DInv, FilesAgree
<1> QED
  BY <1>2, <1>3, <1>5, <1>6, <1>7

(* A transaction the crash finds open has no effect, unless its batch was   *)
(* being written: then it may have all its effect, or none.                 *)
LEMMA CrashKeeps ==
  ASSUME Inv, Inv', DInv, Crash, AppendsToWholeLog, CommitsOnLatest
  PROVE  /\ DInv'
         /\ Invisible \/ \E s \in Session : /\ InTxn(s) /\ touched[s] # {}
                                            /\ AfterDeath!LeaveInDoubt(tx[s], touched[s])
<1>1. /\ \A s \in Session : SessionOK(s)' /\ mode'[s] = "closed"
      /\ \A n \in Page : /\ n >= file'.len => file'.page[n] = Blank
                         /\ Images(log)[n] = Absent => file'.page[n] = file.page[n]
      /\ disk' = file'
  BY CrashMoves
<1>2. FilesAgree' /\ Current' /\ Solitary' /\ NothingUnheld'
  BY <1>1 DEF FilesAgree, Current, Solitary, NothingUnheld, InFile, Ending, Special, Outside
<1>3. \A t \in Txn : Dropped[t] = IF fate[t] = "active" THEN "aborted" ELSE fate[t]
  BY DEF Dropped
<1>4. CASE UNCHANGED <<log, wrote>> /\ fate' = Dropped
  <2>1. Laid(log')
    BY <1>4 DEF DInv
  <2>2. Latest' = Latest
    <3>1. \A n \in Page : Latest'[n] = Latest[n]
      BY <1>1, <1>4, LatestIs, LatestIsNext
    <3> QED
      BY <3>1, LatestIs, LatestIsNext
  <2>3. Outcomes'
    BY <1>3, <1>4, <2>2 DEF DInv, Outcomes
  <2>4. Acknowledged' = Acknowledged
    BY <1>3, <1>4 DEF Acknowledged
  <2> QED
    BY <1>1, <1>2, <1>4, <2>1, <2>2, <2>3, <2>4 DEF DInv, Invisible
<1>5. ASSUME NEW s \in Session, InterruptedAppend(s)
      PROVE  /\ DInv'
             /\ InTxn(s) /\ touched[s] # {} /\ AfterDeath!LeaveInDoubt(tx[s], touched[s])
  <2> DEFINE T == touched[s]
             t == tx[s]
             num == numPages[s]
  <2>1. /\ InTxn(s) /\ T # {}
        /\ fate' = [Dropped EXCEPT ![t] = "indoubt"]
        /\ wrote' = [wrote EXCEPT ![t] = T]
    BY <1>5 DEF InterruptedAppend
  <2>2. PICK g \in Fragments(s) : /\ g.end = "none" => Held(g.images) # {}
                                  /\ log' = AppendGroup(log, g.images, num, g.end)
    BY <1>5 DEF InterruptedAppend
  <2> DEFINE im == g.images
             how == g.end
  <2>3. /\ im \in PageMap /\ how \in {"commit", "none", "torn"}
        /\ how = "commit" => im = Batch(s)
        /\ \A n \in Page : im[n] # Absent => im[n] = Batch(s)[n]
    <3>1. Batch(s) \in PageMap
      BY BatchOfPool
    <3>2. CASE g = [images |-> Batch(s), end |-> "commit"]
      BY <3>1, <3>2
    <3>3. ASSUME NEW cut \in 0 .. MaxPages, NEW h \in {"none", "torn"},
                 g = [images |-> [n \in Page |-> IF n < cut THEN Batch(s)[n] ELSE Absent],
                      end |-> h]
          PROVE  /\ im \in PageMap /\ how \in {"commit", "none", "torn"}
                 /\ how = "commit" => im = Batch(s)
                 /\ \A n \in Page : im[n] # Absent => im[n] = Batch(s)[n]
      BY <3>1, <3>3 DEF PageMap
    <3> QED
      BY <2>2, <3>2, <3>3 DEF Fragments
  <2>4. /\ log \in Seq(Group) /\ num \in 0 .. MaxPages
        /\ log' = AppendGroup(log, im, num, how) /\ (how = "none" => Held(im) # {})
    BY <2>2 DEF Inv, TypeOK
  <2>5. t \in Txn /\ fate[t] = "active" /\ T \in SUBSET Page
    BY <2>1 DEF Inv, Marks, TypeOK
  <2> HIDE DEF im, how, num
  <2>6. log' # << >> /\ log' # log
    <3>1. Len(log') = Len(log) + 1 /\ log' # << >>
      <4>1. Longer(log', log, im)
        BY <2>3, <2>4, AppendedGroup
      <4> QED
        BY <4>1 DEF Longer
    <3>2. Len(log) \in Nat
      BY <2>4
    <3> QED
      BY <3>1, <3>2
  <2>7. Appends(s)
    BY <2>1, <2>6 DEF Appends
  <2>8. HasAdopted(s) /\ Whole(log)
    BY <2>7 DEF CommitsOnLatest, AppendsToWholeLog, Whole
  <2>9. /\ Laid(log')
        /\ \A n \in Page : Images(log')[n] =
             IF how = "commit" /\ n \in T THEN Latest[n] \cup {t} ELSE Images(log)[n]
    <3>1. log' = AppendGroup(log, im, numPages[s], how)
      BY <2>4 DEF num
    <3> QED
      BY <2>1, <2>3, <2>4, <2>8, <3>1, LoggedBatch
  <2>10. \A n \in T : Latest[n] \cup {t} # Absent
    BY <2>5, LatestIs, AbsentAssumption DEF Image
  <2>11. \A n \in Page : Latest'[n] = IF how = "commit" /\ n \in T THEN Latest[n] \cup {t}
                                                                  ELSE Latest[n]
    BY <1>1, <2>9, <2>10, LatestIs, LatestIsNext
  <2>12. /\ \A u \in Txn : fate'[u] = IF u = t THEN "indoubt" ELSE Dropped[u]
         /\ \A u \in Txn : wrote'[u] = IF u = t THEN T ELSE wrote[u]
         /\ \A u \in Txn : wrote[u] \in SUBSET Page
    BY <2>1, <2>5 DEF Dropped, Inv, TypeOK
  <2>13. Outcomes'
    <3> SUFFICES ASSUME NEW u \in Txn
                 PROVE  /\ fate'[u] \in {"unused", "active", "aborted"} => wrote'[u] = {}
                        /\ fate'[u] = "committed" => \A n \in wrote'[u] : u \in Latest'[n]
      BY DEF Outcomes
    <3>1. CASE u = t
      BY <2>12, <3>1
    <3>2. CASE u # t
      <4>1. fate'[u] = Dropped[u] /\ wrote'[u] = wrote[u] /\ wrote[u] \in SUBSET Page
        BY <2>12, <3>2
      <4>2. \A n \in Page : u \in Latest[n] => u \in Latest'[n]
        BY <2>11
      <4> QED
        BY <1>3, <4>1, <4>2 DEF DInv, Outcomes
    <3> QED
      BY <3>1, <3>2
  <2>14. AfterDeath!LeaveInDoubt(t, T)
    <3>1. AfterDeath!Decide(t, T)
      <4>1. wrote[t] = {}
        BY <2>5 DEF DInv, Outcomes
      <4> QED
        BY <2>1, <4>1 DEF AfterDeath!Decide
    <3>2. \/ Latest' = [n \in Page |-> IF n \in T THEN Latest[n] \cup {t} ELSE Latest[n]]
          \/ Latest' = Latest
      <4>1. CASE how = "commit"
        BY <2>11, <4>1, LatestIsNext
      <4>2. CASE how # "commit"
        BY <2>11, <4>2, LatestIs, LatestIsNext
      <4> QED
        BY <4>1, <4>2
    <3>3. Acknowledged' = Acknowledged
      <4>1. \A u \in Txn : fate'[u] = "committed" /\ wrote'[u] # {}
                             <=> fate[u] = "committed" /\ wrote[u] # {}
        BY <1>3, <2>5, <2>12
      <4> QED
        BY <4>1 DEF Acknowledged
    <3> QED
      BY <3>1, <3>2, <3>3 DEF AfterDeath!LeaveInDoubt, AfterDeath!Install, Latest
  <2> QED
    BY <1>1, <1>2, <2>1, <2>9, <2>13, <2>14 DEF DInv
<1> QED
  BY <1>4, <1>5 DEF Crash

-----------------------------------------------------------------------------
(* The invariant holds *)

LEMMA InitDInv ==
  ASSUME Init
  PROVE  DInv /\ Latest = [n \in Page |-> {}] /\ Acknowledged = {}
<1> USE DEF Init
<1>1. Inv
  BY InitInv
<1>2. \A n \in Page : Latest[n] = {} /\ file.page[n] = {} /\ disk.page[n] = {}
  BY <1>1, LatestIs, NoImagesInEmptyLog DEF EmptyFile, Blank
<1>3. Laid(log) /\ FilesAgree
  BY <1>2 DEF Laid, FilesAgree, Blank
<1>4. \A s \in Session : SessionOK(s)
  BY DEF SessionOK, Bookkept, Placed, SeesLatest, Outside
<1>5. Current /\ Solitary /\ NothingUnheld
  BY DEF Current, Solitary, NothingUnheld, InFile, Ending, Special, Outside
<1>6. Outcomes
  BY DEF Outcomes
<1>7. Acknowledged = {}
  BY DEF Acknowledged
<1> QED
  BY <1>1, <1>2, <1>3, <1>4, <1>5, <1>6, <1>7, LatestIs DEF DInv

LEMMA DisciplinedStep ==
  ASSUME Relaxed = {}, DisciplinedNext
  PROVE  /\ RollsBackCleanPages /\ AppendsToWholeLog /\ CommitsOnLatest /\ CommitsInQuiet
         /\ ResetsAlone /\ FlushesLatest /\ EvictsSafely
BY DEF DisciplinedNext

LEMMA StepDInv ==
  ASSUME Inv, Inv', DInv, NEW s \in Session, Step(s),
         RollsBackCleanPages, AppendsToWholeLog, CommitsOnLatest, CommitsInQuiet,
         ResetsAlone, FlushesLatest, EvictsSafely
  PROVE  /\ DInv'
         /\ Invisible \/ /\ InTxn(s) /\ touched[s] # {}
                         /\ AfterDeath!Acknowledge(tx[s], touched[s])
<1>1. CASE OpenReplay(s) \/ OpenReset(s) \/ OpenRegister(s)
  BY <1>1, OpenReplayKeeps, OpenResetKeeps, OpenRegisterKeeps
<1>2. ASSUME NEW n \in Page, Read(s, n) \/ Write(s, n)
      PROVE  DInv' /\ Invisible
  BY <1>2, ReadKeeps, WriteKeeps
<1>3. CASE RefreshFirst(s) \/ Refresh(s)
  BY <1>3, RefreshFirstKeeps, RefreshKeeps
<1>4. ASSUME NEW how \in {"auto", "txn"}, Begin(s, how)
      PROVE  DInv' /\ Invisible
  BY <1>4, BeginKeeps
<1>5. CASE Allocate(s) \/ Rollback(s)
  BY <1>5, AllocateKeeps, RollbackKeeps
<1>6. CASE Commit(s)
  <2>1. CASE touched[s] = {}
    BY <1>6, <2>1, EmptyCommitKeeps
  <2>2. CASE touched[s] # {}
    <3>1. InTxn(s)
      BY <1>6 DEF Commit
    <3> QED
      BY <1>6, <2>2, <3>1, CommitKeeps
  <2> QED
    BY <2>1, <2>2
<1>7. CASE CheckpointFlush(s) \/ CheckpointReset(s)
  BY <1>7, CheckpointFlushKeeps, CheckpointResetKeeps
<1>8. CASE Close(s) \/ Leave(s)
  BY <1>8, CloseKeeps, LeaveKeeps
<1>9. ~CloseRefused(s)
  BY NoCloseRefused
<1> QED
  BY <1>1, <1>2, <1>3, <1>4, <1>5, <1>6, <1>7, <1>8, <1>9 DEF Step

LEMMA DInvNext ==
  ASSUME Relaxed = {}, Inv, Inv', DInv, [DisciplinedNext]_<<vars, stood>>
  PROVE  DInv' /\ [AfterDeath!Next]_(AfterDeath!vars)
<1>1. CASE UNCHANGED <<vars, stood>>
  <2>1. DInv'
    BY <1>1 DEF DInv, Laid, FilesAgree, SessionOK, Bookkept, Placed, SeesLatest, Current,
                Solitary, NothingUnheld, Outcomes, Latest, Recovered, Settled, Ahead,
                Overtaken, Holder, Alone, Registered, HasAdopted, vars
  <2> QED
    BY <1>1, <2>1 DEF AfterDeath!vars, Recovered, Acknowledged, vars
<1>2. CASE DisciplinedNext
  <2>1. /\ RollsBackCleanPages /\ AppendsToWholeLog /\ CommitsOnLatest /\ CommitsInQuiet
        /\ ResetsAlone /\ FlushesLatest /\ EvictsSafely
    BY <1>2, DisciplinedStep
  <2>2. \A s \in Session : touched[s] \in SUBSET Page /\ (InTxn(s) => tx[s] \in Txn)
    BY DEF Inv, TypeOK, Marks
  <2>3. Invisible => UNCHANGED AfterDeath!vars
    BY DEF Invisible, AfterDeath!vars, Latest
  <2>4. ASSUME NEW s \in Session, Step(s)
        PROVE  DInv' /\ [AfterDeath!Next]_(AfterDeath!vars)
    <3>1. /\ DInv'
          /\ Invisible \/ /\ InTxn(s) /\ touched[s] # {}
                          /\ AfterDeath!Acknowledge(tx[s], touched[s])
      BY <2>1, <2>4, StepDInv
    <3> QED
      BY <2>2, <2>3, <3>1 DEF AfterDeath!Next
  <2>5. ASSUME Crash
        PROVE  DInv' /\ [AfterDeath!Next]_(AfterDeath!vars)
    <3>1. /\ DInv'
          /\ Invisible \/ \E s \in Session : /\ InTxn(s) /\ touched[s] # {}
                                             /\ AfterDeath!LeaveInDoubt(tx[s], touched[s])
      BY <2>1, <2>5, CrashKeeps
    <3> QED
      BY <2>2, <2>3, <3>1 DEF AfterDeath!Next
  <2> QED
    BY <1>2, <2>4, <2>5 DEF DisciplinedNext, Next
<1> QED
  BY <1>1, <1>2

LEMMA DisciplinedInv == DisciplinedSpec => []Inv
<1>1. Init => Inv
  BY InitInv
<1>2. Inv /\ [DisciplinedNext]_<<vars, stood>> => Inv'
  <2>1. [DisciplinedNext]_<<vars, stood>> => [Next]_vars
    BY DEF DisciplinedNext
  <2> QED
    BY <2>1, InvNext
<1> QED
  BY <1>1, <1>2, PTL DEF DisciplinedSpec

LEMMA DInvAlways ==
  ASSUME Relaxed = {}
  PROVE  DisciplinedSpec => [](Inv /\ DInv)
<1>1. Init => DInv
  BY InitDInv
<1>2. Inv /\ Inv' /\ DInv /\ [DisciplinedNext]_<<vars, stood>> => DInv'
  BY DInvNext
<1> QED
  BY <1>1, <1>2, DisciplinedInv, PTL DEF DisciplinedSpec

(* What a power loss leaves differs from the file only where the log will   *)
(* overwrite it.                                                            *)
LEMMA DiskAgrees ==
  ASSUME Inv, DInv
  PROVE  Recovered(disk) = Latest
<1>1. /\ Recovered(disk) \in [Page -> Image]
      /\ \A n \in Page : Recovered(disk)[n] = IF Images(log)[n] # Absent THEN Images(log)[n]
                                              ELSE disk.page[n]
  BY ReplayedFile DEF Inv, TypeOK, Recovered
<1>2. \A n \in Page : Recovered(disk)[n] = Latest[n]
  BY <1>1, LatestIs DEF DInv, FilesAgree
<1> QED
  BY <1>1, <1>2, LatestIs

LEMMA DiskAgreesNext ==
  ASSUME Inv', DInv'
  PROVE  Recovered(disk)' = Latest'
<1>1. /\ Recovered(disk)' \in [Page -> Image]
      /\ \A n \in Page : Recovered(disk)'[n] = IF Images(log')[n] # Absent THEN Images(log')[n]
                                               ELSE disk'.page[n]
  BY ReplayedFile DEF Inv, TypeOK, Recovered
<1>2. \A n \in Page : Recovered(disk)'[n] = Latest'[n]
  BY <1>1, LatestIsNext DEF DInv, FilesAgree
<1> QED
  BY <1>1, <1>2, LatestIsNext

-----------------------------------------------------------------------------
(* What the disciplines guarantee *)

(* While all disciplines are observed, a transaction whose COMMIT returned   *)
(* (engine.py:399) stays in what recovery (wal.py:118) rebuilds, on every    *)
(* page it wrote, from the file as it is and as a power loss may leave it.   *)
THEOREM CommitsAreRecoverable ==
  ASSUME Relaxed = {}
  PROVE  DisciplinedSpec => []CommittedIsRecoverable
<1>1. Inv /\ DInv => CommittedIsRecoverable
  <2> SUFFICES ASSUME Inv, DInv
               PROVE  CommittedIsRecoverable
    OBVIOUS
  <2>1. Recovered(disk) = Latest /\ Recovered(file) = Latest
    BY DiskAgrees DEF Latest
  <2> QED
    BY <2>1 DEF CommittedIsRecoverable, DInv, Outcomes
<1> QED
  BY <1>1, DInvAlways, PTL

(* While all disciplines are observed, what recovery would rebuild from the  *)
(* file after a process death changes only by whole transactions, and never  *)
(* loses an acknowledged one.                                                *)
THEOREM StoreIsDurable ==
  ASSUME Relaxed = {}
  PROVE  DisciplinedSpec => ImplementsDurableStore
<1>1. Init => AfterDeath!Init
  <2> SUFFICES ASSUME Init PROVE AfterDeath!Init
    OBVIOUS
  <2>1. Latest = [n \in Page |-> {}] /\ Acknowledged = {}
    BY InitDInv
  <2> QED
    BY <2>1 DEF AfterDeath!Init, Latest, Init
<1>2. Inv /\ Inv' /\ DInv /\ [DisciplinedNext]_<<vars, stood>> => [AfterDeath!Next]_(AfterDeath!vars)
  BY DInvNext
<1> QED
  BY <1>1, <1>2, DInvAlways, PTL DEF DisciplinedSpec, ImplementsDurableStore, AfterDeath!Spec

(* The same of what recovery would rebuild after a power loss that undoes    *)
(* the writes nobody synced (pager.py:142).                                  *)
THEOREM StoreSurvivesPowerLoss ==
  ASSUME Relaxed = {}
  PROVE  DisciplinedSpec => SurvivesPowerLoss
<1>1. Init => AfterPowerLoss!Init
  <2> SUFFICES ASSUME Init PROVE AfterPowerLoss!Init
    OBVIOUS
  <2>1. Latest = [n \in Page |-> {}] /\ Acknowledged = {} /\ disk = file
    BY InitDInv DEF Init
  <2> QED
    BY <2>1 DEF AfterPowerLoss!Init, Latest, Init
<1>2. /\ Inv /\ DInv /\ Inv' /\ DInv' /\ [DisciplinedNext]_<<vars, stood>>
      => [AfterPowerLoss!Next]_(AfterPowerLoss!vars)
  <2> SUFFICES ASSUME Inv, DInv, Inv', DInv', [DisciplinedNext]_<<vars, stood>>
               PROVE  [AfterPowerLoss!Next]_(AfterPowerLoss!vars)
    OBVIOUS
  <2>1. Recovered(disk) = Recovered(file) /\ Recovered(disk)' = Recovered(file)'
    BY DiskAgrees, DiskAgreesNext DEF Latest
  <2>2. [AfterDeath!Next]_(AfterDeath!vars)
    BY DInvNext
  <2> QED
    BY <2>1, <2>2
    DEF AfterDeath!Next, AfterDeath!vars, AfterDeath!Acknowledge, AfterDeath!LeaveInDoubt,
        AfterDeath!Decide, AfterDeath!Install,
        AfterPowerLoss!Next, AfterPowerLoss!vars, AfterPowerLoss!Acknowledge,
        AfterPowerLoss!LeaveInDoubt, AfterPowerLoss!Decide, AfterPowerLoss!Install
<1> QED
  BY <1>1, <1>2, DInvAlways, PTL DEF DisciplinedSpec, SurvivesPowerLoss, AfterPowerLoss!Spec

(* While all disciplines are observed, a session that has refreshed          *)
(* (engine.py:92) sees exactly what has been committed.                      *)
THEOREM RefreshedSeesCommitted ==
  ASSUME Relaxed = {}
  PROVE  DisciplinedSpec => []SeesCommitted
<1>1. Inv /\ DInv => SeesCommitted
  <2> SUFFICES ASSUME Inv, DInv, NEW s \in Session, UpToDate(s), NEW n \in Page
               PROVE  View(s, n) = Latest[n]
    BY DEF SeesCommitted, Latest
  <2>1. mode[s] = "idle" /\ touched[s] = {} /\ SessionOK(s)
    BY DEF UpToDate, DInv, Inv, Marks, InTxn
  <2>2. /\ walPos[s] \in Boundaries(log) /\ Ahead(s) = Beyond(log, walPos[s])
        /\ \A k \in Ahead(s) : log[k].end = "commit" /\ log[k].upto <= sharedEnd
    BY <2>1 DEF SessionOK, Placed, Outside, Ahead
  <2>3. Ahead(s) = {}
    <3> SUFFICES ASSUME Ahead(s) # {}
                 PROVE  FALSE
      OBVIOUS
    <3>1. log \in Seq(Group) /\ Laid(log) /\ sharedEnd \in Nat /\ walPos[s] \in Nat
      BY DEF Inv, TypeOK, DInv
    <3>2. \E i \in DOMAIN log : NextBatch(log, walPos[s], sharedEnd, i, 0, i)
      BY <2>2, <3>1, NextBatchExists
    <3>3. sharedEnd > walPos[s]
      <4>1. PICK k \in DOMAIN log : log[k].upto > walPos[s] /\ log[k].upto <= sharedEnd
        BY <2>2 DEF Beyond
      <4>2. log[k].upto \in Nat
        BY <3>1, SizeOfLog
      <4> QED
        BY <3>1, <4>1, <4>2
    <3>4. 0 \in 0 .. MaxPages
      BY MaxPagesAssumption
    <3> QED
      BY <3>2, <3>3, <3>4 DEF UpToDate
  <2>4. ~Overtaken(s, n)
    BY <2>3 DEF Overtaken
  <2> QED
    BY <2>1, <2>4 DEF SessionOK, SeesLatest, Settled, View, Outside
<1> QED
  BY <1>1, DInvAlways, PTL

-----------------------------------------------------------------------------
(* One session at a time moves, and the log and the file do not change in    *)
(* the same step.                                                            *)
LEMMA StepChanges ==
  ASSUME Inv, NEW o \in Session, Step(o)
  PROVE  /\ \A s \in Session \ {o} : Unmoved(s)
         /\ \/ log' = log /\ wrote' = wrote
            \/ log' = << >> /\ file' = file
            \/ Commit(o) /\ touched[o] # {} /\ file' = file
<1> DEFINE Changes == /\ \A s \in Session \ {o} : Unmoved(s)
                      /\ \/ log' = log /\ wrote' = wrote
                         \/ log' = << >> /\ file' = file
                         \/ Commit(o) /\ touched[o] # {} /\ file' = file
<1> USE DEF Inv, TypeOK, Unmoved, storage, caches, txnState, history
<1>1. CASE OpenReplay(o) \/ OpenReset(o) \/ OpenRegister(o)
  BY <1>1 DEF OpenReplay, OpenReset, OpenRegister
<1>2. ASSUME NEW n \in Page, Read(o, n) \/ Write(o, n)
      PROVE  Changes
  BY <1>2 DEF Read, Write, Put
<1>3. CASE RefreshFirst(o) \/ Refresh(o)
  BY <1>3 DEF RefreshFirst, Refresh
<1>4. ASSUME NEW how \in {"auto", "txn"}, Begin(o, how)
      PROVE  Changes
  BY <1>4 DEF Begin
<1>5. CASE Allocate(o) \/ Rollback(o)
  BY <1>5 DEF Allocate, Put, Rollback, Restore, EndTxn
<1>6. CASE Commit(o)
  BY <1>6 DEF Commit, EndTxn
<1>7. CASE CheckpointFlush(o) \/ CheckpointReset(o)
  BY <1>7 DEF CheckpointFlush, CheckpointReset
<1>8. CASE Close(o)
  BY <1>8 DEF Close, Restore, EndTxn
<1>9. CASE CloseRefused(o) \/ Leave(o)
  BY <1>9 DEF CloseRefused, Leave, Forget
<1> HIDE DEF Changes
<1> QED
  BY <1>1, <1>2, <1>3, <1>4, <1>5, <1>6, <1>7, <1>8, <1>9 DEF Step, Changes

(* Inside a transaction only its own writes change what it sees. *)
LEMMA OwnStepInTxn ==
  ASSUME Inv, NEW s \in Session, Step(s), mode[s] = "txn", mode'[s] = "txn",
         NEW n \in Page, n \notin touched'[s]
  PROVE  View(s, n)' = View(s, n)
<1> USE DEF Inv, TypeOK, storage, caches, txnState, history
<1>1. ASSUME NEW m \in Page, Read(s, m)
      PROVE  View(s, n)' = View(s, n)
  <2>1. PICK V \in Victims(s) :
          /\ pool' = [pool EXCEPT ![s] = [k \in Page |-> IF k = m THEN file.page[m]
                                                         ELSE IF k \in V THEN Absent
                                                         ELSE pool[s][k]]]
          /\ file' = WrittenBack(s, V)
    BY <1>1 DEF Read
  <2>2. V = {} /\ pool[s][m] = Absent
    BY <1>1 DEF Victims, InTxn, Read
  <2>3. file'.page[n] = file.page[n]
    <3> DEFINE d == V \cap dirty[s]
    <3>1. file \in File /\ pool[s] \in PageMap /\ d \in SUBSET Cached(pool[s]) /\ d = {}
      BY <2>2
    <3>2. file' = FlushInto(file, pool[s], d)
      BY <2>1 DEF WrittenBack
    <3> HIDE DEF d
    <3>3. \A k \in Page : FlushInto(file, pool[s], d).page[k] = IF k \in d THEN pool[s][k]
                                                                        ELSE file.page[k]
      BY ONLY <3>1, FlushIntoFile
    <3> QED
      BY <3>1, <3>2, <3>3
  <2>4. pool'[s][n] = IF n = m THEN file.page[m] ELSE pool[s][n]
    BY <2>1, <2>2
  <2>5. file.page[n] # Absent
    BY AbsentAssumption DEF File
  <2> QED
    BY <2>2, <2>3, <2>4, <2>5 DEF View
<1>2. ASSUME NEW m \in Page, NEW img, Put(s, m, img), file' = file
      PROVE  View(s, n)' = View(s, n)
  <2>1. n # m /\ pool'[s][n] = pool[s][n]
    BY <1>2 DEF Put, PageMap
  <2> QED
    BY <1>2, <2>1 DEF View
<1>3. ASSUME NEW m \in Page, Write(s, m)
      PROVE  View(s, n)' = View(s, n)
  BY <1>2, <1>3 DEF Write
<1>4. CASE Allocate(s)
  <2>1. numPages[s] \in Page
    BY <1>4, MaxPagesAssumption DEF Allocate, Page
  <2> QED
    BY <1>2, <1>4, <2>1 DEF Allocate
<1>5. ~(OpenReplay(s) \/ OpenReset(s) \/ OpenRegister(s) \/ CloseRefused(s) \/ Leave(s))
  BY DEF OpenReplay, OpenReset, OpenRegister, CloseRefused, Leave
<1>6. ~(RefreshFirst(s) \/ Refresh(s) \/ CheckpointFlush(s) \/ CheckpointReset(s))
  BY DEF RefreshFirst, Refresh, MayRefresh, CheckpointFlush, CheckpointReset
<1>7. ~(\E how \in {"auto", "txn"} : Begin(s, how))
  BY DEF Begin
<1>8. ~(Commit(s) \/ Rollback(s) \/ Close(s))
  BY DEF Commit, Rollback, Close, EndTxn
<1> QED
  BY <1>1, <1>3, <1>4, <1>5, <1>6, <1>7, <1>8 DEF Step

(* While the log stays, so does what recovery rebuilds. *)
LEMMA LogKeptLatestKept ==
  ASSUME Inv, Inv', DInv, NEW o \in Session, Step(o),
         RollsBackCleanPages, AppendsToWholeLog, CommitsOnLatest, CommitsInQuiet,
         ResetsAlone, FlushesLatest, EvictsSafely,
         wrote' = wrote
  PROVE  Latest' = Latest
<1>1. Invisible \/ /\ InTxn(o) /\ touched[o] # {}
                   /\ AfterDeath!Acknowledge(tx[o], touched[o])
  BY StepDInv
<1>2. ASSUME InTxn(o), touched[o] # {}, AfterDeath!Acknowledge(tx[o], touched[o])
      PROVE  FALSE
  <2>1. tx[o] \in Txn /\ wrote \in [Txn -> SUBSET Page]
    BY <1>2 DEF Inv, Marks, TypeOK
  <2>2. wrote[tx[o]] = {} /\ wrote'[tx[o]] = touched[o]
    BY <1>2, <2>1 DEF AfterDeath!Acknowledge, AfterDeath!Decide
  <2> QED
    BY <1>2, <2>2
<1> QED
  BY <1>1, <1>2 DEF Invisible

(* While all disciplines are observed and the file changes only when no      *)
(* session is behind, no page that a transaction has not written changes     *)
(* under it, whether the pool has it (pager.py:76) or not (pager.py:80).     *)
THEOREM ReadsRepeat ==
  ASSUME Relaxed = {}
  PROVE  DisciplinedSpec => RepeatableRead
<1> DEFINE Repeats(s) == (stood' /\ mode[s] = "txn" /\ mode'[s] = "txn") =>
             \A n \in Page : (n < numPages[s] /\ n \notin touched'[s]) =>
               View(s, n)' = View(s, n)
<1>1. /\ Inv /\ DInv /\ Inv' /\ DInv' /\ [DisciplinedNext]_<<vars, stood>>
      => [\A s \in Session : Repeats(s)]_vars
  <2> SUFFICES ASSUME Inv, DInv, Inv', DInv', DisciplinedNext, NEW s \in Session,
                      stood', mode[s] = "txn", mode'[s] = "txn",
                      NEW n \in Page, n \notin touched'[s]
               PROVE  View(s, n)' = View(s, n)
    BY DEF vars
  <2>1. /\ RollsBackCleanPages /\ AppendsToWholeLog /\ CommitsOnLatest /\ CommitsInQuiet
        /\ ResetsAlone /\ FlushesLatest /\ EvictsSafely /\ FileStandsStill
    BY DisciplinedStep DEF DisciplinedNext
  <2>2. PICK o \in Session : Step(o)
    BY DEF DisciplinedNext, Next, Crash
  <2>3. CASE o = s
    BY <2>2, <2>3, OwnStepInTxn
  <2>4. CASE o # s
    <3>1. /\ Unmoved(s)
          /\ \/ log' = log /\ wrote' = wrote
             \/ file' = file
      BY <2>2, <2>4, StepChanges
    <3>2. CASE file' = file \/ pool[s][n] # Absent
      BY <3>1, <3>2 DEF Unmoved, View
    <3>3. CASE file' # file /\ pool[s][n] = Absent
      <4>1. log' = log /\ wrote' = wrote /\ Latest' = Latest
        BY <2>1, <2>2, <3>1, <3>3, LogKeptLatestKept
      <4>2. ~Crashes
        BY <2>2 DEF Step, Crashes, OpenReplay, OpenReset, OpenRegister, Read, Write, RefreshFirst,
                    Refresh, Begin, Allocate, Commit, Rollback, CheckpointFlush,
                    CheckpointReset, Close, CloseRefused, Leave
      <4>3. HasAdopted(s)
        BY <2>1, <3>3, <4>2 DEF FileStandsStill, Registered
      <4>4. ~Overtaken(s, n) /\ ~Overtaken(s, n)'
        <5>1. Ahead(s) = {} /\ Ahead(s)' = Ahead(s)
          BY <3>1, <4>1, <4>3, AdoptedAll DEF Ahead, Unmoved
        <5> QED
          BY <5>1 DEF Overtaken
      <4>5. n \notin touched[s] /\ pool'[s][n] = Absent
        BY <3>1, <3>3 DEF Unmoved
      <4>6. file.page[n] = Latest[n]
        BY <3>3, <4>4, <4>5 DEF DInv, SessionOK, SeesLatest, Settled, Outside
      <4>7. file'.page[n] = Latest'[n]
        BY <4>4, <4>5 DEF DInv, SessionOK, SeesLatest, Settled, Outside
      <4> QED
        BY <3>3, <4>1, <4>5, <4>6, <4>7 DEF View
    <3> QED
      BY <3>2, <3>3
  <2> QED
    BY <2>3, <2>4
<1> QED
  BY <1>1, DInvAlways, PTL DEF DisciplinedSpec, RepeatableRead

-----------------------------------------------------------------------------
(* What a session sees while it is behind *)

(* A state of the store that holds of every transaction all or nothing. *)
Atomic(v) == \A t \in Txn : \A m, n \in wrote[t] : t \in v[m] <=> t \in v[n]

(* What session s sees of others: its view without its own changes. *)
Base(s, n) == IF Settled(s, n) # Absent THEN Settled(s, n) ELSE file.page[n]

(* What it will see of them when it has adopted the groups up to k.         *)
Upto(s, k)     == {j \in Ahead(s) : j <= k}
Adopting(s, k) == Overlay([n \in Page |-> Base(s, n)], Merged(log, Upto(s, k)))

(* While the file stands still, a session sees an atomic state now and after *)
(* each batch it has yet to adopt, with its own changes on top.             *)
InStep(s) ==
  mode[s] \notin Outside =>
    /\ \A k \in 0 .. Len(log) : Atomic(Adopting(s, k))
    /\ \A n \in touched[s] : pool[s][n] = Base(s, n) \cup {tx[s]}
    /\ \A n \in Page : Base(s, n) # Blank => n < numPages[s]

VInv == Atomic(Latest) /\ (stood => \A s \in Session : InStep(s))

(* Merging the same images. *)
LEMMA MergedAlike ==
  ASSUME NEW w \in Seq(Group), NEW v \in Seq(Group), NEW K \in SUBSET DOMAIN w,
         K \subseteq DOMAIN v, NEW n \in Page,
         \A k \in K : v[k] = w[k]
  PROVE  Merged(v, K)[n] = Merged(w, K)[n]
<1>1. CASE Merged(w, K)[n] = Absent
  BY <1>1, NothingMerged, NotHeldNotMerged
<1>2. CASE Merged(w, K)[n] # Absent
  <2>1. PICK m \in K : /\ w[m].images[n] # Absent /\ Merged(w, K)[n] = w[m].images[n]
                       /\ \A k \in K : w[k].images[n] # Absent => k <= m
    BY <1>2, MergedFromLast
  <2> QED
    BY <2>1, LatestIsLast
<1> QED
  BY <1>1, <1>2

(* A group before all others gives way to them. *)
LEMMA MergedOnFirst ==
  ASSUME NEW w \in Seq(Group), NEW K \in SUBSET DOMAIN w, NEW i \in DOMAIN w,
         \A k \in K : i <= k, NEW n \in Page
  PROVE  Merged(w, K \cup {i})[n] = IF Merged(w, K)[n] # Absent THEN Merged(w, K)[n]
                                    ELSE w[i].images[n]
<1>1. CASE Merged(w, K)[n] # Absent
  <2>1. PICK m \in K : /\ w[m].images[n] # Absent /\ Merged(w, K)[n] = w[m].images[n]
                       /\ \A k \in K : w[k].images[n] # Absent => k <= m
    BY <1>1, MergedFromLast
  <2> QED
    BY <1>1, <2>1, LatestIsLast
<1>2. CASE Merged(w, K)[n] = Absent
  <2>1. \A k \in K : w[k].images[n] = Absent
    BY <1>2, NothingMerged
  <2>2. CASE w[i].images[n] = Absent
    BY <1>2, <2>1, <2>2, NotHeldNotMerged
  <2>3. CASE w[i].images[n] # Absent
    <3>1. i <= i
      OBVIOUS
    <3>2. \A k \in K \cup {i} : w[k].images[n] # Absent => k <= i
      BY <2>1, <3>1
    <3> QED
      BY <1>2, <2>3, <3>2, LatestIsLast
  <2> QED
    BY <2>2, <2>3
<1> QED
  BY <1>1, <1>2

(* A session with nothing to adopt sees the latest images. *)
LEMMA AdoptedInStep ==
  ASSUME Inv', NEW s \in Session, SeesLatest(s)', Ahead(s)' = {}, Atomic(Latest)'
  PROVE  InStep(s)'
<1> SUFFICES ASSUME mode'[s] \notin Outside
             PROVE  /\ \A k \in 0 .. Len(log') : Atomic(Adopting(s, k))'
                    /\ \A n \in touched'[s] : pool'[s][n] = Base(s, n)' \cup {tx'[s]}
                    /\ \A n \in Page : Base(s, n)' # Blank => n < numPages'[s]
  BY DEF InStep
<1>1. \A n \in Page : ~Overtaken(s, n)'
  BY DEF Overtaken
<1>2. /\ \A n \in Page : Base(s, n)' = Latest'[n]
      /\ \A n \in Page : n \in touched'[s] => pool'[s][n] = Latest'[n] \cup {tx'[s]}
      /\ \A n \in Page : Latest'[n] # Blank => n < numPages'[s]
  BY <1>1 DEF SeesLatest, Base
<1>3. touched'[s] \in SUBSET Page /\ \A t \in Txn : wrote'[t] \in SUBSET Page
  BY DEF Inv, TypeOK
<1>4. ASSUME NEW k \in 0 .. Len(log'), NEW n \in Page
      PROVE  Adopting(s, k)'[n] = Latest'[n]
  <2>1. Merged(log', Upto(s, k)')[n] = Absent
    BY NotHeldNotMerged DEF Upto
  <2> QED
    BY <1>2, <2>1 DEF Adopting, Overlay
<1> QED
  BY <1>2, <1>3, <1>4 DEF Atomic

(* Who adopts all groups then sees the latest images. *)
LEMMA AdoptsAll ==
  ASSUME Inv', DInv', NEW s \in Session, mode'[s] \notin Outside \cup {"loaded"}, NEW n \in Page
  PROVE  Adopting(s, Len(log))'[n] = Latest'[n]
<1> DEFINE w == log'
           A == Ahead(s)'
<1>1. /\ w \in Seq(Group) /\ Laid(w) /\ walPos'[s] \in Nat /\ SessionOK(s)'
      /\ A = Beyond(w, walPos'[s]) /\ \A k \in A : w[k].end = "commit"
  BY DEF Inv, TypeOK, DInv, SessionOK, Placed, Ahead
<1>2. Upto(s, Len(log))' = A /\ A \in SUBSET DOMAIN w
  BY <1>1 DEF Upto, Beyond
<1>3. \A k \in DOMAIN w : w[k].upto \in Nat /\ k \in Nat
  BY <1>1, SizeOfLog
<1>4. CASE Overtaken(s, n)'
  <2>1. Merged(w, A)[n] # Absent
    BY <1>1, <1>2, <1>4, NothingMerged DEF Overtaken
  <2>2. PICK m \in A : /\ w[m].images[n] # Absent /\ Merged(w, A)[n] = w[m].images[n]
                       /\ \A k \in A : w[k].images[n] # Absent => k <= m
    BY <1>1, <1>2, <2>1, MergedFromLast
  <2>3. Applied(w) \in SUBSET DOMAIN w /\ m \in Applied(w)
    BY <1>1, <1>2, AppliedCommits
  <2>4. ASSUME NEW k \in DOMAIN w, w[k].images[n] # Absent, ~(k <= m)
        PROVE  FALSE
    <3>1. m \in DOMAIN w /\ m < k /\ w[m].upto > walPos'[s]
      BY <1>1, <1>2, <1>3, <2>4 DEF Beyond
    <3>2. w[m].upto < w[k].upto
      BY <1>1, <3>1 DEF Laid
    <3>3. w[k].upto > walPos'[s]
      BY <1>1, <1>3, <3>1, <3>2
    <3> QED
      BY <1>1, <2>2, <2>4, <3>3 DEF Beyond
  <2>5. Images(w)[n] = w[m].images[n]
    BY <1>1, <2>2, <2>3, <2>4, LatestIsLast DEF Images
  <2> QED
    BY <1>2, <2>2, <2>5, LatestIsNext DEF Adopting, Overlay
<1>5. CASE ~Overtaken(s, n)'
  <2>1. Merged(w, A)[n] = Absent
    BY <1>2, <1>5, NotHeldNotMerged DEF Overtaken
  <2>2. Base(s, n)' = Latest'[n]
    BY <1>1, <1>5 DEF SessionOK, SeesLatest, Base
  <2> QED
    BY <1>2, <2>1, <2>2 DEF Adopting, Overlay
<1> QED
  BY <1>4, <1>5

(* Nobody's base, and nothing to adopt, carries a running transaction. *)
LEMMA LoggedOnly ==
  ASSUME Inv, NEW s \in Session, NEW k, NEW n \in Page
  PROVE  Adopting(s, k)[n] \subseteq LoggedTxns /\ Latest[n] \subseteq LoggedTxns
<1>1. Base(s, n) \subseteq LoggedTxns
  BY DEF Base, Settled, Inv, Provenance, NoUncommittedBytes
<1>2. ASSUME NEW K \in SUBSET DOMAIN log
      PROVE  Merged(log, K)[n] # Absent => Merged(log, K)[n] \subseteq LoggedTxns
  <2>1. log \in Seq(Group)
    BY DEF Inv, TypeOK
  <2> QED
    BY <2>1, MergedFromLog DEF Inv, Provenance
<1>3. Upto(s, k) \in SUBSET DOMAIN log /\ Applied(log) \in SUBSET DOMAIN log
  BY DEF Upto, Ahead, Beyond, Applied
<1>4. file.page[n] \subseteq LoggedTxns
  BY DEF Inv, Provenance, NoUncommittedBytes
<1> QED
  BY <1>1, <1>2, <1>3, <1>4, LatestIs DEF Adopting, Overlay, Images

(* Only whole transactions change what recovery rebuilds. *)
LEMMA AtomicLatest ==
  ASSUME Inv, Atomic(Latest), NEW o \in Session, InTxn(o),
         \/ AfterDeath!Acknowledge(tx[o], touched[o])
         \/ AfterDeath!LeaveInDoubt(tx[o], touched[o])
  PROVE  Atomic(Latest)'
<1> DEFINE t == tx[o]
           T == touched[o]
<1>1. /\ t \in Txn /\ T \in SUBSET Page /\ wrote \in [Txn -> SUBSET Page]
      /\ \A n \in Page : t \notin Latest[n]
  BY LoggedOnly DEF Inv, TypeOK, Marks, LoggedTxns
<1>2. /\ wrote' = [wrote EXCEPT ![t] = T]
      /\ \/ \A n \in Page : Latest'[n] = IF n \in T THEN Latest[n] \cup {t} ELSE Latest[n]
         \/ Latest' = Latest
  BY DEF AfterDeath!Acknowledge, AfterDeath!LeaveInDoubt, AfterDeath!Decide,
         AfterDeath!Install, Latest
<1>3. ASSUME NEW u \in Txn, NEW m \in wrote'[u], NEW n \in wrote'[u]
      PROVE  u \in Latest'[m] <=> u \in Latest'[n]
  <2>1. CASE u = t
    BY <1>1, <1>2, <2>1
  <2>2. CASE u # t
    <3>1. m \in wrote[u] /\ n \in wrote[u] /\ m \in Page /\ n \in Page
      BY <1>1, <1>2, <2>2
    <3>2. u \in Latest[m] <=> u \in Latest[n]
      BY <3>1 DEF Atomic
    <3> QED
      BY <1>2, <2>2, <3>1, <3>2
  <2> QED
    BY <2>1, <2>2
<1> QED
  BY <1>3 DEF Atomic

LEMMA SameBase ==
  ASSUME Inv, Inv', NEW s \in Session, InStep(s),
         mode[s] \notin Outside \cup {"loaded"}, mode'[s] # "loaded",
         log' = log, wrote' = wrote, walPos'[s] = walPos[s],
         \A n \in Page : Base(s, n)' = Base(s, n),
         \A n \in touched'[s] : pool'[s][n] = Base(s, n) \cup {tx'[s]},
         numPages[s] <= numPages'[s]
  PROVE  InStep(s)'
<1>1. Ahead(s)' = Ahead(s)
  BY DEF Ahead
<1>2. \A k : Adopting(s, k)' = Adopting(s, k)
  BY <1>1 DEF Adopting, Upto, Overlay
<1>3. \A k \in 0 .. Len(log') : Atomic(Adopting(s, k))'
  BY <1>2 DEF InStep, Atomic
<1>4. touched'[s] \in SUBSET Page
  BY DEF Inv, TypeOK
<1>5. ASSUME NEW n \in Page, Base(s, n)' # Blank
      PROVE  n < numPages'[s]
  <2>1. numPages[s] \in Int /\ numPages'[s] \in Int /\ n \in Int
    BY DEF Inv, TypeOK, Page
  <2>2. n < numPages[s]
    BY <1>5 DEF InStep
  <2> QED
    BY <2>1, <2>2
<1> QED
  BY <1>3, <1>4, <1>5 DEF InStep

(* An adopted batch takes the session to the next state it had ahead of it. *)
LEMMA RefreshInStep ==
  ASSUME Inv, DInv, NEW s \in Session, Refresh(s), InStep(s)
  PROVE  InStep(s)'
<1> USE DEF storage, txnState, history
<1>1. PICK i \in DOMAIN log : AdoptsGroup(s, i)
  BY RefreshMoves
<1>2. /\ mode[s] = "idle" /\ mode' = mode /\ touched[s] = {} /\ touched' = touched
      /\ file' = file /\ log' = log /\ wrote' = wrote
      /\ log \in Seq(Group) /\ Laid(log) /\ i \in 1 .. Len(log) /\ Len(log) \in Nat
  <2>1. log \in Seq(Group) /\ Laid(log)
    BY DEF Inv, TypeOK, DInv
  <2>2. i \in 1 .. Len(log) /\ Len(log) \in Nat
    BY <2>1
  <2> QED
    BY <2>1, <2>2 DEF Refresh, MayRefresh, Inv, Marks, InTxn
<1>3. /\ \A n \in Page : pool'[s][n] = IF log[i].images[n] # Absent THEN log[i].images[n]
                                       ELSE pool[s][n]
      /\ numPages'[s] = Larger(numPages[s], log[i].num)
      /\ Ahead(s) = {k \in DOMAIN log : i <= k} /\ Ahead(s)' = {k \in DOMAIN log : i < k}
  BY <1>1 DEF AdoptsGroup
<1>4. \A n \in Page : Base(s, n)' = IF log[i].images[n] # Absent THEN log[i].images[n]
                                    ELSE Base(s, n)
  BY <1>2, <1>3 DEF Base, Settled
<1>5. ASSUME NEW k \in 0 .. Len(log)
      PROVE  \E h \in 0 .. Len(log) : \A n \in Page : Adopting(s, k)'[n] = Adopting(s, h)[n]
  <2> DEFINE h == Larger(k, i)
             U == Upto(s, k)'
  <2>1. h \in 0 .. Len(log) /\ U \in SUBSET DOMAIN log /\ Upto(s, h) = U \cup {i}
        /\ \A j \in U : i <= j
    <3>1. DOMAIN log = 1 .. Len(log)
      BY <1>2
    <3> QED
      BY <1>2, <1>3, <3>1 DEF Upto, Larger
  <2> HIDE DEF h, U
  <2>2. ASSUME NEW n \in Page
        PROVE  Adopting(s, k)'[n] = Adopting(s, h)[n]
    <3>1. Merged(log, U \cup {i})[n] = IF Merged(log, U)[n] # Absent THEN Merged(log, U)[n]
                                       ELSE log[i].images[n]
      BY <1>2, <2>1, MergedOnFirst
    <3>2. Adopting(s, k)'[n] = IF Merged(log, U)[n] # Absent THEN Merged(log, U)[n]
                               ELSE Base(s, n)'
      BY <1>2 DEF Adopting, Overlay, U
    <3>3. Adopting(s, h)[n] = IF Merged(log, U \cup {i})[n] # Absent
                              THEN Merged(log, U \cup {i})[n] ELSE Base(s, n)
      BY <2>1 DEF Adopting, Overlay
    <3> QED
      BY <1>4, <3>1, <3>2, <3>3
  <2> QED
    BY <2>1, <2>2
<1>6. ASSUME NEW k \in 0 .. Len(log)
      PROVE  Atomic(Adopting(s, k))'
  <2>1. PICK h \in 0 .. Len(log) : \A n \in Page : Adopting(s, k)'[n] = Adopting(s, h)[n]
    BY <1>5
  <2>2. Atomic(Adopting(s, h)) /\ \A t \in Txn : wrote[t] \in SUBSET Page
    BY <1>2 DEF InStep, Outside, Inv, TypeOK
  <2> QED
    BY <1>2, <2>1, <2>2 DEF Atomic
<1>7. ASSUME NEW n \in Page, Base(s, n)' # Blank
      PROVE  n < numPages'[s]
  <2>1. numPages[s] \in Int /\ log[i].num \in Int /\ n \in Int
    <3>1. log[i] \in Group
      BY <1>2
    <3> QED
      BY <3>1 DEF Inv, TypeOK, Group, Page
  <2>2. CASE log[i].images[n] # Absent
    <3>1. n < log[i].num
      BY <1>2, <2>2 DEF Laid, Held
    <3> QED
      BY <1>3, <2>1, <3>1 DEF Larger
  <2>3. CASE log[i].images[n] = Absent
    <3>1. n < numPages[s]
      BY <1>2, <1>4, <1>7, <2>3 DEF InStep, Outside
    <3> QED
      BY <1>3, <2>1, <3>1 DEF Larger
  <2> QED
    BY <2>2, <2>3
<1> QED
  BY <1>2, <1>6, <1>7 DEF InStep

LEMMA ReadInStep ==
  ASSUME Inv, Inv', NEW s \in Session, NEW n \in Page, Read(s, n), EvictsSafely,
         ~HasAdopted(s), InStep(s)
  PROVE  InStep(s)'
<1> USE DEF caches, txnState, history
<1>1. PICK V \in Victims(s) :
        /\ pool' = [pool EXCEPT ![s] = [m \in Page |-> IF m = n THEN file.page[n]
                                                       ELSE IF m \in V THEN Absent
                                                       ELSE pool[s][m]]]
        /\ file' = WrittenBack(s, V)
  BY DEF Read
<1>2. /\ mode[s] \in {"idle", "auto", "txn"} /\ mode' = mode /\ pool[s][n] = Absent
      /\ log' = log /\ wrote' = wrote /\ walPos' = walPos /\ numPages' = numPages
      /\ touched' = touched /\ shadow' = shadow /\ tx' = tx
  BY DEF Read
<1>3. \A m \in Page : pool'[s][m] = IF m = n THEN file.page[n]
                                    ELSE IF m \in V THEN Absent ELSE pool[s][m]
  BY <1>1 DEF Inv, TypeOK
<1>4. V \in SUBSET Cached(pool[s]) /\ (InTxn(s) => V = {}) /\ n \notin V
  BY <1>1, <1>2 DEF Victims, Cached
<1>5. touched[s] \cap V = {} /\ n \notin touched[s] /\ touched[s] \subseteq Page
  BY <1>2, <1>4 DEF Inv, Marks, TypeOK, Cached
<1>6. ASSUME NEW m \in V
      PROVE  m \in Page /\ m \notin dirty[s] /\ pool[s][m] = file.page[m]
  <2>1. mode[s] = "idle" /\ mode'[s] = "idle"
    BY <1>2, <1>4 DEF InTxn
  <2>2. m \in Page /\ pool[s][m] # Absent /\ pool'[s][m] = Absent
    BY <1>3, <1>4 DEF Cached
  <2> QED
    BY <2>1, <2>2 DEF EvictsSafely, Evicted
<1>7. \A m \in Page : file'.page[m] = file.page[m] /\ file.page[m] # Absent
  <2> DEFINE d == V \cap dirty[s]
  <2>1. file \in File /\ pool[s] \in PageMap /\ d \in SUBSET Cached(pool[s]) /\ d = {}
    BY <1>4, <1>6 DEF Inv, TypeOK
  <2>2. file' = FlushInto(file, pool[s], d)
    BY <1>1 DEF WrittenBack
  <2> HIDE DEF d
  <2>3. \A k \in Page : FlushInto(file, pool[s], d).page[k] = IF k \in d THEN pool[s][k]
                                                              ELSE file.page[k]
    BY ONLY <2>1, FlushIntoFile
  <2> QED
    BY <2>1, <2>2, <2>3, AbsentAssumption DEF File
<1>8. \A m \in Page : Base(s, m)' = Base(s, m)
  BY <1>2, <1>3, <1>5, <1>6, <1>7 DEF Base, Settled
<1>9. \A m \in touched'[s] : pool'[s][m] = Base(s, m) \cup {tx'[s]}
  BY <1>2, <1>3, <1>5 DEF InStep, Outside
<1>10. mode[s] \notin Outside \cup {"loaded"} /\ mode'[s] # "loaded" /\ numPages[s] <= numPages'[s]
  BY <1>2 DEF Outside, Inv, TypeOK
<1> QED
  BY <1>2, <1>8, <1>9, <1>10, SameBase

LEMMA PutInStep ==
  ASSUME Inv, Inv', NEW s \in Session, NEW n \in Page, NEW img,
         InTxn(s), Put(s, n, img), img = Base(s, n) \cup {tx[s]}, InStep(s),
         numPages[s] <= numPages'[s],
         UNCHANGED <<file, log, mode, tx, walPos, wrote>>
  PROVE  InStep(s)'
<1>1. /\ \A m \in Page : /\ pool'[s][m] = IF m = n THEN img ELSE pool[s][m]
                         /\ shadow'[s][m] = IF m = n THEN ShadowImage(s, n) ELSE shadow[s][m]
      /\ touched'[s] = touched[s] \cup {n} /\ touched[s] \in SUBSET Page
  BY DEF Put, Inv, TypeOK, PageMap
<1>2. \A m \in Page : Settled(s, m)' = IF m = n THEN ShadowImage(s, n) ELSE Settled(s, m)
  BY <1>1 DEF Settled
<1>3. \/ ShadowImage(s, n) = Settled(s, n)
      \/ Settled(s, n) = Absent /\ ShadowImage(s, n) = file.page[n]
  BY DEF ShadowImage, Settled
<1>4. \A m \in Page : Base(s, m)' = Base(s, m)
  BY <1>2, <1>3 DEF Base
<1>5. mode[s] \notin Outside \cup {"loaded"} /\ mode'[s] # "loaded"
  BY DEF InTxn, Outside
<1>6. \A m \in touched'[s] : pool'[s][m] = Base(s, m) \cup {tx'[s]}
  BY <1>1, <1>5 DEF InStep
<1> QED
  BY <1>4, <1>5, <1>6, SameBase

LEMMA AdoptedAllNext ==
  ASSUME Inv', DInv', NEW s \in Session, HasAdopted(s)'
  PROVE  Ahead(s)' = {}
<1>1. Beyond(log', LogSize(log')) = {}
  BY SizeOfLog DEF Inv, TypeOK, DInv
<1> QED
  BY <1>1 DEF HasAdopted, Ahead

(* A step of a session that has batches to adopt afterwards. *)
LEMMA OwnInStep ==
  ASSUME Inv, Inv', DInv, DInv', NEW s \in Session, Step(s), EvictsSafely, InStep(s),
         mode'[s] \in {"idle", "auto", "txn"}, Ahead(s)' # {}
  PROVE  InStep(s)'
<1> USE DEF storage, caches, txnState, history
<1>1. ~HasAdopted(s)'
  BY AdoptedAllNext
<1>2. ~(OpenReplay(s) \/ OpenReset(s) \/ CheckpointFlush(s))
  BY DEF OpenReplay, OpenReset, CheckpointFlush, Inv, TypeOK
<1>3. ~(Close(s) \/ CloseRefused(s) \/ Leave(s))
  BY DEF Close, CloseRefused, Leave, EndTxn, Inv, TypeOK
<1>4. ~OpenRegister(s)
  BY <1>1 DEF OpenRegister, HasAdopted, Inv, TypeOK
<1>5. ~CheckpointReset(s)
  BY <1>1 DEF CheckpointReset, HasAdopted, LogSize, Inv, TypeOK
<1>6. ASSUME NEW n \in Page, Read(s, n)
      PROVE  InStep(s)'
  <2>1. HasAdopted(s) => HasAdopted(s)'
    BY <1>6 DEF Read, HasAdopted
  <2> QED
    BY <1>1, <1>6, <2>1, ReadInStep
<1>7. numPages[s] <= numPages[s]
  BY DEF Inv, TypeOK
<1>8. ASSUME NEW n \in Page, Write(s, n)
      PROVE  InStep(s)'
  <2>1. mode[s] \notin Outside /\ (n \in touched[s] => pool[s][n] # Absent)
    BY <1>8 DEF Write, InTxn, Outside, Inv, Marks, Cached
  <2>2. n \in touched[s] => View(s, n) = Base(s, n) \cup {tx[s]}
    BY <2>1 DEF View, InStep
  <2>3. n \notin touched[s] => View(s, n) = Base(s, n)
    BY DEF View, Base, Settled
  <2>4. View(s, n) \cup {tx[s]} = Base(s, n) \cup {tx[s]}
    BY <2>2, <2>3
  <2> QED
    BY <1>7, <1>8, <2>4, PutInStep DEF Write
<1>9. CASE Allocate(s)
  <2>1. numPages[s] \in Page /\ numPages[s] <= numPages'[s] /\ ~(numPages[s] < numPages[s])
    BY <1>9, MaxPagesAssumption DEF Allocate, Inv, TypeOK, Page
  <2>2. Base(s, numPages[s]) = Blank
    BY <1>9, <2>1 DEF Allocate, InTxn, Outside, InStep
  <2>3. {tx[s]} = Base(s, numPages[s]) \cup {tx[s]}
    BY <2>2 DEF Blank
  <2> QED
    BY <1>9, <2>1, <2>3, PutInStep DEF Allocate
<1>10. ASSUME mode[s] \in {"idle", "auto", "txn"},
              file' = file, log' = log, wrote' = wrote, walPos' = walPos, numPages' = numPages,
              touched'[s] = {}, \A n \in Page : Settled(s, n)' = Settled(s, n)
       PROVE  InStep(s)'
  <2>1. \A n \in Page : Base(s, n)' = Base(s, n)
    BY <1>10 DEF Base
  <2>2. mode[s] \notin Outside \cup {"loaded"} /\ mode'[s] # "loaded"
    BY <1>10 DEF Outside
  <2> QED
    BY <1>7, <1>10, <2>1, <2>2, SameBase
<1>11. CASE RefreshFirst(s)
  <2>1. touched[s] = {}
    BY <1>11 DEF RefreshFirst, MayRefresh, InTxn, Inv, Marks
  <2> QED
    BY <1>10, <1>11, <2>1 DEF RefreshFirst, MayRefresh, Settled
<1>12. CASE Refresh(s)
  BY <1>12, RefreshInStep
<1>13. ASSUME NEW how \in {"auto", "txn"}, Begin(s, how)
       PROVE  InStep(s)'
  <2>1. touched[s] = {}
    BY <1>13 DEF Begin, InTxn, Inv, Marks
  <2> QED
    BY <1>10, <1>13, <2>1 DEF Begin, Settled
<1>14. CASE Commit(s)
  <2>1. touched[s] = {}
    BY <1>1, <1>14 DEF Commit, HasAdopted, Inv, TypeOK
  <2>2. touched'[s] = {} /\ mode[s] \in {"auto", "txn"}
    BY <1>14 DEF Commit, InTxn, EndTxn, Inv, TypeOK
  <2> QED
    BY <1>10, <1>14, <2>1, <2>2 DEF Commit, Settled
<1>15. CASE Rollback(s)
  <2>1. touched'[s] = {} /\ mode[s] \in {"auto", "txn"}
    BY <1>15 DEF Rollback, InTxn, EndTxn, Inv, TypeOK
  <2>2. \A n \in Page : pool'[s][n] = Settled(s, n)
    BY <1>15 DEF Rollback, Restore, RestoredPool, Settled, Inv, TypeOK
  <2>3. \A n \in Page : Settled(s, n)' = Settled(s, n)
    BY <2>1, <2>2 DEF Settled
  <2> QED
    BY <1>10, <1>15, <2>1, <2>3 DEF Rollback
<1> QED
  BY <1>2, <1>3, <1>4, <1>5, <1>6, <1>8, <1>9, <1>11, <1>12, <1>13, <1>14, <1>15 DEF Step

(* A commit adds the latest state to those that another session has ahead.  *)
LEMMA CommitInStep ==
  ASSUME Inv, Inv', DInv, DInv', NEW o \in Session, NEW s \in Session \ {o},
         Commit(o), touched[o] # {}, AppendsToWholeLog, CommitsOnLatest, CommitsInQuiet,
         Unmoved(s), InStep(s), mode[s] \notin Outside \cup {"loaded"}, Atomic(Latest)'
  PROVE  InStep(s)'
<1> DEFINE L == Len(log) + 1
           t == tx[o]
<1>1. /\ Laid(log') /\ log' \in Seq(Group) /\ InTxn(o)
      /\ LogSize(log) < LogSize(log') /\ log'[L].upto = LogSize(log')
      /\ \A k \in DOMAIN log : k \in DOMAIN log' /\ log'[k] = log[k]
      /\ \A k \in DOMAIN log' : k \in DOMAIN log \/ k = L
      /\ L \in DOMAIN log'
  BY CommitMoves
<1>2. /\ log \in Seq(Group) /\ Len(log) \in Nat /\ DOMAIN log = 1 .. Len(log)
      /\ file' = file /\ t \in Txn /\ fate[t] = "active"
      /\ wrote' = [wrote EXCEPT ![t] = touched[o]] /\ wrote \in [Txn -> SUBSET Page]
  <2>1. log \in Seq(Group) /\ wrote \in [Txn -> SUBSET Page]
    BY DEF Inv, TypeOK
  <2>2. Len(log) \in Nat /\ DOMAIN log = 1 .. Len(log)
    BY <2>1
  <2> QED
    BY <1>1, <2>1, <2>2 DEF Commit, Inv, Marks
<1>3. Len(log') = L
  <2>1. DOMAIN log' = 1 .. Len(log') /\ Len(log') \in Nat
    BY <1>1
  <2>2. L <= Len(log') /\ Len(log') <= L
    BY <1>1, <1>2, <2>1
  <2>3. L \in Nat
    BY <1>2
  <2>4. \A a, b \in Nat : a <= b /\ b <= a => a = b
    OBVIOUS
  <2> HIDE DEF L
  <2> QED
    BY ONLY <2>1, <2>2, <2>3, <2>4
<1>4. ASSUME NEW k \in 0 .. Len(log), NEW n \in Page
      PROVE  Adopting(s, k)'[n] = Adopting(s, k)[n]
  <2>1. Ahead(s) = Beyond(log, walPos[s]) /\ Ahead(s)' = Beyond(log', walPos[s])
    BY DEF Ahead, Unmoved
  <2>2. Upto(s, k)' = Upto(s, k) /\ Upto(s, k) \in SUBSET DOMAIN log
    BY <1>1, <1>2, <2>1 DEF Upto, Beyond
  <2>3. Merged(log', Upto(s, k)')[n] = Merged(log, Upto(s, k))[n]
    BY <1>1, <1>2, <2>2, MergedAlike
  <2>4. Base(s, n)' = Base(s, n)
    BY <1>2 DEF Unmoved, Base, Settled
  <2> QED
    BY <2>3, <2>4 DEF Adopting, Overlay
<1>5. \A u \in Txn : wrote'[u] \in SUBSET Page
  BY DEF Inv, TypeOK
<1>6. ASSUME NEW k \in 0 .. Len(log)
      PROVE  Atomic(Adopting(s, k))'
  <2>1. Atomic(Adopting(s, k)) /\ \A n \in Page : t \notin Adopting(s, k)[n]
    BY <1>2, LoggedOnly DEF InStep, LoggedTxns
  <2>2. ASSUME NEW u \in Txn, NEW m \in wrote'[u], NEW n \in wrote'[u]
        PROVE  u \in Adopting(s, k)[m] <=> u \in Adopting(s, k)[n]
    <3>1. CASE u = t
      BY <1>5, <2>1, <3>1
    <3>2. CASE u # t
      BY <1>2, <2>1, <3>2 DEF Atomic
    <3> QED
      BY <3>1, <3>2
  <2> QED
    BY <1>4, <1>5, <2>2 DEF Atomic
<1>7. ASSUME NEW k, k = Len(log')
      PROVE  Atomic(Adopting(s, k))'
  <2>1. ASSUME NEW n \in Page
        PROVE  Adopting(s, k)'[n] = Latest'[n]
    <3>1. mode'[s] \notin Outside \cup {"loaded"}
      BY DEF Unmoved
    <3>2. Adopting(s, Len(log))'[n] = Latest'[n]
      BY <3>1, AdoptsAll
    <3> QED
      BY <1>7, <3>2 DEF Adopting, Upto
  <2> QED
    BY <1>5, <2>1 DEF Atomic
<1>8. \A k \in 0 .. Len(log') : k \in 0 .. Len(log) \/ k = Len(log')
  BY <1>2, <1>3
<1>9. \A n \in touched'[s] : pool'[s][n] = Base(s, n)' \cup {tx'[s]}
  BY <1>2 DEF Unmoved, InStep, Base, Settled
<1>10. \A n \in Page : Base(s, n)' # Blank => n < numPages'[s]
  BY <1>2 DEF Unmoved, InStep, Base, Settled
<1> QED
  BY <1>6, <1>7, <1>8, <1>9, <1>10 DEF InStep

(* A step of another session. *)
LEMMA OtherInStep ==
  ASSUME Inv, Inv', DInv, DInv', NEW o \in Session, NEW s \in Session \ {o}, Step(o),
         AppendsToWholeLog, CommitsOnLatest, CommitsInQuiet, FileStandsStill,
         InStep(s), Atomic(Latest)', mode'[s] \in {"idle", "auto", "txn"}, Ahead(s)' # {}
  PROVE  InStep(s)'
<1>1. /\ Unmoved(s)
      /\ \/ log' = log /\ wrote' = wrote
         \/ log' = << >>
         \/ Commit(o) /\ touched[o] # {}
  BY StepChanges
<1>2. mode[s] \notin Outside \cup {"loaded"} /\ Registered(s)
  BY <1>1 DEF Unmoved, Outside, Registered
<1>3. log' # << >>
  BY <1>1 DEF Ahead, Beyond
<1>4. CASE Commit(o) /\ touched[o] # {}
  BY <1>1, <1>2, <1>4, CommitInStep
<1>5. CASE log' = log /\ wrote' = wrote
  <2>1. ~HasAdopted(s)
    BY <1>1, <1>5, AdoptedAllNext DEF HasAdopted, Unmoved
  <2>2. crashes' = crashes
    BY DEF Step, OpenReplay, OpenReset, OpenRegister, Read, Write, RefreshFirst,
           Refresh, Begin, Allocate, Commit, Rollback, CheckpointFlush,
           CheckpointReset, Close, CloseRefused, Leave
  <2>3. file' = file
    BY <1>2, <2>1, <2>2 DEF FileStandsStill, Crashes
  <2>4. \A n \in Page : Base(s, n)' = Base(s, n)
    BY <1>1, <2>3 DEF Unmoved, Base, Settled
  <2>5. \A n \in touched'[s] : pool'[s][n] = Base(s, n) \cup {tx'[s]}
    BY <1>1, <1>2 DEF Unmoved, InStep
  <2>6. walPos'[s] = walPos[s] /\ mode'[s] # "loaded" /\ numPages[s] <= numPages'[s]
    <3>1. walPos'[s] = walPos[s] /\ mode'[s] # "loaded" /\ numPages'[s] = numPages[s]
      BY <1>1 DEF Unmoved
    <3>2. numPages[s] \in 1 .. MaxPages
      BY DEF Inv, TypeOK
    <3> QED
      BY <3>1, <3>2
  <2> QED
    BY <1>2, <1>5, <2>4, <2>5, <2>6, SameBase
<1> QED
  BY <1>1, <1>3, <1>4, <1>5

LEMMA VInvNext ==
  ASSUME Relaxed = {}, Inv, Inv', DInv, DInv', VInv, [DisciplinedNext]_<<vars, stood>>
  PROVE  VInv'
<1>1. CASE UNCHANGED <<vars, stood>>
  BY <1>1 DEF VInv, InStep, Atomic, Adopting, Upto, Base, Settled, Ahead, Latest, Recovered, vars
<1>2. CASE DisciplinedNext
  <2>1. /\ RollsBackCleanPages /\ AppendsToWholeLog /\ CommitsOnLatest /\ CommitsInQuiet
        /\ ResetsAlone /\ FlushesLatest /\ EvictsSafely
        /\ stood' = (stood /\ FileStandsStill)
    BY <1>2, DisciplinedStep DEF DisciplinedNext
  <2>2. Invisible => Atomic(Latest)'
    BY DEF VInv, Invisible, Atomic
  <2>3. ASSUME NEW o \in Session, Step(o)
        PROVE  VInv'
    <3>1. Invisible \/ /\ InTxn(o) /\ touched[o] # {}
                       /\ AfterDeath!Acknowledge(tx[o], touched[o])
      BY <2>1, <2>3, StepDInv
    <3>2. Atomic(Latest)'
      BY <2>2, <3>1, AtomicLatest DEF VInv
    <3>3. ASSUME stood', NEW s \in Session
          PROVE  InStep(s)'
      <4>1. InStep(s) /\ FileStandsStill /\ SeesLatest(s)' /\ mode' \in [Session -> Modes]
        BY <2>1, <3>3 DEF VInv, DInv, SessionOK, Inv, TypeOK
      <4>2. CASE mode'[s] \in Outside
        BY <4>2 DEF InStep
      <4>3. CASE Ahead(s)' = {}
        BY <3>2, <4>1, <4>3, AdoptedInStep
      <4>4. CASE mode'[s] \notin Outside /\ Ahead(s)' # {}
        <5>1. mode'[s] # "loaded"
          BY <4>4 DEF Ahead
        <5>2. mode'[s] \notin Ending
          BY <4>4, AdoptedAllNext DEF DInv, Current
        <5>3. mode'[s] \in {"idle", "auto", "txn"}
          BY <4>1, <4>4, <5>1, <5>2 DEF Modes, Outside, Ending
        <5> QED
          BY <2>1, <2>3, <3>2, <4>1, <4>4, <5>3, OwnInStep, OtherInStep
      <4> QED
        BY <4>2, <4>3, <4>4
    <3> QED
      BY <3>2, <3>3 DEF VInv
  <2>4. ASSUME Crash
        PROVE  VInv'
    <3>1. Invisible \/ \E s \in Session : /\ InTxn(s) /\ touched[s] # {}
                                          /\ AfterDeath!LeaveInDoubt(tx[s], touched[s])
      BY <2>1, <2>4, CrashKeeps
    <3>2. Atomic(Latest)'
      BY <2>2, <3>1, AtomicLatest DEF VInv
    <3>3. \A s \in Session : mode'[s] \in Outside
      BY <2>4, CrashMoves DEF Outside
    <3> QED
      BY <3>2, <3>3 DEF VInv, InStep
  <2> QED
    BY <1>2, <2>3, <2>4 DEF DisciplinedNext, Next
<1> QED
  BY <1>1, <1>2

(* While all disciplines are observed and the file changes only when no      *)
(* session is behind, a session inside BEGIN ... COMMIT, or one that has     *)
(* refreshed (engine.py:92), sees every other transaction on all the pages   *)
(* it wrote or on none of them.                                              *)
THEOREM NoTransactionIsHalfSeen ==
  ASSUME Relaxed = {}
  PROVE  DisciplinedSpec => []NoHalfTransactions
<1>1. Init => VInv
  <2> SUFFICES ASSUME Init PROVE VInv
    OBVIOUS
  <2>1. Latest = [n \in Page |-> {}] /\ \A t \in Txn : wrote[t] = {}
    BY InitDInv DEF Init
  <2>2. \A s \in Session : mode[s] \in Outside
    BY DEF Init, Outside
  <2> QED
    BY <2>1, <2>2 DEF VInv, Atomic, InStep
<1>2. /\ Inv /\ DInv /\ Inv' /\ DInv' /\ VInv /\ [DisciplinedNext]_<<vars, stood>>
      => VInv'
  BY VInvNext
<1>3. Inv /\ DInv /\ VInv /\ SeesCommitted => NoHalfTransactions
  <2> SUFFICES ASSUME Inv, DInv, VInv, SeesCommitted, stood, NEW s \in Session,
                      mode[s] = "txn" \/ UpToDate(s),
                      NEW t \in Txn, t # tx[s], NEW m \in wrote[t], NEW n \in wrote[t]
               PROVE  (t \in View(s, m)) <=> (t \in View(s, n))
    BY DEF NoHalfTransactions, LoggedTxns
  <2>1. m \in Page /\ n \in Page
    BY DEF Inv, TypeOK
  <2>2. CASE UpToDate(s)
    BY <2>1, <2>2 DEF SeesCommitted, VInv, Atomic, Latest
  <2>3. CASE mode[s] = "txn"
    <3>1. InStep(s) /\ mode[s] \notin Outside \cup {"loaded"}
      BY <2>3 DEF VInv, Outside
    <3>2. 0 \in 0 .. Len(log) /\ Upto(s, 0) = {}
      <4>1. log \in Seq(Group) /\ Ahead(s) \subseteq DOMAIN log
        BY DEF Inv, TypeOK, Ahead, Beyond
      <4> QED
        BY <4>1 DEF Upto
    <3>3. ASSUME NEW k \in Page
          PROVE  Adopting(s, 0)[k] = Base(s, k)
      <4>1. Merged(log, {})[k] = Absent
        BY NotHeldNotMerged
      <4> QED
        BY <3>2, <4>1 DEF Adopting, Overlay
    <3>4. ASSUME NEW k \in Page
          PROVE  t \in View(s, k) <=> t \in Base(s, k)
      <4>1. CASE k \in touched[s]
        <5>1. pool[s][k] # Absent /\ pool[s][k] = Base(s, k) \cup {tx[s]}
          BY <3>1, <4>1 DEF InStep, Inv, Marks, Cached
        <5> QED
          BY <5>1 DEF View
      <4>2. CASE k \notin touched[s]
        BY <4>2 DEF View, Base, Settled
      <4> QED
        BY <4>1, <4>2
    <3>5. Atomic(Adopting(s, 0))
      BY <3>1, <3>2 DEF InStep
    <3>6. t \in Adopting(s, 0)[m] <=> t \in Adopting(s, 0)[n]
      BY <3>5 DEF Atomic
    <3> QED
      BY <2>1, <3>3, <3>4, <3>6
  <2> QED
    BY <2>2, <2>3
<1> QED
  BY <1>1, <1>2, <1>3, DInvAlways, RefreshedSeesCommitted, PTL DEF DisciplinedSpec
=============================================================================
