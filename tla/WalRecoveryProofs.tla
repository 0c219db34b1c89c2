-------------------------- MODULE WalRecoveryProofs --------------------------
(* Theorems about WalRecovery, for every number of pages, groups and        *)
(* crashes: an open may be interrupted anywhere and started again.          *)
EXTENDS WalRecovery, WalLogProofs

-----------------------------------------------------------------------------
(* The inductive invariant *)

Goal == Replay(found.log, found.file)

(* What an interrupted replay may have made of the file that was found.     *)
Between(f) ==
  /\ found.file.len <= f.len /\ f.len <= Goal.len
  /\ \A n \in Page :
       \/ f.page[n] = found.file.page[n]
       \/ \E k \in Applied(found.log) : /\ found.log[k].images[n] # Absent
                                        /\ f.page[n] = found.log[k].images[n]

(* The log is kept until file and disk have all of it.                      *)
Kept ==
  /\ Between(file) /\ Between(disk)
  /\ pc = "replayed" => file = Goal /\ disk = Goal
  /\ log # found.log => /\ log = << >> /\ pc \in {"closed", "open"}
                        /\ file = Goal /\ disk = Goal

Busy == pc \in {"parse", "apply"}

(* The commit frames passed, without the one whose batch is being applied,  *)
(* and the groups they cover.                                               *)
Done == {j \in DOMAIN log : /\ <<j, Marker>> \in Frames \ Unread
                            /\ pc = "apply" => j # pos[1]}
Past == {k \in DOMAIN log : \E j \in Done : k <= j}

(* The other groups of which the frame of page n has been parsed. *)
Collecting(n) == {k \in DOMAIN log \ Past : <<k, n>> \in Frames \ Unread}

(* Pages of the batch that are in the file. *)
Written == IF pc = "apply" THEN Held(batch) \ todo ELSE {}

(* The parser has read no torn frame, its batch holds the latest images     *)
(* since the last commit, and the file those up to it.                      *)
Parsed ==
  /\ \A f \in Frames : Torn(f) => f \in Unread
  /\ \A n \in Page : batch[n] = Merged(log, Collecting(n))[n]
  /\ pc = "apply" => pos \in Frames /\ pos[2] = Marker

InPlace ==
  /\ \A j \in Done : log[j].num <= file.len
  /\ \A k \in Past, n \in Page : log[k].images[n] # Absent => n < file.len
  /\ \A n \in Page \ Written : Merged(log, Past)[n] # Absent =>
                                 file.page[n] = Merged(log, Past)[n]
  /\ \A n \in Written : file.page[n] = batch[n] /\ n < file.len
  /\ applied = 0 \/ \E j \in Done : applied <= j

RInv ==
  /\ TypeOK /\ found \in [log : Seq(Group), file : File]
  /\ Len(found.log) <= MaxGroups
  /\ Kept
  /\ Busy => Parsed /\ InPlace
  /\ pc = "closed" => pos = Header /\ batch = NoImages /\ applied = 0

-----------------------------------------------------------------------------
(* The frames of the log *)

Places == Nat \X Nat

LEMMA BeforeOrders ==
  ASSUME NEW f \in Places, NEW g \in Places
  PROVE  /\ ~Before(f, f)
         /\ f = g \/ Before(f, g) \/ Before(g, f)
         /\ \A h \in Places : Before(f, g) /\ Before(g, h) => Before(f, h)
BY DEF Places, Before

LEMMA FramePlaces ==
  ASSUME TypeOK
  PROVE  /\ Frames \subseteq Places /\ Unread \subseteq Frames /\ pos \in Places
         /\ Header \in Places /\ \A f \in Frames : Before(Header, f)
         /\ Marker \in Nat /\ \A n \in Page : n \in Nat /\ n < Marker
<1>1. MaxPages \in Nat /\ MaxGroups \in Nat
  BY MaxPagesAssumption, RecoveryAssumption
<1>2. DOMAIN log = 1 .. Len(log) /\ Len(log) \in Nat
  BY DEF TypeOK
<1>3. Frames \subseteq Places /\ \A f \in Frames : 0 < f[1]
  BY <1>1, <1>2 DEF Frames, Places
<1>4. pos \in Places
  BY <1>1 DEF TypeOK, Places
<1> QED
  BY <1>1, <1>3, <1>4 DEF Unread, Header, Places, Before, Marker, Page

(* What is not unread is parsed, with everything before it. *)
LEMMA ParsedBefore ==
  ASSUME TypeOK, NEW f \in Frames \ Unread, NEW g \in Frames, Before(g, f)
  PROVE  g \notin Unread
BY FramePlaces, BeforeOrders DEF Unread

LEMMA NextExists ==
  ASSUME TypeOK, Unread # {}
  PROVE  \E f \in Unread : IsNext(f)
<1>1. \A f \in Unread : f \in Places /\ f = <<f[1], f[2]>> /\ f[1] \in Nat /\ f[2] \in Nat
  BY FramePlaces DEF Places
<1> DEFINE K == {f[1] : f \in Unread}
<1>2. K \in SUBSET Nat /\ K # {}
  BY <1>1
<1>3. PICK k \in K : \A i \in K : k <= i
  BY <1>2, SmallestInSet
<1> DEFINE N == {f[2] : f \in {g \in Unread : g[1] = k}}
<1>4. N \in SUBSET Nat /\ N # {}
  BY <1>1
<1>5. PICK n \in N : \A i \in N : n <= i
  BY <1>4, SmallestInSet
<1>6. PICK f \in Unread : f[1] = k /\ f[2] = n
  OBVIOUS
<1>7. ASSUME NEW g \in Unread
      PROVE  ~Before(g, f)
  <2>1. k <= g[1] /\ k \in Nat /\ g[1] \in Nat /\ n \in Nat /\ g[2] \in Nat
    BY <1>1, <1>2, <1>3, <1>4
  <2>2. g[1] = k => n <= g[2]
    BY <1>5
  <2> QED
    BY <1>6, <2>1, <2>2 DEF Before
<1> QED
  BY <1>6, <1>7 DEF IsNext

(* Parsing the next frame takes it, and it alone, from the unread ones.     *)
LEMMA ReadsOne ==
  ASSUME TypeOK, NEW f, IsNext(f), pos' = f, log' = log
  PROVE  Frames' = Frames /\ Unread' = Unread \ {f} /\ f \in Frames
<1>1. Frames' = Frames
  BY DEF Frames
<1>2. f \in Unread /\ f \in Frames /\ Before(pos, f)
  BY DEF IsNext, Unread
<1>3. ASSUME NEW g \in Frames
      PROVE  Before(f, g) <=> (Before(pos, g) /\ g # f)
  <2>1. f \in Places /\ g \in Places /\ pos \in Places
    BY <1>2, FramePlaces
  <2>2. g \in Unread => ~Before(g, f)
    BY DEF IsNext
  <2> QED
    BY <1>2, <2>1, <2>2, BeforeOrders DEF Unread
<1>4. Unread' = {g \in Frames : Before(f, g)}
  BY <1>1 DEF Unread, Before
<1> QED
  BY <1>1, <1>2, <1>3, <1>4 DEF Unread

(* A marker that has been parsed, with no torn frame before it, is a commit *)
(* that recovery reaches.                                                   *)
LEMMA ParsedCommits ==
  ASSUME TypeOK, Parsed, NEW j \in DOMAIN log, <<j, Marker>> \in Frames \ Unread
  PROVE  j \in CommitsFrom(log, 1)
<1>1. DOMAIN log = 1 .. Len(log) /\ Len(log) \in Nat
  BY DEF TypeOK
<1>2. \A k \in DOMAIN log : log[k].end \in {"commit", "none", "torn"}
  <2>1. \A k \in DOMAIN log : log[k] \in Group
    BY DEF TypeOK
  <2> QED
    BY <2>1 DEF Group
<1>3. \A k \in DOMAIN log : <<k, Marker>> \in Frames <=> log[k].end # "none"
  BY MaxPagesAssumption DEF Frames, Marker
<1>4. \A k \in DOMAIN log : log[k].end = "torn" => <<k, Marker>> \in Unread
  BY <1>3 DEF Parsed, Torn
<1>5. log[j].end = "commit"
  BY <1>2, <1>3, <1>4
<1>6. ASSUME NEW k \in 1 .. (j - 1), log[k].end = "torn"
      PROVE  FALSE
  <2>1. k \in DOMAIN log /\ k < j
    BY <1>1
  <2>2. <<k, Marker>> \in Unread /\ <<k, Marker>> \in Frames
    BY <1>4, <1>6, <2>1 DEF Unread
  <2>3. Before(<<k, Marker>>, <<j, Marker>>)
    BY <2>1 DEF Before
  <2> QED
    BY <2>2, <2>3, ParsedBefore
<1> QED
  BY <1>1, <1>5, <1>6 DEF CommitsFrom

(* When the loop has ended, all of them have been parsed. *)
LEMMA AllParsed ==
  ASSUME TypeOK, Ends, NEW j \in CommitsFrom(log, 1)
  PROVE  <<j, Marker>> \in Frames \ Unread
<1>1. DOMAIN log = 1 .. Len(log) /\ Len(log) \in Nat
  BY DEF TypeOK
<1>2. j \in DOMAIN log /\ log[j].end = "commit" /\ \A k \in 1 .. (j - 1) : log[k].end # "torn"
  BY <1>1 DEF CommitsFrom
<1>3. <<j, Marker>> \in Frames
  BY <1>2, MaxPagesAssumption DEF Frames, Marker
<1> SUFFICES ASSUME <<j, Marker>> \in Unread
             PROVE  FALSE
  BY <1>3
<1>4. PICK f \in Unread : IsNext(f)
  BY NextExists
<1>5. f[2] = Marker /\ log[f[1]].end = "torn"
  BY <1>4 DEF Ends, Torn
<1>6. f \in Frames /\ f \in Places /\ f[1] \in DOMAIN log
  BY FramePlaces DEF Unread, Frames
<1>7. ~Before(<<j, Marker>>, f)
  BY <1>4 DEF IsNext
<1>8. f[1] <= j
  BY <1>1, <1>2, <1>6, <1>7 DEF Before
<1>9. f[1] # j
  BY <1>2, <1>5
<1> QED
  BY <1>1, <1>2, <1>5, <1>6, <1>8, <1>9

-----------------------------------------------------------------------------
(* What a replay gives *)

(* The groups that recovery applies lie before a commit it reaches. *)
LEMMA AppliedGroups ==
  ASSUME NEW w \in Seq(Group)
  PROVE  /\ Applied(w) \in SUBSET DOMAIN w /\ CommitsFrom(w, 1) \subseteq DOMAIN w
         /\ DOMAIN w = 1 .. Len(w) /\ Len(w) \in Nat
BY DEF Applied, CommitsFrom

LEMMA MergedImages ==
  ASSUME NEW w \in Seq(Group), NEW K \in SUBSET DOMAIN w
  PROVE  Merged(w, K) \in [Page -> Image \cup {Absent}]
<1>1. ASSUME NEW n \in Page, Merged(w, K)[n] # Absent
      PROVE  Merged(w, K)[n] \in Image \cup {Absent}
  <2>1. PICK m \in K : Merged(w, K)[n] = w[m].images[n]
    BY <1>1, MergedFromLast
  <2>2. w[m] \in Group
    OBVIOUS
  <2> QED
    BY <2>1, <2>2 DEF Group
<1>2. Merged(w, K) = [n \in Page |-> Merged(w, K)[n]]
  BY DEF Merged
<1> QED
  BY <1>1, <1>2

(* The length of a replayed file is the least that has room for what the    *)
(* file had, for every commit and for every page.                           *)
LEMMA ReplayLength ==
  ASSUME NEW w \in Seq(Group), NEW f \in File
  PROVE  /\ Replay(w, f).len \in 0 .. MaxPages
         /\ f.len <= Replay(w, f).len
         /\ \A j \in CommitsFrom(w, 1) : w[j].num <= Replay(w, f).len
         /\ \A k \in Applied(w), n \in Page : w[k].images[n] # Absent => n < Replay(w, f).len
         /\ \A b \in Nat : /\ f.len <= b
                           /\ \A j \in CommitsFrom(w, 1) : w[j].num <= b
                           /\ \A k \in Applied(w), n \in Page :
                                w[k].images[n] # Absent => n < b
                           => Replay(w, f).len <= b
<1> DEFINE M == Merged(w, Applied(w))
           S == {f.len} \cup {w[j].num : j \in CommitsFrom(w, 1)} \cup {n + 1 : n \in Held(M)}
<1>1. \A k \in DOMAIN w : w[k].num \in 1 .. MaxPages
  <2>1. \A k \in DOMAIN w : w[k] \in Group
    OBVIOUS
  <2> QED
    BY <2>1 DEF Group
<1>2. MaxPages \in Nat /\ f.len \in 0 .. MaxPages /\ \A n \in Page : n \in Nat /\ n + 1 \in 0 .. MaxPages
  BY MaxPagesAssumption DEF File, Page
<1>3. Held(M) \subseteq Page
  BY DEF Held
<1>4. S \in SUBSET (0 .. MaxPages) /\ S # {}
  BY <1>1, <1>2, <1>3, AppliedGroups
<1>5. Largest(S) \in S /\ \A x \in S : x <= Largest(S)
  BY <1>2, <1>4, LargestInSet
<1>6. Replay(w, f).len = Largest(S)
  BY DEF Replay
<1>7. ASSUME NEW k \in Applied(w), NEW n \in Page, w[k].images[n] # Absent
      PROVE  n + 1 \in S
  BY <1>7, NothingMerged, AppliedGroups DEF Held
<1>8. ASSUME NEW n \in Held(M)
      PROVE  \E k \in Applied(w) : w[k].images[n] # Absent
  BY <1>8, MergedFromLast, AppliedGroups DEF Held
<1>9. \A j \in CommitsFrom(w, 1) : w[j].num \in S
  OBVIOUS
<1>10. f.len \in S
  OBVIOUS
<1>11. ASSUME NEW n \in Page, n + 1 \in S
       PROVE  n < Largest(S)
  <2>1. n + 1 <= Largest(S)
    BY <1>5, <1>11
  <2>2. Largest(S) \in Nat /\ n \in Nat
    BY <1>2, <1>4, <1>5
  <2> QED
    BY <2>1, <2>2
<1>12. ASSUME NEW b \in Nat, f.len <= b,
              \A j \in CommitsFrom(w, 1) : w[j].num <= b,
              \A k \in Applied(w), n \in Page : w[k].images[n] # Absent => n < b
       PROVE  Largest(S) <= b
  <2>1. \A n \in Held(M) : n + 1 <= b
    BY <1>2, <1>3, <1>8, <1>12
  <2> QED
    BY <1>5, <1>12, <2>1
<1> HIDE DEF S
<1> QED
  BY <1>2, <1>4, <1>5, <1>6, <1>7, <1>9, <1>10, <1>11, <1>12

(* Goal is a file, and between the file found and itself. *)
LEMMA GoalIs ==
  ASSUME found \in [log : Seq(Group), file : File]
  PROVE  /\ Goal \in File /\ Between(Goal)
         /\ Goal.page = Overlay(found.file.page, Merged(found.log, Applied(found.log)))
<1>1. found.log \in Seq(Group) /\ found.file \in File
  OBVIOUS
<1> DEFINE M == Merged(found.log, Applied(found.log))
<1>2. Goal.page = Overlay(found.file.page, M)
  BY DEF Goal, Replay
<1>3. Goal.len \in 0 .. MaxPages /\ found.file.len <= Goal.len
  BY <1>1, ReplayLength DEF Goal
<1>4. M \in [Page -> Image \cup {Absent}]
  BY <1>1, MergedImages, AppliedGroups
<1>5. found.file.page \in [Page -> Image]
  BY <1>1 DEF File
<1>6. Overlay(found.file.page, M) \in [Page -> Image]
  BY <1>4, <1>5 DEF Overlay
<1>7. Goal = [len |-> Goal.len, page |-> Goal.page]
  BY DEF Goal, Replay
<1>8. Goal \in File
  BY <1>2, <1>3, <1>6, <1>7 DEF File
<1>9. ASSUME NEW n \in Page
      PROVE  \/ Goal.page[n] = found.file.page[n]
             \/ \E k \in Applied(found.log) : /\ found.log[k].images[n] # Absent
                                              /\ Goal.page[n] = found.log[k].images[n]
  <2>1. CASE M[n] = Absent
    BY <1>2, <2>1 DEF Overlay
  <2>2. CASE M[n] # Absent
    <3>1. PICK k \in Applied(found.log) : found.log[k].images[n] # Absent
                                          /\ M[n] = found.log[k].images[n]
      BY <1>1, <2>2, MergedFromLast, AppliedGroups
    <3> QED
      BY <1>2, <2>2, <3>1 DEF Overlay
  <2> QED
    BY <2>1, <2>2
<1>10. Goal.len <= Goal.len
  BY <1>3
<1> QED
  BY <1>2, <1>3, <1>8, <1>9, <1>10 DEF Between

(* Whatever an interrupted replay has done, another one gives the same.     *)
LEMMA ReplayAgain ==
  ASSUME found \in [log : Seq(Group), file : File], NEW f \in File, Between(f)
  PROVE  Replay(found.log, f) = Goal
<1>1. found.log \in Seq(Group) /\ found.file \in File
  OBVIOUS
<1> DEFINE M == Merged(found.log, Applied(found.log))
<1>2. Overlay(f.page, M) = Overlay(found.file.page, M)
  <2> SUFFICES ASSUME NEW n \in Page, M[n] = Absent
               PROVE  f.page[n] = found.file.page[n]
    BY DEF Overlay
  <2>1. \A k \in Applied(found.log) : found.log[k].images[n] = Absent
    BY <1>1, NothingMerged, AppliedGroups
  <2> QED
    BY <2>1 DEF Between
<1>3. Replay(found.log, f).len = Goal.len
  <2>1. found.file.len <= f.len /\ f.len <= Goal.len
    BY DEF Between
  <2>2. f.len \in Nat /\ found.file.len \in Nat
    BY <1>1 DEF File
  <2> DEFINE r == Replay(found.log, f).len
             g == Replay(found.log, found.file).len
  <2>3. r \in Nat /\ g \in Nat /\ f.len <= r /\ found.file.len <= g /\ g = Goal.len
    BY <1>1, ReplayLength DEF Goal
  <2>4. g <= r
    <3>1. found.file.len <= r
      BY <2>1, <2>2, <2>3
    <3> QED
      BY <1>1, <2>3, <3>1, ReplayLength
  <2>5. r <= g
    BY <1>1, <2>1, <2>3, ReplayLength
  <2> QED
    BY <2>3, <2>4, <2>5
<1> QED
  BY <1>2, <1>3 DEF Replay, Goal

-----------------------------------------------------------------------------
(* Steps of the parser *)

LEMMA LogGroups ==
  ASSUME TypeOK
  PROVE  /\ log \in Seq(Group) /\ DOMAIN log = 1 .. Len(log) /\ Len(log) \in Nat
         /\ Len(log) <= MaxGroups /\ MaxGroups \in Nat
         /\ Past \in SUBSET DOMAIN log /\ Done \subseteq DOMAIN log
         /\ \A n \in Page : Collecting(n) \in SUBSET DOMAIN log
BY RecoveryAssumption DEF TypeOK, Past, Done, Collecting

LEMMA FrameOf ==
  ASSUME TypeOK, NEW k \in DOMAIN log
  PROVE  /\ <<k, Marker>> \in Frames <=> log[k].end # "none"
         /\ \A n \in Page : /\ <<k, n>> \in Frames <=> log[k].images[n] # Absent
                            /\ Before(<<k, n>>, <<k, Marker>>)
BY MaxPagesAssumption, LogGroups DEF Frames, Marker, Page, Before

(* An unread frame is of no group that a commit frame passed has covered.   *)
LEMMA UnreadNotPast ==
  ASSUME TypeOK, NEW k \in DOMAIN log, NEW n \in Page, <<k, n>> \in Unread
  PROVE  k \notin Past
<1> SUFFICES ASSUME NEW j \in Done, k <= j
             PROVE  FALSE
  BY DEF Past
<1>1. <<j, Marker>> \in Frames \ Unread /\ j \in DOMAIN log
  BY DEF Done
<1>2. <<k, n>> \in Frames
  BY DEF Unread
<1>3. Before(<<k, n>>, <<j, Marker>>)
  <2>1. n < Marker
    BY FramePlaces
  <2>2. k < j \/ k = j
    BY <1>1, LogGroups
  <2> QED
    BY <2>1, <2>2 DEF Before
<1> QED
  BY <1>1, <1>2, <1>3, ParsedBefore

LEMMA StartKeeps == RInv /\ Start => RInv'
<1> SUFFICES ASSUME RInv, Start
             PROVE  RInv'
  OBVIOUS
<1>1. UNCHANGED <<log, file, disk, pos, batch, todo, applied, crashes, found>>
  BY DEF Start
<1>2. pc = "closed" /\ pc' \in {"open", "parse"} /\ (log = << >> => pc' = "open")
  BY DEF Start
<1>3. TypeOK /\ found \in [log : Seq(Group), file : File] /\ Len(found.log) <= MaxGroups
      /\ Kept /\ pos = Header /\ batch = NoImages /\ applied = 0
  BY <1>2 DEF RInv
<1>4. TypeOK'
  BY <1>1, <1>2, <1>3 DEF TypeOK, Held
<1>5. Kept'
  BY <1>1, <1>2, <1>3 DEF Kept, Between, Goal
<1>6. CASE pc' = "open"
  BY <1>1, <1>3, <1>4, <1>5, <1>6 DEF RInv, Busy
<1>7. CASE pc' = "parse"
  <2>1. Frames' = Frames /\ Unread' = Frames
    BY <1>1, <1>3, FramePlaces DEF Frames, Unread, Before
  <2>2. Done' = {} /\ Past' = {} /\ \A n \in Page : Collecting(n)' = {}
    BY <1>1, <2>1 DEF Done, Past, Collecting
  <2>3. Written' = {}
    BY <1>7 DEF Written
  <2>4. \A n \in Page : Merged(log', {})[n] = Absent
    BY DEF Merged, LatestImage
  <2>5. Parsed'
    <3>1. \A f \in Frames' : Torn(f)' => f \in Unread'
      BY <2>1
    <3>2. \A n \in Page : batch'[n] = Absent
      BY <1>1, <1>3 DEF NoImages
    <3> QED
      BY <1>7, <2>2, <2>4, <3>1, <3>2 DEF Parsed
  <2>6. InPlace'
    BY <1>1, <1>3, <2>2, <2>3, <2>4 DEF InPlace
  <2> QED
    BY <1>1, <1>3, <1>4, <1>5, <1>7, <2>5, <2>6 DEF RInv
<1> QED
  BY <1>2, <1>6, <1>7

(* A page frame joins the batch; it is the latest of its page so far.       *)
LEMMA TakePageKeeps == RInv /\ TakePage => RInv'
<1> SUFFICES ASSUME RInv, TakePage
             PROVE  RInv'
  OBVIOUS
<1>1. /\ pc = "parse" /\ pc' = "parse" /\ log' = log /\ file' = file /\ disk' = disk
      /\ todo' = todo /\ applied' = applied /\ crashes' = crashes /\ found' = found
  BY DEF TakePage
<1>2. PICK f \in Unread : IsNext(f) /\ f[2] \in Page /\ batch' = Collected(f) /\ pos' = f
  BY DEF TakePage
<1>3. TypeOK /\ Kept /\ Parsed /\ InPlace
  BY <1>1 DEF RInv, Busy
<1>4. Frames' = Frames /\ Unread' = Unread \ {f} /\ f \in Frames
  BY <1>1, <1>2, <1>3, ReadsOne
<1> DEFINE k == f[1]
           n == f[2]
<1>5. k \in DOMAIN log /\ f = <<k, n>> /\ n \in Page /\ n # Marker
      /\ log[k].images[n] # Absent
  BY <1>2, <1>3, <1>4, FramePlaces DEF Frames
<1>6. Done' = Done /\ Past' = Past /\ Written' = Written /\ Written = {}
  <2>1. Done' = Done
    BY <1>1, <1>4, <1>5 DEF Done, Marker
  <2> QED
    BY <1>1, <2>1 DEF Past, Written
<1>7. \A m \in Page \ {n} : Collecting(m)' = Collecting(m)
  BY <1>1, <1>4, <1>5, <1>6 DEF Collecting
<1>8. Collecting(n)' = Collecting(n) \cup {k}
  <2>1. k \notin Past
    BY <1>3, <1>5, UnreadNotPast
  <2> QED
    BY <1>1, <1>4, <1>5, <1>6, <2>1 DEF Collecting
<1>9. \A i \in Collecting(n) : i <= k
  <2> SUFFICES ASSUME NEW i \in Collecting(n), ~(i <= k)
               PROVE  FALSE
    OBVIOUS
  <2>1. i \in DOMAIN log /\ <<i, n>> \in Frames \ Unread
    BY DEF Collecting
  <2>2. k < i
    BY <1>3, <1>5, <2>1, LogGroups
  <2>3. Before(f, <<i, n>>)
    BY <1>5, <2>2 DEF Before
  <2> QED
    BY <1>3, <1>4, <2>1, <2>3, ParsedBefore
<1>10. log[k] \in Group
  BY <1>3, <1>5, LogGroups
<1>11. batch' = [batch EXCEPT ![n] = log[k].images[n]]
  BY <1>2 DEF Collected
<1>12. TypeOK'
  <2>1. batch' \in [Page -> Image \cup {Absent}]
    BY <1>3, <1>5, <1>10, <1>11 DEF TypeOK, Group
  <2>2. todo' \subseteq Held(batch')
    BY <1>1, <1>3, <1>5, <1>11 DEF TypeOK, Held
  <2>3. pos' \in (0 .. MaxGroups) \X (0 .. MaxPages)
    BY <1>2, <1>3, <1>4, LogGroups DEF Frames
  <2> QED
    BY <1>1, <1>3, <2>1, <2>2, <2>3 DEF TypeOK
<1>13. Kept'
  BY <1>1, <1>3 DEF Kept, Between, Goal
<1>14. Parsed'
  <2>1. \A g \in Frames' : Torn(g)' => g \in Unread'
    BY <1>1, <1>3, <1>4, <1>5 DEF Parsed, Torn
  <2>2. ASSUME NEW m \in Page
        PROVE  batch'[m] = Merged(log, Collecting(m)')[m]
    <3>1. CASE m = n
      <4>1. \A i \in Collecting(n) \cup {k} : i <= k
        BY <1>3, <1>5, <1>9, LogGroups
      <4>2. Collecting(n) \cup {k} \in SUBSET DOMAIN log
        BY <1>3, <1>5, LogGroups
      <4>3. log \in Seq(Group)
        BY <1>3, LogGroups
      <4>4. Merged(log, Collecting(n) \cup {k})[n] = log[k].images[n]
        BY <1>5, <4>1, <4>2, <4>3, LatestIsLast
      <4> QED
        BY <1>3, <1>5, <1>8, <1>11, <3>1, <4>4 DEF TypeOK
    <3>2. CASE m # n
      BY <1>3, <1>7, <1>11, <3>2 DEF Parsed, TypeOK
    <3> QED
      BY <3>1, <3>2
  <2> QED
    BY <1>1, <2>1, <2>2 DEF Parsed
<1>15. InPlace'
  BY <1>1, <1>3, <1>6 DEF InPlace
<1> QED
  BY <1>1, <1>12, <1>13, <1>14, <1>15 DEF RInv

LEMMA NextIsOne ==
  ASSUME TypeOK, NEW f, NEW g, IsNext(f), IsNext(g)
  PROVE  f = g
BY FramePlaces, BeforeOrders DEF IsNext

(* A commit frame hands the batch over to be applied. *)
LEMMA TakeCommitKeeps == RInv /\ TakeCommit => RInv'
<1> SUFFICES ASSUME RInv, TakeCommit
             PROVE  RInv'
  OBVIOUS
<1>1. /\ pc = "parse" /\ pc' = "apply" /\ log' = log /\ file' = file /\ disk' = disk
      /\ batch' = batch /\ applied' = applied /\ crashes' = crashes /\ found' = found
      /\ todo' = Held(batch)
  BY DEF TakeCommit
<1>2. PICK f \in Unread : IsNext(f) /\ f[2] = Marker /\ pos' = f
  BY DEF TakeCommit
<1>3. TypeOK /\ Kept /\ Parsed /\ InPlace
  BY <1>1 DEF RInv, Busy
<1>4. Frames' = Frames /\ Unread' = Unread \ {f} /\ f \in Frames
  BY <1>1, <1>2, <1>3, ReadsOne
<1>5. f[1] \in DOMAIN log /\ f = <<f[1], Marker>>
  BY <1>2, <1>4 DEF Frames
<1>6. ~Torn(f)
  <2>1. PICK g \in Unread : IsNext(g) /\ ~Torn(g)
    BY DEF TakeCommit, Ends
  <2> QED
    BY <1>2, <1>3, <2>1, NextIsOne
<1>7. Done' = Done
  <2>1. ASSUME NEW j \in DOMAIN log
        PROVE  j \in Done' <=> j \in Done
    <3>1. j \in Done <=> <<j, Marker>> \in Frames \ Unread
      BY <1>1 DEF Done
    <3>2. j \in Done' <=> <<j, Marker>> \in Frames \ (Unread \ {f}) /\ j # f[1]
      BY <1>1, <1>2, <1>4 DEF Done, Marker
    <3>3. <<j, Marker>> = f <=> j = f[1]
      BY <1>5
    <3> QED
      BY <1>5, <3>1, <3>2, <3>3
  <2> QED
    BY <1>1, <2>1 DEF Done
<1>8. Past' = Past /\ Written' = {} /\ Written = {}
  BY <1>1, <1>7 DEF Past, Written, Held
<1>9. \A n \in Page : Collecting(n)' = Collecting(n)
  <2>1. \A n \in Page : n # Marker
    BY <1>3, FramePlaces
  <2>2. \A n \in Page, k \in DOMAIN log : <<k, n>> # f
    BY <1>5, <2>1
  <2> QED
    BY <1>1, <1>4, <1>8, <2>2 DEF Collecting
<1>10. TypeOK'
  <2>1. pos' \in (0 .. MaxGroups) \X (0 .. MaxPages)
    BY <1>2, <1>3, <1>4, LogGroups DEF Frames
  <2> QED
    BY <1>1, <1>3, <2>1 DEF TypeOK
<1>11. Kept'
  BY <1>1, <1>3 DEF Kept, Between, Goal
<1>12. Parsed'
  <2>1. \A g \in Frames' : Torn(g)' => g \in Unread'
    BY <1>1, <1>3, <1>4, <1>6 DEF Parsed, Torn, Marker
  <2>2. \A n \in Page : batch'[n] = Merged(log, Collecting(n))'[n]
    BY <1>1, <1>3, <1>9 DEF Parsed
  <2>3. pos' \in Frames' /\ pos'[2] = Marker
    BY <1>2, <1>4
  <2> QED
    BY <2>1, <2>2, <2>3 DEF Parsed, Marker
<1>13. InPlace'
  BY <1>1, <1>3, <1>7, <1>8 DEF InPlace
<1> QED
  BY <1>1, <1>3, <1>10, <1>11, <1>12, <1>13 DEF RInv

-----------------------------------------------------------------------------
(* Steps that apply a batch *)

(* The commit frame just read covers every frame parsed so far. *)
LEMMA CommitInHand ==
  ASSUME TypeOK, Parsed, pc = "apply"
  PROVE  /\ pos[1] \in CommitsFrom(log, 1) /\ pos[1] \in DOMAIN log
         /\ pos = <<pos[1], Marker>> /\ pos \in Frames \ Unread
         /\ \A k \in DOMAIN log, n \in Page : <<k, n>> \in Frames =>
              (<<k, n>> \notin Unread <=> k <= pos[1])
         /\ \A k \in DOMAIN log : <<k, Marker>> \in Frames =>
              (<<k, Marker>> \notin Unread <=> k <= pos[1])
         /\ pos[1] \in Nat /\ pos[1] <= MaxGroups
<1>1. pos \in Frames /\ pos[2] = Marker /\ pos[1] \in DOMAIN log /\ pos = <<pos[1], Marker>>
  BY DEF Parsed, Frames
<1>2. pos \notin Unread
  BY FramePlaces, BeforeOrders DEF Unread
<1>3. pos[1] \in CommitsFrom(log, 1)
  BY <1>1, <1>2, ParsedCommits
<1>4. \A k \in DOMAIN log : k \in Nat /\ pos[1] \in Nat
  BY <1>1, LogGroups
<1>5. \A n \in Page : n < Marker /\ n \in Nat /\ Marker \in Nat /\ ~(Marker < Marker)
  BY FramePlaces
<1>6. ASSUME NEW k \in DOMAIN log, NEW n \in Page \cup {Marker}
      PROVE  Before(pos, <<k, n>>) <=> ~(k <= pos[1])
  BY <1>1, <1>4, <1>5, FramePlaces DEF Before
<1>7. pos[1] \in Nat /\ pos[1] <= MaxGroups
  BY <1>1, LogGroups
<1> QED
  BY <1>1, <1>2, <1>3, <1>6, <1>7 DEF Unread

(* The batch holds images that recovery applies. *)
LEMMA BatchApplied ==
  ASSUME TypeOK, Parsed, pc = "apply", NEW n \in Held(batch)
  PROVE  \E k \in Applied(log) : log[k].images[n] # Absent /\ batch[n] = log[k].images[n]
<1>1. n \in Page /\ Merged(log, Collecting(n))[n] # Absent
  BY DEF Held, Parsed
<1>2. PICK k \in Collecting(n) : log[k].images[n] # Absent
                                 /\ Merged(log, Collecting(n))[n] = log[k].images[n]
  BY <1>1, LogGroups, MergedFromLast
<1>3. k \in DOMAIN log /\ <<k, n>> \in Frames \ Unread
  BY DEF Collecting
<1>4. k <= pos[1] /\ pos[1] \in CommitsFrom(log, 1)
  BY <1>1, <1>3, CommitInHand
<1> QED
  BY <1>1, <1>2, <1>3, <1>4 DEF Applied, Parsed

LEMMA WritesPage ==
  ASSUME NEW f \in File, NEW images \in [Page -> Image \cup {Absent}], NEW n \in Held(images)
  PROVE  /\ FlushInto(f, images, {n}) \in File
         /\ FlushInto(f, images, {n}).len = Larger(f.len, n + 1)
         /\ \A m \in Page : FlushInto(f, images, {n}).page[m] =
                              IF m = n THEN images[n] ELSE f.page[m]
<1>1. /\ n \in Page /\ n \in Nat /\ n + 1 \in 0 .. MaxPages /\ MaxPages \in Nat
      /\ images[n] \in Image
  BY MaxPagesAssumption DEF Held, Page
<1>2. f.len \in 0 .. MaxPages /\ f.page \in [Page -> Image]
  BY DEF File
<1>3. Largest({f.len} \cup {m + 1 : m \in {n}}) = Larger(f.len, n + 1)
  <2> DEFINE S == {f.len, n + 1}
             l == Larger(f.len, n + 1)
  <2>1. l \in S /\ \A x \in S : x <= l
    BY <1>1, <1>2 DEF Larger
  <2>2. S \in SUBSET (0 .. MaxPages)
    BY <1>1, <1>2
  <2>3. Largest(S) = l
    BY <1>1, <2>1, <2>2, LargestIs
  <2>4. {f.len} \cup {m + 1 : m \in {n}} = S
    OBVIOUS
  <2> QED
    BY <2>3, <2>4
<1>4. Larger(f.len, n + 1) \in 0 .. MaxPages
  BY <1>1, <1>2 DEF Larger
<1>5. [m \in Page |-> IF m \in {n} THEN images[m] ELSE f.page[m]] \in [Page -> Image]
  BY <1>1, <1>2
<1> QED
  BY <1>3, <1>4, <1>5 DEF FlushInto, File

(* The parser does not move while the batch is applied. *)
LEMMA ParserRests ==
  ASSUME log' = log, pos' = pos, pc' = pc
  PROVE  /\ Frames' = Frames /\ Unread' = Unread /\ Done' = Done /\ Past' = Past
         /\ \A n \in Page : Collecting(n)' = Collecting(n)
<1>1. Frames' = Frames /\ Unread' = Unread
  BY DEF Frames, Unread
<1>2. Done' = Done /\ Past' = Past
  BY <1>1 DEF Done, Past
<1> QED
  BY <1>1, <1>2 DEF Collecting

(* The pages of the batch go to the file one by one. *)
LEMMA WriteOneKeeps == RInv /\ WriteOne => RInv'
<1> SUFFICES ASSUME RInv, WriteOne
             PROVE  RInv'
  OBVIOUS
<1>1. /\ pc = "apply" /\ pc' = pc /\ log' = log /\ disk' = disk /\ pos' = pos
      /\ batch' = batch /\ applied' = applied /\ crashes' = crashes /\ found' = found
  BY DEF WriteOne
<1>2. PICK n \in todo : file' = FlushInto(file, batch, {n}) /\ todo' = todo \ {n}
  BY DEF WriteOne
<1>3. TypeOK /\ Kept /\ Parsed /\ InPlace /\ found \in [log : Seq(Group), file : File]
  BY <1>1 DEF RInv, Busy
<1>4. n \in Held(batch) /\ n \in Page /\ file \in File
  BY <1>3 DEF TypeOK, Held
<1>5. batch \in [Page -> Image \cup {Absent}]
  BY <1>3 DEF TypeOK
<1>6. /\ file' \in File /\ file'.len = Larger(file.len, n + 1)
      /\ \A m \in Page : file'.page[m] = IF m = n THEN batch[n] ELSE file.page[m]
  BY <1>2, <1>4, <1>5, WritesPage
<1>7. file.len <= file'.len /\ n < file'.len /\ file.len \in Nat /\ file'.len \in Nat /\ n \in Nat
  BY <1>4, <1>6, MaxPagesAssumption DEF Larger, File, Page
<1>8. Written' = Written \cup {n} /\ Written = Held(batch) \ todo
  BY <1>1, <1>2, <1>4 DEF Written, Held
<1>9. TypeOK'
  <2>1. disk'.len <= file'.len
    BY <1>1, <1>3, <1>7, MaxPagesAssumption DEF TypeOK, File
  <2>2. todo' \subseteq Held(batch')
    BY <1>1, <1>2, <1>3 DEF TypeOK, Held
  <2> QED
    BY <1>1, <1>3, <1>6, <2>1, <2>2 DEF TypeOK
<1>10. Kept'
  <2>1. log = found.log /\ Between(file) /\ Between(disk)
    BY <1>1, <1>3 DEF Kept
  <2>2. PICK k \in Applied(log) : log[k].images[n] # Absent /\ batch[n] = log[k].images[n]
    BY <1>1, <1>3, <1>4, BatchApplied
  <2>3. n < Goal.len /\ Goal.len \in Nat /\ found.file.len \in Nat
    BY <1>3, <1>4, <2>1, <2>2, ReplayLength, MaxPagesAssumption DEF Goal, File
  <2>4. found.file.len <= file'.len /\ file'.len <= Goal.len
    BY <1>6, <1>7, <2>1, <2>3 DEF Between, Larger
  <2>5. ASSUME NEW m \in Page
        PROVE  \/ file'.page[m] = found.file.page[m]
               \/ \E i \in Applied(found.log) : /\ found.log[i].images[m] # Absent
                                                /\ file'.page[m] = found.log[i].images[m]
    BY <1>6, <2>1, <2>2 DEF Between
  <2> QED
    BY <1>1, <2>1, <2>4, <2>5 DEF Kept, Between, Goal
<1>11. Parsed'
  BY <1>1, <1>3, ParserRests DEF Parsed, Torn
<1>12. InPlace'
  <2>1. Done' = Done /\ Past' = Past
    BY <1>1, ParserRests
  <2>2. ASSUME NEW j \in Done PROVE log[j].num <= file'.len
    <3>1. log[j] \in Group /\ log[j].num <= file.len
      BY <1>3, LogGroups DEF InPlace
    <3>2. log[j].num \in Nat
      BY <3>1, MaxPagesAssumption DEF Group
    <3> QED
      BY <1>7, <3>1, <3>2
  <2>3. ASSUME NEW m \in Page, m < file.len PROVE m < file'.len
    BY <1>7, <2>3 DEF Page
  <2>4. \A m \in Page \ Written' : m # n /\ m \notin Written
    BY <1>8
  <2>5. ASSUME NEW m \in Written'
        PROVE  file'.page[m] = batch[m] /\ m < file'.len
    <3>1. m \in Page
      BY <1>4, <1>8 DEF Held
    <3>2. CASE m = n
      BY <1>4, <1>6, <1>7, <3>2
    <3>3. CASE m # n
      <4>1. m \in Written
        BY <1>8, <3>3
      <4>2. file.page[m] = batch[m] /\ m < file.len
        BY <1>3, <4>1 DEF InPlace
      <4> QED
        BY <1>6, <2>3, <3>1, <3>3, <4>2
    <3> QED
      BY <3>2, <3>3
  <2>6. \A m \in Page \ Written' : Merged(log, Past)[m] # Absent =>
                                     file'.page[m] = Merged(log, Past)[m]
    BY <1>3, <1>6, <2>4 DEF InPlace
  <2>7. \A k \in Past, m \in Page : log[k].images[m] # Absent => m < file'.len
    BY <1>3, <2>3 DEF InPlace
  <2> QED
    BY <1>1, <1>3, <2>1, <2>2, <2>5, <2>6, <2>7 DEF InPlace
<1> QED
  BY <1>1, <1>3, <1>9, <1>10, <1>11, <1>12 DEF RInv

(* With the last page written and the file padded, the commit is done.      *)
LEMMA PadKeeps == RInv /\ Pad => RInv'
<1> SUFFICES ASSUME RInv, Pad
             PROVE  RInv'
  OBVIOUS
<1> DEFINE j == pos[1]
<1>1. /\ pc = "apply" /\ pc' = "parse" /\ todo = {} /\ todo' = todo /\ log' = log
      /\ disk' = disk /\ pos' = pos /\ batch' = NoImages /\ applied' = applied + 1
      /\ crashes' = crashes /\ found' = found /\ file' = Padded(file, log[j].num)
  BY DEF Pad
<1>2. TypeOK /\ Kept /\ Parsed /\ InPlace /\ found \in [log : Seq(Group), file : File]
  BY <1>1 DEF RInv, Busy
<1>3. /\ j \in CommitsFrom(log, 1) /\ j \in DOMAIN log /\ j \in Nat /\ j <= MaxGroups
      /\ pos = <<j, Marker>> /\ pos \in Frames \ Unread
      /\ \A k \in DOMAIN log, n \in Page : <<k, n>> \in Frames =>
           (<<k, n>> \notin Unread <=> k <= j)
      /\ \A k \in DOMAIN log : <<k, Marker>> \in Frames =>
           (<<k, Marker>> \notin Unread <=> k <= j)
  BY <1>1, <1>2, CommitInHand
<1>4. Frames' = Frames /\ Unread' = Unread
  BY <1>1 DEF Frames, Unread
<1>5. Done' = Done \cup {j} /\ j \notin Done
  BY <1>1, <1>3, <1>4 DEF Done, Marker
<1>6. \A i \in Done : i <= j /\ i # j /\ i \in DOMAIN log
  BY <1>1, <1>3 DEF Done
<1>7. \A k \in DOMAIN log : k \in Nat
  BY <1>2, LogGroups
<1>8. Past' = {k \in DOMAIN log : k <= j} /\ Past \subseteq Past'
  <2>1. Past' = {k \in DOMAIN log : \E i \in Done \cup {j} : k <= i}
    BY <1>1, <1>5 DEF Past
  <2>2. ASSUME NEW k \in DOMAIN log, NEW i \in Done, k <= i
        PROVE  k <= j
    BY <1>3, <1>6, <1>7, <2>2
  <2> QED
    BY <2>1, <2>2 DEF Past
<1>9. \A n \in Page : Collecting(n)' = {}
  BY <1>1, <1>3, <1>4, <1>8 DEF Collecting
<1>10. Written' = {} /\ Written = Held(batch)
  BY <1>1 DEF Written
<1>11. file'.page = file.page /\ file'.len = Larger(file.len, log[j].num)
  BY <1>1, <1>2 DEF Padded, TypeOK, File
<1>12. log[j].num \in 1 .. MaxPages /\ file.len \in 0 .. MaxPages /\ disk.len \in 0 .. MaxPages
  <2>1. log[j] \in Group
    BY <1>2, <1>3, LogGroups
  <2> QED
    BY <1>2, <2>1 DEF Group, TypeOK, File
<1>13. file.len <= file'.len /\ log[j].num <= file'.len /\ file'.len \in 0 .. MaxPages
  BY <1>11, <1>12, MaxPagesAssumption DEF Larger
<1>14. file' \in File
  BY <1>1, <1>2, <1>13 DEF Padded, TypeOK, File
<1>15. \E i \in Done' : applied + 1 <= i
  <2>1. CASE applied = 0
    <3>1. 1 <= j
      BY <1>2, <1>3, LogGroups
    <3> QED
      BY <1>5, <2>1, <3>1
  <2>2. CASE applied # 0
    <3>1. PICK i \in Done : applied <= i
      BY <1>2, <2>2 DEF InPlace
    <3>2. i \in Nat /\ i < j /\ applied \in Nat
      BY <1>2, <1>3, <1>6, <1>7 DEF TypeOK
    <3>3. applied + 1 <= j
      BY <1>3, <3>1, <3>2
    <3> QED
      BY <1>5, <3>3
  <2> QED
    BY <2>1, <2>2
<1>16. TypeOK'
  <2>1. applied' \in 0 .. MaxGroups
    <3>1. PICK i \in Done' : applied + 1 <= i
      BY <1>15
    <3>2. i \in Nat /\ i <= j
      BY <1>3, <1>5, <1>6, <1>7
    <3>3. applied \in Nat /\ MaxGroups \in Nat
      BY <1>2, LogGroups DEF TypeOK
    <3> QED
      BY <1>1, <1>3, <3>1, <3>2, <3>3
  <2>2. disk'.len <= file'.len
    BY <1>1, <1>2, <1>12, <1>13 DEF TypeOK
  <2>3. batch' \in [Page -> Image \cup {Absent}] /\ todo' \subseteq Held(batch')
    BY <1>1 DEF NoImages
  <2> QED
    BY <1>1, <1>2, <1>14, <2>1, <2>2, <2>3 DEF TypeOK
<1>17. Kept'
  <2>1. log = found.log /\ Between(file) /\ Between(disk)
    BY <1>1, <1>2 DEF Kept
  <2>2. log[j].num <= Goal.len /\ Goal.len \in 0 .. MaxPages /\ found.file.len \in 0 .. MaxPages
    BY <1>2, <1>3, <2>1, ReplayLength DEF Goal, File
  <2>3. found.file.len <= file.len /\ file.len <= Goal.len
    BY <2>1 DEF Between
  <2>4. found.file.len <= file'.len /\ file'.len <= Goal.len
    BY <1>11, <1>12, <2>2, <2>3, MaxPagesAssumption DEF Larger
  <2> QED
    BY <1>1, <1>11, <2>1, <2>4 DEF Kept, Between, Goal
<1>18. Parsed'
  <2>1. \A f \in Frames' : Torn(f)' => f \in Unread'
    BY <1>1, <1>2, <1>4 DEF Parsed, Torn
  <2>2. \A n \in Page : Merged(log, {})[n] = Absent
    BY DEF Merged, LatestImage
  <2> QED
    BY <1>1, <1>9, <2>1, <2>2 DEF Parsed, NoImages
<1>19. ASSUME NEW n \in Page, NEW k \in Past', log[k].images[n] # Absent
       PROVE  k \in Past \/ k \in Collecting(n)
  <2>1. <<k, n>> \in Frames /\ k \in DOMAIN log /\ k <= j
    BY <1>2, <1>8, <1>19, FrameOf
  <2> QED
    BY <1>3, <2>1 DEF Collecting
<1>20. ASSUME NEW n \in Page
       PROVE  batch[n] = Absent => \A k \in Collecting(n) : log[k].images[n] = Absent
  BY <1>2, LogGroups, NothingMerged DEF Parsed
<1>21. ASSUME NEW n \in Page, Merged(log, Past')[n] # Absent
       PROVE  file.page[n] = Merged(log, Past')[n]
  <2>0. log \in Seq(Group) /\ Past' \in SUBSET DOMAIN log /\ Past \in SUBSET DOMAIN log
        /\ Collecting(n) \in SUBSET DOMAIN log
    BY <1>2, <1>8, LogGroups
  <2>1. CASE batch[n] # Absent
    <3>1. batch[n] = Merged(log, Collecting(n))[n]
      BY <1>2 DEF Parsed
    <3>2. PICK m \in Collecting(n) : /\ log[m].images[n] # Absent /\ batch[n] = log[m].images[n]
                                     /\ \A k \in Collecting(n) : log[k].images[n] # Absent => k <= m
      BY <2>0, <2>1, <3>1, MergedFromLast
    <3>3. m \in DOMAIN log /\ m \notin Past /\ <<m, n>> \in Frames \ Unread
      BY DEF Collecting
    <3>4. m \in Past'
      BY <1>3, <1>8, <3>3
    <3>5. ASSUME NEW k \in Past', log[k].images[n] # Absent
          PROVE  k <= m
      <4>1. CASE k \in Past
        <5>1. PICK i \in Done : k <= i
          BY <4>1 DEF Past
        <5>2. ~(m <= i)
          BY <3>3 DEF Past
        <5> QED
          BY <1>6, <1>7, <1>8, <3>3, <5>1, <5>2
      <4>2. CASE k \in Collecting(n)
        BY <3>2, <3>5, <4>2
      <4> QED
        BY <1>19, <3>5, <4>1, <4>2
    <3>6. Merged(log, Past')[n] = log[m].images[n]
      BY <2>0, <3>2, <3>4, <3>5, LatestIsLast
    <3>7. n \in Written
      BY <1>10, <2>1 DEF Held
    <3> QED
      BY <1>2, <3>2, <3>6, <3>7 DEF InPlace
  <2>2. CASE batch[n] = Absent
    <3>1. PICK m \in Past' : /\ log[m].images[n] # Absent
                             /\ Merged(log, Past')[n] = log[m].images[n]
                             /\ \A k \in Past' : log[k].images[n] # Absent => k <= m
      BY <1>21, <2>0, MergedFromLast
    <3>2. m \in Past
      BY <1>19, <1>20, <2>2, <3>1
    <3>3. \A k \in Past : log[k].images[n] # Absent => k <= m
      BY <1>8, <3>1
    <3>4. Merged(log, Past)[n] = log[m].images[n]
      BY <2>0, <3>1, <3>2, <3>3, LatestIsLast
    <3>5. n \notin Written
      BY <1>10, <2>2 DEF Held
    <3> QED
      BY <1>2, <3>1, <3>4, <3>5 DEF InPlace
  <2> QED
    BY <2>1, <2>2
<1>22. InPlace'
  <2>1. ASSUME NEW i \in Done' PROVE log[i].num <= file'.len
    <3>1. CASE i = j
      BY <1>13, <3>1
    <3>2. CASE i \in Done
      <4>1. log[i] \in Group /\ log[i].num <= file.len
        BY <1>2, <3>2, LogGroups DEF InPlace
      <4>2. log[i].num \in Nat
        BY <4>1, MaxPagesAssumption DEF Group
      <4> QED
        BY <1>12, <1>13, <4>1, <4>2
    <3> QED
      BY <1>5, <3>1, <3>2
  <2>2. ASSUME NEW k \in Past', NEW n \in Page, log[k].images[n] # Absent
        PROVE  n < file'.len
    <3>1. n < file.len
      <4>1. CASE k \in Past
        BY <1>2, <2>2, <4>1 DEF InPlace
      <4>2. CASE k \in Collecting(n)
        <5>1. n \in Written
          BY <1>10, <1>20, <2>2, <4>2 DEF Held
        <5> QED
          BY <1>2, <5>1 DEF InPlace
      <4> QED
        BY <1>19, <2>2, <4>1, <4>2
    <3> QED
      BY <1>12, <1>13, <3>1 DEF Page
  <2>3. \A n \in Page : Merged(log, Past')[n] # Absent => file'.page[n] = Merged(log, Past')[n]
    BY <1>11, <1>21
  <2> QED
    BY <1>1, <1>10, <1>15, <2>1, <2>2, <2>3 DEF InPlace
<1> QED
  BY <1>1, <1>2, <1>16, <1>17, <1>18, <1>22 DEF RInv

-----------------------------------------------------------------------------
(* The end of a replay, the reset and the crash *)

LEMMA GroupsOfTheFile ==
  ASSUME TypeOK, Parsed, pc = "parse", Ends
  PROVE  Past = Applied(log) /\ Done = CommitsFrom(log, 1)
<1>1. Done = CommitsFrom(log, 1)
  <2>1. \A j \in DOMAIN log : j \in Done <=> <<j, Marker>> \in Frames \ Unread
    BY DEF Done
  <2>2. Done \subseteq DOMAIN log /\ CommitsFrom(log, 1) \subseteq DOMAIN log
    BY LogGroups, AppliedGroups DEF Done
  <2> QED
    BY <2>1, <2>2, ParsedCommits, AllParsed
<1> QED
  BY <1>1 DEF Past, Applied

(* When the parser is through, the file is as one uninterrupted replay      *)
(* would have left it.                                                      *)
LEMMA FileIsGoal ==
  ASSUME RInv, pc = "parse", Ends
  PROVE  file = Goal
<1>1. TypeOK /\ Kept /\ Parsed /\ InPlace /\ found \in [log : Seq(Group), file : File]
  BY DEF RInv, Busy
<1>2. log = found.log /\ Between(file)
  BY <1>1 DEF Kept
<1>3. Past = Applied(log) /\ Done = CommitsFrom(log, 1) /\ Written = {}
  BY <1>1, GroupsOfTheFile DEF Written
<1>4. file \in File /\ found.file \in File /\ log \in Seq(Group)
  BY <1>1 DEF TypeOK
<1>5. /\ Goal \in File
      /\ Goal.page = Overlay(found.file.page, Merged(log, Applied(log)))
  BY <1>1, <1>2, GoalIs
<1>6. file.len = Goal.len
  <2>1. found.file.len <= file.len /\ file.len <= Goal.len
    BY <1>2 DEF Between
  <2>2. file.len \in Nat /\ Goal.len \in Nat
    BY <1>4, <1>5 DEF File
  <2>3. Goal.len <= file.len
    <3>1. \A j \in CommitsFrom(log, 1) : log[j].num <= file.len
      BY <1>1, <1>3 DEF InPlace
    <3>2. \A k \in Applied(log), n \in Page : log[k].images[n] # Absent => n < file.len
      BY <1>1, <1>3 DEF InPlace
    <3> QED
      BY <1>2, <1>4, <2>1, <2>2, <3>1, <3>2, ReplayLength DEF Goal
  <2> QED
    BY <2>1, <2>2, <2>3
<1>7. ASSUME NEW n \in Page
      PROVE  file.page[n] = Goal.page[n]
  <2>1. CASE Merged(log, Applied(log))[n] # Absent
    BY <1>1, <1>3, <1>5, <2>1 DEF InPlace, Overlay
  <2>2. CASE Merged(log, Applied(log))[n] = Absent
    <3>1. \A k \in Applied(log) : log[k].images[n] = Absent
      BY <1>4, <2>2, NothingMerged, AppliedGroups
    <3>2. file.page[n] = found.file.page[n]
      BY <1>2, <3>1 DEF Between
    <3> QED
      BY <1>5, <2>2, <3>2 DEF Overlay
  <2> QED
    BY <2>1, <2>2
<1>8. file.page \in [Page -> Image] /\ Goal.page \in [Page -> Image]
  BY <1>4, <1>5 DEF File
<1>9. file.page = Goal.page
  BY <1>7, <1>8
<1> QED
  BY <1>4, <1>5, <1>6, <1>9 DEF File

LEMMA SyncKeeps == RInv /\ Sync => RInv'
<1> SUFFICES ASSUME RInv, Sync
             PROVE  RInv'
  OBVIOUS
<1>1. /\ pc = "parse" /\ Ends /\ disk' = file /\ pc' \in {"replayed", "open"}
      /\ UNCHANGED <<log, file, pos, batch, todo, applied, crashes, found>>
  BY DEF Sync, Synced
<1>2. TypeOK /\ Kept /\ found \in [log : Seq(Group), file : File]
  BY DEF RInv
<1>3. file = Goal
  BY <1>1, FileIsGoal
<1>4. TypeOK'
  <2>1. disk'.len <= file'.len
    BY <1>1, <1>2, MaxPagesAssumption DEF TypeOK, File
  <2> QED
    BY <1>1, <1>2, <2>1 DEF TypeOK, Held
<1>5. Kept'
  <2>1. log = found.log /\ Between(file)
    BY <1>1, <1>2 DEF Kept
  <2>2. Goal' = Goal /\ Between(file)' /\ Between(disk)'
    BY <1>1, <2>1 DEF Goal, Between
  <2> QED
    BY <1>1, <1>3, <2>1, <2>2 DEF Kept
<1> QED
  BY <1>1, <1>2, <1>4, <1>5 DEF RInv, Busy

LEMMA ResetKeeps == RInv /\ Reset => RInv'
<1> SUFFICES ASSUME RInv, Reset
             PROVE  RInv'
  OBVIOUS
<1>1. /\ pc = "replayed" /\ log' = << >> /\ pc' = "open"
      /\ UNCHANGED <<file, disk, pos, batch, todo, applied, crashes, found>>
  BY DEF Reset
<1>2. TypeOK /\ Kept /\ found \in [log : Seq(Group), file : File]
  BY DEF RInv
<1>3. TypeOK'
  <2>1. log' \in Seq(Group) /\ Len(log') <= MaxGroups
    BY <1>1, RecoveryAssumption
  <2> QED
    BY <1>1, <1>2, <2>1 DEF TypeOK, Held
<1>4. Kept'
  BY <1>1, <1>2 DEF Kept, Between, Goal
<1> QED
  BY <1>1, <1>2, <1>3, <1>4 DEF RInv, Busy

LEMMA CrashKeeps == RInv /\ Crash => RInv'
<1> SUFFICES ASSUME RInv, Crash
             PROVE  RInv'
  OBVIOUS
<1>1. /\ pc' = "closed" /\ pos' = Header /\ batch' = NoImages /\ todo' = {} /\ applied' = 0
      /\ crashes < MaxCrashes /\ crashes' = crashes + 1 /\ log' = log /\ found' = found
  BY DEF Crash
<1>2. PICK kept \in SUBSET Page, len \in disk.len .. file.len :
        /\ file' = Survivor(file, disk, len, kept)
        /\ disk' = Survivor(file, disk, len, kept)
  BY DEF Crash
<1>3. TypeOK /\ Kept /\ found \in [log : Seq(Group), file : File]
  BY DEF RInv
<1>4. file \in File /\ disk \in File /\ disk.len \in Nat /\ file.len \in Nat
      /\ len \in Nat /\ disk.len <= len /\ len <= file.len
  BY <1>3 DEF TypeOK, File
<1>5. file'.len = len /\ disk' = file' /\
      \A n \in Page : file'.page[n] \in {file.page[n], disk.page[n]}
  BY <1>2 DEF Survivor
<1>6. file' \in File
  <2>1. len \in 0 .. MaxPages
    BY <1>4, MaxPagesAssumption DEF File
  <2>2. [n \in Page |-> IF n \in kept /\ n < len THEN file.page[n] ELSE disk.page[n]]
          \in [Page -> Image]
    BY <1>4 DEF File
  <2> QED
    BY <1>2, <2>1, <2>2 DEF Survivor, File
<1>7. TypeOK'
  <2>1. crashes' \in 0 .. MaxCrashes /\ applied' \in 0 .. MaxGroups
    BY <1>1, <1>3, RecoveryAssumption DEF TypeOK
  <2>2. pos' \in (0 .. MaxGroups) \X (0 .. MaxPages)
    BY <1>1, RecoveryAssumption, MaxPagesAssumption DEF Header
  <2>3. batch' \in [Page -> Image \cup {Absent}] /\ todo' \subseteq Held(batch')
    BY <1>1 DEF NoImages
  <2>4. disk'.len <= file'.len
    BY <1>4, <1>5
  <2> QED
    BY <1>1, <1>3, <1>5, <1>6, <2>1, <2>2, <2>3, <2>4 DEF TypeOK
<1>8. Goal' = Goal
  BY <1>1 DEF Goal
<1>9. Between(file')
  <2>1. Between(file) /\ Between(disk) /\ Goal.len \in Nat /\ found.file.len \in Nat
    BY <1>3, GoalIs DEF Kept, File
  <2>2. found.file.len <= file'.len /\ file'.len <= Goal.len
    BY <1>4, <1>5, <2>1 DEF Between
  <2> QED
    BY <1>5, <2>1, <2>2 DEF Between
<1>10. ASSUME log # found.log
       PROVE  file' = Goal /\ log = << >>
  <2>1. file = Goal /\ disk = Goal /\ log = << >>
    BY <1>3, <1>10 DEF Kept
  <2>2. Goal = [len |-> Goal.len, page |-> Goal.page] /\ Goal.page \in [Page -> Image]
    BY <1>3, GoalIs DEF File
  <2>3. len = Goal.len
    BY <1>4, <2>1
  <2>4. [n \in Page |-> IF n \in kept /\ n < len THEN Goal.page[n] ELSE Goal.page[n]]
          = Goal.page
    BY <2>2
  <2> QED
    BY <1>2, <2>1, <2>2, <2>3, <2>4 DEF Survivor
<1>11. Kept'
  <2>1. Between(file)' /\ Between(disk)'
    BY <1>1, <1>5, <1>8, <1>9 DEF Between
  <2> QED
    BY <1>1, <1>5, <1>8, <1>10, <2>1 DEF Kept
<1>12. Len(found'.log) <= MaxGroups
  BY <1>1 DEF RInv
<1> QED
  BY <1>1, <1>3, <1>7, <1>11, <1>12 DEF RInv, Busy

-----------------------------------------------------------------------------
(* The invariant *)

LEMMA InitRInv == Init => RInv
<1> SUFFICES ASSUME Init
             PROVE  RInv
  OBVIOUS
<1>1. MaxGroups \in Nat /\ MaxPages \in Nat
  BY RecoveryAssumption, MaxPagesAssumption
<1>2. log \in Seq(Group) /\ Len(log) <= MaxGroups
  <2>0. PICK m \in 0 .. MaxGroups : \E e \in [1 .. m -> Endings] :
          log = [k \in 1 .. m |-> [images |-> [n \in Page |-> IF n \in e[k].pages THEN k
                                                               ELSE Absent],
                                   num |-> e[k].num, end |-> e[k].end]]
    BY DEF Init, Logs
  <2>1. PICK e \in [1 .. m -> Endings] :
          log = [k \in 1 .. m |-> [images |-> [n \in Page |-> IF n \in e[k].pages THEN k
                                                               ELSE Absent],
                                   num |-> e[k].num, end |-> e[k].end]]
    BY <2>0
  <2>2. ASSUME NEW k \in 1 .. m
        PROVE  log[k] \in Group
    <3>1. e[k] \in Endings
      OBVIOUS
    <3>2. e[k].num \in 1 .. MaxPages /\ e[k].end \in {"commit", "none", "torn"}
      BY <3>1 DEF Endings
    <3>3. k \in Image
      BY <1>1 DEF Image
    <3>4. [n \in Page |-> IF n \in e[k].pages THEN k ELSE Absent]
            \in [Page -> Image \cup {Absent}]
      BY <3>3
    <3>5. log[k] = [images |-> [n \in Page |-> IF n \in e[k].pages THEN k ELSE Absent],
                    num |-> e[k].num, end |-> e[k].end]
      BY <2>1
    <3> QED
      BY <3>2, <3>4, <3>5 DEF Group
  <2>3. m \in Nat /\ m <= MaxGroups
    BY <1>1
  <2>4. log = [k \in 1 .. m |-> log[k]]
    BY <2>1
  <2> QED
    BY <2>2, <2>3, <2>4
<1>3. file \in File
  <2>1. [n \in Page |-> 0] \in [Page -> Image]
    BY <1>1 DEF Image
  <2>2. PICK f \in [len : 0 .. MaxPages, page : {[n \in Page |-> 0]}] : file = f
    BY DEF Init
  <2> QED
    BY <2>1, <2>2 DEF File
<1>4. /\ disk = file /\ pc = "closed" /\ pos = Header /\ batch = NoImages /\ todo = {}
      /\ applied = 0 /\ crashes = 0 /\ found = [log |-> log, file |-> file]
  BY DEF Init
<1>5. TypeOK
  <2>1. disk.len <= file.len
    BY <1>1, <1>3, <1>4 DEF File
  <2>2. crashes \in 0 .. MaxCrashes /\ applied \in 0 .. MaxGroups
    BY <1>4, RecoveryAssumption
  <2>3. pos \in (0 .. MaxGroups) \X (0 .. MaxPages)
    BY <1>1, <1>4 DEF Header
  <2>4. batch \in [Page -> Image \cup {Absent}] /\ todo \subseteq Held(batch)
    BY <1>4 DEF NoImages
  <2> QED
    BY <1>2, <1>3, <1>4, <2>1, <2>2, <2>3, <2>4 DEF TypeOK
<1>6. found \in [log : Seq(Group), file : File]
  BY <1>2, <1>3, <1>4
<1>7. Between(file)
  <2>1. found.file = file /\ found.log = log
    BY <1>4
  <2>2. file.len <= Goal.len /\ file.len <= file.len
    BY <1>1, <1>2, <1>3, <2>1, ReplayLength DEF Goal, File
  <2> QED
    BY <2>1, <2>2 DEF Between
<1>8. Kept
  BY <1>4, <1>7 DEF Kept
<1> QED
  BY <1>2, <1>4, <1>5, <1>6, <1>8 DEF RInv, Busy

LEMMA RInvNext == RInv /\ [Next]_vars => RInv'
<1> SUFFICES ASSUME RInv, [Next]_vars
             PROVE  RInv'
  OBVIOUS
<1>1. CASE Start
  BY <1>1, StartKeeps
<1>2. CASE TakePage
  BY <1>2, TakePageKeeps
<1>3. CASE TakeCommit
  BY <1>3, TakeCommitKeeps
<1>4. CASE WriteOne
  BY <1>4, WriteOneKeeps
<1>5. CASE Pad
  BY <1>5, PadKeeps
<1>6. CASE Sync
  BY <1>6, SyncKeeps
<1>7. CASE Reset
  BY <1>7, ResetKeeps
<1>8. CASE Crash
  BY <1>8, CrashKeeps
<1>9. CASE UNCHANGED vars
  <2>1. /\ log' = log /\ file' = file /\ disk' = disk /\ pc' = pc /\ pos' = pos
        /\ batch' = batch /\ todo' = todo /\ applied' = applied /\ crashes' = crashes
        /\ found' = found
    BY <1>9 DEF vars
  <2>2. TypeOK'
    BY <2>1 DEF RInv, TypeOK, Held
  <2>3. Kept'
    BY <2>1 DEF RInv, Kept, Between, Goal
  <2>4. Frames' = Frames /\ Unread' = Unread /\ Done' = Done /\ Past' = Past
        /\ \A n \in Page : Collecting(n)' = Collecting(n)
    BY <2>1, ParserRests
  <2>5. Written' = Written
    BY <2>1 DEF Written, Held
  <2>6. Parsed => Parsed'
    BY <2>1, <2>4 DEF Parsed, Torn
  <2>7. InPlace => InPlace'
    BY <2>1, <2>4, <2>5 DEF InPlace
  <2> QED
    BY <2>1, <2>2, <2>3, <2>6, <2>7 DEF RInv, Busy
<1> QED
  BY <1>1, <1>2, <1>3, <1>4, <1>5, <1>6, <1>7, <1>8, <1>9 DEF Next, Open

LEMMA RInvAlways == Spec => []RInv
BY InitRInv, RInvNext, PTL DEF Spec

-----------------------------------------------------------------------------
(* What recovery guarantees *)

(* Every variable of recover (wal.py:118) keeps its type; in particular the  *)
(* disk is never ahead of the file and the batch has all that is to write.   *)
THEOREM TypeCorrect == Spec => []TypeOK
<1>1. RInv => TypeOK
  BY DEF RInv
<1> QED
  BY <1>1, RInvAlways, PTL

(* Wherever recovery (wal.py:118) or the reset after it is interrupted, and  *)
(* however often, and whatever a power loss keeps of its writes: what is     *)
(* left of the log, replayed over what is left of the file, gives what one   *)
(* uninterrupted replay would have given.                                    *)
THEOREM RecoveryRestarts == Spec => []NothingLost
<1>1. RInv => NothingLost
  <2> SUFFICES ASSUME RInv
               PROVE  NothingLost
    OBVIOUS
  <2>1. Kept /\ TypeOK /\ found \in [log : Seq(Group), file : File]
    BY DEF RInv
  <2>2. CASE log = found.log
    BY <2>1, <2>2, ReplayAgain DEF Kept, TypeOK, NothingLost, Goal
  <2>3. CASE log # found.log
    <3>1. log = << >> /\ file = Goal /\ disk = Goal
      BY <2>1, <2>3 DEF Kept
    <3>2. Goal \in File
      BY <2>1, GoalIs
    <3>3. ASSUME NEW f \in File
          PROVE  Replay(<< >>, f) = f
      <4>1. Applied(<< >>) = {} /\ CommitsFrom(<< >>, 1) = {}
        BY DEF Applied, CommitsFrom
      <4>2. Merged(<< >>, {}) = [n \in Page |-> Absent]
        BY DEF Merged, LatestImage
      <4>3. Overlay(f.page, [n \in Page |-> Absent]) = f.page
        BY DEF Overlay, File
      <4>4. Largest({f.len}) = f.len
        <5>1. f.len \in Nat /\ {f.len} \in SUBSET (0 .. f.len) /\ f.len <= f.len
          BY DEF File
        <5> QED
          BY <5>1, LargestIs
      <4>5. Held([n \in Page |-> Absent]) = {}
        BY DEF Held
      <4>6. {f.len} \cup {<< >>[j].num : j \in {}} \cup {n + 1 : n \in {}} = {f.len}
        OBVIOUS
      <4>7. Replay(<< >>, f) = [len |-> f.len, page |-> f.page]
        BY <4>1, <4>2, <4>3, <4>4, <4>5, <4>6 DEF Replay
      <4> QED
        BY <4>7 DEF File
    <3> QED
      BY <3>1, <3>2, <3>3 DEF NothingLost, Goal
  <2> QED
    BY <2>2, <2>3
<1> QED
  BY <1>1, RInvAlways, PTL

(* At no moment of a replay, before or after a crash, is there an image in   *)
(* the file that no commit frame covers (wal.py:142).                        *)
THEOREM ReplaysCommittedOnly == Spec => []OnlyCommittedImages
<1>1. RInv => OnlyCommittedImages
  BY DEF RInv, Kept, Between, OnlyCommittedImages
<1> QED
  BY <1>1, RInvAlways, PTL
=============================================================================
