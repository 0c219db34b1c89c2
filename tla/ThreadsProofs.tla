---------------------------- MODULE ThreadsProofs ----------------------------
(* Theorems about Threads, for every number of threads and sessions and for  *)
(* all scripts.                                                              *)
EXTENDS Threads, TLAPS

-----------------------------------------------------------------------------
(* The invariant *)

Place == {"new", "refresh", "next", "auto", "work", "undo", "append", "publish", "committed",
          "ok", "error"}

TypeOK ==
  /\ script \in [Thread -> Scripts]
  /\ at \in [Thread -> Nat \ {0}]
  /\ pc \in [Thread -> Place]
  /\ lock \in [Session -> Thread \cup {NoOne}]
  /\ inTxn \in [Session -> BOOLEAN]
  /\ tracked \in [Session -> BOOLEAN]
  /\ changed \in [Session -> BOOLEAN]
  /\ before \in [Session -> Image]
  /\ view \in [Session -> Image]
  /\ log \in Seq(Image)
  /\ pos \in [Session -> 0 .. Len(log)]
  /\ sharedEnd \in 0 .. Len(log)
  /\ seen \in [Viewer -> SUBSET Image]
  /\ broken \subseteq Condition

Active(t) == pc[t] \notin {"new", "ok", "error"}

(* Who is at work in a session holds its lock. *)
Exclusive == \A t \in Thread : Active(t) => lock[Serves[t]] = t

(* Between two calls the transaction of a request stays open, and the session *)
(* is its own.                                                               *)
Between(t) == pc[t] = "new" /\ Within(t)
Holds(t)   == Active(t) \/ Between(t)
Alone == \A t, u \in Thread : (t # u /\ Serves[t] = Serves[u]) => ~(Holds(t) /\ Holds(u))

(* A statement is inside a transaction of the session if and only if its     *)
(* script says so.                                                           *)
InPlace(t) ==
  LET s == Serves[t] IN
  /\ Between(t) => inTxn[s]
  /\ pc[t] \notin {"new", "refresh", "next", "ok", "error"} => at[t] <= Len(script[t])
  /\ pc[t] \in {"refresh", "next", "work", "auto"} => (inTxn[s] <=> Opened(script[t], at[t]) # {})
  /\ pc[t] = "work" => inTxn[s] /\ Now(t) \in {"write", "fail"}
  /\ pc[t] \in {"auto", "undo"} => Opened(script[t], at[t]) = {} /\ Now(t) \in Writes
  /\ pc[t] = "undo" => changed[s]
  /\ pc[t] \in {"append", "publish", "committed"} =>
       /\ Now(t) \in {"write", "bulk", "commit"}
       /\ Now(t) # "commit" => Opened(script[t], at[t]) = {}

(* What is done of a script: writes that are to be kept are in the log, those *)
(* of the open transaction in the pool, and both if the batch is written.     *)
StillOpen(sc, i, a) == /\ Opened(sc, i) # {}
                       /\ \A j \in i + 1 .. a - 1 : sc[j] \notin {"commit", "rollback"}
Done(t)    == {i \in 1 .. at[t] - 1 : script[t][i] \in Writes}
Final(t, i) == \/ Opened(script[t], i) = {}
               \/ \E c \in Closed(script[t], i) : c < at[t] /\ script[t][c] = "commit"

Settled(t) ==
  /\ \A i \in Done(t) :
       /\ Final(t, i) => <<t, i>> \in Latest
       /\ StillOpen(script[t], i, at[t]) =>
            /\ <<t, i>> \in view[Serves[t]] /\ changed[Serves[t]]
            /\ pc[t] \in {"publish", "committed"} => <<t, i>> \in Latest
  /\ (pc[t] = "append" /\ Now(t) # "commit") => changed[Serves[t]] /\ <<t, at[t]>> \in view[Serves[t]]
  /\ (pc[t] \in {"publish", "committed"} /\ Now(t) # "commit") => <<t, at[t]>> \in Latest

(* A session holds at least what it has adopted, and goes back to no less.   *)
Adopted(s) == IF pos[s] = 0 THEN Blank ELSE log[pos[s]]

GoesBack(t) == (Holds(t) /\ pc[t] \notin {"publish", "committed"} /\ changed[Serves[t]]) =>
                  Adopted(Serves[t]) \subseteq before[Serves[t]]

Clean(image) == \A t \in Thread : \A i \in DOMAIN script[t] :
                   script[t][i] = "fail" => <<t, i>> \notin image
Undoing(s)   == {<<t, at[t]>> : t \in {u \in Thread : Serves[u] = s /\ pc[u] = "undo"}}

Sound(s) ==
  /\ tracked[s] = inTxn[s]
  /\ changed[s] => tracked[s]
  /\ Adopted(s) \subseteq view[s]
  /\ Clean(before[s]) /\ Clean(view[s] \ Undoing(s))

SoundThread(t) == /\ InPlace(t) /\ GoesBack(t) /\ AnswersKept(t)
                  /\ pc[t] \notin {"ok", "error"} => Settled(t)
SoundLog == \A n \in DOMAIN log : Clean(log[n])

Good == /\ SoundLog /\ Alone
        /\ \A t \in Thread : SoundThread(t)
        /\ \A s \in Session : Sound(s)

Inv == TypeOK /\ Exclusive /\ (broken = {} => Good)

-----------------------------------------------------------------------------
(* Scripts *)

(* Where a transaction is open after a statement, by what the statement is.  *)
LEMMA OpenedNext ==
  ASSUME NEW sc \in Seq(Statement), NEW a \in 1 .. Len(sc)
  PROVE  /\ sc[a] = "begin" => Opened(sc, a + 1) # {}
         /\ sc[a] \in {"commit", "rollback"} => Opened(sc, a + 1) = {}
         /\ sc[a] \notin {"begin", "commit", "rollback"} => Opened(sc, a + 1) = Opened(sc, a)
<1>1. a \in Nat \ {0} /\ (a + 1) - 1 = a
  OBVIOUS
<1>2. ASSUME sc[a] = "begin" PROVE Opened(sc, a + 1) # {}
  <2>1. a \in Opened(sc, a + 1)
    BY <1>1, <1>2 DEF Opened
  <2> QED
    BY <2>1
<1>3. ASSUME sc[a] \in {"commit", "rollback"} PROVE Opened(sc, a + 1) = {}
  <2> SUFFICES ASSUME NEW b \in Opened(sc, a + 1) PROVE FALSE
    OBVIOUS
  <2>1. b \in 1 .. a /\ sc[b] = "begin" /\ \A j \in b + 1 .. a : sc[j] \notin {"commit", "rollback"}
    BY <1>1 DEF Opened
  <2>2. b # a
    BY <1>3, <2>1
  <2>3. a \in b + 1 .. a
    BY <2>1, <2>2
  <2> QED
    BY <1>3, <2>1, <2>3
<1>4. ASSUME sc[a] \notin {"begin", "commit", "rollback"} PROVE Opened(sc, a + 1) = Opened(sc, a)
  <2>1. ASSUME NEW b \in Opened(sc, a + 1) PROVE b \in Opened(sc, a)
    BY <1>1, <1>4, <2>1 DEF Opened
  <2>2. ASSUME NEW b \in Opened(sc, a) PROVE b \in Opened(sc, a + 1)
    BY <1>1, <1>4, <2>2 DEF Opened
  <2> QED
    BY <2>1, <2>2
<1> QED
  BY <1>2, <1>3, <1>4

(* While the transaction of an earlier write is open, one is open.           *)
LEMMA StillOpenNow ==
  ASSUME NEW sc \in Seq(Statement), NEW a \in Nat \ {0}, NEW i \in 1 .. a - 1,
         sc[i] \in Writes, StillOpen(sc, i, a)
  PROVE  Opened(sc, a) # {}
<1>1. PICK b \in Opened(sc, i) : TRUE
  BY DEF StillOpen
<1>2. b \in Opened(sc, a)
  <2>1. sc[i] \notin {"commit", "rollback"}
    BY DEF Writes
  <2>2. b \in 1 .. i - 1 /\ sc[b] = "begin" /\ \A j \in b + 1 .. i - 1 : sc[j] \notin {"commit", "rollback"}
    BY DEF Opened
  <2>3. b \in 1 .. a - 1
    BY <2>2
  <2>4. ASSUME NEW j \in b + 1 .. a - 1 PROVE sc[j] \notin {"commit", "rollback"}
    <3>1. j \in b + 1 .. i - 1 \/ j = i \/ j \in i + 1 .. a - 1
      BY <2>2
    <3> QED
      BY <2>1, <2>2, <3>1 DEF StillOpen
  <2> QED
    BY <2>2, <2>3, <2>4 DEF Opened
<1> QED
  BY <1>2

(* What can change in the places of the threads: one statement more is done. *)
LEMMA StillOpenBefore ==
  ASSUME NEW sc \in Seq(Statement), NEW a \in Nat \ {0}, NEW i \in 1 .. a - 1,
         StillOpen(sc, i, a + 1)
  PROVE  StillOpen(sc, i, a) /\ sc[a] \notin {"commit", "rollback"}
BY DEF StillOpen

-----------------------------------------------------------------------------
(* Types and locks *)

LEMMA TypeInit == Init => TypeOK
BY ThreadsAssumption DEF Init, TypeOK, Place, Image, Blank, Condition

LEMMA TypeStep ==
  ASSUME TypeOK, NEW t \in Thread, Step(t), seen' = seen
  PROVE  TypeOK'
<1> DEFINE s == Serves[t]
<1>0. s \in Session /\ script[t] \in Seq(Statement) /\ at[t] \in Nat \ {0}
  BY ThreadsAssumption DEF TypeOK
<1>1. <<t, at[t]>> \in Thread \X Nat /\ at[t] + 1 \in Nat \ {0}
  BY <1>0
<1>2. view[s] \cup {<<t, at[t]>>} \in Image /\ view[s] \in Image /\ before[s] \in Image /\ Blank \in Image
  BY <1>0, <1>1 DEF TypeOK, Image, Blank
<1>3. CASE Enter(t)
  BY <1>0, <1>3 DEF Enter, TypeOK, Goto, Place, session, wal, Condition
<1>4. CASE Refresh(t)
  <2>1. CASE inTxn[s] \/ sharedEnd <= pos[s]
    BY <1>0, <1>4, <2>1 DEF Refresh, TypeOK, Goto, Place, locks
  <2>2. CASE ~(inTxn[s] \/ sharedEnd <= pos[s])
    <3>1. view' = [view EXCEPT ![s] = log[sharedEnd]] /\ pos' = [pos EXCEPT ![s] = sharedEnd]
      BY <1>4, <2>2 DEF Refresh
    <3>2. log[sharedEnd] \in Image
      BY <1>0, <2>2 DEF TypeOK
    <3> QED
      BY <1>0, <1>4, <3>1, <3>2 DEF Refresh, TypeOK, Goto, Place, locks
  <2> QED
    BY <2>1, <2>2
<1>5. CASE Answer(t)
  BY <1>0, <1>5 DEF Answer, Leave, Freed, TypeOK, Goto, Place, session, wal, Condition
<1>6. CASE Read(t)
  BY <1>0, <1>1, <1>6 DEF Read, Advance, TypeOK, Goto, Place, session, wal
<1>7. CASE Begin(t)
  BY <1>0, <1>1, <1>7 DEF Begin, BeginTxn, Advance, TypeOK, Goto, Place, wal
<1>8. CASE Refuse(t)
  BY <1>0, <1>8 DEF Refuse, Leave, Freed, TypeOK, Goto, Place, session, wal, Condition
<1>9. CASE Rollback(t)
  BY <1>0, <1>1, <1>2, <1>9 DEF Rollback, Undone, EndTxn, Advance, TypeOK, Goto, Place, wal
<1>10. CASE Acquire(t)
  BY <1>0, <1>10 DEF Acquire, TypeOK, Goto, Place, session, wal
<1>11. CASE AutoWork(t)
  BY <1>0, <1>2, <1>11 DEF AutoWork, Put, TypeOK, Goto, Place, wal, locks
<1>12. CASE Undo(t)
  <2>1. /\ view' \in [Session -> Image] /\ before' \in [Session -> Image] /\ inTxn' \in [Session -> BOOLEAN]
        /\ tracked' \in [Session -> BOOLEAN] /\ changed' \in [Session -> BOOLEAN]
    BY <1>0, <1>2, <1>12 DEF Undo, Undone, EndTxn, TypeOK
  <2>2. lock' \in [Session -> Thread \cup {NoOne}]
    BY <1>0, <1>12 DEF Undo, Leave, TypeOK
  <2>3. pc' \in [Thread -> Place] /\ script' = script /\ at' = at
    BY <1>0, <1>12 DEF Undo, Leave, Goto, Place, TypeOK
  <2>4. broken' = broken
    BY <1>12 DEF Undo, Leave
  <2> QED
    BY <1>12, <2>1, <2>2, <2>3, <2>4 DEF Undo, TypeOK, wal
<1>13. CASE TxnWork(t)
  <2>1. view' \in [Session -> Image] /\ before' \in [Session -> Image] /\ changed' \in [Session -> BOOLEAN]
    BY <1>0, <1>2, <1>13 DEF TxnWork, Put, TypeOK
  <2>2. /\ at' \in [Thread -> Nat \ {0}] /\ pc' \in [Thread -> Place]
        /\ lock' \in [Session -> Thread \cup {NoOne}] /\ broken' \subseteq Condition /\ script' = script
    <3>1. CASE Now(t) = "fail"
      BY <1>0, <1>13, <3>1 DEF TxnWork, Leave, Goto, TypeOK, Place, Condition
    <3>2. CASE Now(t) # "fail"
      <4>1. Advance(t) /\ broken' = broken
        BY <1>13, <3>2 DEF TxnWork
      <4> QED
        BY <1>0, <1>1, <4>1 DEF Advance, Goto, TypeOK, Place
    <3> QED
      BY <3>1, <3>2
  <2> QED
    BY <1>13, <2>1, <2>2 DEF TxnWork, TypeOK, wal
<1>14. CASE AppendBatch(t)
  <2>1. CASE ~changed[s]
    BY <1>0, <1>14, <2>1 DEF AppendBatch, TypeOK, Goto, Place, locks, session
  <2>2. CASE changed[s]
    <3>1. log' = Append(log, view[s]) /\ pos' = [pos EXCEPT ![s] = Len(log')]
      BY <1>14, <2>2 DEF AppendBatch
    <3>2. log' \in Seq(Image) /\ Len(log') = Len(log) + 1 /\ Len(log) \in Nat
      BY <1>2, <3>1 DEF TypeOK
    <3>3. pos' \in [Session -> 0 .. Len(log')] /\ sharedEnd' \in 0 .. Len(log')
      BY <1>0, <1>14, <3>1, <3>2 DEF AppendBatch, TypeOK
    <3> QED
      BY <1>0, <1>14, <2>2, <3>2, <3>3 DEF AppendBatch, TypeOK, Goto, Place, locks, session, Condition
  <2> QED
    BY <2>1, <2>2
<1>15. CASE AppendFails(t)
  BY <1>0, <1>2, <1>15 DEF AppendFails, Freed, TypeOK, Goto, Place, wal, Condition
<1>16. CASE Publish(t)
  BY <1>0, <1>16 DEF Publish, TypeOK, Goto, Place, locks, session
<1>17. CASE Committed(t)
  BY <1>0, <1>1, <1>2, <1>17 DEF Committed, EndTxn, Freed, Advance, TypeOK, Goto, Place, wal
<1> QED
  BY <1>3, <1>4, <1>5, <1>6, <1>7, <1>8, <1>9, <1>10, <1>11, <1>12, <1>13, <1>14, <1>15, <1>16, <1>17
  DEF Step

(* What a step of t leaves alone: the other threads and the other sessions.  *)
Frame(t) ==
  /\ script' = script /\ broken \subseteq broken'
  /\ \A u \in Thread \ {t} : at'[u] = at[u] /\ pc'[u] = pc[u]
  /\ \A s \in Session \ {Serves[t]} :
       /\ lock'[s] = lock[s] /\ inTxn'[s] = inTxn[s]
       /\ tracked'[s] = tracked[s] /\ changed'[s] = changed[s]
       /\ before'[s] = before[s] /\ view'[s] = view[s] /\ pos'[s] = pos[s]

LEMMA StepFrame ==
  ASSUME TypeOK, NEW t \in Thread, Step(t)
  PROVE  Frame(t)
<1>0. Serves[t] \in Session
  BY ThreadsAssumption
<1> USE DEF Frame, TypeOK, Goto, session, wal, locks
<1>1. CASE Enter(t) \/ Refresh(t) \/ Answer(t)
  BY <1>0, <1>1 DEF Enter, Refresh, Answer, Leave
<1>2. CASE Read(t) \/ Begin(t) \/ Refuse(t) \/ Rollback(t)
  BY <1>0, <1>2 DEF Read, Begin, BeginTxn, Refuse, Leave, Rollback, EndTxn, Advance
<1>3. CASE Acquire(t) \/ AutoWork(t) \/ Undo(t)
  BY <1>0, <1>3 DEF Acquire, AutoWork, Put, Undo, EndTxn, Leave
<1>4. CASE TxnWork(t)
  BY <1>0, <1>4 DEF TxnWork, Put, Leave, Advance
<1>5. CASE AppendBatch(t) \/ AppendFails(t)
  BY <1>0, <1>5 DEF AppendBatch, AppendFails
<1>6. CASE Publish(t) \/ Committed(t)
  BY <1>0, <1>6 DEF Publish, Committed, EndTxn, Advance
<1> QED
  BY <1>1, <1>2, <1>3, <1>4, <1>5, <1>6 DEF Step

(* A thread gets the lock of its session when it is free, and keeps it for   *)
(* as long as it is at work.                                                 *)
LEMMA LockOfStep ==
  ASSUME TypeOK, Exclusive, NEW t \in Thread, Step(t)
  PROVE  /\ lock[Serves[t]] \in {NoOne, t}
         /\ Active(t)' => lock'[Serves[t]] = t
<1>0. Serves[t] \in Session
  BY ThreadsAssumption
<1> USE DEF Active, Exclusive, TypeOK, Goto, locks
<1>1. CASE Enter(t)
  BY <1>0, <1>1 DEF Enter, MayEnter
<1>2. CASE Refresh(t) \/ Answer(t) \/ Refuse(t) \/ Undo(t)
  BY <1>0, <1>2 DEF Refresh, Answer, Refuse, Undo, Leave, Starts
<1>3. CASE Read(t) \/ Begin(t) \/ Rollback(t)
  BY <1>0, <1>3 DEF Read, Begin, Rollback, Advance, Starts
<1>4. CASE Acquire(t) \/ AutoWork(t)
  BY <1>0, <1>4 DEF Acquire, NeedsWriter, AutoWork, Starts
<1>5. CASE TxnWork(t)
  BY <1>0, <1>5 DEF TxnWork, Leave, Advance, Starts
<1>6. CASE AppendBatch(t) \/ AppendFails(t) \/ Publish(t) \/ Committed(t)
  BY <1>0, <1>6 DEF AppendBatch, AppendFails, Publish, Committed, Advance
<1> QED
  BY <1>1, <1>2, <1>3, <1>4, <1>5, <1>6 DEF Step

LEMMA ExclusiveStep ==
  ASSUME TypeOK, Exclusive, NEW t \in Thread, Step(t)
  PROVE  Exclusive'
<1> SUFFICES ASSUME NEW u \in Thread, Active(u)' PROVE lock'[Serves[u]] = u
  BY DEF Exclusive
<1>1. CASE u = t
  BY <1>1, LockOfStep
<1>2. CASE u # t
  <2>1. Active(u) /\ lock[Serves[u]] = u
    BY <1>2, StepFrame DEF Frame, Active, Exclusive
  <2>2. Serves[u] # Serves[t]
    BY <1>2, <2>1, LockOfStep, ThreadsAssumption
  <2> QED
    BY <1>2, <2>1, <2>2, StepFrame, ThreadsAssumption DEF Frame
<1> QED
  BY <1>1, <1>2

-----------------------------------------------------------------------------
(* What other threads and sessions rely on *)

Grown == /\ Len(log) <= Len(log')
         /\ \A n \in DOMAIN log : log'[n] = log[n]
         /\ Latest \subseteq Latest'

(* A batch is appended by a session that has adopted the log as it is, so    *)
(* the last image only grows.                                                *)
LEMMA LogGrows ==
  ASSUME TypeOK, Good, NEW t \in Thread, Step(t), broken' = {}
  PROVE  Grown
<1>0. Serves[t] \in Session /\ Len(log) \in Nat
  BY ThreadsAssumption DEF TypeOK
<1>1. CASE log' = log
  BY <1>0, <1>1 DEF Grown, Latest
<1>2. CASE log' # log
  <2>1. AppendBatch(t) /\ changed[Serves[t]]
    BY <1>2 DEF Step, Enter, Refresh, Answer, Read, Begin, Refuse, Rollback, Acquire, AutoWork, Undo,
                TxnWork, AppendBatch, AppendFails, Publish, Committed, wal
  <2>2. log' = Append(log, view[Serves[t]]) /\ pos[Serves[t]] = Len(log)
    BY <2>1 DEF AppendBatch
  <2>3. Latest = Adopted(Serves[t])
    BY <1>0, <2>2 DEF Latest, Adopted, TypeOK, Blank
  <2>4. view[Serves[t]] \in Image /\ log \in Seq(Image)
    BY <1>0 DEF TypeOK
  <2>5. /\ Len(log') = Len(log) + 1 /\ log'[Len(log')] = view[Serves[t]]
        /\ \A n \in DOMAIN log : log'[n] = log[n]
    BY <1>0, <2>2, <2>4
  <2>6. Latest' = view[Serves[t]]
    BY <1>0, <2>5 DEF Latest
  <2>7. Adopted(Serves[t]) \subseteq view[Serves[t]]
    BY <1>0 DEF Good, Sound
  <2>8. Len(log) <= Len(log')
    BY <1>0, <2>5
  <2> QED
    BY <2>3, <2>5, <2>6, <2>7, <2>8 DEF Grown
<1> QED
  BY <1>1, <1>2

(* Outside a transaction what is done is in the log, whatever becomes of the *)
(* pool.                                                                     *)
LEMMA SettledOutside ==
  ASSUME NEW t \in Thread, script[t] \in Seq(Statement), at[t] \in Nat \ {0}, Settled(t), Grown,
         script' = script, at'[t] = at[t], pc'[t] \in {"new", "refresh", "next"},
         Opened(script[t], at[t]) = {}
  PROVE  Settled(t)'
<1>1. ASSUME NEW i \in Done(t) PROVE ~StillOpen(script[t], i, at[t])
  BY StillOpenNow DEF Done
<1>2. Done(t)' = Done(t)
  BY DEF Done
<1>3. \A i : Final(t, i)' <=> Final(t, i)
  BY DEF Final, Opened, Closed
<1>4. \A i : StillOpen(script[t], i, at[t])' <=> StillOpen(script[t], i, at[t])
  BY DEF StillOpen, Opened
<1> QED
  BY <1>1, <1>2, <1>3, <1>4 DEF Settled, Grown

(* Nobody but t has business with its session: who enters it is not between  *)
(* the calls of another's transaction.                                       *)
LEMMA NobodyElse ==
  ASSUME TypeOK, Exclusive, Good, NEW t \in Thread, Step(t), broken' = {},
         NEW u \in Thread \ {t}, Holds(u)
  PROVE  Serves[u] # Serves[t]
<1> SUFFICES ASSUME Serves[u] = Serves[t] PROVE FALSE
  OBVIOUS
<1>1. Alone /\ InPlace(u) /\ broken = {}
  BY StepFrame DEF Good, SoundThread, Frame
<1>2. CASE Active(u)
  BY <1>2, LockOfStep, ThreadsAssumption DEF Exclusive
<1>3. CASE Between(u)
  <2>1. CASE Enter(t)
    <3>1. pc[t] = "new" /\ inTxn[Serves[t]] = Within(t)
      BY <2>1 DEF Enter
    <3>2. inTxn[Serves[t]]
      BY <1>1, <1>3 DEF InPlace
    <3>3. Holds(t)
      BY <3>1, <3>2 DEF Holds, Between
    <3> QED
      BY <1>1, <3>3 DEF Alone
  <2>2. CASE ~Enter(t)
    <3>1. Active(t)
      BY <2>2 DEF Step, Refresh, Answer, Read, Begin, Refuse, Rollback, Acquire, NeedsWriter, AutoWork,
         Undo, TxnWork, AppendBatch, AppendFails, Publish, Committed, Starts, Active
    <3> QED
      BY <1>1, <3>1 DEF Alone, Holds
  <2> QED
    BY <2>1, <2>2
<1> QED
  BY <1>2, <1>3 DEF Holds

LEMMA HoldsStays ==
  ASSUME NEW t \in Thread, Frame(t)
  PROVE  \A u \in Thread \ {t} : Holds(u)' <=> Holds(u)
BY DEF Frame, Holds, Active, Between, Within, Opened

LEMMA AloneStep ==
  ASSUME TypeOK, Exclusive, Good, NEW t \in Thread, Step(t), broken' = {}
  PROVE  Alone'
<1>1. Alone /\ \A u \in Thread \ {t} : Holds(u)' <=> Holds(u)
  BY StepFrame, HoldsStays DEF Good
<1>2. \A u \in Thread \ {t} : Holds(u) => Serves[u] # Serves[t]
  BY NobodyElse
<1> QED
  BY <1>1, <1>2 DEF Alone

LEMMA OtherThreads ==
  ASSUME TypeOK, Exclusive, Good, NEW t \in Thread, Step(t), broken' = {}, NEW u \in Thread \ {t}
  PROVE  SoundThread(u)'
<1>0. Serves[u] \in Session /\ script[u] \in Seq(Statement) /\ at[u] \in Nat \ {0}
  BY ThreadsAssumption DEF TypeOK
<1>1. script' = script /\ at'[u] = at[u] /\ pc'[u] = pc[u] /\ Grown
  BY StepFrame, LogGrows DEF Frame
<1>2. ASSUME Holds(u)
      PROVE  /\ inTxn'[Serves[u]] = inTxn[Serves[u]] /\ changed'[Serves[u]] = changed[Serves[u]]
             /\ before'[Serves[u]] = before[Serves[u]] /\ view'[Serves[u]] = view[Serves[u]]
             /\ pos'[Serves[u]] = pos[Serves[u]]
  <2>1. Serves[u] # Serves[t]
    BY <1>2, NobodyElse
  <2> QED
    BY <1>0, <2>1, StepFrame DEF Frame
<1>3. SoundThread(u)
  BY DEF Good
<1>4. InPlace(u)'
  <2>1. CASE Holds(u)
    BY <1>1, <1>2, <1>3, <2>1 DEF SoundThread, InPlace, Now, Between, Within, Opened
  <2>2. CASE ~Holds(u)
    BY <1>1, <1>3, <2>2, StepFrame, HoldsStays DEF SoundThread, InPlace, Holds, Active, Now
  <2> QED
    BY <2>1, <2>2
<1>5. GoesBack(u)'
  <2>1. pos[Serves[u]] \in 0 .. Len(log) /\ Len(log) \in Nat
    BY <1>0 DEF TypeOK
  <2>2. Holds(u) => Adopted(Serves[u])' = Adopted(Serves[u])
    BY <1>1, <1>2, <2>1 DEF Adopted, Grown, Blank
  <2>3. Holds(u)' <=> Holds(u)
    BY StepFrame, HoldsStays
  <2> QED
    BY <1>1, <1>2, <1>3, <2>2, <2>3 DEF SoundThread, GoesBack
<1>6. AnswersKept(u)'
  BY <1>1, <1>3 DEF SoundThread, AnswersKept, Promised, Kept, Opened, Closed, Grown
<1>7. ASSUME pc'[u] \notin {"ok", "error"} PROVE Settled(u)'
  <2>1. CASE Holds(u)
    BY <1>1, <1>2, <1>3, <1>7, <2>1
    DEF SoundThread, Settled, Done, Final, StillOpen, Opened, Closed, Now, Grown
  <2>2. CASE ~Holds(u)
    <3>1. pc[u] = "new" /\ Opened(script[u], at[u]) = {}
      BY <1>1, <1>7, <2>2 DEF Holds, Active, Between, Within
    <3> QED
      BY <1>0, <1>1, <1>3, <3>1, SettledOutside DEF SoundThread
  <2> QED
    BY <2>1, <2>2
<1> QED
  BY <1>4, <1>5, <1>6, <1>7 DEF SoundThread

LEMMA OtherSessions ==
  ASSUME TypeOK, Exclusive, Good, NEW t \in Thread, Step(t), broken' = {},
         NEW s \in Session \ {Serves[t]}
  PROVE  Sound(s)'
<1>1. /\ script' = script /\ Grown
      /\ lock'[s] = lock[s] /\ inTxn'[s] = inTxn[s]
      /\ tracked'[s] = tracked[s] /\ changed'[s] = changed[s]
      /\ before'[s] = before[s] /\ view'[s] = view[s] /\ pos'[s] = pos[s]
  BY StepFrame, LogGrows DEF Frame
<1>2. pos[s] \in 0 .. Len(log) /\ Len(log) \in Nat
  BY DEF TypeOK
<1>3. Adopted(s)' = Adopted(s)
  BY <1>1, <1>2 DEF Adopted, Grown, Blank
<1>4. Undoing(s)' = Undoing(s)
  <2>1. \A u \in Thread : Serves[u] = s => at'[u] = at[u] /\ pc'[u] = pc[u]
    BY StepFrame DEF Frame
  <2> QED
    BY <2>1 DEF Undoing
<1>5. Sound(s)
  BY DEF Good
<1> QED
  BY <1>1, <1>3, <1>4, <1>5 DEF Sound, Clean

-----------------------------------------------------------------------------
(* The thread that takes the step *)

(* Nobody undoes a statement in a session but the thread at work in it.      *)
LEMMA UndoingHere ==
  ASSUME TypeOK, Exclusive, NEW t \in Thread, Step(t)
  PROVE  /\ Undoing(Serves[t]) = IF pc[t] = "undo" THEN {<<t, at[t]>>} ELSE {}
         /\ Undoing(Serves[t])' = IF pc'[t] = "undo" THEN {<<t, at'[t]>>} ELSE {}
<1>1. ASSUME NEW u \in Thread \ {t}, Serves[u] = Serves[t]
      PROVE  pc[u] # "undo" /\ pc'[u] = pc[u]
  BY <1>1, LockOfStep, StepFrame, ThreadsAssumption DEF Exclusive, Active, Frame
<1> QED
  BY <1>1 DEF Undoing

LEMMA CleanWith ==
  ASSUME NEW t \in Thread, NEW image, Clean(image), Now(t) # "fail"
  PROVE  Clean(image \cup {<<t, at[t]>>})
BY DEF Clean, Now

(* In the middle of a statement. *)
LEMMA SettledStays ==
  ASSUME NEW t \in Thread, Settled(t), Grown,
         script' = script, at'[t] = at[t], pc'[t] \notin {"publish", "committed"},
         view[Serves[t]] \subseteq view'[Serves[t]], changed[Serves[t]] => changed'[Serves[t]],
         (pc'[t] = "append" /\ Now(t) # "commit") =>
            changed'[Serves[t]] /\ <<t, at[t]>> \in view'[Serves[t]]
  PROVE  Settled(t)'
BY DEF Settled, Done, Final, StillOpen, Opened, Closed, Grown, Now

(* After a statement: what it has written is where it belongs, and a COMMIT  *)
(* has brought the writes of its transaction into the log.                   *)
LEMMA SettledNext ==
  ASSUME TypeOK, NEW t \in Thread, Settled(t), Grown, at[t] <= Len(script[t]),
         script' = script, at'[t] = at[t] + 1, pc'[t] \in {"next", "new"},
         (Now(t) \in Writes /\ Opened(script[t], at[t]) = {}) => <<t, at[t]>> \in Latest',
         (Now(t) \in Writes /\ Opened(script[t], at[t]) # {}) =>
            changed'[Serves[t]] /\ <<t, at[t]>> \in view'[Serves[t]],
         Now(t) = "commit" =>
            \A i \in Done(t) : StillOpen(script[t], i, at[t]) => <<t, i>> \in Latest',
         (Now(t) \notin {"commit", "rollback"} /\ Opened(script[t], at[t]) # {}) =>
            /\ view[Serves[t]] \subseteq view'[Serves[t]]
            /\ changed[Serves[t]] => changed'[Serves[t]]
  PROVE  Settled(t)'
<1> DEFINE sc == script[t]
           a  == at[t]
<1>0. sc \in Seq(Statement) /\ a \in Nat \ {0} /\ sc' = sc /\ a' = a + 1
  BY ThreadsAssumption DEF TypeOK
<1>1. ASSUME NEW i \in Done(t)'
      PROVE  i \in 1 .. a /\ sc[i] \in Writes /\ (i # a => i \in Done(t) /\ i \in 1 .. a - 1)
  BY <1>0 DEF Done
<1>2. ASSUME NEW i \in Done(t)', Final(t, i)' PROVE <<t, i>> \in Latest'
  <2>1. CASE Opened(sc, i) = {}
    <3>1. CASE i = a
      BY <1>1, <2>1, <3>1 DEF Now
    <3>2. CASE i # a
      BY <1>1, <2>1, <3>2 DEF Settled, Final, Grown
    <3> QED
      BY <3>1, <3>2
  <2>2. CASE Opened(sc, i) # {}
    <3>1. PICK c \in Closed(sc, i) : c < a + 1 /\ sc[c] = "commit"
      <4>1. Opened(script[t], i)' = Opened(sc, i) /\ Closed(script[t], i)' = Closed(sc, i)
        BY DEF Opened, Closed
      <4> QED
        BY <1>0, <1>2, <2>2, <4>1 DEF Final
    <3>2. /\ c \in i + 1 .. Len(sc)
          /\ \A j \in i + 1 .. c - 1 : sc[j] \notin {"commit", "rollback"}
      BY DEF Closed
    <3>3. i # a
      BY <1>0, <1>1, <3>1, <3>2
    <3>4. CASE c < a
      BY <1>1, <3>1, <3>3, <3>4 DEF Settled, Final, Grown
    <3>5. CASE c = a
      <4>1. StillOpen(sc, i, a) /\ Now(t) = "commit"
        BY <2>2, <3>1, <3>2, <3>5 DEF StillOpen, Now
      <4> QED
        BY <1>1, <3>3, <4>1
    <3> QED
      BY <1>0, <3>1, <3>2, <3>4, <3>5
  <2> QED
    BY <2>1, <2>2
<1>3. ASSUME NEW i \in Done(t)', StillOpen(script[t], i, at[t])'
      PROVE  <<t, i>> \in view'[Serves[t]] /\ changed'[Serves[t]]
  <2>1. StillOpen(sc, i, a + 1)
    BY <1>0, <1>3 DEF StillOpen, Opened
  <2>2. CASE i = a
    BY <1>1, <2>1, <2>2 DEF StillOpen, Now
  <2>3. CASE i # a
    <3>1. StillOpen(sc, i, a) /\ Now(t) \notin {"commit", "rollback"}
      BY <1>0, <1>1, <2>1, <2>3, StillOpenBefore DEF Now
    <3>2. Opened(sc, a) # {}
      BY <1>0, <1>1, <2>3, <3>1, StillOpenNow
    <3>3. <<t, i>> \in view[Serves[t]] /\ changed[Serves[t]]
      BY <1>1, <2>3, <3>1 DEF Settled
    <3> QED
      BY <3>1, <3>2, <3>3
  <2> QED
    BY <2>2, <2>3
<1> QED
  BY <1>2, <1>3 DEF Settled

(* The place after a statement. *)
LEMMA InPlaceNext ==
  ASSUME TypeOK, NEW t \in Thread, at[t] <= Len(script[t]),
         script' = script, at'[t] = at[t] + 1, pc'[t] \in {"next", "new"},
         Now(t) = "begin" => inTxn'[Serves[t]],
         Now(t) \in {"commit", "rollback"} => ~inTxn'[Serves[t]],
         Now(t) \notin {"begin", "commit", "rollback"} =>
            (inTxn'[Serves[t]] <=> Opened(script[t], at[t]) # {})
  PROVE  InPlace(t)'
<1>1. script[t] \in Seq(Statement) /\ at[t] \in 1 .. Len(script[t])
  BY ThreadsAssumption DEF TypeOK
<1>2. Opened(script[t], at[t])' = Opened(script[t], at[t] + 1)
  BY DEF Opened
<1>3. inTxn'[Serves[t]] <=> Opened(script[t], at[t] + 1) # {}
  BY <1>1, OpenedNext DEF Now
<1> QED
  BY <1>2, <1>3 DEF InPlace, Between, Within

-----------------------------------------------------------------------------
(* Each step *)

Keeps(t) == SoundThread(t)' /\ Sound(Serves[t])' /\ SoundLog'

(* What every step starts from, and may use. *)
Start(t) ==
  /\ Serves[t] \in Session /\ script[t] \in Seq(Statement) /\ at[t] \in Nat \ {0}
  /\ InPlace(t) /\ GoesBack(t) /\ (pc[t] \notin {"ok", "error"} => Settled(t))
  /\ Sound(Serves[t]) /\ SoundLog /\ Grown /\ script' = script
  /\ lock[Serves[t]] \in {NoOne, t} /\ t # NoOne
  /\ Undoing(Serves[t]) = (IF pc[t] = "undo" THEN {<<t, at[t]>>} ELSE {})
  /\ Undoing(Serves[t])' = (IF pc'[t] = "undo" THEN {<<t, at'[t]>>} ELSE {})

LEMMA StartOf ==
  ASSUME TypeOK, Exclusive, Good, NEW t \in Thread, Step(t), broken' = {}
  PROVE  Start(t)
BY ThreadsAssumption, LogGrows, StepFrame, LockOfStep, UndoingHere
DEF TypeOK, Good, SoundThread, Frame, Start

(* What is left to show of the session. *)
LEMMA SoundIs ==
  ASSUME NEW t \in Thread, Start(t),
         tracked'[Serves[t]] = inTxn'[Serves[t]], changed'[Serves[t]] => tracked'[Serves[t]],
         Adopted(Serves[t])' \subseteq view'[Serves[t]],
         Clean(before'[Serves[t]]),
         Clean(view'[Serves[t]] \ (IF pc'[t] = "undo" THEN {<<t, at'[t]>>} ELSE {}))
  PROVE  Sound(Serves[t])'
<1>1. script' = script
  BY DEF Start
<1>2. Clean(before[Serves[t]])'
  BY <1>1 DEF Clean
<1>3. Clean(view[Serves[t]] \ Undoing(Serves[t]))'
  BY <1>1 DEF Start, Clean
<1> QED
  BY <1>2, <1>3 DEF Sound

LEMMA SoundLogStays ==
  ASSUME SoundLog, script' = script, log' = log
  PROVE  SoundLog'
BY DEF SoundLog, Clean

(* A step that changes nothing of the session but who holds its lock. *)
LEMMA SessionStays ==
  ASSUME NEW t \in Thread, Start(t), UNCHANGED <<session, wal>>,
         pc[t] # "undo", pc'[t] # "undo"
  PROVE  Sound(Serves[t])' /\ SoundLog'
<1>1. Adopted(Serves[t])' = Adopted(Serves[t])
  BY DEF wal, Adopted
<1>2. /\ tracked' = tracked /\ inTxn' = inTxn /\ changed' = changed /\ before' = before
      /\ view' = view /\ log' = log
  BY DEF session, wal
<1>3. Sound(Serves[t]) /\ Clean(view[Serves[t]] \ {})
  BY DEF Start, Sound
<1>4. Sound(Serves[t])'
  BY <1>1, <1>2, <1>3, SoundIs DEF Sound
<1> QED
  BY <1>2, <1>4, SoundLogStays DEF Start

LEMMA EnterKeeps ==
  ASSUME TypeOK, Exclusive, Good, NEW t \in Thread, Enter(t), broken' = {}
  PROVE  Keeps(t)
<1> DEFINE s == Serves[t]
<1>1. Start(t)
  BY StartOf DEF Step
<1>2. /\ pc[t] = "new" /\ at' = at /\ UNCHANGED <<session, wal>>
      /\ pc'[t] \in {"next", "refresh"} /\ (inTxn[s] <=> Within(t))
  BY DEF Enter, Goto, TypeOK
<1>3. changed' = changed /\ inTxn' = inTxn /\ view' = view /\ before' = before /\ pos' = pos /\ log' = log
  BY <1>2 DEF session, wal
<1>4. InPlace(t)'
  BY <1>1, <1>2, <1>3 DEF Start, InPlace, Between, Within, Opened
<1>5. changed[s] => Holds(t)
  BY <1>1, <1>2 DEF Start, Sound, Holds, Between
<1>6. GoesBack(t)' /\ AnswersKept(t)'
  BY <1>1, <1>2, <1>3, <1>5 DEF Start, GoesBack, AnswersKept, Adopted
<1>7. Settled(t)'
  BY <1>1, <1>2, <1>3, SettledStays DEF Start
<1>8. Sound(s)' /\ SoundLog'
  BY <1>1, <1>2, SessionStays
<1> QED
  BY <1>4, <1>6, <1>7, <1>8 DEF Keeps, SoundThread

LEMMA RefreshKeeps ==
  ASSUME TypeOK, Exclusive, Good, NEW t \in Thread, Refresh(t), broken' = {}
  PROVE  Keeps(t)
<1> DEFINE s == Serves[t]
<1>1. Start(t)
  BY StartOf DEF Step
<1>2. /\ pc[t] = "refresh" /\ pc'[t] = "next" /\ at' = at
      /\ UNCHANGED <<inTxn, tracked, changed, before, log, sharedEnd>>
  BY DEF Refresh, Goto, TypeOK
<1>3. InPlace(t)'
  BY <1>1, <1>2 DEF Start, InPlace, Between, Opened
<1>4. AnswersKept(t)' /\ SoundLog'
  BY <1>1, <1>2, SoundLogStays DEF Start, AnswersKept
<1>5. CASE inTxn[s] \/ sharedEnd <= pos[s]
  <2>1. view' = view /\ pos' = pos
    BY <1>5 DEF Refresh
  <2>2. UNCHANGED <<session, wal>>
    BY <1>2, <2>1 DEF session, wal
  <2>3. GoesBack(t)'
    BY <1>1, <1>2, <2>1 DEF Start, GoesBack, Holds, Active, Adopted
  <2>4. Settled(t)'
    BY <1>1, <1>2, <2>1, SettledStays DEF Start
  <2>5. Sound(s)'
    BY <1>1, <1>2, <2>2, SessionStays
  <2> QED
    BY <1>3, <1>4, <2>3, <2>4, <2>5 DEF Keeps, SoundThread
<1>6. CASE ~(inTxn[s] \/ sharedEnd <= pos[s])
  <2>1. view' = [view EXCEPT ![s] = log[sharedEnd]] /\ pos' = [pos EXCEPT ![s] = sharedEnd]
    BY <1>6 DEF Refresh
  <2>2. sharedEnd \in 1 .. Len(log)
    BY <1>1, <1>6 DEF Start, TypeOK
  <2>3. view'[s] = log[sharedEnd] /\ pos'[s] = sharedEnd
    BY <1>1, <2>1 DEF Start, TypeOK
  <2>4. Clean(log[sharedEnd])
    BY <1>1, <2>2 DEF Start, SoundLog, TypeOK
  <2>5. ~changed[s] /\ Opened(script[t], at[t]) = {}
    BY <1>1, <1>2, <1>6 DEF Start, Sound, InPlace
  <2>6. GoesBack(t)'
    BY <1>2, <2>5 DEF GoesBack
  <2>7. Settled(t)'
    BY <1>1, <1>2, <2>5, SettledOutside DEF Start
  <2>8. Sound(s)'
    <3>1. Adopted(s)' \subseteq view'[s]
      BY <1>2, <2>2, <2>3 DEF Adopted
    <3>2. Clean(view'[s] \ {})
      BY <2>3, <2>4 DEF Clean
    <3> QED
      BY <1>1, <1>2, <3>1, <3>2, SoundIs DEF Start, Sound
  <2> QED
    BY <1>3, <1>4, <2>6, <2>7, <2>8 DEF Keeps, SoundThread
<1> QED
  BY <1>5, <1>6

(* An answer is given when the whole script is done, outside a transaction.  *)
LEMMA AnswerKeeps ==
  ASSUME TypeOK, Exclusive, Good, NEW t \in Thread, Answer(t), broken' = {}
  PROVE  Keeps(t)
<1> DEFINE s == Serves[t]
<1>1. Start(t)
  BY StartOf DEF Step
<1>2. /\ pc[t] = "next" /\ at[t] > Len(script[t]) /\ pc' = [pc EXCEPT ![t] = "ok"] /\ at' = at
      /\ lock' = [lock EXCEPT ![s] = NoOne] /\ UNCHANGED <<session, wal>> /\ ~inTxn[s]
  BY DEF Answer, Leave, Goto
<1>3. pc'[t] = "ok"
  BY <1>2 DEF TypeOK
<1>4. AnswersKept(t)'
  <2> SUFFICES ASSUME NEW i \in DOMAIN script[t], script[t][i] \in Writes, Kept(script[t], i)
               PROVE  <<t, i>> \in Latest
    <3>1. Promised(t)' = Promised(t) /\ Latest' = Latest
      BY <1>1, <1>2 DEF Start, Promised, Kept, Opened, Closed, Latest, wal
    <3> QED
      BY <3>1 DEF AnswersKept, Promised
  <2>1. i \in 1 .. at[t] - 1
    BY <1>1, <1>2 DEF Start
  <2>2. \A c \in Closed(script[t], i) : c < at[t]
    BY <1>1, <1>2 DEF Start, Closed
  <2>3. i \in Done(t) /\ Final(t, i)
    BY <2>1, <2>2 DEF Done, Final, Kept
  <2> QED
    BY <1>1, <1>2, <2>3 DEF Start, Settled
<1>5. SoundThread(t)'
  BY <1>1, <1>2, <1>3, <1>4 DEF Start, SoundThread, InPlace, GoesBack, Holds, Active, Between
<1>6. Sound(s)' /\ SoundLog'
  BY <1>1, <1>2, <1>3, SessionStays DEF Start
<1> QED
  BY <1>5, <1>6 DEF Keeps

LEMMA RefuseKeeps ==
  ASSUME TypeOK, Exclusive, Good, NEW t \in Thread, Refuse(t), broken' = {}
  PROVE  Keeps(t)
<1> DEFINE s == Serves[t]
<1>1. Start(t)
  BY StartOf DEF Step
<1>2. /\ pc[t] = "next" /\ pc' = [pc EXCEPT ![t] = "error"] /\ at' = at
      /\ lock' = [lock EXCEPT ![s] = NoOne] /\ UNCHANGED <<session, wal>> /\ ~inTxn[s]
  BY DEF Refuse, Starts, Leave, Goto
<1>3. pc'[t] = "error"
  BY <1>2 DEF TypeOK
<1>4. SoundThread(t)'
  BY <1>1, <1>2, <1>3 DEF Start, SoundThread, InPlace, GoesBack, Holds, Active, Between, AnswersKept
<1>5. Sound(s)' /\ SoundLog'
  BY <1>1, <1>2, <1>3, SessionStays DEF Start
<1> QED
  BY <1>4, <1>5 DEF Keeps

LEMMA ReadKeeps ==
  ASSUME TypeOK, Exclusive, Good, NEW t \in Thread, Read(t), broken' = {}
  PROVE  Keeps(t)
<1>1. Start(t)
  BY StartOf DEF Step
<1>2. /\ pc[t] = "next" /\ at[t] <= Len(script[t]) /\ Now(t) = "read"
      /\ pc'[t] \in {"next", "new"} /\ at'[t] = at[t] + 1 /\ UNCHANGED <<session, wal>>
  BY DEF Read, Starts, Advance, Goto, locks, TypeOK
<1>3. inTxn' = inTxn /\ changed' = changed /\ view' = view /\ before' = before /\ pos' = pos /\ log' = log
  BY <1>2 DEF session, wal
<1>4. InPlace(t)'
  BY <1>1, <1>2, <1>3, InPlaceNext DEF Start, InPlace
<1>5. Settled(t)'
  BY <1>1, <1>2, <1>3, SettledNext DEF Start, Writes
<1>6. GoesBack(t)' /\ AnswersKept(t)'
  BY <1>1, <1>2, <1>3 DEF Start, GoesBack, Holds, Active, Adopted, AnswersKept
<1>7. Sound(Serves[t])' /\ SoundLog'
  BY <1>1, <1>2, SessionStays DEF Start, Sound
<1> QED
  BY <1>4, <1>5, <1>6, <1>7 DEF Keeps, SoundThread

LEMMA BeginKeeps ==
  ASSUME TypeOK, Exclusive, Good, NEW t \in Thread, Begin(t), broken' = {}
  PROVE  Keeps(t)
<1> DEFINE s == Serves[t]
<1>1. Start(t)
  BY StartOf DEF Step
<1>2. /\ pc[t] = "next" /\ at[t] <= Len(script[t]) /\ Now(t) = "begin" /\ ~inTxn[s]
      /\ pc'[t] \in {"next", "new"} /\ at'[t] = at[t] + 1 /\ view' = view /\ before' = before
      /\ pos' = pos /\ log' = log
  BY DEF Begin, Starts, Advance, Goto, locks, wal, TypeOK
<1>3. inTxn'[s] /\ tracked'[s] /\ ~changed'[s]
  BY <1>1 DEF Start, Begin, BeginTxn, TypeOK
<1>4. InPlace(t)'
  BY <1>1, <1>2, <1>3, InPlaceNext DEF Start
<1>5. Settled(t)'
  BY <1>1, <1>2, SettledNext DEF Start, Writes, InPlace
<1>6. GoesBack(t)' /\ AnswersKept(t)'
  BY <1>2, <1>3 DEF GoesBack, AnswersKept
<1>7. Sound(s)'
  <2>1. Adopted(s)' = Adopted(s)
    BY <1>2 DEF Adopted
  <2>2. Adopted(s) \subseteq view[s] /\ Clean(before[s]) /\ Clean(view[s] \ {})
    BY <1>1, <1>2 DEF Start, Sound
  <2> QED
    BY <1>1, <1>2, <1>3, <2>1, <2>2, SoundIs
<1>8. SoundLog'
  BY <1>1, <1>2, SoundLogStays DEF Start
<1> QED
  BY <1>4, <1>5, <1>6, <1>7, <1>8 DEF Keeps, SoundThread

(* What a rollback goes back to has all that the session had adopted, and     *)
(* nothing of a statement that failed.                                       *)
LEMMA UndoneIs ==
  ASSUME NEW t \in Thread, Start(t), pc[t] \in {"next", "undo"}
  PROVE  /\ Adopted(Serves[t]) \subseteq Undone(Serves[t])
         /\ Clean(Undone(Serves[t]))
<1>1. Sound(Serves[t]) /\ GoesBack(t) /\ InPlace(t)
  BY DEF Start
<1>2. pc[t] = "undo" => changed[Serves[t]] /\ tracked[Serves[t]]
  BY <1>1 DEF InPlace, Sound
<1>3. pc[t] = "next" => Clean(view[Serves[t]] \ {})
  BY <1>1 DEF Start, Sound
<1>4. pc[t] = "next" => Clean(view[Serves[t]])
  BY <1>3 DEF Clean
<1> QED
  BY <1>1, <1>2, <1>4 DEF Undone, GoesBack, Holds, Active, Sound

LEMMA RollbackKeeps ==
  ASSUME TypeOK, Exclusive, Good, NEW t \in Thread, Rollback(t), broken' = {}
  PROVE  Keeps(t)
<1> DEFINE s == Serves[t]
<1>1. Start(t)
  BY StartOf DEF Step
<1>2. /\ pc[t] = "next" /\ at[t] <= Len(script[t]) /\ Now(t) = "rollback" /\ inTxn[s]
      /\ pc'[t] \in {"next", "new"} /\ at'[t] = at[t] + 1
      /\ pos' = pos /\ log' = log
  BY DEF Rollback, Starts, Advance, Goto, locks, wal, TypeOK
<1>3. /\ inTxn'[s] = FALSE /\ tracked'[s] = FALSE /\ changed'[s] = FALSE
      /\ before'[s] = Blank /\ view'[s] = Undone(s)
  BY <1>1 DEF Start, Rollback, EndTxn, TypeOK
<1>4. InPlace(t)'
  BY <1>1, <1>2, <1>3, InPlaceNext DEF Start
<1>5. Settled(t)'
  BY <1>1, <1>2, SettledNext DEF Start, Writes
<1>6. GoesBack(t)' /\ AnswersKept(t)'
  BY <1>2, <1>3 DEF GoesBack, AnswersKept
<1>7. Sound(s)'
  <2>1. Adopted(s)' = Adopted(s)
    BY <1>2 DEF Adopted
  <2>2. Clean(view'[s] \ {}) /\ Clean(Blank)
    BY <1>1, <1>2, <1>3, UndoneIs DEF Clean, Blank
  <2>3. Adopted(s)' \subseteq view'[s]
    BY <1>1, <1>2, <1>3, <2>1, UndoneIs
  <2> QED
    BY <1>1, <1>2, <1>3, <2>2, <2>3, SoundIs
<1>8. SoundLog'
  BY <1>1, <1>2, SoundLogStays DEF Start
<1> QED
  BY <1>4, <1>5, <1>6, <1>7, <1>8 DEF Keeps, SoundThread

LEMMA AcquireKeeps ==
  ASSUME TypeOK, Exclusive, Good, NEW t \in Thread, Acquire(t), broken' = {}
  PROVE  Keeps(t)
<1> DEFINE s == Serves[t]
<1>1. Start(t)
  BY StartOf DEF Step
<1>2. /\ pc[t] = "next" /\ at[t] <= Len(script[t]) /\ NeedsWriter(t)
      /\ at'[t] = at[t] /\ lock' = lock /\ UNCHANGED <<session, wal>>
      /\ pc'[t] = IF Now(t) = "commit" THEN "append" ELSE IF inTxn[s] THEN "work" ELSE "auto"
  BY DEF Acquire, NeedsWriter, Starts, Goto, TypeOK
<1>3. inTxn' = inTxn /\ changed' = changed /\ view' = view /\ before' = before /\ pos' = pos /\ log' = log
  BY <1>2 DEF session, wal
<1>4. /\ Now(t)' = Now(t) /\ Opened(script[t], at[t])' = Opened(script[t], at[t])
      /\ inTxn[s] <=> Opened(script[t], at[t]) # {}
  BY <1>1, <1>2 DEF Start, Now, Opened, InPlace
<1>5. InPlace(t)'
  BY <1>1, <1>2, <1>3, <1>4 DEF Start, InPlace, Between, NeedsWriter, Starts, Writes
<1>6. Settled(t)'
  BY <1>1, <1>2, <1>3, SettledStays DEF Start
<1>7. GoesBack(t)' /\ AnswersKept(t)'
  BY <1>1, <1>2, <1>3 DEF Start, GoesBack, Holds, Active, Adopted, AnswersKept
<1>8. Sound(Serves[t])' /\ SoundLog'
  BY <1>1, <1>2, SessionStays DEF Start, Sound
<1> QED
  BY <1>5, <1>6, <1>7, <1>8 DEF Keeps, SoundThread

LEMMA AutoWorkKeeps ==
  ASSUME TypeOK, Exclusive, Good, NEW t \in Thread, AutoWork(t), broken' = {}
  PROVE  Keeps(t)
<1> DEFINE s == Serves[t]
<1>1. Start(t)
  BY StartOf DEF Step
<1>2. /\ pc[t] = "auto" /\ pc'[t] = (IF Now(t) = "fail" THEN "undo" ELSE "append")
      /\ at'[t] = at[t] /\ lock' = lock /\ pos' = pos /\ log' = log
  BY DEF AutoWork, Goto, locks, wal, TypeOK
<1>3. /\ inTxn'[s] /\ tracked'[s] /\ changed'[s]
      /\ before'[s] = view[s] /\ view'[s] = view[s] \cup {<<t, at[t]>>}
  BY <1>1 DEF Start, AutoWork, Put, TypeOK
<1>4. /\ Now(t)' = Now(t) /\ Opened(script[t], at[t])' = Opened(script[t], at[t])
      /\ Opened(script[t], at[t]) = {} /\ Now(t) \in Writes /\ at[t] <= Len(script[t])
  BY <1>1, <1>2 DEF Start, Now, Opened, InPlace
<1>5. InPlace(t)'
  BY <1>1, <1>2, <1>3, <1>4 DEF Start, InPlace, Writes
<1>6. Settled(t)'
  BY <1>1, <1>2, <1>3, SettledStays DEF Start
<1>7. Adopted(s)' = Adopted(s) /\ Adopted(s) \subseteq view[s]
  BY <1>1, <1>2 DEF Start, Sound, Adopted
<1>8. GoesBack(t)' /\ AnswersKept(t)'
  BY <1>2, <1>3, <1>7 DEF GoesBack, AnswersKept
<1>9. Sound(s)'
  <2>1. Clean(view[s] \ {})
    BY <1>1, <1>2 DEF Start, Sound
  <2>2. Clean(view[s])
    BY <2>1 DEF Clean
  <2>3. Clean(view'[s] \ (IF pc'[t] = "undo" THEN {<<t, at'[t]>>} ELSE {}))
    <3>1. CASE Now(t) = "fail"
      BY <1>2, <1>3, <2>2, <3>1 DEF Clean
    <3>2. CASE Now(t) # "fail"
      BY <1>2, <1>3, <2>2, <3>2, CleanWith DEF Clean
    <3> QED
      BY <3>1, <3>2
  <2>5. Adopted(s)' \subseteq view'[s]
    BY <1>3, <1>7
  <2> QED
    BY <1>1, <1>2, <1>3, <2>2, <2>3, <2>5, SoundIs
<1>10. SoundLog'
  BY <1>1, <1>2, SoundLogStays DEF Start
<1> QED
  BY <1>5, <1>6, <1>8, <1>9, <1>10 DEF Keeps, SoundThread

LEMMA UndoKeeps ==
  ASSUME TypeOK, Exclusive, Good, NEW t \in Thread, Undo(t), broken' = {}
  PROVE  Keeps(t)
<1> DEFINE s == Serves[t]
<1>1. Start(t)
  BY StartOf DEF Step
<1>2. pc[t] = "undo" /\ pc'[t] = "error" /\ at'[t] = at[t] /\ pos' = pos /\ log' = log
  BY DEF Undo, Leave, Goto, wal, TypeOK
<1>3. /\ inTxn'[s] = FALSE /\ tracked'[s] = FALSE /\ changed'[s] = FALSE
      /\ before'[s] = Blank /\ view'[s] = Undone(s)
  BY <1>1 DEF Start, Undo, EndTxn, TypeOK
<1>4. InPlace(t)' /\ GoesBack(t)' /\ AnswersKept(t)'
  BY <1>2 DEF InPlace, Between, GoesBack, Holds, Active, AnswersKept
<1>5. Sound(s)'
  <2>1. Adopted(s)' \subseteq view'[s]
    BY <1>1, <1>2, <1>3, UndoneIs DEF Adopted
  <2>2. Clean(view'[s] \ {}) /\ Clean(Blank)
    BY <1>1, <1>2, <1>3, UndoneIs DEF Clean, Blank
  <2> QED
    BY <1>1, <1>2, <1>3, <2>1, <2>2, SoundIs
<1>6. SoundLog'
  BY <1>1, <1>2, SoundLogStays DEF Start
<1> QED
  BY <1>2, <1>4, <1>5, <1>6 DEF Keeps, SoundThread

LEMMA TxnWorkKeeps ==
  ASSUME TypeOK, Exclusive, Good, NEW t \in Thread, TxnWork(t), broken' = {}
  PROVE  Keeps(t)
<1> DEFINE s == Serves[t]
<1>1. Start(t)
  BY StartOf DEF Step
<1>2. Now(t) # "fail"
  BY DEF TxnWork, Leave
<1>3. /\ pc[t] \in {"work", "next"} /\ inTxn[s] /\ Now(t) \in {"write", "bulk"}
      /\ at[t] <= Len(script[t]) /\ Opened(script[t], at[t]) # {}
  BY <1>1, <1>2 DEF Start, InPlace, TxnWork, Starts
<1>4. /\ pc'[t] \in {"next", "new"} /\ at'[t] = at[t] + 1 /\ pos' = pos /\ log' = log
      /\ inTxn' = inTxn /\ tracked' = tracked
  BY <1>2 DEF TxnWork, Advance, Goto, wal, TypeOK
<1>5. tracked[s]
  BY <1>1, <1>3 DEF Start, Sound
<1>6. /\ changed'[s] /\ view'[s] = view[s] \cup {<<t, at[t]>>}
      /\ before'[s] = (IF changed[s] THEN before[s] ELSE view[s])
  BY <1>1, <1>5 DEF Start, TxnWork, Put, TypeOK
<1>7. InPlace(t)'
  BY <1>1, <1>3, <1>4, InPlaceNext DEF Start
<1>8. Settled(t)'
  BY <1>1, <1>3, <1>4, <1>6, SettledNext DEF Start
<1>9. Adopted(s)' = Adopted(s) /\ Adopted(s) \subseteq view[s]
  BY <1>1, <1>4 DEF Start, Sound, Adopted
<1>10. GoesBack(t)' /\ AnswersKept(t)'
  BY <1>1, <1>3, <1>4, <1>6, <1>9 DEF Start, GoesBack, Holds, Active, AnswersKept
<1>11. Sound(s)'
  <2>1. Clean(view[s] \ {}) /\ Clean(before[s])
    BY <1>1, <1>3 DEF Start, Sound
  <2>2. Clean(view[s]) /\ Clean(before'[s])
    BY <1>6, <2>1 DEF Clean
  <2>3. Clean(view'[s] \ {})
    BY <1>2, <1>6, <2>2, CleanWith DEF Clean
  <2>5. Adopted(s)' \subseteq view'[s]
    BY <1>6, <1>9
  <2>6. tracked'[s] = inTxn'[s]
    BY <1>3, <1>4, <1>5, <1>1 DEF Start, Sound
  <2> QED
    BY <1>1, <1>4, <1>5, <1>6, <2>2, <2>3, <2>5, <2>6, SoundIs
<1>12. SoundLog'
  BY <1>1, <1>4, SoundLogStays DEF Start
<1> QED
  BY <1>7, <1>8, <1>10, <1>11, <1>12 DEF Keeps, SoundThread

(* A batch of the pool as it is; without a change there is none.              *)
LEMMA AppendBatchKeeps ==
  ASSUME TypeOK, Exclusive, Good, NEW t \in Thread, AppendBatch(t), broken' = {}
  PROVE  Keeps(t)
<1> DEFINE s == Serves[t]
<1>1. Start(t)
  BY StartOf DEF Step
<1>2. /\ pc[t] = "append" /\ pc'[t] = (IF changed[s] THEN "publish" ELSE "committed")
      /\ at'[t] = at[t] /\ lock' = lock /\ UNCHANGED session
  BY DEF AppendBatch, Goto, locks, TypeOK
<1>3. inTxn' = inTxn /\ changed' = changed /\ tracked' = tracked /\ view' = view /\ before' = before
  BY <1>2 DEF session
<1>4. InPlace(t)'
  BY <1>1, <1>2, <1>3 DEF Start, InPlace, Between, Opened, Now
<1>5. GoesBack(t)' /\ AnswersKept(t)'
  BY <1>2 DEF GoesBack, AnswersKept
<1>6. CASE ~changed[s]
  <2>1. log' = log /\ pos' = pos
    BY <1>6 DEF AppendBatch
  <2>2. Settled(t) /\ Now(t) = "commit"
    BY <1>1, <1>2, <1>6 DEF Start, InPlace, Settled
  <2>3. Settled(t)'
    BY <1>1, <1>2, <1>3, <1>6, <2>1, <2>2
    DEF Start, Settled, Done, Final, StillOpen, Opened, Closed, Latest, Now
  <2>4. Sound(s)'
    <3>1. Adopted(s)' \subseteq view'[s]
      BY <1>1, <1>3, <2>1 DEF Start, Sound, Adopted
    <3> QED
      BY <1>1, <1>2, <1>3, <3>1, SoundIs DEF Start, Sound
  <2>5. SoundLog'
    BY <1>1, <2>1, SoundLogStays DEF Start
  <2> QED
    BY <1>2, <1>4, <1>5, <2>3, <2>4, <2>5 DEF Keeps, SoundThread
<1>7. CASE changed[s]
  <2>1. log' = Append(log, view[s]) /\ pos' = [pos EXCEPT ![s] = Len(log')]
    BY <1>7 DEF AppendBatch
  <2>2. log \in Seq(Image) /\ view[s] \in Image
    BY <1>1 DEF Start, TypeOK
  <2>3. /\ Len(log') = Len(log) + 1 /\ Len(log) \in Nat /\ log'[Len(log')] = view[s]
        /\ \A n \in DOMAIN log' : (n \in DOMAIN log /\ log'[n] = log[n]) \/ log'[n] = view[s]
    BY <2>1, <2>2
  <2>4. pos'[s] = Len(log')
    BY <1>1, <2>1 DEF Start, TypeOK
  <2>5. Latest' = view[s] /\ Adopted(s)' = view[s]
    BY <2>3, <2>4 DEF Latest, Adopted
  <2>6. Clean(view[s] \ {}) /\ Clean(view[s])
    BY <1>1, <1>2 DEF Start, Sound, Clean
  <2>7. Settled(t)'
    <3>1. Settled(t)
      BY <1>1, <1>2 DEF Start
    <3>2. Now(t)' = Now(t) /\ Done(t)' = Done(t)
      BY <1>1, <1>2 DEF Start, Now, Done
    <3>3. ASSUME NEW i \in Done(t)
          PROVE  /\ Final(t, i)' = Final(t, i)
                 /\ StillOpen(script[t], i, at[t])' = StillOpen(script[t], i, at[t])
      BY <1>1, <1>2 DEF Start, Final, StillOpen, Opened, Closed
    <3>4. Latest \subseteq Latest'
      BY <1>1 DEF Start, Grown
    <3> QED
      BY <1>2, <1>3, <2>5, <3>1, <3>2, <3>3, <3>4 DEF Settled
  <2>8. Sound(s)'
    BY <1>1, <1>2, <1>3, <1>7, <2>5, <2>6, SoundIs DEF Start, Sound
  <2>9. SoundLog'
    BY <1>1, <2>3, <2>6 DEF Start, SoundLog, Clean
  <2> QED
    BY <1>2, <1>4, <1>5, <2>7, <2>8, <2>9 DEF Keeps, SoundThread
<1> QED
  BY <1>6, <1>7

LEMMA PublishKeeps ==
  ASSUME TypeOK, Exclusive, Good, NEW t \in Thread, Publish(t), broken' = {}
  PROVE  Keeps(t)
<1>1. Start(t)
  BY StartOf DEF Step
<1>2. /\ pc[t] = "publish" /\ pc'[t] = "committed" /\ at'[t] = at[t] /\ lock' = lock
      /\ UNCHANGED session /\ log' = log /\ pos' = pos
  BY DEF Publish, Goto, locks, TypeOK
<1>3. inTxn' = inTxn /\ changed' = changed /\ tracked' = tracked /\ view' = view /\ before' = before
  BY <1>2 DEF session
<1>4. InPlace(t)'
  BY <1>1, <1>2, <1>3 DEF Start, InPlace, Between, Opened, Now
<1>5. GoesBack(t)' /\ AnswersKept(t)'
  BY <1>2 DEF GoesBack, AnswersKept
<1>6. Settled(t)'
  BY <1>1, <1>2, <1>3 DEF Start, Settled, Done, Final, StillOpen, Opened, Closed, Latest, Now
<1>7. Sound(Serves[t])'
  <2>1. Adopted(Serves[t])' \subseteq view'[Serves[t]]
    BY <1>1, <1>2, <1>3 DEF Start, Sound, Adopted
  <2> QED
    BY <1>1, <1>2, <1>3, <2>1, SoundIs DEF Start, Sound
<1>8. SoundLog'
  BY <1>1, <1>2, SoundLogStays DEF Start
<1> QED
  BY <1>4, <1>5, <1>6, <1>7, <1>8 DEF Keeps, SoundThread

LEMMA CommittedKeeps ==
  ASSUME TypeOK, Exclusive, Good, NEW t \in Thread, Committed(t), broken' = {}
  PROVE  Keeps(t)
<1> DEFINE s == Serves[t]
<1>1. Start(t)
  BY StartOf DEF Step
<1>2. /\ pc[t] = "committed" /\ pc'[t] \in {"next", "new"} /\ at'[t] = at[t] + 1
      /\ log' = log /\ pos' = pos /\ view' = view
  BY DEF Committed, Advance, Goto, wal, TypeOK
<1>3. inTxn'[s] = FALSE /\ tracked'[s] = FALSE /\ changed'[s] = FALSE /\ before'[s] = Blank
  BY <1>1 DEF Start, Committed, EndTxn, TypeOK
<1>4. /\ Now(t) \in {"write", "bulk", "commit"} /\ at[t] <= Len(script[t])
      /\ Now(t) # "commit" => Opened(script[t], at[t]) = {}
  BY <1>1, <1>2 DEF Start, InPlace
<1>5. InPlace(t)'
  BY <1>1, <1>2, <1>3, <1>4, InPlaceNext DEF Start
<1>6. Settled(t)'
  <2>1. Settled(t) /\ Latest' = Latest
    BY <1>1, <1>2 DEF Start, Latest
  <2>2. Now(t) = "commit" => \A i \in Done(t) : StillOpen(script[t], i, at[t]) => <<t, i>> \in Latest'
    BY <1>2, <2>1 DEF Settled
  <2>3. Now(t) # "commit" => <<t, at[t]>> \in Latest'
    BY <1>2, <2>1 DEF Settled
  <2> QED
    BY <1>1, <1>2, <1>4, <2>1, <2>2, <2>3, SettledNext DEF Start, Writes
<1>7. GoesBack(t)' /\ AnswersKept(t)'
  BY <1>2, <1>3 DEF GoesBack, AnswersKept
<1>8. Sound(s)'
  <2>1. Adopted(s)' \subseteq view'[s]
    BY <1>1, <1>2 DEF Start, Sound, Adopted
  <2>2. Clean(view'[s] \ {}) /\ Clean(Blank)
    BY <1>1, <1>2 DEF Start, Sound, Clean, Blank
  <2> QED
    BY <1>1, <1>2, <1>3, <2>1, <2>2, SoundIs
<1>9. SoundLog'
  BY <1>1, <1>2, SoundLogStays DEF Start
<1> QED
  BY <1>5, <1>6, <1>7, <1>8, <1>9 DEF Keeps, SoundThread

-----------------------------------------------------------------------------
(* The theorems *)

(* While no page changes in between, a GET handler changes nothing but what  *)
(* it has seen.                                                              *)
LEMMA GetChangesNothing ==
  ASSUME TypeOK, NEW v \in Viewer, Get(v), broken' = {}
  PROVE  broken = {} /\ UNCHANGED <<script, at, pc, locks, session, wal>>
<1> USE DEF Get, locks, session, wal
<1>1. CASE Look(v)
  BY <1>1 DEF Look
<1>2. CASE Store(v)
  <2>1. PICK image \in seen[v] :
          /\ view' = [view EXCEPT ![Views[v]] = image]
          /\ broken' = broken \cup (IF image = view[Views[v]] THEN {} ELSE {"current"})
    BY <1>2 DEF Store
  <2>2. image = view[Views[v]]
    BY <2>1
  <2>3. view' = view
    BY <2>1, <2>2 DEF TypeOK
  <2> QED
    BY <1>2, <2>1, <2>3
<1> QED
  BY <1>1, <1>2

LEMMA GetTypes ==
  ASSUME TypeOK, Exclusive, NEW v \in Viewer, Get(v)
  PROVE  TypeOK' /\ Exclusive'
<1>0. Views[v] \in Session /\ view[Views[v]] \in Image
  BY ThreadsAssumption DEF TypeOK
<1>1. Exclusive'
  BY DEF Get, locks, Exclusive, Active
<1>2. view' \in [Session -> Image] /\ seen' \in [Viewer -> SUBSET Image] /\ broken' \subseteq Condition
  <2>1. CASE Look(v)
    BY <1>0, <2>1 DEF Look, TypeOK
  <2>2. CASE Store(v)
    BY <1>0, <2>2 DEF Store, TypeOK, Condition
  <2> QED
    BY <2>1, <2>2 DEF Get
<1> QED
  BY <1>1, <1>2 DEF Get, TypeOK, locks, wal

LEMMA GoodStays ==
  ASSUME UNCHANGED <<script, at, pc, locks, session, wal>>
  PROVE  Good' <=> Good
BY DEF locks, session, wal, Good, SoundLog, Alone, SoundThread, Holds, Active, Between, Within, InPlace, GoesBack, AnswersKept,
  Settled, Sound, Adopted, Clean, Undoing, Done, Final, Latest, Promised, Kept, Opened, Closed,
  StillOpen, Now

LEMMA InvInit == Init => Inv
<1> SUFFICES ASSUME Init PROVE Inv
  OBVIOUS
<1>1. TypeOK /\ Exclusive
  BY TypeInit DEF Init, Exclusive, Active
<1>2. SoundLog /\ Alone
  BY DEF Init, SoundLog, Alone, Holds, Active, Between, Within, Opened
<1>3. ASSUME NEW t \in Thread PROVE SoundThread(t)
  <2>1. at[t] = 1 /\ pc[t] = "new"
    BY DEF Init
  <2> QED
    BY <2>1 DEF SoundThread, InPlace, Between, Within, Opened, GoesBack, Holds, Active, AnswersKept, Settled, Done
<1>4. ASSUME NEW s \in Session PROVE Sound(s)
  BY DEF Init, Sound, Adopted, Clean, Blank
<1> QED
  BY <1>1, <1>2, <1>3, <1>4 DEF Inv, Good

LEMMA InvStep == Inv /\ [Next]_vars => Inv'
<1> SUFFICES ASSUME Inv, [Next]_vars PROVE Inv'
  OBVIOUS
<1>1. CASE UNCHANGED vars
  <2>1. TypeOK' /\ Exclusive' /\ broken' = broken
    BY <1>1 DEF vars, locks, session, wal, Inv, TypeOK, Exclusive, Active
  <2>2. Good' <=> Good
    BY <1>1, GoodStays DEF vars
  <2> QED
    BY <2>1, <2>2 DEF Inv
<1>2. CASE \E v \in Viewer : Get(v)
  <2>1. PICK v \in Viewer : Get(v)
    BY <1>2
  <2>2. broken' = {} => Good'
    BY <2>1, GetChangesNothing, GoodStays DEF Inv
  <2> QED
    BY <2>1, <2>2, GetTypes DEF Inv
<1>3. CASE \E t \in Thread : Post(t)
  <2>1. PICK t \in Thread : Step(t) /\ seen' = seen
    BY <1>3 DEF Post
  <2>2. TypeOK' /\ Exclusive'
    BY <2>1, TypeStep, ExclusiveStep DEF Inv
  <2>3. ASSUME broken' = {} PROVE Good'
    <3>1. Good
      BY <2>1, <2>3, StepFrame DEF Inv, Frame
    <3>2. Keeps(t)
      <4>1. ~AppendFails(t)
        BY <2>3 DEF AppendFails
      <4> QED
        BY <2>1, <2>3, <3>1, <4>1, EnterKeeps, RefreshKeeps, AnswerKeeps, ReadKeeps, BeginKeeps,
           RefuseKeeps, RollbackKeeps, AcquireKeeps, AutoWorkKeeps, UndoKeeps, TxnWorkKeeps,
           AppendBatchKeeps, PublishKeeps, CommittedKeeps
        DEF Inv, Step
    <3>3. \A u \in Thread : SoundThread(u)'
      BY <2>1, <2>3, <3>1, <3>2, OtherThreads DEF Inv, Keeps
    <3>4. \A s \in Session : Sound(s)'
      BY <2>1, <2>3, <3>1, <3>2, OtherSessions DEF Inv, Keeps
    <3> QED
      BY <2>1, <2>3, <3>1, <3>2, <3>3, <3>4, AloneStep DEF Inv, Good, Keeps
  <2> QED
    BY <2>2, <2>3 DEF Inv
<1> QED
  BY <1>1, <1>2, <1>3 DEF Next

LEMMA Invariance == Spec => []Inv
BY InvInit, InvStep, PTL DEF Spec

(* A request that was answered keeps its writes in the log (engine.py:408).   *)
THEOREM AnswersKeep == Spec => []AnswersAreKept
<1>1. Inv => AnswersAreKept
  BY DEF Inv, Good, SoundThread, AnswersAreKept
<1> QED
  BY <1>1, Invariance, PTL

(* A statement that raises is in no batch, and in no pool once its request    *)
(* is answered (engine.py:261).                                              *)
THEOREM FailuresVanish == Spec => []FailuresLeaveNothing
<1>1. Inv => FailuresLeaveNothing
  <2> SUFFICES ASSUME Inv, broken = {}, NEW t \in Thread, NEW i \in DOMAIN script[t],
                      script[t][i] = "fail"
               PROVE  /\ \A n \in DOMAIN log : <<t, i>> \notin log[n]
                      /\ Ended(t) => \A s \in Session : <<t, i>> \notin view[s]
    BY DEF FailuresLeaveNothing
  <2>1. \A n \in DOMAIN log : <<t, i>> \notin log[n]
    BY DEF Inv, Good, SoundLog, Clean
  <2>2. ASSUME Ended(t), NEW s \in Session PROVE <<t, i>> \notin view[s]
    <3>1. <<t, i>> \notin view[s] \ Undoing(s)
      BY DEF Inv, Good, Sound, Clean
    <3>2. <<t, i>> \notin Undoing(s)
      BY <2>2 DEF Undoing, Ended
    <3> QED
      BY <3>1, <3>2
  <2> QED
    BY <2>1, <2>2
<1> QED
  BY <1>1, Invariance, PTL

-----------------------------------------------------------------------------
(* Transactions are whole *)

(* The writes of the transaction a thread is in. *)
OpenWrites(t) == {<<t, i>> : i \in {j \in Done(t) : StillOpen(script[t], j, at[t])}}
Mine(t) == OpenWrites(t) \cup
             (IF pc[t] = "undo" \/ (pc[t] = "append" /\ Now(t) # "commit") THEN {<<t, at[t]>>} ELSE {})

WholeThread(t) ==
  LET s == Serves[t] IN
  /\ (Holds(t) /\ pc[t] \notin {"publish", "committed"} /\ changed[s]) => view[s] = before[s] \cup Mine(t)
  /\ pc[t] \in {"publish", "committed"} => \A u \in Thread : Whole(view[s], u)

WholeSession(s) ==
  \A u \in Thread : Whole(before[s], u) /\ (~changed[s] => Whole(view[s], u))

Wholes == /\ \A n \in DOMAIN log : \A u \in Thread : Whole(log[n], u)
          /\ \A t \in Thread : WholeThread(t)
          /\ \A s \in Session : WholeSession(s)

WholeInv == Inv /\ (broken = {} => Wholes)

LEMMA WholeIs ==
  ASSUME script' = script
  PROVE  \A u \in Thread :
           /\ \A s \in Session : Whole(view[s], u)' <=> Whole(view'[s], u)
           /\ \A s \in Session : Whole(before[s], u)' <=> Whole(before'[s], u)
           /\ \A n \in DOMAIN log' : Whole(log[n], u)' <=> Whole(log'[n], u)
<1>1. \A u \in Thread : \A i : /\ Together(u, i)' = Together(u, i)
                               /\ Kept(script[u], i)' <=> Kept(script[u], i)
  BY DEF Together, Kept, Opened, Closed
<1> QED
  BY <1>1 DEF Whole

LEMMA BlankIsWhole == \A u \in Thread : Whole(Blank, u)
BY DEF Whole, Blank

(* Writes that share a transaction: the one is in the open transaction if    *)
(* the other is.                                                             *)
LEMMA OpenTogether ==
  ASSUME NEW sc \in Seq(Statement), NEW a \in 1 .. Len(sc), sc[a] = "commit",
         NEW j \in 1 .. a - 1, NEW k \in 1 .. Len(sc), sc[j] \in Writes, sc[k] \in Writes,
         StillOpen(sc, j, a), Opened(sc, j) \cap Opened(sc, k) # {}
  PROVE  k \in 1 .. a - 1 /\ StillOpen(sc, k, a)
<1>1. PICK b \in Opened(sc, j) : b \in Opened(sc, k)
  OBVIOUS
<1>2. /\ b \in 1 .. j - 1 /\ b \in 1 .. k - 1
      /\ \A c \in b + 1 .. j - 1 : sc[c] \notin {"commit", "rollback"}
      /\ \A c \in b + 1 .. k - 1 : sc[c] \notin {"commit", "rollback"}
  BY <1>1 DEF Opened
<1>3. sc[j] \notin {"commit", "rollback"} /\ k # a
  BY DEF Writes
<1>4. k < a
  <2> SUFFICES ASSUME k > a PROVE FALSE
    BY <1>3
  <2>1. a \in b + 1 .. k - 1
    BY <1>2
  <2> QED
    BY <1>2, <2>1
<1>5. ASSUME NEW c \in k + 1 .. a - 1 PROVE sc[c] \notin {"commit", "rollback"}
  <2>1. c \in b + 1 .. j - 1 \/ c = j \/ c \in j + 1 .. a - 1
    BY <1>2
  <2> QED
    BY <1>2, <1>3, <2>1 DEF StillOpen
<1> QED
  BY <1>1, <1>4, <1>5 DEF StillOpen

(* What a batch is made of is whole: the image before the transaction, and    *)
(* all of its writes.                                                        *)
LEMMA BatchIsWhole ==
  ASSUME TypeOK, NEW t \in Thread, InPlace(t), pc[t] = "append", NEW image, NEW u \in Thread,
         Whole(image, u)
  PROVE  Whole(image \cup Mine(t), u)
<1> DEFINE sc == script[t]
           a  == at[t]
<1>0. sc \in Seq(Statement) /\ a \in 1 .. Len(sc)
  BY ThreadsAssumption DEF TypeOK, InPlace
<1>1. CASE u # t
  <2>1. \A i : Mine(t) \cap Together(u, i) = {} /\ <<u, i>> \notin Mine(t)
    BY <1>1 DEF Mine, OpenWrites, Together
  <2> QED
    BY <2>1 DEF Whole
<1>2. CASE u = t
  <2> SUFFICES ASSUME NEW i \in DOMAIN sc, sc[i] \in Writes
               PROVE  /\ Together(t, i) \subseteq Mine(t) \/ Together(t, i) \cap Mine(t) = {}
                      /\ <<t, i>> \in Mine(t) => Kept(sc, i)
    BY <1>2 DEF Whole
  <2>1. CASE Now(t) # "commit"
    <3>1. Opened(sc, a) = {}
      BY <2>1 DEF InPlace
    <3>2. Mine(t) = {<<t, a>>}
      <4>1. OpenWrites(t) = {}
        <5> SUFFICES ASSUME NEW j \in Done(t), StillOpen(sc, j, a) PROVE FALSE
          BY DEF OpenWrites
        <5> QED
          BY <1>0, <3>1, StillOpenNow DEF Done
      <4> QED
        BY <2>1, <4>1 DEF Mine
    <3>3. CASE i = a
      BY <3>1, <3>2, <3>3 DEF Together, Kept
    <3>4. CASE i # a
      BY <3>1, <3>2, <3>4 DEF Together
    <3> QED
      BY <3>3, <3>4
  <2>2. CASE Now(t) = "commit"
    <3>1. Mine(t) = OpenWrites(t) /\ sc[a] = "commit"
      BY <2>2 DEF Mine, Now
    <3>2. \A j : <<t, j>> \in Mine(t) <=> j \in 1 .. a - 1 /\ sc[j] \in Writes /\ StillOpen(sc, j, a)
      BY <3>1 DEF OpenWrites, Done
    <3>3. CASE <<t, i>> \in Mine(t)
      <4>1. i \in 1 .. a - 1 /\ StillOpen(sc, i, a)
        BY <3>2, <3>3
      <4>2. ASSUME NEW k \in DOMAIN sc, sc[k] \in Writes, k = i \/ Opened(sc, k) \cap Opened(sc, i) # {}
            PROVE  <<t, k>> \in Mine(t)
        <5>1. CASE k = i
          BY <3>3, <5>1
        <5>2. CASE Opened(sc, k) \cap Opened(sc, i) # {}
          <6>1. k \in 1 .. Len(sc) /\ Opened(sc, i) \cap Opened(sc, k) # {}
            BY <1>0, <5>2
          <6>2. k \in 1 .. a - 1 /\ StillOpen(sc, k, a)
            BY <1>0, <3>1, <4>1, <4>2, <6>1, OpenTogether
          <6> QED
            BY <3>2, <4>2, <6>2
        <5> QED
          BY <4>2, <5>1, <5>2
      <4>3. Together(t, i) \subseteq Mine(t)
        BY <4>2 DEF Together
      <4>4. a \in Closed(sc, i)
        BY <1>0, <3>1, <4>1 DEF Closed, StillOpen
      <4> QED
        BY <3>1, <4>3, <4>4 DEF Kept
    <3>4. CASE <<t, i>> \notin Mine(t)
      <4>1. ASSUME NEW k \in DOMAIN sc, sc[k] \in Writes, k = i \/ Opened(sc, k) \cap Opened(sc, i) # {},
                   <<t, k>> \in Mine(t)
            PROVE  FALSE
        <5>1. k \in 1 .. a - 1 /\ StillOpen(sc, k, a) /\ k # i
          BY <3>2, <3>4, <4>1
        <5>2. i \in 1 .. Len(sc) /\ Opened(sc, k) \cap Opened(sc, i) # {}
          BY <1>0, <4>1, <5>1
        <5>3. i \in 1 .. a - 1 /\ StillOpen(sc, i, a)
          BY <1>0, <3>1, <4>1, <5>1, <5>2, OpenTogether
        <5> QED
          BY <3>2, <3>4, <5>3
      <4> QED
        BY <3>4, <4>1 DEF Together
    <3> QED
      BY <3>3, <3>4
  <2> QED
    BY <2>1, <2>2
<1> QED
  BY <1>1, <1>2

LEMMA OtherWholes ==
  ASSUME TypeOK, Exclusive, Good, Wholes, NEW t \in Thread, Step(t), broken' = {}
  PROVE  /\ \A u \in Thread \ {t} : WholeThread(u)'
         /\ \A s \in Session \ {Serves[t]} : WholeSession(s)'
<1>1. script' = script
  BY StepFrame DEF Frame
<1>2. ASSUME NEW u \in Thread \ {t} PROVE WholeThread(u)'
  <2>1. CASE Holds(u)
    <3>1. Serves[u] # Serves[t] /\ Serves[u] \in Session
      BY <2>1, NobodyElse, ThreadsAssumption
    <3>2. /\ changed'[Serves[u]] = changed[Serves[u]] /\ before'[Serves[u]] = before[Serves[u]]
          /\ view'[Serves[u]] = view[Serves[u]] /\ pc'[u] = pc[u] /\ at'[u] = at[u]
      BY <3>1, StepFrame DEF Frame
    <3>3. Mine(u)' = Mine(u)
      BY <1>1, <3>2 DEF Mine, OpenWrites, Done, StillOpen, Opened, Now
    <3> QED
      BY <1>1, <2>1, <3>1, <3>2, <3>3, WholeIs DEF Wholes, WholeThread
  <2>2. CASE ~Holds(u)
    BY <2>2, StepFrame, HoldsStays DEF Frame, WholeThread, Holds, Active
  <2> QED
    BY <2>1, <2>2
<1>3. ASSUME NEW s \in Session \ {Serves[t]} PROVE WholeSession(s)'
  <2>1. changed'[s] = changed[s] /\ before'[s] = before[s] /\ view'[s] = view[s]
    BY StepFrame DEF Frame
  <2> QED
    BY <1>1, <2>1, WholeIs DEF Wholes, WholeSession
<1> QED
  BY <1>2, <1>3

(* What is left to show of the step of t. *)
KeepsWhole(t) == WholeThread(t)' /\ WholeSession(Serves[t])'

(* Before a statement nothing has changed outside a transaction, so that the *)
(* pool is whole.                                                            *)
LEMMA QuietStep ==
  ASSUME TypeOK, Good, Wholes, NEW t \in Thread, Start(t), pc'[t] \notin {"publish", "committed"},
         changed'[Serves[t]] = FALSE,
         \A u \in Thread : Whole(view'[Serves[t]], u), \A u \in Thread : Whole(before'[Serves[t]], u)
  PROVE  KeepsWhole(t)
<1>1. Serves[t] \in Session /\ script' = script
  BY DEF Start
<1> QED
  BY <1>1, WholeIs DEF KeepsWhole, WholeThread, WholeSession

LEMMA WholesOf ==
  ASSUME Wholes, NEW t \in Thread, Start(t)
  PROVE  /\ \A u \in Thread : Whole(before[Serves[t]], u)
         /\ ~changed[Serves[t]] => \A u \in Thread : Whole(view[Serves[t]], u)
         /\ WholeThread(t)
BY DEF Wholes, WholeSession, Start

LEMMA LeavingWhole ==
  ASSUME TypeOK, Exclusive, Good, Wholes, NEW t \in Thread, broken' = {}, Answer(t) \/ Refuse(t)
  PROVE  KeepsWhole(t)
<1> DEFINE s == Serves[t]
<1>1. Start(t)
  BY StartOf DEF Step
<1>2. pc'[t] \in {"ok", "error"} /\ UNCHANGED session /\ ~inTxn[s]
  BY DEF Answer, Refuse, Leave, Goto, TypeOK
<1>3. changed'[s] = FALSE /\ view' = view /\ before' = before
  BY <1>1, <1>2 DEF Start, Sound, TypeOK, session
<1>4. ~changed[s]
  BY <1>2, <1>3 DEF session
<1> QED
  BY <1>1, <1>2, <1>3, <1>4, WholesOf, QuietStep

LEMMA EndingWhole ==
  ASSUME TypeOK, Exclusive, Good, Wholes, NEW t \in Thread, broken' = {}, Rollback(t) \/ Undo(t)
  PROVE  KeepsWhole(t)
<1> DEFINE s == Serves[t]
<1>1. Start(t)
  BY StartOf DEF Step
<1>2. pc'[t] \in {"next", "new", "error"}
  BY DEF Rollback, Undo, Advance, Leave, Goto, TypeOK
<1>3. changed'[s] = FALSE /\ before'[s] = Blank /\ view'[s] = Undone(s)
  BY <1>1 DEF Start, Rollback, Undo, EndTxn, TypeOK
<1>4. \A u \in Thread : Whole(Undone(s), u)
  BY <1>1, WholesOf DEF Undone, Start, Sound
<1> QED
  BY <1>1, <1>2, <1>3, <1>4, BlankIsWhole, QuietStep

LEMMA BeginningWhole ==
  ASSUME TypeOK, Exclusive, Good, Wholes, NEW t \in Thread, broken' = {}, Begin(t)
  PROVE  KeepsWhole(t)
<1> DEFINE s == Serves[t]
<1>1. Start(t)
  BY StartOf DEF Step
<1>2. pc'[t] \in {"next", "new"} /\ ~inTxn[s] /\ view' = view /\ before' = before
  BY DEF Begin, Advance, Goto, TypeOK
<1>3. changed'[s] = FALSE /\ ~changed[s]
  BY <1>1, <1>2 DEF Start, Begin, BeginTxn, Sound, TypeOK
<1> QED
  BY <1>1, <1>2, <1>3, WholesOf, QuietStep

LEMMA CommittingWhole ==
  ASSUME TypeOK, Exclusive, Good, Wholes, NEW t \in Thread, broken' = {}, Committed(t)
  PROVE  KeepsWhole(t)
<1> DEFINE s == Serves[t]
<1>1. Start(t)
  BY StartOf DEF Step
<1>2. pc[t] = "committed" /\ pc'[t] \in {"next", "new"} /\ view' = view
  BY DEF Committed, Advance, Goto, TypeOK
<1>3. changed'[s] = FALSE /\ before'[s] = Blank
  BY <1>1 DEF Start, Committed, EndTxn, TypeOK
<1>4. \A u \in Thread : Whole(view'[s], u)
  BY <1>1, <1>2, WholesOf DEF WholeThread
<1> QED
  BY <1>1, <1>2, <1>3, <1>4, BlankIsWhole, QuietStep

(* A step in the middle of a transaction keeps the pool and what it goes     *)
(* back to, or adds a write to the pool.                                     *)
LEMMA MiddleStep ==
  ASSUME TypeOK, Good, Wholes, NEW t \in Thread, Start(t), pc'[t] \notin {"publish", "committed"},
         changed'[Serves[t]] => view'[Serves[t]] = before'[Serves[t]] \cup Mine(t)',
         ~changed'[Serves[t]] => \A u \in Thread : Whole(view'[Serves[t]], u),
         \A u \in Thread : Whole(before'[Serves[t]], u)
  PROVE  KeepsWhole(t)
<1>1. Serves[t] \in Session /\ script' = script
  BY DEF Start
<1> QED
  BY <1>1, WholeIs DEF KeepsWhole, WholeThread, WholeSession

LEMMA EnteringWhole ==
  ASSUME TypeOK, Exclusive, Good, Wholes, NEW t \in Thread, broken' = {}, Enter(t)
  PROVE  KeepsWhole(t)
<1> DEFINE s == Serves[t]
<1>1. Start(t)
  BY StartOf DEF Step
<1>2. /\ pc[t] = "new" /\ pc'[t] \in {"refresh", "next"} /\ at' = at /\ UNCHANGED session
      /\ (inTxn[s] <=> Within(t))
  BY DEF Enter, Goto, TypeOK
<1>3. changed' = changed /\ view' = view /\ before' = before
  BY <1>2 DEF session
<1>4. Mine(t)' = Mine(t)
  <2>1. OpenWrites(t)' = OpenWrites(t)
    BY <1>1, <1>2 DEF Start, OpenWrites, Done, StillOpen, Opened
  <2> QED
    BY <1>2, <2>1 DEF Mine
<1>5. changed[s] => view[s] = before[s] \cup Mine(t)
  BY <1>1, <1>2, WholesOf DEF WholeThread, Holds, Between, Start, Sound
<1> QED
  BY <1>1, <1>2, <1>3, <1>4, <1>5, WholesOf, MiddleStep

LEMMA RefreshingWhole ==
  ASSUME TypeOK, Exclusive, Good, Wholes, NEW t \in Thread, broken' = {}, Refresh(t)
  PROVE  KeepsWhole(t)
<1> DEFINE s == Serves[t]
<1>1. Start(t)
  BY StartOf DEF Step
<1>2. /\ pc[t] = "refresh" /\ pc'[t] = "next" /\ at' = at
      /\ changed' = changed /\ before' = before
  BY DEF Refresh, Goto, TypeOK
<1>3. CASE inTxn[s] \/ sharedEnd <= pos[s]
  <2>1. view' = view
    BY <1>3 DEF Refresh
  <2>2. Mine(t)' = Mine(t)
    <3>1. OpenWrites(t)' = OpenWrites(t)
      BY <1>1, <1>2 DEF Start, OpenWrites, Done, StillOpen, Opened
    <3> QED
      BY <1>2, <3>1 DEF Mine
  <2>3. changed[s] => view[s] = before[s] \cup Mine(t)
    BY <1>1, <1>2, WholesOf DEF WholeThread, Holds, Active
  <2> QED
    BY <1>1, <1>2, <2>1, <2>2, <2>3, WholesOf, MiddleStep
<1>4. CASE ~(inTxn[s] \/ sharedEnd <= pos[s])
  <2>1. view' = [view EXCEPT ![s] = log[sharedEnd]]
    BY <1>4 DEF Refresh
  <2>2. sharedEnd \in DOMAIN log /\ view'[s] = log[sharedEnd]
    BY <1>1, <1>4, <2>1 DEF Start, TypeOK
  <2>3. changed'[s] = FALSE
    BY <1>1, <1>2, <1>4 DEF Start, Sound, TypeOK
  <2>4. \A u \in Thread : Whole(view'[s], u)
    BY <2>2 DEF Wholes
  <2> QED
    BY <1>1, <1>2, <2>3, <2>4, WholesOf, QuietStep
<1> QED
  BY <1>3, <1>4

(* The open writes after a statement that ends no transaction. *)
LEMMA OpenWritesNext ==
  ASSUME TypeOK, NEW t \in Thread, at[t] <= Len(script[t]), script' = script, at'[t] = at[t] + 1,
         Now(t) \notin {"commit", "rollback"}
  PROVE  OpenWrites(t)' = OpenWrites(t) \cup
           (IF Now(t) \in Writes /\ Opened(script[t], at[t]) # {} THEN {<<t, at[t]>>} ELSE {})
<1> DEFINE sc == script[t]
           a  == at[t]
<1>0. sc \in Seq(Statement) /\ a \in Nat \ {0} /\ a \in 1 .. Len(sc)
  BY ThreadsAssumption DEF TypeOK
<1>1. ASSUME NEW i \in 1 .. a - 1
      PROVE  StillOpen(sc, i, a + 1) <=> StillOpen(sc, i, a)
  <2>1. \A j \in i + 1 .. (a + 1) - 1 : j \in i + 1 .. a - 1 \/ j = a
    BY <1>0
  <2>2. \A j \in i + 1 .. a - 1 : j \in i + 1 .. (a + 1) - 1
    BY <1>0
  <2> QED
    BY <2>1, <2>2 DEF StillOpen, Now
<1>2. StillOpen(sc, a, a + 1) <=> Opened(sc, a) # {}
  BY <1>0 DEF StillOpen
<1>3. OpenWrites(t)' = {<<t, i>> : i \in {j \in 1 .. (a + 1) - 1 : sc[j] \in Writes /\ StillOpen(sc, j, a + 1)}}
  BY DEF OpenWrites, Done, StillOpen, Opened
<1>4. OpenWrites(t) = {<<t, i>> : i \in {j \in 1 .. a - 1 : sc[j] \in Writes /\ StillOpen(sc, j, a)}}
  BY DEF OpenWrites, Done
<1>5. \A j : j \in 1 .. (a + 1) - 1 <=> j \in 1 .. a - 1 \/ j = a
  BY <1>0
<1>6. \A j : (j \in 1 .. (a + 1) - 1 /\ sc[j] \in Writes /\ StillOpen(sc, j, a + 1)) <=>
               \/ j \in 1 .. a - 1 /\ sc[j] \in Writes /\ StillOpen(sc, j, a)
               \/ j = a /\ Now(t) \in Writes /\ Opened(sc, a) # {}
  BY <1>0, <1>1, <1>2, <1>5 DEF Now
<1> QED
  BY <1>3, <1>4, <1>6

LEMMA ReadingWhole ==
  ASSUME TypeOK, Exclusive, Good, Wholes, NEW t \in Thread, broken' = {}, Read(t)
  PROVE  KeepsWhole(t)
<1> DEFINE s == Serves[t]
<1>1. Start(t)
  BY StartOf DEF Step
<1>2. /\ pc[t] = "next" /\ at[t] <= Len(script[t]) /\ Now(t) = "read"
      /\ pc'[t] \in {"next", "new"} /\ at'[t] = at[t] + 1 /\ UNCHANGED session
  BY DEF Read, Starts, Advance, Goto, TypeOK
<1>3. changed' = changed /\ view' = view /\ before' = before
  BY <1>2 DEF session
<1>4. Mine(t)' = Mine(t)
  <2>1. OpenWrites(t)' = OpenWrites(t)
    BY <1>1, <1>2, OpenWritesNext DEF Start, Writes
  <2> QED
    BY <1>2, <2>1 DEF Mine
<1>5. changed[s] => view[s] = before[s] \cup Mine(t)
  BY <1>1, <1>2, WholesOf DEF WholeThread, Holds, Active
<1> QED
  BY <1>1, <1>2, <1>3, <1>4, <1>5, WholesOf, MiddleStep

LEMMA AcquiringWhole ==
  ASSUME TypeOK, Exclusive, Good, Wholes, NEW t \in Thread, broken' = {}, Acquire(t)
  PROVE  KeepsWhole(t)
<1> DEFINE s == Serves[t]
<1>1. Start(t)
  BY StartOf DEF Step
<1>2. /\ pc[t] = "next" /\ at'[t] = at[t] /\ UNCHANGED session /\ script' = script
      /\ pc'[t] = IF Now(t) = "commit" THEN "append" ELSE IF inTxn[s] THEN "work" ELSE "auto"
  BY DEF Acquire, NeedsWriter, Starts, Goto, TypeOK
<1>3. changed' = changed /\ view' = view /\ before' = before
  BY <1>2 DEF session
<1>4. Mine(t)' = Mine(t)
  <2>1. OpenWrites(t)' = OpenWrites(t) /\ Now(t)' = Now(t)
    BY <1>2 DEF OpenWrites, Done, StillOpen, Opened, Now
  <2> QED
    BY <1>2, <2>1 DEF Mine
<1>5. changed[s] => view[s] = before[s] \cup Mine(t)
  BY <1>1, <1>2, WholesOf DEF WholeThread, Holds, Active
<1> QED
  BY <1>1, <1>2, <1>3, <1>4, <1>5, WholesOf, MiddleStep

LEMMA AutoWorkWhole ==
  ASSUME TypeOK, Exclusive, Good, Wholes, NEW t \in Thread, broken' = {}, AutoWork(t)
  PROVE  KeepsWhole(t)
<1> DEFINE s == Serves[t]
<1>1. Start(t)
  BY StartOf DEF Step
<1>2. /\ pc[t] = "auto" /\ pc'[t] = (IF Now(t) = "fail" THEN "undo" ELSE "append")
      /\ at'[t] = at[t] /\ script' = script
  BY DEF AutoWork, Goto, TypeOK
<1>3. changed'[s] /\ before'[s] = view[s] /\ view'[s] = view[s] \cup {<<t, at[t]>>}
  BY <1>1 DEF Start, AutoWork, Put, TypeOK
<1>4. Opened(script[t], at[t]) = {} /\ Now(t) \in Writes /\ ~inTxn[s] /\ ~changed[s]
  BY <1>1, <1>2 DEF Start, InPlace, Sound
<1>5. Mine(t)' = {<<t, at[t]>>}
  <2>1. OpenWrites(t)' = OpenWrites(t) /\ Now(t)' = Now(t)
    BY <1>2 DEF OpenWrites, Done, StillOpen, Opened, Now
  <2>2. OpenWrites(t) = {}
    <3> SUFFICES ASSUME NEW j \in Done(t), StillOpen(script[t], j, at[t]) PROVE FALSE
      BY DEF OpenWrites
    <3> QED
      BY <1>1, <1>4, StillOpenNow DEF Start, Done
  <2>3. Now(t) # "commit"
    BY <1>4 DEF Writes
  <2> QED
    BY <1>2, <2>1, <2>2, <2>3 DEF Mine
<1> QED
  BY <1>1, <1>2, <1>3, <1>4, <1>5, WholesOf, MiddleStep

LEMMA TxnWorkWhole ==
  ASSUME TypeOK, Exclusive, Good, Wholes, NEW t \in Thread, broken' = {}, TxnWork(t)
  PROVE  KeepsWhole(t)
<1> DEFINE s == Serves[t]
<1>1. Start(t)
  BY StartOf DEF Step
<1>2. Now(t) # "fail"
  BY DEF TxnWork, Leave
<1>3. /\ pc[t] \in {"work", "next"} /\ inTxn[s] /\ Now(t) \in {"write", "bulk"}
      /\ at[t] <= Len(script[t]) /\ Opened(script[t], at[t]) # {}
  BY <1>1, <1>2 DEF Start, InPlace, TxnWork, Starts
<1>4. pc'[t] \in {"next", "new"} /\ at'[t] = at[t] + 1 /\ script' = script
  BY <1>2 DEF TxnWork, Advance, Goto, TypeOK
<1>5. /\ changed'[s] /\ view'[s] = view[s] \cup {<<t, at[t]>>}
      /\ before'[s] = (IF changed[s] THEN before[s] ELSE view[s])
  BY <1>1, <1>3 DEF Start, Sound, TxnWork, Put, TypeOK
<1>6. OpenWrites(t)' = OpenWrites(t) \cup {<<t, at[t]>>} /\ Mine(t)' = OpenWrites(t)' /\ Mine(t) = OpenWrites(t)
  BY <1>3, <1>4, OpenWritesNext DEF Mine, Writes
<1>7. CASE changed[s]
  <2>1. view[s] = before[s] \cup Mine(t)
    BY <1>1, <1>3, <1>7, WholesOf DEF WholeThread, Holds, Active
  <2>2. view'[s] = before'[s] \cup Mine(t)'
    BY <1>5, <1>6, <1>7, <2>1
  <2> QED
    BY <1>1, <1>4, <1>5, <1>7, <2>2, WholesOf, MiddleStep
<1>8. CASE ~changed[s]
  <2>1. OpenWrites(t) = {}
    BY <1>1, <1>3, <1>8 DEF Start, Settled, OpenWrites
  <2>2. view'[s] = before'[s] \cup Mine(t)'
    BY <1>5, <1>6, <1>8, <2>1
  <2> QED
    BY <1>1, <1>4, <1>5, <1>8, <2>2, WholesOf, MiddleStep
<1> QED
  BY <1>7, <1>8

LEMMA LoggingWhole ==
  ASSUME TypeOK, Exclusive, Good, Wholes, NEW t \in Thread, broken' = {}, AppendBatch(t) \/ Publish(t)
  PROVE  KeepsWhole(t) /\ \A u \in Thread : Whole(view[Serves[t]], u)
<1> DEFINE s == Serves[t]
<1>1. Start(t) /\ s \in Session /\ script' = script
  BY StartOf DEF Step, Start
<1>2. pc[t] \in {"append", "publish"} /\ pc'[t] \in {"publish", "committed"} /\ UNCHANGED session
  BY DEF AppendBatch, Publish, Goto, TypeOK
<1>3. \A u \in Thread : Whole(view[s], u)
  <2>1. CASE pc[t] = "publish" \/ ~changed[s]
    BY <1>1, <2>1, WholesOf DEF WholeThread
  <2>2. CASE pc[t] = "append" /\ changed[s]
    <3>1. view[s] = before[s] \cup Mine(t)
      BY <1>1, <2>2, WholesOf DEF WholeThread, Holds, Active
    <3>2. InPlace(t) /\ \A u \in Thread : Whole(before[s], u)
      BY <1>1, WholesOf DEF Start
    <3>3. ASSUME NEW u \in Thread PROVE Whole(before[s] \cup Mine(t), u)
      BY <2>2, <3>2, BatchIsWhole
    <3> QED
      BY <3>1, <3>3
  <2> QED
    BY <1>2, <2>1, <2>2
<1>4. view' = view /\ before' = before
  BY <1>2 DEF session
<1> QED
  BY <1>1, <1>2, <1>3, <1>4, WholesOf, WholeIs DEF KeepsWhole, WholeThread, WholeSession

LEMMA WholeInit == Init => WholeInv
<1> SUFFICES ASSUME Init PROVE WholeInv
  OBVIOUS
<1>1. Wholes
  BY BlankIsWhole DEF Init, Wholes, WholeThread, Holds, Active, Between, Within, Opened, WholeSession
<1> QED
  BY <1>1, InvInit DEF WholeInv

LEMMA WholesStay ==
  ASSUME UNCHANGED <<script, at, pc, locks, session, wal>>
  PROVE  Wholes' <=> Wholes
BY DEF locks, session, wal, Wholes, WholeThread, WholeSession, Whole, Holds, Active, Between, Within, Mine,
  OpenWrites, Done, StillOpen, Opened, Closed, Kept, Together, Now

LEMMA WholeStep == WholeInv /\ [Next]_vars => WholeInv'
<1> SUFFICES ASSUME WholeInv, [Next]_vars PROVE WholeInv'
  OBVIOUS
<1>1. Inv'
  BY InvStep DEF WholeInv
<1>2. CASE UNCHANGED vars
  <2>1. (Wholes' <=> Wholes) /\ broken' = broken
    BY <1>2, WholesStay DEF vars
  <2> QED
    BY <1>1, <2>1 DEF WholeInv
<1>3. CASE \E v \in Viewer : Get(v)
  <2>1. PICK v \in Viewer : Get(v)
    BY <1>3
  <2> QED
    BY <1>1, <2>1, GetChangesNothing, WholesStay DEF WholeInv, Inv
<1>4. CASE \E t \in Thread : Post(t)
  <2> SUFFICES ASSUME broken' = {} PROVE Wholes'
    BY <1>1 DEF WholeInv
  <2>1. PICK t \in Thread : Step(t)
    BY <1>4 DEF Post
  <2>2. TypeOK /\ Exclusive /\ Good /\ Wholes /\ script' = script
    BY <2>1, StepFrame DEF WholeInv, Inv, Frame
  <2>3. KeepsWhole(t)
    <3>1. ~AppendFails(t)
      BY DEF AppendFails
    <3> QED
      BY <2>1, <2>2, <3>1, EnteringWhole, RefreshingWhole, LeavingWhole, ReadingWhole, BeginningWhole, EndingWhole,
         AcquiringWhole, AutoWorkWhole, TxnWorkWhole, LoggingWhole, CommittingWhole
      DEF Step
  <2>4. ASSUME NEW n \in DOMAIN log', NEW u \in Thread PROVE Whole(log[n], u)'
    <3>1. CASE log' = log
      BY <2>2, <3>1, WholeIs DEF Wholes
    <3>2. CASE log' # log
      <4>1. AppendBatch(t) /\ log' = Append(log, view[Serves[t]])
        BY <2>1, <3>2 DEF Step, Enter, Refresh, Answer, Read, Begin, Refuse, Rollback, Acquire,
           AutoWork, Undo, TxnWork, AppendBatch, AppendFails, Publish, Committed, wal
      <4>2. log \in Seq(Image) /\ view[Serves[t]] \in Image
        BY <2>2, ThreadsAssumption DEF TypeOK
      <4>3. (n \in DOMAIN log /\ log'[n] = log[n]) \/ log'[n] = view[Serves[t]]
        BY <4>1, <4>2
      <4>4. Whole(log'[n], u)
        BY <2>2, <4>1, <4>3, LoggingWhole DEF Wholes
      <4> QED
        BY <2>2, <4>4, WholeIs
    <3> QED
      BY <3>1, <3>2
  <2>5. \A u \in Thread : WholeThread(u)'
    BY <2>1, <2>2, <2>3, OtherWholes DEF KeepsWhole
  <2>6. \A s \in Session : WholeSession(s)'
    BY <2>1, <2>2, <2>3, OtherWholes DEF KeepsWhole
  <2> QED
    BY <2>4, <2>5, <2>6 DEF Wholes
<1> QED
  BY <1>2, <1>3, <1>4 DEF Next

(* A statement that reads sees each transaction of other requests as a whole *)
(* or not at all, and nothing that was rolled back (engine.py:239); so does a *)
(* GET handler that finds the session at rest and outside a transaction       *)
(* (web.py:97).                                                              *)
THEOREM ReadsWhole == Spec => []ReadsAreWhole
<1>1. WholeInv => ReadsAreWhole
  <2> SUFFICES ASSUME WholeInv, broken = {} PROVE ReadsAreWhole
    BY DEF ReadsAreWhole
  <2>1. Wholes /\ Good
    BY DEF WholeInv, Inv
  <2>2. ASSUME NEW t \in Thread, NEW u \in Thread, Starts(t, {"read"}), t # u
        PROVE  Whole(view[Serves[t]], u)
    <3> DEFINE s == Serves[t]
    <3>1. Whole(before[s], u) /\ (~changed[s] => Whole(view[s], u))
      BY <2>1, ThreadsAssumption DEF Wholes, WholeSession
    <3>2. CASE changed[s]
      <4>1. view[s] = before[s] \cup Mine(t)
        BY <2>1, <2>2, <3>2 DEF Wholes, WholeThread, Holds, Active, Starts
      <4>2. \A i : Mine(t) \cap Together(u, i) = {} /\ <<u, i>> \notin Mine(t)
        BY <2>2 DEF Mine, OpenWrites, Together
      <4>3. \A i : view[s] \cap Together(u, i) = before[s] \cap Together(u, i)
        BY <4>1, <4>2
      <4> QED
        BY <3>1, <4>1, <4>2, <4>3 DEF Whole
    <3> QED
      BY <3>1, <3>2
  <2>3. ASSUME NEW s \in Session, ~inTxn[s], NEW u \in Thread
        PROVE  Whole(view[s], u)
    <3>1. ~changed[s]
      BY <2>1, <2>3 DEF Good, Sound
    <3> QED
      BY <2>1, <3>1 DEF Wholes, WholeSession
  <2> QED
    BY <2>2, <2>3 DEF ReadsAreWhole
<1> QED
  BY <1>1, WholeInit, WholeStep, PTL DEF Spec

=============================================================================
