------------------------------ MODULE Threads ------------------------------
(***************************************************************************)
(* Requests of many threads to the sessions of one path: the lock of each    *)
(* session, the writer lock that they share, scripts of statements, and     *)
(* what becomes of a request that fails (src/leafdb/engine.py, web.py).     *)
(*                                                                          *)
(* Every statement that changes anything rewrites the catalog page, so one  *)
(* page tells the writes of all sessions apart: its image is the set of     *)
(* writes it carries.  A write is named by its thread and its place in the  *)
(* script.  A script is what one request does, in one call of the session   *)
(* or in several: the lock of the session is free between two calls.        *)
(***************************************************************************)
EXTENDS Integers, Sequences

CONSTANTS Thread,    \* a thread serves one request
          Session,
          Serves,    \* the session a thread calls
          Scripts,   \* what a request may ask: sequences of statements
          NoOne,     \* holds a lock that is free
          Viewer,    \* a thread that serves GET requests of the web console
          Views      \* the session it looks at

Statement == {"read", "write", "fail",     \* "fail" raises after it has changed pages
              "bulk",                      \* Database.bulk_insert
              "begin", "commit", "rollback"}

ASSUME ThreadsAssumption == /\ Serves \in [Thread -> Session]
                            /\ Scripts \subseteq Seq(Statement)
                            /\ NoOne \notin Thread
                            /\ Views \in [Viewer -> Session]

VARIABLES
  script,   \* what each thread asks
  at,       \* its current statement, a place in the script
  pc,       \* what it does next
  lock,     \* Database._lock of each session
  writer,   \* Database._writer_locks[path]
  inTxn,    \* Database.in_txn
  tracked,  \* whether Pager.touched is a set
  changed,  \* whether that set is not empty
  before,   \* Pager.shadow: the image at the first write
  view,     \* the image in the session's pool
  log,      \* the images of the batches in the log
  pos,      \* Database._wal_pos, counted in batches
  sharedEnd,\* Database._shared_wal_end[path], counted in batches
  seen,     \* what a viewer has read from the file and not put in the pool yet
  broken    \* history: which of the conditions below were broken

locks   == <<lock, writer>>
session == <<inTxn, tracked, changed, before, view>>
wal     == <<log, pos, sharedEnd>>
vars == <<script, at, pc, locks, session, wal, seen, broken>>

(* What requests can count on holds while these conditions do:              *)
Condition == {"latest",   \* a session that commits has adopted all commits before
              "append",   \* no append to the log fails
              "whole",    \* a script that begins a transaction also ends it
              "alone",    \* a session is called only by the request that has a transaction open
              "current"}  \* a page that a viewer puts in the pool is as it was when it read it

Image   == SUBSET (Thread \X Nat)
Blank   == {}
Latest  == IF log = << >> THEN Blank ELSE log[Len(log)]
Now(t)  == script[t][at[t]]
Ended(t) == pc[t] \in {"ok", "error"}
Writes  == {"write", "fail", "bulk"}

Init ==
  /\ script \in [Thread -> Scripts]
  /\ at = [t \in Thread |-> 1]
  /\ pc = [t \in Thread |-> "new"]
  /\ lock = [s \in Session |-> NoOne] /\ writer = NoOne
  /\ inTxn = [s \in Session |-> FALSE]
  /\ tracked = [s \in Session |-> FALSE]
  /\ changed = [s \in Session |-> FALSE]
  /\ before = [s \in Session |-> Blank]
  /\ view = [s \in Session |-> Blank]
  /\ log = << >>
  /\ pos = [s \in Session |-> 0]
  /\ sharedEnd = 0
  /\ seen = [v \in Viewer |-> {}]
  /\ broken = {}

-----------------------------------------------------------------------------
(* Calls: entering and leaving a session *)

Goto(t, next) == pc' = [pc EXCEPT ![t] = next]

(* Each of them holds the lock of the session until it returns: execute and  *)
(* execute_script, which refresh first, bulk_insert, begin, commit and       *)
(* rollback, which do not.  (The model lets a call that began with begin(),  *)
(* commit() or rollback() go on, which is more than the code does.)          *)
MayEnter_Mutant(s) == lock[s] \in {NoOne} \cup Thread   \* a mutated form, so every *_Mutant
MayEnter(s) == lock[s] = NoOne

(* The transaction that a place of a script is in, by where it begins        *)
Opened(sc, i) == {b \in 1 .. i - 1 : sc[b] = "begin" /\
                    \A j \in b + 1 .. i - 1 : sc[j] \notin {"commit", "rollback"}}
Within(t)     == Opened(script[t], at[t]) # {}

Enter(t) ==
  /\ pc[t] = "new" /\ MayEnter(Serves[t])
  /\ lock' = [lock EXCEPT ![Serves[t]] = t]
  /\ \/ Now(t) # "bulk" /\ Goto(t, "refresh")
     \/ Now(t) \in {"bulk", "begin", "commit", "rollback"} /\ Goto(t, "next")
  /\ broken' = broken \cup (IF inTxn[Serves[t]] = Within(t) THEN {} ELSE {"alone"})
  /\ UNCHANGED <<script, at, writer, session, wal>>

(* refresh_from_wal, once for the whole call: everything published is       *)
(* adopted, the last image of the page wins.                                *)
Refresh(t) ==
  LET s == Serves[t] IN
  /\ pc[t] = "refresh"
  /\ IF inTxn[s] \/ sharedEnd <= pos[s] THEN UNCHANGED <<view, pos>>
     ELSE /\ view' = [view EXCEPT ![s] = log[sharedEnd]]
          /\ pos' = [pos EXCEPT ![s] = sharedEnd]
  /\ Goto(t, "next")
  /\ UNCHANGED <<script, at, locks, inTxn, tracked, changed, before, log, sharedEnd, broken>>

(* The request is over: the locks it holds are given back.                  *)
Freed_Mutant(t) == IF writer = t /\ Now(t) # "fail" THEN NoOne ELSE writer
Freed(t) == IF writer = t THEN NoOne ELSE writer

Leave(t, answer, open) ==
  /\ Goto(t, answer)
  /\ lock' = [lock EXCEPT ![Serves[t]] = NoOne]
  /\ writer' = Freed(t)
  /\ broken' = broken \cup (IF open THEN {"whole"} ELSE {})
  /\ UNCHANGED <<script, at>>

Answer(t) ==
  /\ pc[t] = "next" /\ at[t] > Len(script[t])
  /\ Leave(t, "ok", inTxn[Serves[t]])
  /\ UNCHANGED <<session, wal>>

(* After a statement the call goes on with the next one, or it returns and   *)
(* another call follows; bulk_insert is a call of its own.                   *)
GoesOn(t) == at[t] < Len(script[t]) => "bulk" \notin {Now(t), script[t][at[t] + 1]}

Advance(t) ==
  /\ at' = [at EXCEPT ![t] = @ + 1]
  /\ \/ GoesOn(t) /\ Goto(t, "next") /\ UNCHANGED lock
     \/ /\ at[t] < Len(script[t]) /\ Goto(t, "new")
        /\ lock' = [lock EXCEPT ![Serves[t]] = NoOne]
  /\ UNCHANGED script

-----------------------------------------------------------------------------
(* Statements *)

Starts(t, kinds) == pc[t] = "next" /\ at[t] <= Len(script[t]) /\ Now(t) \in kinds

Read(t) ==
  /\ Starts(t, {"read"})
  /\ Advance(t)
  /\ UNCHANGED <<writer, session, wal, broken>>

BeginTxn(s) == /\ inTxn' = [inTxn EXCEPT ![s] = TRUE]
               /\ tracked' = [tracked EXCEPT ![s] = TRUE]
               /\ changed' = [changed EXCEPT ![s] = FALSE]

Begin(t) ==
  /\ Starts(t, {"begin"}) /\ ~inTxn[Serves[t]]
  /\ BeginTxn(Serves[t])
  /\ Advance(t)
  /\ UNCHANGED <<writer, before, view, wal, broken>>

(* BEGIN inside a transaction, COMMIT and ROLLBACK outside of one raise.    *)
Refuse(t) ==
  /\ \/ Starts(t, {"begin"}) /\ inTxn[Serves[t]]
     \/ Starts(t, {"commit", "rollback"}) /\ ~inTxn[Serves[t]]
  /\ Leave(t, "error", inTxn[Serves[t]])
  /\ UNCHANGED <<session, wal>>

(* rollback_txn: without a record of touched pages nothing is undone.       *)
EndTxn(s) == /\ inTxn' = [inTxn EXCEPT ![s] = FALSE]
             /\ tracked' = [tracked EXCEPT ![s] = FALSE]
             /\ changed' = [changed EXCEPT ![s] = FALSE]
             /\ before' = [before EXCEPT ![s] = Blank]

Undone_Mutant(s) == view[s]
Undone(s) == IF tracked[s] /\ changed[s] THEN before[s] ELSE view[s]

Rollback(t) ==
  LET s == Serves[t] IN
  /\ Starts(t, {"rollback"}) /\ inTxn[s]
  /\ view' = [view EXCEPT ![s] = Undone(s)]
  /\ EndTxn(s)
  /\ Advance(t)
  /\ UNCHANGED <<writer, wal, broken>>

(* A write outside a transaction, a write of SQL inside one and COMMIT take *)
(* the writer lock; bulk_insert inside a transaction does not.              *)
NeedsWriter(t) == \/ Starts(t, {"write", "fail"})
                  \/ Starts(t, {"bulk"}) /\ ~inTxn[Serves[t]]
                  \/ Starts(t, {"commit"}) /\ inTxn[Serves[t]]

Acquire(t) ==
  /\ NeedsWriter(t)
  /\ writer = NoOne /\ writer' = t
  /\ Goto(t, IF Now(t) = "commit" THEN "append"
             ELSE IF inTxn[Serves[t]] THEN "work" ELSE "auto")
  /\ UNCHANGED <<script, at, lock, session, wal, broken>>

(* The statement changes the page; its first change in a transaction keeps  *)
(* the page as it was.                                                      *)
Put(t, first) ==
  LET s == Serves[t] IN
  /\ view' = [view EXCEPT ![s] = @ \cup {<<t, at[t]>>}]
  /\ before' = IF first THEN [before EXCEPT ![s] = view[s]] ELSE before

AutoWork(t) ==
  LET s == Serves[t] IN
  /\ pc[t] = "auto"
  /\ Put(t, TRUE)
  /\ inTxn' = [inTxn EXCEPT ![s] = TRUE]
  /\ tracked' = [tracked EXCEPT ![s] = TRUE]
  /\ changed' = [changed EXCEPT ![s] = TRUE]
  /\ Goto(t, IF Now(t) = "fail" THEN "undo" ELSE "append")
  /\ UNCHANGED <<script, at, locks, wal, broken>>

(* The except branch of _run_one and bulk_insert *)
Undo(t) ==
  LET s == Serves[t] IN
  /\ pc[t] = "undo"
  /\ view' = [view EXCEPT ![s] = Undone(s)]
  /\ EndTxn(s)
  /\ Leave(t, "error", FALSE)
  /\ UNCHANGED wal

(* A statement that raises inside a transaction undoes nothing.             *)
TxnWork(t) ==
  LET s == Serves[t] IN
  /\ \/ pc[t] = "work"
     \/ Starts(t, {"bulk"}) /\ inTxn[s]
  /\ Put(t, tracked[s] /\ ~changed[s])
  /\ changed' = [changed EXCEPT ![s] = tracked[s]]
  /\ \/ /\ Now(t) = "fail"
        /\ Leave(t, "error", TRUE)
     \/ /\ Now(t) # "fail"
        /\ writer' = Freed(t)
        /\ Advance(t)
        /\ UNCHANGED broken
  /\ UNCHANGED <<inTxn, tracked, wal>>

-----------------------------------------------------------------------------
(* COMMIT, also that of autocommit *)

(* collect_commit and append_batch: an untouched pager has nothing to log.  *)
AppendBatch(t) ==
  LET s == Serves[t] IN
  /\ pc[t] = "append"
  /\ IF changed[s]
     THEN /\ log' = Append(log, view[s])
          /\ pos' = [pos EXCEPT ![s] = Len(log')]
          /\ broken' = broken \cup (IF pos[s] = Len(log) THEN {} ELSE {"latest"})
     ELSE UNCHANGED <<log, pos, broken>>
  /\ Goto(t, IF changed[s] THEN "publish" ELSE "committed")
  /\ UNCHANGED <<script, at, locks, session, sharedEnd>>

(* append_batch raises: collect_commit has closed the pager's transaction,   *)
(* that of the session stays open.                                          *)
AppendFails(t) ==
  LET s == Serves[t] IN
  /\ pc[t] = "append" /\ changed[s]
  /\ tracked' = [tracked EXCEPT ![s] = FALSE]
  /\ changed' = [changed EXCEPT ![s] = FALSE]
  /\ before' = [before EXCEPT ![s] = Blank]
  /\ Goto(t, "error")
  /\ lock' = [lock EXCEPT ![s] = NoOne]
  /\ writer' = Freed(t)
  /\ broken' = broken \cup {"append"}
  /\ UNCHANGED <<script, at, inTxn, view, wal>>

(* Under the lock of the registry, which is held for nothing else. *)
Publish(t) ==
  /\ pc[t] = "publish"
  /\ sharedEnd' = IF pos[Serves[t]] > sharedEnd THEN pos[Serves[t]] ELSE sharedEnd
  /\ Goto(t, "committed")
  /\ UNCHANGED <<script, at, locks, session, log, pos, broken>>

Committed(t) ==
  /\ pc[t] = "committed"
  /\ EndTxn(Serves[t])
  /\ writer' = Freed(t)
  /\ Advance(t)
  /\ UNCHANGED <<view, wal, broken>>

-----------------------------------------------------------------------------
(* GET requests: the handlers walk the pages of the session without its lock *)

(* Pager.get of a page that is not in the pool: no touched page is missing,   *)
(* any other may be.  A page that is there is only read.                     *)
Look(v) ==
  /\ seen[v] = {} /\ ~changed[Views[v]]
  /\ seen' = [seen EXCEPT ![v] = {view[Views[v]]}]
  /\ UNCHANGED <<view, broken>>

(* Then it goes into the pool, whatever is there by now.                     *)
Store(v) ==
  \E image \in seen[v] :
    /\ view' = [view EXCEPT ![Views[v]] = image]
    /\ seen' = [seen EXCEPT ![v] = {}]
    /\ broken' = broken \cup (IF image = view[Views[v]] THEN {} ELSE {"current"})

Get(v) ==
  /\ Look(v) \/ Store(v)
  /\ UNCHANGED <<script, at, pc, locks, inTxn, tracked, changed, before, wal>>

-----------------------------------------------------------------------------
Step(t) ==
  \/ Enter(t) \/ Refresh(t) \/ Answer(t)
  \/ Read(t) \/ Begin(t) \/ Refuse(t) \/ Rollback(t)
  \/ Acquire(t) \/ AutoWork(t) \/ Undo(t) \/ TxnWork(t)
  \/ AppendBatch(t) \/ AppendFails(t) \/ Publish(t) \/ Committed(t)

Post(t) == Step(t) /\ UNCHANGED seen

Next == \/ \E t \in Thread : Post(t)
        \/ \E v \in Viewer : Get(v)

(* The scheduler runs every thread; no lock is fair.                        *)
Spec == Init /\ [][Next]_vars /\ \A t \in Thread : WF_vars(Post(t))

-----------------------------------------------------------------------------
(* Properties *)

(* Where the transaction of a place of a script ends *)
Closed(sc, i)  == {c \in i + 1 .. Len(sc) : sc[c] \in {"commit", "rollback"} /\
                     \A j \in i + 1 .. c - 1 : sc[j] \notin {"commit", "rollback"}}
Kept(sc, i)    == Opened(sc, i) = {} \/ \E c \in Closed(sc, i) : sc[c] = "commit"
Promised(t)    == {<<t, i>> : i \in {j \in DOMAIN script[t] : script[t][j] \in Writes /\ Kept(script[t], j)}}
Together(t, i) == {<<t, j>> : j \in {k \in DOMAIN script[t] : script[t][k] \in Writes /\
                     (k = i \/ Opened(script[t], k) \cap Opened(script[t], i) # {})}}

AnswersKept(t) == pc[t] = "ok" => Promised(t) \subseteq Latest

(* A request that was answered has its writes in the log, and no later       *)
(* commit of any session takes them out (engine.py:408).                    *)
AnswersAreKept == broken = {} => \A t \in Thread : AnswersKept(t)

(* The same, whatever the sessions have adopted when they commit: writers   *)
(* serialize on the lock of the path (engine.py:257).                        *)
WritersSerialize == broken \subseteq {"latest"} => \A t \in Thread : AnswersKept(t)

(* An image has each transaction of u as a whole or not at all, and nothing  *)
(* that was rolled back.                                                     *)
Whole(image, u) ==
  \A i \in DOMAIN script[u] : script[u][i] \in Writes =>
    /\ image \cap Together(u, i) \in {{}, Together(u, i)}
    /\ <<u, i>> \in image => Kept(script[u], i)

(* Transactions are whole to what a statement of another request reads       *)
(* (engine.py:239), and to a GET handler that finds no request at work in its *)
(* session and no transaction open (web.py:97).                              *)
ReadsAreWhole ==
  broken = {} =>
    /\ \A t, u \in Thread : (Starts(t, {"read"}) /\ t # u) => Whole(view[Serves[t]], u)
    /\ \A s \in Session : (lock[s] = NoOne /\ ~inTxn[s]) => \A u \in Thread : Whole(view[s], u)

(* A statement that raises is in no batch of the log, and in no pool once    *)
(* its request is answered (engine.py:261).                                 *)
FailuresLeaveNothing ==
  broken = {} =>
    \A t \in Thread : \A i \in DOMAIN script[t] : script[t][i] = "fail" =>
      /\ \A n \in DOMAIN log : <<t, i>> \notin log[n]
      /\ Ended(t) => \A s \in Session : <<t, i>> \notin view[s]

(* No request waits forever, whatever others do and however they fail:      *)
(* every lock that is taken is given back (engine.py:255, 404).              *)
EveryRequestEnds == \A t \in Thread : <>Ended(t)
=============================================================================
