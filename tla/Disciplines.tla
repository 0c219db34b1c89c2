----------------------------- MODULE Disciplines -----------------------------
(***************************************************************************)
(* What the page store guarantees across sessions and crashes, and under    *)
(* which conditions.  The documents promise durability, READ COMMITTED and  *)
(* REPEATABLE READ outright; the code keeps these promises as long as seven *)
(* disciplines are observed that nothing in it enforces.  Each discipline   *)
(* restricts the steps of PageStore; an instance names the ones it does     *)
(* without, and the runs that relax one show what the code then does.       *)
(* What a transaction sees from its beginning to its end needs one more     *)
(* condition, that the file stands still while a session is behind.         *)
(***************************************************************************)
EXTENDS PageStore

CONSTANT Relaxed   \* the disciplines this instance does not assume

Discipline == {"rollback", "append", "commit", "quiet", "reset", "flush", "evict"}

ASSUME RelaxedAssumption == Relaxed \subseteq Discipline

VARIABLE stood   \* history: the file has stood still while a session was behind

(* What a step does, told from its effect. *)
Aborts(s)   == InTxn(s) /\ fate'[tx[s]] = "aborted"
Appends(s)  == InTxn(s) /\ log' # log /\ log' # << >>
Loads(s)    == mode[s] # "loaded" /\ mode'[s] = "loaded"
Flushes(s)  == /\ mode[s] \in {"idle", "txn"}          \* or is on its way to
               /\ mode'[s] \in {"checkpoint", "closing", "leaving"}
Evicted(s)  == {n \in Page : pool[s][n] # Absent /\ pool'[s][n] = Absent}
Resets      == log # << >> /\ log' = << >>
Crashes     == crashes' # crashes
HasAdopted(s) == walPos[s] = LogSize(log)

(* A rollback restores no page that is committed but not yet in the file.   *)
RollsBackCleanPages == \A s \in Session : Aborts(s) =>
                         \A n \in touched[s] : shadow[s][n] \in {Absent, file.page[n]}

(* No batch is appended behind an interrupted one.                          *)
AppendsToWholeLog == (\E s \in Session : Appends(s)) =>
                       \A k \in DOMAIN log : log[k].end = "commit"

(* Who commits changes has adopted every other commit.                      *)
CommitsOnLatest == \A s \in Session : Appends(s) => HasAdopted(s)

(* Nothing is committed while a session opens, checkpoints or closes.       *)
Quiet == \A o \in Session : mode[o] \in {"closed", "idle", "auto", "txn"}

CommitsInQuiet == (\E s \in Session : Appends(s)) => Quiet

(* The log is reset only by the one session there is, and sessions do not   *)
(* open while one checkpoints or leaves.                                    *)
ResetsAlone ==
  /\ Resets => \A o \in Session : mode'[o] = mode[o] =>
                                     mode[o] \in {"closed", "replayed", "scanned"}
  /\ \A s \in Session : Loads(s) \/ Flushes(s) => \A o \in Session \ {s} :
       mode[o] \in {"closed", "replayed", "scanned", "idle", "auto", "txn"}

(* Who checkpoints or closes has adopted every other commit.                *)
FlushesLatest == \A s \in Session : Flushes(s) => HasAdopted(s)

(* A clean page leaves a pool only if the file holds it as it is, a dirty   *)
(* one only if it is the latest.                                            *)
EvictsSafely == \A s \in Session : (mode[s] = "idle" /\ mode'[s] = "idle") =>
                  \A n \in Evicted(s) : \/ n \in dirty[s] /\ HasAdopted(s)
                                        \/ n \notin dirty[s] /\ pool[s][n] = file.page[n]

(* The file changes, other than by a crash, only while no session is behind. *)
FileStandsStill ==
  file' # file /\ ~Crashes => \A o \in Session : Registered(o) => HasAdopted(o)

DisciplinedNext ==
  /\ Next
  /\ "rollback" \in Relaxed \/ RollsBackCleanPages
  /\ "append"   \in Relaxed \/ AppendsToWholeLog
  /\ "commit"   \in Relaxed \/ CommitsOnLatest
  /\ "quiet"    \in Relaxed \/ CommitsInQuiet
  /\ "reset"    \in Relaxed \/ ResetsAlone
  /\ "flush"    \in Relaxed \/ FlushesLatest
  /\ "evict"    \in Relaxed \/ EvictsSafely
  /\ stood' = (stood /\ FileStandsStill)

DisciplinedSpec == Init /\ stood = TRUE /\ [][DisciplinedNext]_<<vars, stood>>

-----------------------------------------------------------------------------
(* What recover would leave in a file now. *)
Recovered(f) == Replay(log, f).page

Acknowledged == {t \in Txn : fate[t] = "committed" /\ wrote[t] # {}}

AfterDeath ==
  INSTANCE DurableStore WITH content <- Recovered(file), effects <- wrote,
                             acknowledged <- Acknowledged
AfterPowerLoss ==
  INSTANCE DurableStore WITH content <- Recovered(disk), effects <- wrote,
                             acknowledged <- Acknowledged

(* The store that a recovery (wal.py:118) would rebuild after a process     *)
(* death changes only by whole transactions, and never loses one that was   *)
(* acknowledged: eviction, flush, checkpoint, rollback, close and recovery  *)
(* itself are invisible in it.                                              *)
ImplementsDurableStore == AfterDeath!Spec

(* The same of the store that is left after a power loss, when writes to    *)
(* the file that were never fsync'd (pager.py:142) may be gone.             *)
SurvivesPowerLoss == AfterPowerLoss!Spec

(* A transaction whose COMMIT returned (engine.py:399) is in what recovery  *)
(* rebuilds, on every page it wrote, from the file as it is and as a power  *)
(* loss may leave it.                                                       *)
CommittedIsRecoverable ==
  \A t \in Txn : fate[t] = "committed" =>
    \A n \in wrote[t] : t \in Recovered(file)[n] /\ t \in Recovered(disk)[n]

(* A session with nothing left to adopt: refresh_from_wal has just run.     *)
UpToDate(s) ==
  /\ mode[s] = "idle"
  /\ sharedEnd > walPos[s] => 
       ~ \E i, j \in DOMAIN log, c \in 0 .. MaxPages :
           NextBatch(log, walPos[s], sharedEnd, i, c, j)

(* READ COMMITTED: between statements, a session that has refreshed         *)
(* (engine.py:92) sees exactly what has been committed.                     *)
SeesCommitted ==
  \A s \in Session : UpToDate(s) => \A n \in Page : View(s, n) = Recovered(file)[n]

(* REPEATABLE READ: inside BEGIN ... COMMIT no page the transaction has not *)
(* written changes under it, cached (pager.py:76) or not (pager.py:80).     *)
RepeatableRead ==
  [][\A s \in Session : (stood' /\ mode[s] = "txn" /\ mode'[s] = "txn") =>
       \A n \in Page : (n < numPages[s] /\ n \notin touched'[s]) => View(s, n)' = View(s, n)]_vars

(* No half transactions: a session inside BEGIN ... COMMIT, or between      *)
(* statements with nothing left to adopt, sees a transaction on all the     *)
(* pages it wrote or on none of them.                                       *)
NoHalfTransactions ==
  stood => \A s \in Session : (mode[s] = "txn" \/ UpToDate(s)) =>
    \A t \in LoggedTxns \ {tx[s]} : \A m, n \in wrote[t] :
      (t \in View(s, m)) <=> (t \in View(s, n))
=============================================================================
