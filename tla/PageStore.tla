----------------------------- MODULE PageStore -----------------------------
(***************************************************************************)
(* The page store of leafdb: the sessions (Database objects) of one process *)
(* on one path, their pagers, the shared write-ahead log and database file, *)
(* and crashes (src/leafdb/engine.py, pager.py, wal.py).                    *)
(*                                                                          *)
(* A page image is the set of transactions whose effect it carries: a       *)
(* transaction that writes a page adds itself to the image its session      *)
(* sees.  That is all durability, atomicity and isolation can tell apart.   *)
(***************************************************************************)
EXTENDS WalLog

CONSTANTS Session,
          MaxTxns,      \* bound: transactions ever begun
          MaxCrashes,   \* bound: crashes of the process
          Capacity,     \* cache_size of every pager
          NoOne         \* holds the writer lock while no session does

ASSUME StoreAssumption == /\ MaxTxns \in Nat
                          /\ MaxCrashes \in Nat
                          /\ Capacity \in Nat \ {0}
                          /\ NoOne \notin Session

Txn   == 1 .. MaxTxns
NoTxn == 0
Image == SUBSET Txn
Blank == {}

ASSUME AbsentAssumption == Absent \notin Image

VARIABLES
  file,        \* the database file as the operating system shows it
  disk,        \* the database file a power loss is sure to leave
  log,         \* the write-ahead log; every write to it is synced
  sharedEnd,   \* Database._shared_wal_end[path], 0 while unset
  writer,      \* who holds Database._writer_locks[path]
  mode,        \* what the session is doing
  pool,        \* BufferPool.pages: image or Absent, for every page
  dirty,       \* BufferPool.dirty
  touched,     \* Pager.touched, empty outside transactions
  shadow,      \* Pager.shadow, for the pages in touched
  numPages,    \* Pager.num_pages
  walPos,      \* Database._wal_pos
  tx,          \* the transaction the session runs
  fate,        \* history: what became of each transaction
  wrote,       \* history: the pages each logged transaction wrote
  atBegin,     \* history: the pool as the session's transaction found it
  crashes

storage  == <<file, disk, log>>
caches   == <<pool, dirty>>
txnState == <<touched, shadow, tx, atBegin>>
history  == <<fate, wrote>>
vars == <<file, disk, log, sharedEnd, writer, mode, pool, dirty, touched, shadow,
          numPages, walPos, tx, fate, wrote, atBegin, crashes>>

Modes == {"closed", "replayed", "scanned", "loaded",         \* Database.__init__
          "idle",
          "auto",                                            \* autocommit statement
          "txn",                                             \* BEGIN ... COMMIT
          "checkpoint",                                      \* flushed, log not reset yet
          "closing", "lastcheckpoint",                       \* the same on the way out
          "leaving"}                                         \* unregistered, not flushed yet
Fates == {"unused", "active", "committed", "indoubt", "aborted"}

PageMap == [Page -> Image \cup {Absent}]
File    == [len : 0 .. MaxPages, page : [Page -> Image]]
Group   == [images : PageMap, num : 0 .. MaxPages,
            end : {"commit", "none", "torn"}, upto : Nat]

InTxn(s)      == mode[s] \in {"auto", "txn"}
Registered(s) == mode[s] \in {"idle", "auto", "txn", "checkpoint", "closing", "lastcheckpoint"}
Alone(s)      == \A o \in Session \ {s} : ~Registered(o)
LockFree(s)   == writer \in {NoOne, s}

Cached(pl)  == {n \in Page : pl[n] # Absent}
View(s, n)  == IF pool[s][n] # Absent THEN pool[s][n] ELSE file.page[n]
NoImages    == [n \in Page |-> Absent]

TypeOK ==
  /\ file \in File /\ disk \in File
  /\ log \in Seq(Group)
  /\ sharedEnd \in Nat
  /\ writer \in Session \cup {NoOne}
  /\ mode \in [Session -> Modes]
  /\ pool \in [Session -> PageMap]
  /\ dirty \in [Session -> SUBSET Page]
  /\ touched \in [Session -> SUBSET Page]
  /\ shadow \in [Session -> PageMap]
  /\ numPages \in [Session -> 1 .. MaxPages]
  /\ walPos \in [Session -> Nat]
  /\ tx \in [Session -> Txn \cup {NoTxn}]
  /\ fate \in [Txn -> Fates]
  /\ wrote \in [Txn -> SUBSET Page]
  /\ atBegin \in [Session -> PageMap]
  /\ crashes \in 0 .. MaxCrashes

EmptyFile == [len |-> 0, page |-> [n \in Page |-> Blank]]

Init ==
  /\ file = EmptyFile /\ disk = EmptyFile /\ log = << >>
  /\ sharedEnd = 0 /\ writer = NoOne
  /\ mode = [s \in Session |-> "closed"]
  /\ pool = [s \in Session |-> NoImages]
  /\ dirty = [s \in Session |-> {}]
  /\ touched = [s \in Session |-> {}]
  /\ shadow = [s \in Session |-> NoImages]
  /\ numPages = [s \in Session |-> 1]
  /\ walPos = [s \in Session |-> HeaderBytes]
  /\ tx = [s \in Session |-> NoTxn]
  /\ fate = [t \in Txn |-> "unused"]
  /\ wrote = [t \in Txn |-> {}]
  /\ atBegin = [s \in Session |-> NoImages]
  /\ crashes = 0

-----------------------------------------------------------------------------
(* Opening: recover replays the log into the file and syncs it, the pager   *)
(* and the log are opened, a replayed log is reset, the catalog page is     *)
(* read, and only then is the session registered.  Other threads run        *)
(* between the steps; a crash can strike before the replay is synced.       *)

OpenReplay(s) ==
  /\ mode[s] = "closed"
  /\ file' = Replay(log, file)
  /\ mode' = [mode EXCEPT ![s] =
               IF CommitsFrom(log, 1) # {} THEN "replayed" ELSE "scanned"]
  /\ UNCHANGED <<disk, log, sharedEnd, writer, caches, txnState, numPages,
                 walPos, history, crashes>>

(* Pager.__init__ counts the catalog page even in an empty file. *)
PagesIn_Mutant(f) == f.len   \* a mutated form, so every *_Mutant
PagesIn(f)     == Larger(1, f.len)

(* fsync: a power loss now leaves the file as it is. *)
Synced_Mutant == disk
Synced     == file

OpenReset(s) ==
  /\ \/ /\ mode[s] = "replayed"
        /\ disk' = Synced
        /\ log' = << >>
     \/ /\ mode[s] = "scanned"
        /\ UNCHANGED <<disk, log>>
  /\ mode' = [mode EXCEPT ![s] = "loaded"]
  /\ numPages' = [numPages EXCEPT ![s] = PagesIn(file)]
  /\ pool' = [pool EXCEPT ![s][0] = file.page[0]]
  /\ UNCHANGED <<file, sharedEnd, writer, dirty, txnState, walPos, history, crashes>>

OpenRegister(s) ==
  /\ mode[s] = "loaded"
  /\ mode' = [mode EXCEPT ![s] = "idle"]
  /\ walPos' = [walPos EXCEPT ![s] = LogSize(log)]
  /\ UNCHANGED <<storage, sharedEnd, writer, caches, txnState, numPages, history, crashes>>

-----------------------------------------------------------------------------
(* Reading *)

(* _evict_if_full: nothing inside a transaction; otherwise pages go until   *)
(* fewer than Capacity are left.  Which ones the order of use decides, and  *)
(* hits reorder the pool at any time, so any choice can happen.             *)
Victims_Mutant(s) ==
  LET here == Cached(pool[s]) IN
  IF Cardinality(here) < Capacity
  THEN {{}}
  ELSE {V \in SUBSET here : Cardinality(here \ V) = Capacity - 1}

Victims(s) ==
  LET here == Cached(pool[s]) IN
  IF InTxn(s) \/ Cardinality(here) < Capacity
  THEN {{}}
  ELSE {V \in SUBSET here : Cardinality(here \ V) = Capacity - 1}

(* Evicted dirty pages go to the file first. *)
WrittenBack_Mutant(s, V) == file
WrittenBack(s, V)     == FlushInto(file, pool[s], V \cap dirty[s])

(* Pager.get on a miss (a hit changes nothing). *)
Read(s, n) ==
  /\ mode[s] \in {"idle", "auto", "txn"}
  /\ n < numPages[s]
  /\ pool[s][n] = Absent
  /\ \E V \in Victims(s) :
       /\ pool' = [pool EXCEPT ![s] = [m \in Page |-> IF m = n THEN file.page[n]
                                                      ELSE IF m \in V THEN Absent
                                                      ELSE pool[s][m]]]
       /\ file' = WrittenBack(s, V)
       /\ dirty' = [dirty EXCEPT ![s] = @ \ V]
  /\ UNCHANGED <<disk, log, sharedEnd, writer, mode, txnState, numPages, walPos,
                 history, crashes>>

(* refresh_from_wal, before a statement outside a transaction.  The first   *)
(* look of the process publishes this session's position; later ones adopt  *)
(* the batches up to the published end, one batch a step: stopping between  *)
(* two is what a refresh before the second one's commit would have done.    *)
MayRefresh_Mutant(s) == mode[s] \in {"idle", "txn"}
MayRefresh(s)     == mode[s] = "idle"

RefreshFirst(s) ==
  /\ MayRefresh(s)
  /\ sharedEnd = 0
  /\ sharedEnd' = walPos[s]
  /\ UNCHANGED <<storage, writer, mode, caches, txnState, numPages, walPos, history, crashes>>

Adopted_Mutant(pl, images) ==
  [n \in Page |-> IF pl[n] # Absent /\ images[n] # Absent THEN images[n] ELSE pl[n]]
Adopted(pl, images) == Overlay(pl, images)

Refresh(s) ==
  /\ MayRefresh(s)
  /\ sharedEnd > walPos[s]
  /\ \E i, j \in DOMAIN log, c \in 0 .. MaxPages :
       /\ NextBatch(log, walPos[s], sharedEnd, i, c, j)
       /\ LET images == Merged(EnteredAt(log, i, c), i .. j) IN
            /\ pool' = [pool EXCEPT ![s] = Adopted(@, images)]
            /\ dirty' = [dirty EXCEPT ![s] = @ \ Held(images)]
       /\ numPages' = [numPages EXCEPT ![s] = Larger(@, log[j].num)]
       /\ walPos' = [walPos EXCEPT ![s] = log[j].upto]
  /\ UNCHANGED <<storage, sharedEnd, writer, mode, txnState, history, crashes>>

-----------------------------------------------------------------------------
(* Transactions.  An autocommit statement (and bulk_insert) holds the       *)
(* writer lock from begin to commit; an explicit transaction takes it for   *)
(* each write statement of SQL and for COMMIT, and gives it back.           *)

IsNextTxn(t) == /\ fate[t] = "unused"
                /\ \A u \in 1 .. (t - 1) : fate[u] # "unused"

Begin(s, how) ==
  /\ mode[s] = "idle"
  /\ \/ how = "auto" /\ writer = NoOne /\ writer' = s
     \/ how = "txn" /\ UNCHANGED writer
  /\ \E t \in Txn : /\ IsNextTxn(t)
                    /\ tx' = [tx EXCEPT ![s] = t]
                    /\ fate' = [fate EXCEPT ![t] = "active"]
  /\ mode' = [mode EXCEPT ![s] = how]
  /\ atBegin' = [atBegin EXCEPT ![s] = pool[s]]
  /\ UNCHANGED <<storage, sharedEnd, caches, touched, shadow, numPages, walPos,
                 wrote, crashes>>

(* The pre-image Pager.write keeps when a transaction first touches a page. *)
ShadowImage_Mutant(s, n) == pool[s][n]

ShadowImage(s, n) ==
  IF n \in touched[s] THEN shadow[s][n]
  ELSE IF pool[s][n] # Absent THEN pool[s][n]
  ELSE IF n < file.len THEN file.page[n]
  ELSE Absent

Put(s, n, img) ==
  /\ shadow' = [shadow EXCEPT ![s][n] = ShadowImage(s, n)]
  /\ pool' = [pool EXCEPT ![s][n] = img]
  /\ dirty' = [dirty EXCEPT ![s] = @ \cup {n}]
  /\ touched' = [touched EXCEPT ![s] = @ \cup {n}]

(* A statement changes a page it sees.  (bulk_insert inside BEGIN writes     *)
(* without the writer lock, so no lock is needed to write.)                 *)
Write(s, n) ==
  /\ InTxn(s)
  /\ n < numPages[s]
  /\ Put(s, n, View(s, n) \cup {tx[s]})
  /\ UNCHANGED <<storage, sharedEnd, writer, mode, tx, atBegin, numPages, walPos,
                 history, crashes>>

(* Pager.allocate, and the write of a new node that always follows it. *)
Allocate(s) ==
  /\ InTxn(s)
  /\ numPages[s] < MaxPages
  /\ Put(s, numPages[s], {tx[s]})
  /\ numPages' = [numPages EXCEPT ![s] = @ + 1]
  /\ UNCHANGED <<storage, sharedEnd, writer, mode, tx, atBegin, walPos, history, crashes>>

Batch(s) == [n \in Page |-> IF n \in touched[s] THEN pool[s][n] ELSE Absent]

EndTxn(s, outcome, next) ==
  /\ mode' = [mode EXCEPT ![s] = next]
  /\ writer' = IF mode[s] = "auto" THEN NoOne ELSE writer
  /\ touched' = [touched EXCEPT ![s] = {}]
  /\ shadow' = [shadow EXCEPT ![s] = NoImages]
  /\ tx' = [tx EXCEPT ![s] = NoTxn]
  /\ atBegin' = [atBegin EXCEPT ![s] = NoImages]
  /\ fate' = [fate EXCEPT ![tx[s]] = outcome]

(* COMMIT: the touched pages go to the log as one batch and its end is      *)
(* published.  A transaction that wrote nothing leaves the log alone.       *)
Commit(s) ==
  /\ InTxn(s) /\ LockFree(s)
  /\ \/ /\ touched[s] = {}
        /\ UNCHANGED <<log, walPos, sharedEnd, wrote>>
     \/ /\ touched[s] # {}
        /\ log' = AppendGroup(log, Batch(s), numPages[s], "commit")
        /\ walPos' = [walPos EXCEPT ![s] = LogSize(log')]
        /\ sharedEnd' = Larger(sharedEnd, LogSize(log'))
        /\ wrote' = [wrote EXCEPT ![tx[s]] = touched[s]]
  /\ EndTxn(s, "committed", "idle")
  /\ UNCHANGED <<file, disk, caches, numPages, crashes>>

(* Pager.rollback_txn: pre-images go back, and the pages come out clean. *)
RestoredPool_Mutant(s)  ==
  [n \in Page |-> IF n \in touched[s] /\ shadow[s][n] # Absent THEN shadow[s][n]
                  ELSE pool[s][n]]
RestoredDirty_Mutant(s) == dirty[s]

RestoredPool(s)  == [n \in Page |-> IF n \in touched[s] THEN shadow[s][n] ELSE pool[s][n]]
RestoredDirty(s) == dirty[s] \ touched[s]

Restore(s) == /\ pool' = [pool EXCEPT ![s] = RestoredPool(s)]
              /\ dirty' = [dirty EXCEPT ![s] = RestoredDirty(s)]

Rollback(s) ==
  /\ InTxn(s)
  /\ Restore(s)
  /\ EndTxn(s, "aborted", "idle")
  /\ UNCHANGED <<storage, sharedEnd, numPages, walPos, wrote, crashes>>

-----------------------------------------------------------------------------
(* Checkpoint and close *)

CheckpointFlush(s) ==
  /\ Alone(s)
  /\ \/ mode[s] = "idle" /\ mode' = [mode EXCEPT ![s] = "checkpoint"]
     \/ mode[s] = "closing" /\ mode' = [mode EXCEPT ![s] = "lastcheckpoint"]
  /\ file' = FlushInto(file, pool[s], dirty[s])
  /\ dirty' = [dirty EXCEPT ![s] = {}]
  /\ UNCHANGED <<disk, log, sharedEnd, writer, pool, txnState, numPages, walPos,
                 history, crashes>>

CheckpointReset(s) ==
  /\ \/ mode[s] = "checkpoint" /\ mode' = [mode EXCEPT ![s] = "idle"]
     \/ mode[s] = "lastcheckpoint" /\ mode' = [mode EXCEPT ![s] = "leaving"]
  /\ disk' = Synced
  /\ log' = << >>
  /\ walPos' = [walPos EXCEPT ![s] = HeaderBytes]
  /\ UNCHANGED <<file, sharedEnd, writer, caches, txnState, numPages, history, crashes>>

(* close rolls an open transaction back.  The last session goes on to a     *)
(* checkpoint; one that leaves others behind, or is closed with             *)
(* checkpoint=False, is unregistered at once.                               *)
Close(s) ==
  /\ mode[s] \in {"idle", "txn"}
  /\ \E next \in {"closing", "leaving"} :
       /\ next = "closing" => Alone(s)
       /\ \/ /\ mode[s] = "idle"
             /\ mode' = [mode EXCEPT ![s] = next]
             /\ UNCHANGED <<writer, caches, txnState, fate>>
          \/ /\ mode[s] = "txn"
             /\ Restore(s)
             /\ EndTxn(s, "aborted", next)
  /\ UNCHANGED <<storage, sharedEnd, numPages, walPos, wrote, crashes>>

(* What a closed or crashed session leaves of its own state: nothing. *)
Forget(S) ==
  LET Fresh(v, x) == [s \in Session |-> IF s \in S THEN x ELSE v[s]] IN
  /\ pool' = Fresh(pool, NoImages) /\ dirty' = Fresh(dirty, {})
  /\ touched' = Fresh(touched, {}) /\ shadow' = Fresh(shadow, NoImages)
  /\ tx' = Fresh(tx, NoTxn) /\ atBegin' = Fresh(atBegin, NoImages)
  /\ numPages' = Fresh(numPages, 1) /\ walPos' = Fresh(walPos, HeaderBytes)

(* The checkpoint looks again for other sessions; finding one it raises,    *)
(* and the pager is neither flushed nor closed.                             *)
CloseRefused(s) ==
  /\ mode[s] = "closing"
  /\ ~Alone(s)
  /\ mode' = [mode EXCEPT ![s] = "closed"]
  /\ Forget({s})
  /\ UNCHANGED <<storage, sharedEnd, writer, history, crashes>>

(* Pager.close: the dirty pages go to the file, and no one syncs it.        *)
Leave(s) ==
  /\ mode[s] = "leaving"
  /\ file' = FlushInto(file, pool[s], dirty[s])
  /\ mode' = [mode EXCEPT ![s] = "closed"]
  /\ Forget({s})
  /\ UNCHANGED <<disk, log, sharedEnd, writer, history, crashes>>

-----------------------------------------------------------------------------
(* Crashes *)

(* Transactions a crash finds open will never be logged. *)
Dropped == [t \in Txn |-> IF fate[t] = "active" THEN "aborted" ELSE fate[t]]

(* What writing the batch of s can leave at the end of the log: all of it,  *)
(* or the frames of its lower pages, stopping after a frame or inside one.  *)
Fragments(s) ==
  {[images |-> [n \in Page |-> IF n < cut THEN Batch(s)[n] ELSE Absent], end |-> how] :
     cut \in 0 .. MaxPages, how \in {"none", "torn"}}
  \cup {[images |-> Batch(s), end |-> "commit"]}

InterruptedAppend(s) ==
  /\ InTxn(s) /\ LockFree(s) /\ touched[s] # {}
  /\ \E g \in Fragments(s) :
       /\ g.end = "none" => Held(g.images) # {}
       /\ log' = AppendGroup(log, g.images, numPages[s], g.end)
  /\ fate' = [Dropped EXCEPT ![tx[s]] = "indoubt"]
  /\ wrote' = [wrote EXCEPT ![tx[s]] = touched[s]]

Crash ==
  /\ crashes < MaxCrashes
  /\ \E s \in Session : mode[s] # "closed"
  /\ \/ UNCHANGED <<log, wrote>> /\ fate' = Dropped
     \/ \E s \in Session : InterruptedAppend(s)
  /\ \E kept \in SUBSET {n \in Page : file.page[n] # disk.page[n]},
        len \in disk.len .. file.len :
          /\ file' = Survivor(file, disk, len, kept)
          /\ disk' = Survivor(file, disk, len, kept)
  /\ mode' = [s \in Session |-> "closed"]
  /\ Forget(Session)
  /\ sharedEnd' = 0
  /\ writer' = NoOne
  /\ crashes' = crashes + 1

-----------------------------------------------------------------------------
Step(s) ==
  \/ OpenReplay(s) \/ OpenReset(s) \/ OpenRegister(s)
  \/ \E n \in Page : Read(s, n) \/ Write(s, n)
  \/ RefreshFirst(s) \/ Refresh(s)
  \/ \E how \in {"auto", "txn"} : Begin(s, how)
  \/ Allocate(s) \/ Commit(s) \/ Rollback(s)
  \/ CheckpointFlush(s) \/ CheckpointReset(s)
  \/ Close(s) \/ CloseRefused(s) \/ Leave(s)

Next == (\E s \in Session : Step(s)) \/ Crash

Spec == Init /\ [][Next]_vars

-----------------------------------------------------------------------------
(* Properties *)

LoggedTxns == {t \in Txn : fate[t] \in {"committed", "indoubt"}}

(* No page of the database file carries a transaction that has not begun    *)
(* to enter the log: eviction, flush, close and rollback (pager.py:66, 134,  *)
(* 116) never let uncommitted bytes reach the file.                          *)
NoUncommittedBytes ==
  \A n \in Page : file.page[n] \cup disk.page[n] \subseteq LoggedTxns

(* Whatever page a session looks at (pager.py:75), it sees no transaction    *)
(* but logged ones and its own: neither another session's open transaction   *)
(* nor a rolled-back one, its own included.                                  *)
NoDirtyReads ==
  \A s \in Session : \A n \in Page : View(s, n) \subseteq LoggedTxns \cup {tx[s]}

(* collect_commit (pager.py:129) and flush (pager.py:136) index the pool     *)
(* with every touched and every dirty page; none of them has been evicted    *)
(* or popped by a rollback, so neither raises KeyError.                      *)
MarkedPagesCached ==
  \A s \in Session : touched[s] \cup dirty[s] \subseteq Cached(pool[s])

(* A page that was cached when the transaction began, and that it has not    *)
(* written, still reads the same: refresh stands back (engine.py:101) and    *)
(* eviction pauses (pager.py:67) for as long as the transaction lasts.       *)
CachedSnapshotHolds ==
  \A s \in Session : InTxn(s) =>
    \A n \in Page \ touched[s] :
      atBegin[s][n] # Absent => pool[s][n] = atBegin[s][n]

(* A rollback (engine.py:421, also that of close, engine.py:186) leaves every page that was cached when the     *)
(* transaction began with the image it had then, however often it was        *)
(* written in between.                                                       *)
RollbackRestores ==
  [][\A s \in Session :
       (InTxn(s) /\ mode'[s] \in {"idle", "closing", "leaving"} /\ fate'[tx[s]] = "aborted") =>
         \A n \in Page : atBegin[s][n] # Absent => pool'[s][n] = atBegin[s][n]]_vars
=============================================================================
