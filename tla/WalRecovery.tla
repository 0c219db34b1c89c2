---------------------------- MODULE WalRecovery ----------------------------
(***************************************************************************)
(* recover (src/leafdb/wal.py), frame by frame and write by write, and the  *)
(* reset of the log that follows it when a database is opened.  The process *)
(* can die, or the machine lose power, between any two steps; the next open *)
(* starts over on what is left.  PageStore takes recover as one step,       *)
(* Replay; this module shows that it may.                                   *)
(***************************************************************************)
EXTENDS WalLog

CONSTANTS MaxGroups,    \* bound: groups of the log found at the first open
          MaxCrashes    \* bound: crashes of the process

ASSUME RecoveryAssumption == MaxGroups \in Nat /\ MaxCrashes \in Nat

VARIABLES
  log,        \* the log file, which recover reads at once
  file, disk, \* the database file, and what a power loss is sure to leave of it
  pc,         \* where the opening process is
  pos,        \* the frame recover has parsed last
  batch,      \* recover's `batch': image or Absent, for every page
  todo,       \* pages of the batch not written yet
  applied,    \* applied_batches
  crashes,
  found       \* history: the log and the file the first open found

vars == <<log, file, disk, pc, pos, batch, todo, applied, crashes, found>>

NoImages == [n \in Page |-> Absent]

(* A frame is a pair of a group and a page of it or, at its end, the marker *)
(* of how it ends: the commit frame, a piece of a frame, or nothing.        *)
Marker == MaxPages
Header == <<0, 0>>     \* comes before every frame

Frames == {f \in (DOMAIN log) \X (0 .. MaxPages) :
             IF f[2] = Marker THEN log[f[1]].end # "none"
                              ELSE log[f[1]].images[f[2]] # Absent}

(* Groups lie in the order of the log, the pages of a group sorted.         *)
Before(f, g) == f[1] < g[1] \/ (f[1] = g[1] /\ f[2] < g[2])

Unread    == {f \in Frames : Before(pos, f)}
IsNext(f) == f \in Unread /\ \A g \in Unread : ~Before(g, f)
Torn(f)   == f[2] = Marker /\ log[f[1]].end = "torn"

(* Every log that commits and interrupted commits can have left; the k-th   *)
(* group writes the image k.                                                *)
Endings == {e \in [pages : SUBSET Page, num : 1 .. MaxPages, end : {"commit", "none", "torn"}] :
              /\ \A n \in e.pages : n < e.num
              /\ e.end = "none" => e.pages # {}}

Logs == UNION {{[k \in 1 .. m |-> [images |-> [n \in Page |-> IF n \in e[k].pages THEN k
                                                             ELSE Absent],
                                   num    |-> e[k].num,
                                   end    |-> e[k].end]] :
                  e \in [1 .. m -> Endings]} : m \in 0 .. MaxGroups}

Init ==
  /\ log \in Logs
  /\ file \in [len : 0 .. MaxPages, page : {[n \in Page |-> 0]}]
  /\ disk = file
  /\ pc = "closed" /\ pos = Header /\ batch = NoImages /\ todo = {} /\ applied = 0
  /\ crashes = 0
  /\ found = [log |-> log, file |-> file]

-----------------------------------------------------------------------------
(* A log without a frame is left alone. *)
Start ==
  /\ pc = "closed"
  /\ pc' = IF log = << >> THEN "open" ELSE "parse"
  /\ UNCHANGED <<log, file, disk, pos, batch, todo, applied, crashes, found>>

(* The end of the log, or a frame that fails the length, magic or CRC       *)
(* check, ends the loop.                                                    *)
Ends_Mutant == Unread = {}
Ends == \A f \in Unread : IsNext(f) => Torn(f)

Collected(f) == [batch EXCEPT ![f[2]] = log[f[1]].images[f[2]]]

TakePage_Mutant ==
  /\ pc = "parse" /\ ~Ends
  /\ \E f \in Unread : IsNext(f) /\ f[2] \in Page /\ batch' = Collected(f)
  /\ UNCHANGED <<log, file, disk, pc, pos, todo, applied, crashes, found>>

TakePage ==
  /\ pc = "parse" /\ ~Ends
  /\ \E f \in Unread : IsNext(f) /\ f[2] \in Page /\ batch' = Collected(f) /\ pos' = f
  /\ UNCHANGED <<log, file, disk, pc, todo, applied, crashes, found>>

TakeCommit ==
  /\ pc = "parse" /\ ~Ends
  /\ \E f \in Unread : IsNext(f) /\ f[2] = Marker /\ pos' = f
  /\ todo' = Held(batch)
  /\ pc' = "apply"
  /\ UNCHANGED <<log, file, disk, batch, applied, crashes, found>>

WriteOne ==
  /\ pc = "apply"
  /\ \E n \in todo :
       /\ \A m \in todo : n <= m
       /\ file' = FlushInto(file, batch, {n})
       /\ todo' = todo \ {n}
  /\ UNCHANGED <<log, disk, pc, pos, batch, applied, crashes, found>>

Padded_Mutant(f, num) == [f EXCEPT !.len = @ + num]
Padded(f, num) == [f EXCEPT !.len = Larger(@, num)]

(* Pad the file to num_pages, and go on with an empty batch. *)
Pad ==
  /\ pc = "apply" /\ todo = {}
  /\ file' = Padded(file, log[pos[1]].num)
  /\ batch' = NoImages
  /\ applied' = applied + 1
  /\ pc' = "parse"
  /\ UNCHANGED <<log, disk, pos, todo, crashes, found>>

Synced_Mutant == disk
Synced == file

Sync ==
  /\ pc = "parse" /\ Ends
  /\ disk' = Synced
  /\ pc' = IF applied > 0 THEN "replayed" ELSE "open"
  /\ UNCHANGED <<log, file, pos, batch, todo, applied, crashes, found>>

Reset ==
  /\ pc = "replayed"
  /\ log' = << >>
  /\ pc' = "open"
  /\ UNCHANGED <<file, disk, pos, batch, todo, applied, crashes, found>>

Crash ==
  /\ pc # "closed" /\ crashes < MaxCrashes
  /\ \E kept \in SUBSET Page, len \in disk.len .. file.len :
       /\ file' = Survivor(file, disk, len, kept)
       /\ disk' = Survivor(file, disk, len, kept)
  /\ pc' = "closed" /\ pos' = Header /\ batch' = NoImages /\ todo' = {} /\ applied' = 0
  /\ crashes' = crashes + 1
  /\ UNCHANGED <<log, found>>

Open == Start \/ TakePage \/ TakeCommit \/ WriteOne \/ Pad \/ Sync \/ Reset

Next == Open \/ Crash

(* The opening thread is never held up by another one. *)
Spec == Init /\ [][Next]_vars /\ WF_vars(Open)

-----------------------------------------------------------------------------
Image == 0 .. MaxGroups
File  == [len : 0 .. MaxPages, page : [Page -> Image]]
Group == [images : [Page -> Image \cup {Absent}], num : 1 .. MaxPages,
          end : {"commit", "none", "torn"}]

TypeOK ==
  /\ log \in Seq(Group) /\ Len(log) <= MaxGroups
  /\ file \in File /\ disk \in File /\ disk.len <= file.len
  /\ pc \in {"closed", "parse", "apply", "replayed", "open"}
  /\ pos \in (0 .. MaxGroups) \X (0 .. MaxPages)
  /\ batch \in [Page -> Image \cup {Absent}] /\ todo \subseteq Held(batch)
  /\ applied \in 0 .. MaxGroups /\ crashes \in 0 .. MaxCrashes

(* Wherever an open is interrupted (wal.py:118, engine.py:69-73) and        *)
(* whatever a power loss keeps of its writes, the log that is left replayed *)
(* over the file that is left gives the pages, and the length, that one     *)
(* uninterrupted replay would have given.                                   *)
NothingLost ==
  LET goal == Replay(found.log, found.file)
  IN  Replay(log, file) = goal /\ Replay(log, disk) = goal

(* At no moment does the file hold an image that no commit record covers    *)
(* (wal.py:142): not from the torn tail, not from a batch still being read. *)
OnlyCommittedImages ==
  \A n \in Page :
    \/ file.page[n] = found.file.page[n]
    \/ \E k \in Applied(found.log) : file.page[n] = found.log[k].images[n]

(* Every open gets through (wal.py:130): the loop ends whatever the log     *)
(* holds, as long as the process is not killed for ever.                    *)
OpenTerminates == (pc # "open") ~> (pc = "open")
=============================================================================
