------------------------------- MODULE WalLog -------------------------------
(***************************************************************************)
(* The write-ahead log of leafdb (src/leafdb/wal.py) as a value, and the   *)
(* database file it is replayed over.                                      *)
(*                                                                         *)
(* One append_batch writes a group: the frames of its page images, in page *)
(* order, and then a commit frame carrying num_pages.  A crash inside the  *)
(* write leaves a group with fewer frames and no commit frame; its `end'   *)
(* says how it stops: "commit", "none" (after a whole frame) or "torn"     *)
(* (inside a frame).  The log is the sequence of its groups, and `upto' is *)
(* the byte offset at which a group stops.                                 *)
(*                                                                         *)
(* A file is [len, page]: its length in pages and its pages, blank from    *)
(* len on (Pager._read_page pads a short read with zeros).                 *)
(***************************************************************************)
EXTENDS Integers, Sequences, FiniteSets

CONSTANTS MaxPages,   \* bound: pages 0 .. MaxPages - 1 are ever used
          Absent      \* marks a page with no image in a pool or in a group

ASSUME MaxPagesAssumption == MaxPages \in Nat \ {0}

Page == 0 .. (MaxPages - 1)

HeaderBytes      == 10     \* WAL_HEADER
PageFrameBytes   == 4112   \* 16 bytes of frame header, one page
CommitFrameBytes == 20     \* 16 bytes of frame header, num_pages
TornBytes        == 1      \* a piece of a frame; only its being there matters

Larger(a, b) == IF a >= b THEN a ELSE b
Largest(S) == CHOOSE m \in S : \A x \in S : x <= m

-----------------------------------------------------------------------------
(* Files *)

(* Pager.flush: every dirty page of the pool goes to its place. *)
FlushInto(f, pool, dirty) ==
  [len  |-> Largest({f.len} \cup {n + 1 : n \in dirty}),
   page |-> [n \in Page |-> IF n \in dirty THEN pool[n] ELSE f.page[n]]]

(* What a crash can leave of file f when d is its last synced state: writes *)
(* since then survive or not, page by page; a process that dies without a   *)
(* power loss keeps them all.                                               *)
Survivor(f, d, len, kept) ==
  [len  |-> len,
   page |-> [n \in Page |-> IF n \in kept /\ n < len THEN f.page[n] ELSE d.page[n]]]

-----------------------------------------------------------------------------
(* The log *)

Held(images) == {n \in Page : images[n] # Absent}

LogSize(log) == IF log = << >> THEN HeaderBytes ELSE log[Len(log)].upto

GroupStart(log, i) == IF i = 1 THEN HeaderBytes ELSE log[i - 1].upto

EndBytes(how) == CASE how = "commit" -> CommitFrameBytes
                   [] how = "torn"   -> TornBytes
                   [] how = "none"   -> 0

(* append_batch, or the part of it that a crash left: always at the end of *)
(* the file, whatever is there.                                            *)
AppendGroup(log, images, num, how) ==
  Append(log, [images |-> images, num |-> num, end |-> how,
               upto |-> LogSize(log) + PageFrameBytes * Cardinality(Held(images))
                          + EndBytes(how)])

(* The groups whose commit frame a parser starting at group i reaches: it   *)
(* goes on over groups that merely stop, and gives up at a torn frame.      *)
CommitsFrom(log, i) ==
  {j \in i .. Len(log) : /\ log[j].end = "commit"
                         /\ \A k \in i .. (j - 1) : log[k].end # "torn"}

(* The image of page n after the groups K, in log order. *)
LatestImage(log, K, n) ==
  LET H == {k \in K : log[k].images[n] # Absent}
  IN  IF H = {} THEN Absent ELSE log[Largest(H)].images[n]

Merged(log, K) == [n \in Page |-> LatestImage(log, K, n)]

Overlay(pages, images) ==
  [n \in Page |-> IF images[n] # Absent THEN images[n] ELSE pages[n]]

(* recover: frames collect in `batch' until a commit frame applies them all *)
(* (those an interrupted append left before it too) and pads the file.      *)
Applied_Mutant(log) == {k \in DOMAIN log : \A i \in 1 .. (k - 1) : log[i].end # "torn"}

Applied(log) == {k \in DOMAIN log : \E j \in CommitsFrom(log, 1) : k <= j}

Replay(log, f) ==
  [len  |-> Largest({f.len} \cup {log[j].num : j \in CommitsFrom(log, 1)}
              \cup {n + 1 : n \in Held(Merged(log, Applied(log)))}),
   page |-> Overlay(f.page, Merged(log, Applied(log)))]

(* What a parser finds of a group that it enters after its first c frames.  *)
Rest(images, c) ==
  [n \in Page |-> IF Cardinality({m \in Held(images) : m <= n}) > c THEN images[n] ELSE Absent]

EnteredAt(log, i, c) == [log EXCEPT ![i].images = Rest(@, c)]

(* read_batches_from: the next whole batch from byte `pos' on that ends by  *)
(* byte `end' is made of the groups i .. j, without the first c frames.     *)
(* The position is a batch's end when it is taken, but the log may have     *)
(* been reset and have grown past it since: then it can fall on any frame.  *)
NextBatch(log, pos, end, i, c, j) ==
  /\ c <= Cardinality(Held(log[i].images))
  /\ GroupStart(log, i) + PageFrameBytes * c = pos
  /\ j \in CommitsFrom(log, i)
  /\ \A k \in i .. (j - 1) : log[k].end # "commit"
  /\ log[j].upto <= end
=============================================================================
