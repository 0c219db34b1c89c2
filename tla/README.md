# A TLA+ model of leafdb

leafdb (`src/README.md`) is a relational database engine in Python: a B+ tree
over 4 KB pages, a buffer pool, a write-ahead log of page images, several
sessions per file, and an SQL front end.  This directory holds TLA+ modules
that model its storage core, its catalog, its query processing and the threads
that use it, the TLC runs that check them, and TLAPS proofs about recovery, the
page store with and without its disciplines, the B+ tree, the catalog, the
threads and joins.  Every definition is translated from the source;
`PROJECT.json` names the lines of each (`map`), the mutated forms that show
that each property can fail (`mutants`), the hazards the properties are aimed
at (`hazards`) and the disagreements found (`findings`).

## The system

| part | state it keeps | operations | interacts with |
|---|---|---|---|
| log, `wal.py` | one file: header, then frames (page image or commit), each with a CRC | `append_batch`, `read_batches_from`, `reset`, `recover`, `size` | appended by commit, read by refresh of other sessions, replayed at open |
| pager, `pager.py` | per session: LRU pool of page images with dirty marks, `touched`, `shadow`, `num_pages`; the database file | `get`, `write`, `allocate`, eviction, `begin_txn`, `collect_commit`, `rollback_txn`, `flush`, `sync`, `close` | under the tree and the catalog; its pool is also written by refresh |
| sessions, `engine.py` | per `Database`: transaction flag, snapshot, position in the log; per process: table of sessions, writer lock and published log end of each path | open, `refresh_from_wal`, `begin`/`commit`/`rollback`, autocommit, `checkpoint`, `close`, `bulk_insert` | owns pager, log, tree, catalog; shares tables with other sessions |
| B+ tree, `btree.py` | nodes in pages; a cache of parsed nodes | `search`, `insert`, `upsert`, `delete`, `range_scan`, `bulk_load`, `vacuum`, `check`, `stats` | reads and writes pages through the pager |
| catalog, `catalog.py`, `freelist.py`, and index code in `engine.py` | table metas, free pages (page 0), in-memory secondary indexes | create, drop, load, save, index add, remove, rebuild, lookup | saved with every statement; snapshot taken by transactions, reloaded by refresh |
| rows, `rows.py` | none | encode, decode, coerce | between executor and tree |
| SQL: `sqlparse.py`, `planner.py`, `executor.py` | none beyond a statement | parse; access path, join strategy, filter stages; evaluate | over the catalog and the tree |
| web server and shell, `web.py`, `repl.py` | one `Database` | HTTP and terminal commands | threads of the server share the session |
| native core, `native/` | its own pager, tree and log in C++ | as above | same file formats, another process |
| bench, compare, demo, examples | none | drivers | public API |

What is hard in it, and what would make each part correct:

* **Log and recovery.**  The process can die inside an append, inside a
  replay, or between replay and reset.  Correct: replay installs whole batches
  and nothing else, it can be restarted, it ends, and no acknowledged batch is
  lost.
* **Pager.**  Eviction, rollback, adoption of other sessions' pages and flush
  all move pages between pool and file and change dirty marks.  Correct: no
  uncommitted byte in the file, no page marked that is not there, exact
  rollback, no committed page lost.
* **Sessions.**  They interleave at every file access and share only a log, a
  file and three tables.  Correct: READ COMMITTED between statements,
  REPEATABLE READ in transactions, no half transactions, durability.
* **B+ tree.**  Sizes decide splits, borrows and merges; nodes are edited in
  place in a cache that rollback does not know of.  Correct: it is a map, scans
  agree with searches, `check`'s assertions hold, no call raises, rollback is
  exact.
* **Catalog and indexes.**  Metadata live in memory, in page 0 and in
  snapshots that alias each other.  Correct: after rollback, refresh or reopen
  they describe the same tables; no page belongs to two trees; an index holds
  exactly the rows it should.
* **Planner and executor.**  Three-valued logic in two evaluators, outer joins,
  pushdown, three ways to find a row, groups, sorting in passes.  Correct: a
  query answers with the rows it means, however they are found.
* **Threads.**  Session lock, writer lock and registry lock are nested; the GET
  handlers of the web server take none.  Correct: every request ends, an
  answered write stays, a read sees whole transactions, a failed statement
  leaves nothing.

## The modules

| module | what it is |
|---|---|
| `WalLog` | the log as a value: append, parse, replay, and the parts a crash can leave |
| `PageStore` | sessions, pagers, log, file and crashes: the state machine of `engine.py`, `pager.py`, `wal.py` |
| `DurableStore` | abstract: pages change only by whole transactions, acknowledged ones stay |
| `Disciplines` | seven conditions on the steps of `PageStore`, and the cross-session guarantees under them |
| `WalRecovery` | `recover` and `reset` frame by frame and write by write |
| `Dictionary` | abstract: a map with begin, set, commit and rollback |
| `BTree` | one table's tree, its pages and its node cache, inside transactions |
| `Catalog` | a session's tables, indexes, free list, catalog page and snapshot, under SQL writes, DDL, vacuum, rollback and reopening |
| `Expressions` | values and expression trees; the interpreter and the compiled closures |
| `Relations` | abstract: what a join means as a set of combinations; two theorems about filters and joins |
| `Query` | one SELECT from its tree to its rows: planner, pipeline and the two shortcuts of the session; which rows a DELETE finds |
| `Threads` | threads that serve requests: session locks, writer lock, scripts of statements, failing statements and appends, GET handlers |
| `MCPageStore`, `MCDisciplines`, `MCCatalog` | symmetry sets for TLC |
| `MCQuery`, `MCThreads` | tables and queries, threads and scripts for TLC |
| `DisciplinesProofs` (of `PageStore` and of `Disciplines`), `WalRecoveryProofs`, `BTreeProofs`, `CatalogProofs`, `ThreadsProofs` | theorems and their proofs |
| `WalLogProofs` | lemmas about the log that the first two share |
| `BTreeShapes` | lemmas for `BTreeProofs` about pages that are a tree, whatever writes them |

`PageStore` and `WalRecovery` extend `WalLog`; `Disciplines` extends
`PageStore` and instantiates `DurableStore` twice, once for what a process
death leaves and once for what a power loss leaves; `BTree` and
`Catalog` instantiate `Dictionary`, one from keys to rows, the other from
tables to their contents; `Query` extends `Expressions` and `Relations`.
`BTree` and `PageStore` meet at `Pager.write` and `Pager.rollback_txn`:
`PageStore` knows page bytes of many sessions, `BTree` knows what is in them,
for one session.  `Query` takes from `Catalog` that indexes agree with their
tables.  `Threads` is above `PageStore`: it has the locks and the requests that
`PageStore` leaves to chance, and one page where `PageStore` has many.

### PageStore and the code

The state of a session is its pager's (`pool`, `dirty`, `touched`, `shadow`,
`numPages`), its position in the log (`walPos`) and what it is doing (`mode`,
one value for each place between two steps that other threads can see).  The
file is kept twice: `file` as the operating system shows it and `disk` as a
power loss is sure to leave it, that is, as of the last `fsync`.  `fate`,
`wrote` and `atBegin` are history variables.

* A **page image** is the set of transactions whose effect it carries; a write
  adds the session's own transaction to the image it sees.  Lost updates,
  dirty reads, torn transactions and stale copies are all visible in that set,
  and nothing finer is needed.
* The **log** is the sequence of its groups, each what one `append_batch`
  wrote or what a crash left of it, with real byte offsets (header 10, page
  frame 4112, commit frame 20): `_wal_pos` and the published end are offsets,
  and after a reset by someone else an old offset can fall inside a later
  batch.  `NextBatch` and `EnteredAt` model what the parser then finds.
* **Opening** is three steps (replay and sync; open, reset and read the
  catalog page; register and take the position), because other threads run in
  between.  **Checkpoint** is two (flush; sync and reset), **close** up to
  four, with the session already unregistered before its last flush
  (engine.py:194-200).
* **Eviction** takes any pages: hits reorder the pool at any time, so every
  victim is possible.  **Refresh** adopts one batch a step and may be left out:
  `execute_script` refreshes once for all its statements, `begin()` and
  `bulk_insert()` never do.
* **Writing** needs a transaction but no lock, since `bulk_insert` inside
  BEGIN takes none (engine.py:139); commit takes the writer lock, autocommit
  holds it throughout.
* A **crash** stops all sessions (they are one process), can cut an append
  after any frame or inside one, and lets every page written since the last
  `fsync` survive or not.  A plain process death is the case where all survive.

Left out: the catalog is one page like any other; the WAL is always synced
(`LEAFDB_FSYNC` at its default); the truncation in `reset` is atomic; writes
reach the operating system at once (Python may hold a written page in a buffer
until its next seek, which looks like a later eviction); pages written outside
any transaction (in `Catalog`), failing appends (in `Threads`), and other
processes.

### BTree and the code

A row is the length of its encoding, since only lengths decide what the tree
does.  The sizes of header, cell, key and child (9, 12 + length, 8, 4) are the
code's; page size, spare bytes, bulk-load slack and fanout are constants and
are scaled down, as the repository's own tests do (`tests/test_leafdb.py:285`).
Each operation is a function from a tree and a root to a tree and a root that
performs the page writes in the code's order, stops where an exception stops
it, and keeps what had been done by then.

The **node cache** holds, per page, the bytes object a node was parsed from,
and the node.  `_load` uses an entry while the pool holds that object.  Nodes
are edited in place before they are written.  An entry that agrees with its
bytes is as good as none, so the model keeps only entries that do not:
`altered` for the bytes now in the pool, `spoiled` for the bytes in `shadow`,
which a rollback brings back as the same object.

`Tidy` renames the pages breadth first between transactions and drops those
nothing refers to.  Page numbers there are names only the tree uses, so this
merges equivalent states; it hides that merged pages leak.

Three disciplines restrict runs (`Assumed`): `reread` (what a transaction
wrote it reads again before it rolls back), `fits` (no call raises), `still`
(no vacuum).  Without `reread` a rolled-back row is still found, through the
edited node in the cache (btree.py:114): BEGIN, INSERT, ROLLBACK, SELECT shows
it.  Without `fits`, among rows of half a page, delete borrows the only cell of
a leaf and raises IndexError (btree.py:305), and an upsert that grows a row in
a full leaf overflows its page (btree.py:222).  Vacuum is modelled between
transactions.

### Catalog and the code

`db` is what one `Database` holds: `page` the pages of the trees, `cat` the
tables the catalog page names, `tables` and `free` the `Catalog` object,
`indexes` and `snap` the fields of those names.  `stored` is what the file and
the log hold, so a rollback of the pager is a copy of it; that the
pager's rollback does this is what `PageStore` and its proofs are about.

* Each **statement** is a function from the session to the session and to
  whether it raises: a taken name or row id, a missing table, the second row
  of an UPDATE, or a catalog too large for its page.  What it had done by then
  stays, as in the code; in autocommit a rollback follows, inside BEGIN only if
  the caller rolls back.  `bulk_insert` and `vacuum` take no snapshot.
* **UPDATE and DELETE** write their rows one by one in the code, each row to the
  tree and to the index before the next.  No statement sees less than all of
  it, so `Rewritten` is the result for a set of rows; an UPDATE that raises has
  written the first of them (`First`), by row id, the order of the scan and of
  the index alike.  INSERT is row by row, since its second row can collide with
  its first.
* **Vacuum** packs the rows into a new tree and leaves the old one where it is.
  Outside a transaction its pages are in no batch: `loose` is what the pages
  hold beyond `stored` since then, `wrote` the pages a transaction writes in
  that state, and a commit logs those only.  A death forgets `loose`.
* **Flushing** them is page by page: `Pager.flush` writes the dirty pages in
  the order of their numbers, page 0 first (pager.py:134), and evictions write
  some of them earlier (pager.py:66), so `FlushPage` and `FlushCatalog` come in
  any order and the session may die between any two.  `Checkpoint` resets the
  log when all are written.  If the log has an image of the catalog page
  (`logged`), replay puts that image over the one in the file until then.
* The **snapshot** is taken before the first write of SQL.  It copies the
  numbers of every table but shares their dictionaries of indexes
  (catalog.py:53); `live` names the tables for which it does, and `Declared`
  changes both.
* A **tree** is a leaf, or a root over the leaf that was the root before, so
  that roots move up and down and DROP TABLE frees more than one page.
  A page is told from another by the rows a search from it finds.
* The **free list** is written with the catalog and never read back, and a
  rollback empties it (the restored `Catalog` is a new one): pages leak.
  Between transactions pages nothing names count as unused and free pages as
  blank (`Tidy`): nothing reads what is left in them.
* The catalog page has **room** for so many tables, indexes and free pages,
  which are what makes its text grow.
* A **table** has a row id and one more column, which may be NULL and may be
  indexed.

Five disciplines restrict the callers (`Assumed`): `failed` (who sees a
statement fail rolls back next), `index` (who creates or drops an index does
not roll back), `bulk` (no rollback of a `bulk_insert` or vacuum that no SQL
write preceded, including the one its own failure calls for), `vacuum` (who
vacuums outside a transaction checkpoints next), `survive` (no death after
such a vacuum while the file has its catalog page, the log has none, and a
tree the page names is not in the file yet).  Each is needed: without
`failed` a commit leaves the catalog in memory ahead of its page, without
`bulk` a rollback does; without `index` a rollback leaves a declared index with
no entries, and a query by that column finds nothing (engine.py:473); what
happens without `vacuum` is the run `vacuum_outside_txn`.  Without `survive` a
death in the middle of the checkpoint that `vacuum` asks for leaves a catalog
whose root is in neither file nor log: the pages of the new tree were in no
batch, and page 0 was written first.

### Query and the code

A query is a record of its clauses (`sel`), asked of some contents of the
tables (`db`).  The steps are those of the code: the lookup by primary key that
bypasses the planner (`Lookup`, engine.py:280), or `Plan` (access path, side
and key of each join, stage of each term of WHERE), `Scan`, one `Join` for each
further table, each followed by the terms of its stage, then `Project` (groups,
HAVING, select list, DISTINCT), `Sort` and `Slice`.  Any of them may raise,
which ends the query.

* A **value** is a type and a number: NULL, integers, texts (known by their
  place in the order of texts) and conditions, with the code's comparisons:
  TRUE equals 1, a text equals no number, an order between them raises.
* A **combination** of rows is the sequence of their row ids, 0 for the side an
  outer join left empty.
* **Two evaluators.**  `Interpreted` evaluates every operand as `eval_expr`
  does, `Compiled` stops early as the closures do; `Connective` is their AND
  and OR.
* `MatchingRows` is the other way to choose rows, that of UPDATE and DELETE.
* What a query **means** is said without plan, order or algorithm:
  `MeaningOfFrom` joins sets (`Relations`), `Meaning` keeps what makes every
  term of WHERE true, `MeaningOfUnits` groups it.

Four disciplines restrict the queries asked (`Assumed`): `outer` (no term is
applied before a later RIGHT or FULL join), `like` (a pattern of LIKE names no
column of a table joined later: planner.py:67 does not look at it and compiles
it too early), `fast` (a lookup by primary key selects columns and literals
only: other select lists are looked at only if the row is there), `bare` (the
terms of WHERE are conditions; a bare number is true to SELECT in one place
and not in another, and DELETE then finds other rows than SELECT shows).

Left out: fractions (REAL values, AVG), the characters of texts and patterns,
the messages of errors, EXPLAIN, UPDATE's SET list, and the parser.

### Threads and the code

A request is a thread with a script: the statements of one `execute` or
`execute_script`, or of a sequence of calls, as a caller makes them around
`begin()` or `bulk_insert()`.  Each call takes the lock of the session and gives
it back (`Enter`, `Leave`, `Advance`; engine.py:129, 220, 240, 382, 400, 418), and
between two calls of a request, also inside its transaction, other threads can
call the same session.  `pc` is the place in `_run_one` and `_commit_locked` where other
threads can come in between; `lock` and `writer` are the two locks.  A POST of
the web server is such a request to the one session its threads share.

* Every statement that changes anything rewrites the catalog page, so **one
  page** tells the writes of all sessions apart.  Its image is the set of
  writes it carries, and a batch of the log is an image.
* A call of `execute_script` refreshes **once**, before its first statement and
  before the writer lock (engine.py:241); `begin()`, `commit()`, `rollback()` and
  `bulk_insert` do not refresh.
* A statement that **raises** is undone in autocommit; inside BEGIN nothing is,
  the request ends and leaves the transaction of the session open.
* An **append that fails** (engine.py:407) has already closed the pager's
  transaction while that of the session stays open: later writes are answered
  and never logged.
* A **GET handler** walks the tree without the lock.  `Look` is `Pager.get` of a
  page that is not in the pool; `Store` puts what was read into the pool,
  whatever is there by then (pager.py:82-86).

What requests can count on is stated under five conditions.  Nothing enforces
them, and the history variable `broken` records which have been broken:
`latest` (who commits has adopted all commits before), `append` (no append
fails), `whole` (a script that begins a transaction ends it), `alone` (a session is
called only by the request that has a transaction open in it), `current` (what a
GET handler puts into the pool is what the pool shows).  Without `current` a
write that was answered is lost: a handler reads the page, a POST writes it,
the handler puts the old page over it, and the old page is committed.  The run
`writers_serialize` shows the same for `latest`.  Without `alone` and `whole` a
request that writes between the `begin()` and the `rollback()` of another is
answered, and its write goes with that rollback.  That every request ends holds
without any condition.

Left out: `checkpoint` and `close` (in `PageStore`), and the answers of
`/api/tables` and `/api/stats`, which read the catalog object and counters.  A
GET handler and a POST also share one file position (pager.py:55, 62); two
threads between seek and read or write can take each other's place in the
file.  That is not modelled: it would make every guarantee conditional on one
more condition of the same kind.

## The runs

| run | bounds | distinct states | shows |
|---|---|---|---|
| `page_store` | 2 sessions, 2 pages, 2 transactions, 1 crash, pool of 1 | 416 000 | what the code guarantees whatever its callers do |
| `disciplined` | as above, 3 transactions; all seven disciplines | 625 000 | the page store implements `DurableStore`, after a death and after a power loss; READ COMMITTED, REPEATABLE READ, no half transactions |
| `wal_recovery` | every log of up to 3 groups, 2 pages, 2 crashes | 796 000 | recovery is exact, restartable and ends |
| `btree_uniform` | 6 keys, rows of one length, 2 calls a transaction, three levels; `reread`, `still` | 34 000 | calls do what they say and the tree is a map; balance, occupancy, cache, no exception |
| `btree_mixed` | 4 keys, short rows and rows of half a page, vacuum; `reread`, `fits` | 97 000 | the tree stays a map although its pages are badly filled |
| `catalog` | 2 tables, 2 row ids, 3 pages, 2 statements a transaction, a catalog page with room for 3; all five disciplines | 1 366 000 | catalog, indexes, counts and page owners stay right; the database is a map from tables to rows |
| `query` | some 600 queries, each over all contents of one table of 2 or 3 rows, or of two or three tables of up to 2; all four disciplines | 208 000 | answers are what queries mean; DELETE agrees with SELECT; sound queries do not fail; both evaluators agree; sorting is stable |
| `threads` | 3 threads, 2 sessions, 5 scripts in every mix, a GET handler; all five conditions, but for the last property | 742 000 | answered writes stay, reads are whole, failures leave nothing, every request ends |

Four further runs show disagreements between code and documents; each checks
one property and finds it violated:

| run | what the code does |
|---|---|
| `rollback_marks_clean` | a rollback takes the dirty mark of a page that is committed but not in the file; a checkpoint then discards the log and with it the commit (pager.py:122) |
| `vacuum_outside_txn` | a vacuum outside a transaction, a commit, a crash: the log names the root of the new tree and holds none of its pages; the table can no longer be read (engine.py:728) |
| `filter_below_outer_join` | a term of WHERE whose tables are joined already (in the trace one that names none) is applied before a later FULL join, which brings rows back that it should have rejected (planner.py:108); the same goes for RIGHT |
| `writers_serialize` | two calls of `execute` on two sessions: a session refreshes before it waits for the writer lock, and then commits its whole pages over what was committed meanwhile (engine.py:241) |

The second and third can be reproduced with a few lines of Python against the
source (the third against `sqlite3`, as `tests/test_differential.py` does).

### What else the models met

These have no run of their own, because a discipline or a condition already
names them; relaxing it shows them.

* A torn tail that holds no whole batch is not removed at open, and what is
  committed behind it is never replayed (wal.py:39; discipline `append`).
* A rolled-back row is still found (btree.py:114; `reread`); rows of half a
  page make delete raise (btree.py:305; `fits`); CREATE INDEX and ROLLBACK
  leave an empty index that is declared (engine.py:473; `index`).
* A death inside the checkpoint that follows a vacuum outside a transaction
  loses the vacuumed table (pager.py:134; `survive`).
* The lock of a session is free between `begin()` and `commit()` or `rollback()`:
  another thread's write in between becomes part of that transaction, is
  answered, and is undone with it (engine.py:382, 418; `alone`).
* After a failed append writes are answered and never logged (engine.py:407;
  `append` of `Threads`); a script that fails inside BEGIN leaves its
  transaction to the next request (engine.py:262; `whole`).
* COMMIT of a transaction that wrote nothing waits for the writer lock
  (engine.py:404).

### The disciplines of the page store

The documents promise durability and isolation outright.  The code keeps these
promises under seven conditions that nothing in it enforces:

| discipline | condition |
|---|---|
| `rollback` | a rollback restores no page that is committed but not in the file |
| `append` | nothing is appended behind an interrupted batch |
| `commit` | who commits changes has adopted all other commits |
| `quiet` | nothing is committed while a session opens, checkpoints or closes |
| `reset` | the log is reset only by the only session, and none opens meanwhile |
| `flush` | who checkpoints or closes has adopted all other commits |
| `evict` | a clean page is evicted only if the file has it, a dirty one only if it is the latest |

What a session sees from its BEGIN to its COMMIT (`RepeatableRead`,
`NoHalfTransactions`) needs that the file, but for a crash, changes only while
no session is behind.  That is no discipline but a history, `stood`: durability
and READ COMMITTED are checked, and proved, also where it fails.

The constant `Relaxed` of `Disciplines` names those an instance does without.
Each is needed.  Relaxing `rollback`, `append`, `commit`, `quiet` or `flush`
violates `CommittedIsRecoverable`, and relaxing `reset` or `evict` violates
`SeesCommitted`, within 2 transactions; without `stood`, `RepeatableRead` fails
within 3.  In particular a session that has not adopted
another's commit logs the whole page without it (engine.py:408), and inside
BEGIN a page that is not cached is read from a file that another session has
flushed meanwhile (pager.py:83), where `src/README.md:31` promises that
transactions hold their snapshot.

### Why the bounds are enough

Two sessions are the fewest that can interfere, and every discipline concerns
one session and "the others".  Two pages are the fewest for half a
transaction, a torn batch and an eviction that spares one page; a pool of one
page makes eviction happen at every miss.  Three transactions allow a commit
before, during and after another session's; one crash tears an append, and
what follows it includes a second recovery.  Three groups in `wal_recovery`
put an interrupted group before, between and behind whole ones.  Six keys in
pages of three cells (a minimum of one) give a tree of three levels, so that
internal nodes split, borrow on both sides, merge and collapse; wrong
separators in each of these were tried and are caught at these bounds.  Two
tables with leaves of one row and three pages let one tree split while the
other takes a page off the free list; two statements make a transaction that
drops a table and puts another on its pages before it rolls back.  A fourth
page was tried once for the catalog (2.9 million states) and showed nothing
more.

In `query` two rows a table are the fewest for a row with and one without a
partner on either side, three for groups and for a sort in which two rows
agree; three tables are the fewest for a term between two outer joins.  The
queries are listed in `MCQuery`: each access path, join, operator and clause,
and the places where they meet.  In `threads` two threads share a session and a
third has its own: the fewest for both kinds of interference.  The scripts are
a write, a failing write, and transactions that commit two writes, that read
and then fail, and that roll a `bulk_insert` back, the last in three calls or
more; the others may be one call each.  The GET handler may look and store at any
time, any number of times.  In `writers_serialize` every request is one `execute`
of a write, so that each of them refreshes before it waits.

The number of transactions, calls and crashes is bounded by `MaxTxns`,
`MaxCalls` (per transaction, of which there is no bound) and `MaxCrashes`; the
file by `MaxPages`; requests by their scripts; the node cache's limit of 512
nodes is modelled as a clearing that may happen at any time.

### Fairness

`WalRecovery` states weak fairness of the opening process.  It
is one thread in a loop without locks or waits, over data read at once, so it
is never stopped except by a crash, and crashes are bounded.  `OpenTerminates`
is then that opening ends in the state where the database can be used.

`Threads` states weak fairness of each request's thread: the scheduler of the
operating system runs every thread.  No lock is assumed fair (Python's are
not), and none need be: a request is finite and so are the requests, so a
thread that waits for a lock gets it at the latest when the others have ended,
provided that each gives back what it took.  That is what `EveryRequestEnds`
checks, with failing statements, failing appends and transactions left open.
GET handlers take no lock, and no fairness is assumed of them.

`wal_recovery`, `query` and `threads` (and the runs of the latter two that
expect a violation) do not check for deadlock: an open database, an answered
query and answered requests have nothing left to do.  In `threads` a deadlock
would violate `EveryRequestEnds`.

## The proofs

### The page store

The first part of `DisciplinesProofs` proves of `PageStore`, whatever its
callers do, for any number of sessions, pages, transactions and crashes and any
pool size, from the assumptions `MaxPagesAssumption`, `StoreAssumption` and
`AbsentAssumption` (bounds are naturals, there is a page and a pool, the markers
are no images and no sessions):

| theorem | property |
|---|---|
| `TypeCorrect` | `TypeOK` |
| `FileHoldsLoggedOnly` | `NoUncommittedBytes`: neither file nor disk holds a transaction that did not reach the log |
| `ReadsLoggedOrOwn` | `NoDirtyReads`: a session sees logged transactions and its own |
| `MarkedPagesStay` | `MarkedPagesCached`: commit and flush find every page they index |
| `SnapshotHolds` | `CachedSnapshotHolds`: cached pages are frozen in a transaction |
| `RollbackIsExact` | `RollbackRestores`: cached pages come back as they were |

None of these but the first is inductive alone.  The invariant is

    Inv == TypeOK /\ Marks /\ Provenance /\ Snapshots

`Marks` says that marked pages are cached, that only transactions mark pages
touched, and that running transactions are distinct and undecided; without it
a commit could log a page that is not there, or decide another's transaction.
`Provenance` follows the bytes: what can get
into the file (a pool's untouched page, a shadow, an image of the log) must
itself hold logged transactions only, so the claim about the file is proved
together with the same claim about pools, shadows and the log.  `Snapshots`
says where the image of BEGIN is now (in `shadow` if touched, in the pool
otherwise), which is why the rollback is exact.  Each action has a lemma, with
a step for each part it can disturb; `PutStep`, `EndedTxn`, `RolledBack` and
`ForgottenOne` are shared by the actions that write, end, roll back and leave.
Lemmas about `Largest`, `FlushInto`, `Merged`, `Replay`, `EnteredAt` and
`AppendGroup` say what these operators return.

### The disciplines

The rest of `DisciplinesProofs` proves, for any number of sessions, pages,
transactions and crashes and any pool size, from the assumptions of the page
store and from `Relaxed = {}` (all seven disciplines are observed):

| theorem | property |
|---|---|
| `CommitsAreRecoverable` | `CommittedIsRecoverable`: what was acknowledged is in what recovery rebuilds, after a death and after a power loss |
| `StoreIsDurable` | `ImplementsDurableStore`: after a death the store has changed by whole transactions only; every step is a step of `DurableStore` or a stutter |
| `StoreSurvivesPowerLoss` | `SurvivesPowerLoss`: the same after a power loss |
| `RefreshedSeesCommitted` | `SeesCommitted`: READ COMMITTED |
| `ReadsRepeat` | `RepeatableRead`: REPEATABLE READ |
| `NoTransactionIsHalfSeen` | `NoHalfTransactions` |

To the invariant of the page store they add

    DInv == Laid(log) /\ FilesAgree /\ (\A s : SessionOK(s))
              /\ Current /\ Solitary /\ NothingUnheld /\ Outcomes

`Latest` is what recovery would leave in the file now; the claim is that only
commits and crashes inside an append change it.  `Laid` says that only the last
group of the log may be interrupted, so that whatever recovery applies a
refresh finds too.  `SessionOK` says that a session sees `Latest` on every page
it has nothing to adopt for, with its own changes on top.  `Current` and
`NothingUnheld` say where the latest image of a page is when the log is reset:
in the file, or dirty in the pool of a session that will flush it; without them
a reset could lose a commit.  `Solitary` keeps a reset apart from opens and
other checkpoints.  `FilesAgree` confines what a power loss can undo to pages
that the log holds, and `Outcomes` ties it all to transactions.  `StepKeeps` is
the frame of every step of one session (`Bystander`: what the others keep);
each action then has a lemma of its own.

`NoTransactionIsHalfSeen` needs what a session sees while it is behind:

    VInv == Atomic(Latest) /\ (stood => \A s : InStep(s))

`InStep` says that the session sees an atomic state now and after each batch it
has yet to adopt.  TLC checked `DInv` and `VInv` as invariants of `disciplined`
before they were proved; an earlier `stood` was needlessly strong and was found
so by the proof, which needs of a change of the file only that nobody is behind.

### Recovery

`WalRecoveryProofs` proves, for any number of pages, groups and crashes, from
`MaxPagesAssumption` and `RecoveryAssumption` (the bounds are naturals and there
is a page):

| theorem | property |
|---|---|
| `TypeCorrect` | `TypeOK` |
| `RecoveryRestarts` | `NothingLost`: replay after any crash gives what one whole replay would have given |
| `ReplaysCommittedOnly` | `OnlyCommittedImages`: the file never holds what no commit frame covers |

The invariant is

    RInv == types /\ Kept /\ (Busy => Parsed /\ InPlace)

`Kept` is what a crash must find: a page of file or disk is as it was found, or
an image that recovery applies, the length is between that of the file found
and the goal, and the log is gone only when file and disk are the goal.
`ReplayAgain` shows that replaying over any such file gives the goal, so
`NothingLost` follows however the writes were cut.  That the goal is reached
before the log is reset needs the parser: `Parsed` says that no torn frame has
been read and that the batch has the latest image of each page since the last
commit, `InPlace` that the file has the latest ones up to it.  The frames lie in
one order (`BeforeOrders`), a nonempty rest has a next one (`NextExists`), and
reading it takes it alone (`ReadsOne`); hence at the end of the loop every
commit before the first torn frame has been passed (`AllParsed`).  TLC checked
`RInv` as an invariant of `wal_recovery`.

### The catalog

`CatalogProofs` proves, for any tables, values, row ids, pages, rows of a leaf
and room on the catalog page, from `CatalogAssumption` (bounds are naturals, the
markers are none of the things they mark) and `Assumed = Discipline` (the
callers keep all five disciplines):

| theorem | property |
|---|---|
| `TypeCorrect` | `TypeOK`, and with it that the root of a table is never an unused page |
| `CatalogStaysStored` | `CatalogIsStored`: between transactions memory and pages name the same trees |
| `IndexesStayRight` | `IndexesAgree`: a query by index finds what a scan finds |
| `CountsStayRight` | `CountsRight`: row counts and next row ids |
| `PagesStayOwnedOnce` | `PagesOwnedOnce`: trees and free list share no page |
| `SessionIsDictionary` | `ImplementsTables`: every step is a step of `Dictionary` or a stutter |

All six follow from one invariant, which has three layers:

* `Consistent(db)`: every table has a whole tree (`Whole`) with the number of
  rows and the row ids its meta says (`Counted`), no two trees share a page
  (`Sound`), the indexes are what a rebuild would give, and the pages of the
  free list are in use, in no tree and listed once (`FreeList`).  That free
  pages are *in use* is what keeps `allocate` and the free list apart.
* `SameTrees(db, Base)` as long as nothing has taken a snapshot or gone around
  it: then a rollback needs to restore no more than the pages.
* After the snapshot: it is the stored catalog and what a rebuild of it would
  give, unless a statement has broken `index` or `bulk`; `risks` remembers that.

The argument about a statement is one for all of them.  `Changes(d, h, t)` says
that h comes from d by using, for table t, pages that were unused, free or t's
own; `ChangesKeep` shows that this keeps `Consistent` and the rows of every
other table.  What is left for each statement is that its own table is right:
`RegrownTree` (five ways a root can split, stay or give way), `VacuumedTree`,
`RootedPage` and `FreedPages` for the pages, `RowAdded`, `RowsChanged` and
`RowsGone` for counts and index entries.  `Makes` then says what a statement
does to the snapshot, and `StatementKeeps` is the step of the invariant, for
statements that get through and for those that raise anywhere.  `TidyKeeps`,
`RestoredIs` and `ReloadedIs` do the same for commit, rollback and reopening.

After a vacuum outside a transaction the pages hold two sets of trees, and both
must be whole until the checkpoint ends: `TwoSets` says that the trees the
session names and those the stored catalog page names are whole, that no two of
one set share a page (`Sound`), and that both sets have the same rows.  Flushing
moves pages from `db` to `stored` under either catalog; `FlushPageKeeps` and
`FlushCatalogKeeps` show that `TwoSets` stays.  `StoredStands` then says that a
death at any moment that `survive` admits finds the trees its catalog page
names, and with them the committed rows.

The refinement maps `Begin`, `Commit` and `Rollback` to themselves, a statement
about t to `Set(t)`, reopening inside a transaction to `Rollback`, and vacuum,
the flushing of each page, checkpoint and reopening at rest to a stutter.  TLC
checked the invariant on the instance of `catalog` before it was proved.

### The B+ tree

`BTreeProofs` proves, for any numbers of keys, pages and calls, any lengths of
rows and any sizes of page, spare bytes and fanout, from `SizesAssumption` and
`AbsentAssumption` (bounds are naturals, a page holds any one cell or two
children, a row is at most half a page, the marker is no node) and
`Assumed = Discipline` (no call raises, nobody vacuums, what a transaction
wrote it reads again before it rolls back):

| theorem | property |
|---|---|
| `TypeCorrect` | `TypeOK`, and with it that every page fits and that only touched pages have a shadow |
| `CacheStaysTrue` | `CacheIsTrue`: every node edited in place has been written when the call ends, and a rollback under `reread` brings back no page whose cached node was edited (without `reread`: BEGIN, INSERT, ROLLBACK, SELECT shows the row) |
| `TreeStaysBalanced` | `Balanced`: separators part the keys, all leaves lie at one depth, the chain visits them in the order of the tree |
| `ScanFindsAll` | `ScanAgreesWithSearch`: a range scan gives the rows that searches find there, each once and in order |
| `EveryCallTakesEffect` | `CallsTakeEffect`: each call that may come next raises or changes the row of its key and no other |
| `TreeIsMap` | `ImplementsMap`: every step is a step of `Dictionary` or a stutter |

That searches find the right rows is not inductive.  What makes it so is a tree
that nobody has written down: `Tree(P, r, live, lev, lo, hi, up, rows)` says of
pages P and root r that the pages `live` have a level, a parent and a range of
keys each; that an inner page has one separator less than it has children, that
the children's ranges are those its separators cut from its own and that they
lie one level below; that the cells of a leaf are, in order, the rows of the
keys in its range; and that no two leaves stand for one key.  The links between
the leaves are part of it (`Chained`): every page has two ranks, `b` counts the
leaves that the chain still has after those below the page, `a` those after and
below; the children of a node are strung together by them, a leaf has `a = b +
1`, and the leaf it links to has for `a` its `b` and begins where it ends.  So
a split or a merge is right about links when it is right about the ranks of the
two pages it touches and leaves those of the others in order, far away though
the neighbour of a leaf may be in the tree.  `Stored` says that some such
levels, parents and ranges exist, and the invariant is

    Inv == InvTree /\ InvTxn /\ InvSaved

`InvTree`: no node differs from its page, the pages fit, and they are stored
for the rows that searches find.  `InvSaved`: what a rollback would bring back
is stored for the rows that BEGIN found.  `InvTxn`: only a transaction has
touched pages.

The levels do what an induction over the depth would: they fall on every way
down, so a way ends in a leaf (`PathLeads`), and only one leaf can be its end
(`SearchFinds`).  Most of the proof is about one change of a tree each: a cell
more, less or replaced, a node cut in two and the page taken in above (`Torn`,
`SplitTo`), an entry moved between siblings, two siblings made one, a root that
gives way.  Each has a lemma about pages alone (most of them in `BTreeShapes`)
that gives the new levels, parents, ranges and ranks, and one about the writes
that bring it about: `Kept(t, S, D)` says that only the nodes D differ from
their pages and that a rollback would still bring back the pages S.
`InsertDoes`, `ReplaceDoes` and `DeleteDoes` follow the calls from the leaf up
to the root: between two steps of an insert the tree has one page it does not
yet refer to (`Rising`), between two steps of a delete it is whole.  `TidyDoes`
shows that the new page numbers name the same tree.

For the shape, a way down along the first (last) children keeps the rank `a`
(`b`) and so ends in the first (last) leaf below a page (`LeavesAt`): the last
leaf below one child links to the first below the next (`LeavesMeet`).  For
scans, ranks are no more than pages (`FewRanks`), so following the chain comes
to its end; from a leaf on it holds all rows from where the leaf begins
(`ChainHolds`), and what the loop of `range_scan` yields of them are those in the
range (`YieldsGives`, by induction over the cells still to come).  TLC checks
these six properties too: all but the scans in `btree_uniform`, without `fits`,
the scans and the map in `btree_mixed`, with vacuum.

### The threads

`ThreadsProofs` proves, for any threads, sessions, viewers and scripts, from
`ThreadsAssumption` alone (scripts are sequences of statements, every thread
serves a session and every viewer looks at one):

| theorem | property |
|---|---|
| `AnswersKeep` | `AnswersAreKept`: the writes of an answered request are in the log and stay there |
| `FailuresVanish` | `FailuresLeaveNothing`: a statement that raised is in no batch and, after the answer, in no pool |
| `ReadsWhole` | `ReadsAreWhole`: reads see each transaction of others whole or not at all, and nothing rolled back |

The invariant of the first two is

    Inv == TypeOK /\ Exclusive /\ (broken = {} => Good)

`Exclusive` says that whoever is at work in a session holds its lock, so a step
of one thread leaves the session of another at work alone (`StepFrame`,
`OtherThreads`, `OtherSessions`).  `Good` has a part for each thread, for each
session and for the log.  `InPlace` ties the transaction flag to the place in
the script: a transaction is open exactly where the script has begun and not
ended one.  `Settled` says where each write of the done part of a script is:
in the log if it is final, in the pool and among the changes if its transaction
is open.  `GoesBack` and `Sound` say that a session holds at least what it has
adopted, also in the image a rollback returns to; with `latest` this makes the
last image of the log only grow (`LogGrows`), which is why an answer, once
kept, is kept for good.

`ReadsWhole` needs more: `WholeInv` adds that every image in the log, every
image a rollback returns to and every pool without changes is whole, and that a
pool with changes is that image and exactly the writes of the open transaction
(`Mine`).  The heart is `BatchIsWhole`: adding all writes of a transaction at
its COMMIT to a whole image gives a whole image, by an argument about the
places of BEGIN, COMMIT and ROLLBACK in any script (`OpenTogether`).  A GET
handler changes nothing as long as `current` holds (`GetChangesNothing`), and
sees a whole image while no request has the lock and no transaction is open.

All of this is under the conditions.  `alone` is what `InPlace` rests on, since
between two calls nobody has the lock: `Alone` says that of the requests of one
session at most one is at work or between two calls of a transaction, and what
that request left in the session it finds there again.

### Joins

`Relations` proves of the abstract join what makes the planner's stages
right and wrong, for any relations and any match: `FilterBelowJoin`, a term
about the left side may be applied before an INNER or LEFT join;
`FilterBelowOuterJoin`, before a RIGHT or FULL join it makes a right row come
back alone whose partners it has taken out.  The run
`filter_below_outer_join` meets an instance of the second.

### Only model-checked

Of the B+ tree: what holds only among rows of one length, that nodes stay
filled (`WellFilled`) and nothing raises (`NeverRaises`).  These rest on sums
over all cells of a node before and after they are shared out anew.  Of
`Query`: that queries answer what they mean, and `SortIsStable`; they rest on
the shape of expressions, which only recursive operators reach.  Out of the
prover's reach are `OpenTerminates` and `EveryRequestEnds` (liveness under
fairness).  The disciplined theorems are about `Relaxed = {}`, those of the
catalog and of the tree about `Assumed = Discipline`: what fails without a
discipline is shown by runs, not proved, and so is what vacuum does to a tree.

## Not modelled

* **Row codec** (`rows.py`): a stateless encoding, which a test of a round trip
  covers better than a model of bytes would.  The other modules take a row to
  be what was put in.
* **Parser** (`sqlparse.py`): a sequential function of the text.  The models
  start from its trees.
* **Fractions and characters**: REAL values, AVG, and matching inside texts.
* **Two sessions' catalogs**: what a refresh does to another session's catalog
  object is in `PageStore` as a page and not in `Catalog` as tables.
* **Web server** beyond requests and page reads: routing, JSON, static files,
  the page in the browser.  **Shell, benchmarks, demo, examples**: drivers of
  the public API without state of their own.
* **Native core** (`native/`): a second implementation in C++ of the same file
  formats, with its own pager and without `fsync` of the log.
