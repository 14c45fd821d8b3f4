# stats-rrdb: a TLA+ verification of the time-series store

stats-rrdb is a round-robin database server: clients send values of named
metrics (`UPDATE`, mostly over UDP) and ask for them back (`SELECT`, over TCP).
Every metric keeps a fixed number of aggregated tuples per element of its
retention policy, in one file per metric. This directory holds TLA+ models of
the parts of it that are hard to test, TLC configurations that check them on
small instances, and TLAPS proofs of what matters for every instance.
File names below are relative to `src/src/`.

## 1. Inventory

| part | state it keeps | operations | what is hard about it |
|---|---|---|---|
| metric (`rrdb/rrdb_metric*.cpp`) | header (status flags, last value), one block per policy element | `create`, `update`, `select`, `load_file`, `save_file`, `delete_file`, `save_dirty_blocks` | an update cascades through the blocks; dirty/deleted flags against a concurrent flush |
| block (`rrdb/rrdb_metric_block.*`) | circular buffer position and time; the modified tuples | `update`/`find_tuple`, `select`, `write_block`, `read_block` | shifting forward, walking into the past, early exits, the last block's truncated image |
| journal (`rrdb/rrdb_journal_file.*`) | memory buffer, journal file, its stream | `begin_file` .. `end_file`, `save`, `apply`, `load`, `delete` | crash anywhere, partial files, one file reused for many metrics |
| rrdb (`rrdb/rrdb.cpp`) | map of metrics, flush thread | `create_metric`, `drop_metric`, `update_metric`, `select_from_metric`, `flush_to_disk`, `start`, `stop` | flush against update, select, create and drop; recovery |
| blocks cache, files cache (`rrdb/rrdb_metric_tuples_cache.*`, `rrdb/rrdb_files_cache.*`, `common/lru_cache.h`) | LRU maps, used memory | `find`, `insert`, `erase`, `purge`, limits | accounting, limits, two threads opening one file, deleting an open file |
| select walkers (`rrdb/rrdb.cpp`) | group being filled | `append`, `flush` | rows must not count data twice across blocks of different resolution |
| server (`server/*.cpp`, `common/thread_pool.*`) | listeners, thread pools, status thread | accept/receive handlers, tasks, `start`, `stop` | shutdown order, queued tasks, one error ending a listener |
| languages (`parser/*`) | - (pure: a text to a statement, a policy to a text) | `statement_query_parse`, `statement_update_parse`, `interval_write`, `retention_policy_validate`, `normalize_name` | ordered alternatives that share their first words; 32-bit intervals that wrap; zeros; two languages with different rules for names |
| statement execution (`rrdb/rrdb.cpp`) | the map of metrics, as a client sees it | one visitor method per statement | a create that fails half way; what SHOW shows must be what was asked for |
| config, log, helpers | - | - | no state that changes; not modelled |

How they interact: workers of the two thread pools and the status thread call
`rrdb::update_metric`/`select_from_metric`, which take a metric's lock; inside it
blocks fetch tuples from the blocks cache, which on a miss goes through the files
cache to the metric's file. The flush thread takes modified tuples out of a
metric under its lock, and writes journal and metric file outside of it. So
memory, both caches, the journal and the metric's file are shared by three kinds
of threads, with one lock per metric and one per cache. A text reaches `rrdb` as a
statement of one of the two languages: queries over TCP, short commands over UDP.

What makes each part correct, in a sentence: a metric's buffers stay in time
order and hold every point exactly once per resolution, until it is too old; a
saved file loads and means what memory meant; a crash never leaves a file torn
beyond repair, nor takes back what was durable; the map of metrics and the
directory agree; what a cache hands out belongs to the key it was asked for; a
row counts no point twice; a stop ends and leaves nothing unsaved; a statement is
understood as it was meant, and every policy that is accepted is one the buffers can
work with.

## 2. Plan

| order | module | what it is | state |
|---|---|---|---|
| 1 | `MetricBlocks` | one metric in memory: updates and their roll-up | done, checked; all six properties proved |
| 2 | `MetricBlockFile` | extends 1 with the metric's file | done, checked; all three properties proved |
| 3 | `FlushJournal` | flush thread, journal, crash, recovery, with caches that purge what they like | done, checked; every safety property proved |
| 4 | `SnapshotStore` | the abstract store 3 implements | done, refinement checked and proved |
| 5 | `MetricRegistry` | create, drop, update and flush of whole metrics by several threads | done, checked; all four properties proved |
| 6 | `LruCache`, `MetricCaches` | both caches under concurrent clients and drops | done, checked; all three properties proved |
| 7 | `SelectWalker` | extends 1 with the rows of a `SELECT` | done, checked; `SelectCountsOnce` proved |
| 8 | `StatsServer` | process, pools, status thread, stop | done, checked; every safety property proved |
| 9 | `RetentionPolicies`, `StatementExecution` | intervals and policies; what each statement does and answers | done, checked; all four properties proved |
| 10 | `QueryLanguage`, `QueryService` | both languages; texts through parser and execution (composes 9) | done, checked |
| 11 | `FlushJournal_proofs` | proofs for 3: the journal, contents of the files, `DurableStaysDurable`, the refinement | done |
| 12 | `StatsServer_proofs`, `MetricRegistry_proofs`, `MetricCaches_proofs`, `StatementExecution_proofs` | proofs for 8, 5, 6 and 9 | done |
| 13 | `MetricBlocks_proofs`, `MetricBlockFile_proofs` | proofs for 1, 7 and 2 | done |
| 14 | `FoldFacts` | what a fold with `+`, and what `FoldLeft`, computes; used by the proofs for 1, 6 and 7 | done |
| 15 | shared streams | seek and transfer as two steps: two threads on one cached stream (opens up a step of 3 and 6) | open |

Modules 1, 2 and 7 are about one metric and its data, with integers for times;
3 to 6 abstract a block's data to the set of updates it contains; 8 abstracts it to
"something is not saved". So each interface is drawn once: `MetricBlockFile` shows
what one whole save or load does, `FlushJournal` what happens when such a save is
interrupted, and `StatsServer` uses only that a flush begins and ends. 9 and 10 are
about what clients write: 9 ends with blocks that meet the assumption of 1, and knows
one statement at a time; `MetricRegistry` has the interleavings.

## 3. The modules

Every module comments its variables and names the function an action models; the
exact lines are in `PROJECT.json` ("map"). Operators called "Mutant of X" are wrong
versions of X: they are used nowhere and document which error a property notices.

### MetricBlocks (`rrdb_metric.cpp`, `rrdb_metric_block.cpp`, `rrdb_metric_tuple.cpp`)

`pos`, `pos_ts`, `tuples` are a block's `_pos`, `_pos_ts` and tuples; `ctx` is the
`t_update_ctx` that `rrdb_metric::update` carries from block to block. A client's
update is `BeginUpdate` followed by one `UpdateBlock(b)` per block, whose disjuncts are
the exits of `find_tuple` and `update`: `KeepInCurrent`, `ShiftForward`, `KeepInPast`,
`FallOffTheWalk`, `IgnoreTooOld`, and `CompleteShift` for the blocks after the one
that shifted. The whole cascade runs under the metric's lock, so the steps are an
order of the computation and not an interleaving. `accepted` is a history of the
updates taken. `_sum_sqr` is left out, since it is kept like `_sum`.

### SelectWalker (`rrdb.cpp`, `rrdb_metric_tuple.cpp`)

`Appended(q)` is the sequence of calls of `walker.append` for a statement; `PlainRows` and
`GroupRows` fold over it, and `PlainAppend` and `GroupAppend` are `append` of either walker. With `GROUP BY` a tuple is cut at group borders and
stands for its share (`get_average` by the tuple's span). Here a share is kept as the
piece of time it covers, so that no rounding enters.

### MetricBlockFile (`rrdb_metric.cpp`, `rrdb_metric_block.cpp`)

Adds the file and `max_pos`. `Save` is `save_dirty_blocks` plus a successful apply;
(of the header alone, if no block took an update);
`Reload` is a purge and the `get_tuples` after it, `Restart` is `load_file`, and an update
may stop at a block that cannot be loaded (`FailToLoad`). The last block is written only
up to `_max_pos`.

### FlushJournal and SnapshotStore (`rrdb.cpp`, `rrdb_journal_file.cpp`, `rrdb_metric.cpp`)

A block is a set of updates and an epoch (its `_pos_ts`). `pc` walks through
`flush_to_disk`: save the dirty blocks into the journal's buffer, write the journal
header and one block after another, write the blocks into the metric's file, next
metric, delete the journal. Each write is a step, and before each one the process may
crash or the write fail. `Start`, `StartRecovery`, `RecoverPiece` and `RecoverEnd` are
`rrdb::start`; a recovery may crash too. The header block that is also journalled is
one of the blocks as far as the protocol is concerned. `SnapshotStore` says what all
of this is for: in one step a metric's stored blocks become those of a later
snapshot. The refinement maps a file that has some blocks of a complete journal to one
that has all of them.

Two things damage a file, and `spoilt` says of which metric until its next snapshot: an I/O error
between two blocks of that file, and the recovery from a mixture of two journals. Metrics created
with the same policy, with names of about the same length, have journals of the same layout
(`SameLayout`), and `save_journal_file` overwrites one metric's journal by the next one's in place; a
crash before that is through leaves the last blocks of the metric before behind the new header, and
nothing tells the recovery. The model keeps `through`, whether the journal was written to the end, as
history, and guards nothing with it.

What is abstracted: `Purge` and `CloseStream` may happen to any entry at any time,
which covers every cache limit; `MetricCaches` is about the limits. A single stream
buffer keeps the order of writes, and without `fsync` only crashes of the process are
in question, not of the machine.

### MetricRegistry (`rrdb.cpp`, `rrdb_metric.cpp`)

Metrics and files are objects of their own: a name is mapped to a metric (`map`) and
linked to an inode (`dir`, and `tmp` for the `.tmp` file of `save_file`), and both may
change under a thread that still holds one. Create is insert, check, open, write, rename; drop
is remove and delete. Whoever opens a file goes through `open_file`, which looks for a stream in the
cache of open files (`cached`), opens the file, and puts the stream into the cache, each step for itself:
`UpdateFind`, `UpdateOpen`, `UpdateInsert`, `UpdateRead` of an update or a select (which hold the
metric's lock), and `FlushFind`, `FlushOpen`, `FlushInsert`, `FlushApply` of the flush (which holds
none). Deletions and renames take a stream out, and `Purge` takes any. So a cached stream may be of an
inode without a name, and an update or a flush that gets it works on a file that is no more. An update or select
reads the file or not (`Update` is one whose tuples are in memory); of a metric that was dropped only
the file can have them. Torn journals are left to
`FlushJournal`; `FlushBegin` reads all the dirty flags at one instant; a start fails when
the journal names the file of a dropped metric.

### LruCache and MetricCaches (`lru_cache.h`, `rrdb_metric_tuples_cache.cpp`, `rrdb_files_cache.cpp`)

`LruCache` has the container as pure operators, `Purged` being the loop that both
caches run. In `MetricCaches` clients load the tuples of a block (miss, find the stream, open
it, insert it, read, insert the tuples) while others drop the metric and create another
one of that name, perhaps at the same address, and the flush thread opens streams
without the metric's lock. The lock of a new metric is held from its insertion, which
is simpler than `create_metric` and hides nothing about the caches.

### RetentionPolicies and StatementExecution (`parser/interval*`, `parser/retention_policy*`, `rrdb.cpp`, `rrdb_metric.cpp`)

`RetentionPolicies` is pure: `ReadInterval` and `WriteInterval` (number times unit, modulo
the width), `Sound` and `DividesByZero` (one round of `retention_policy_validate`, which
divides before it looks), `BlocksOf` and `PolicyOf` (`rrdb_metric::create`, `get_policy`).
`StatementExecution` has the map with each metric's blocks and whether it has a file, and
one action per statement, with the disjuncts of its visitor method: done, refused, and
for CREATE also the first save that fails after the metric is in the map, and the
division by zero that ends the process. An update's effect on the tuples is
`MetricBlocks`, a select's rows are `SelectWalker`; here a statement is answered or is an
error. `Restart` is the end of the process, however it came, and `load_metrics`.

### QueryLanguage and QueryService (`parser/statements*`, `parser/grammar.h`)

A text is a sequence of atoms: keywords, pieces of names, numerals, single spaces,
punctuation. A parser returns where it stopped and what it read, or fails (so that an
alternative may try), or throws: the difference of `>>` and `>` in the grammar. The rules
of the statements are data (`Rules`): a list of parts, the number of parts that may fail,
and the statement as it is constructed. Spaces are skipped where Spirit's skipper skips
them, between the characters of a name too, and words have no boundaries: `secs` is `sec`
with an `s` behind it, `metrics` is `metric` with an `s`. The short language is `Split` and
its fields, which are not trimmed. `QueryService` sends texts and has them parsed and
executed. Its renderer writes statements in every way `LANGUAGE.md` allows, without a look
at the grammar, so that "understood" has a meaning of its own.

### StatsServer (`server/*.cpp`, `thread_pool.cpp`, `rrdb.cpp`)

`main` is the main thread: `server::run`, then handlers of its `io_service` one at a
time (`HandleAccept`, `HandleRead`, `HandleReceive` and the three steps of
`thread_pool::run`), then `server::stop` inside the signal's handler. `worker`, `status` and
`flush` are the other threads. An exception in the status or the flush thread ends the
process (`Terminate`). Data is only "applied since the last flush" (`dirty`) and "being
saved" (`saving`). Answers are left out: nothing in the server waits for one.

## 4. The runs

| run | question | bounds, and why they are enough |
|---|---|---|
| `rollup` | are the buffers in order, is every point rolled up once and selectable, and counted once per row | three blocks, 1, 2 and 4 seconds a tuple, buffers of 3, 2, 2; four updates out of nine instants and two values: each block shifts by one, restarts, is walked back and is missed; queries with no group, a group smaller and one larger than a coarse tuple |
| `block_file` | does a file load, and does it stand for what was in memory | two blocks, a last block of three tuples so that `_pos` is below, at and above `_max_pos`; four updates, one failed load |
| `purge_loss` | (violation) is a purged block read back whole | as above |
| `flush_safety` | write-ahead, torn files, reachable updates, clean stop | two metrics of two blocks and the same layout: a metric's journal overwrites that of another; two updates; two crashes or errors anywhere, so also a crash during a recovery; behind the second one, a behaviour ends where a file is damaged or every metric is `lossy` (`DamageBound`) |
| `flush_atomic` | does the protocol implement the abstract store, is durable data kept, does data become durable | one metric, two faults: a crash or an error, and one during the recovery. (With one metric two journals do not mix. The first two properties were also searched for two metrics and one fault, without error, and are proved for any number.) |
| `lost_update` | (violation) is an acknowledged update ever lost without any fault | no faults |
| `foreign_data` | (violation) does only a metric's own data get into its file | one block per metric, equal layouts, one fault |
| `registry` | do map and files agree on quiet names, does no create replace another's data, can the directory always be loaded after a crash | one name, two clients and the flush thread, four metrics, so that a successor of a successor exists after a restart; two updates or selects; two crashes; after a race no third metric (`RaceBound`) |
| `drop_leaves_file` | (violation) does a drop delete the files | two metrics, no updates, no crash |
| `caches` | is memory accounted for, does what is cached belong to its key | two names of sizes that do not fit together, two addresses so that one is reused, three clients and the flush thread (one saves, one drops what is being saved, one creates its successor), two metrics, three streams |
| `server` | does a stop end and leave nothing unsaved, are pools there when used, counters exact, requests executed | two UDP requests and one TCP request, one worker each: tasks queue behind each other in one pool while the other stops |
| `language` | is each statement understood as meant and nothing else, can metrics be named, does each accepted policy work, get a file and show itself again, do errors change nothing | intervals of 7 bits and units 1, 2, 4, 8, 24, 40, 88, in which every case of the code occurs: units that divide one another and do not, products that wrap to less and to 0; twelve policies, at least one for each way to be refused, for each place of a zero; names in both cases, with spaces inside and around, empty, and of keywords; each statement in four layouts, apart and run together, and for fifteen of them every text one atom away (dropped, replaced, put in) |

In `language`, garbled texts are sent only while there is no metric, and nothing is sent once a
metric has a name that only a garbled text could give it (`Names`): what they can do to the map is seen
from the empty map, and what they parse to does not depend on it.

In `registry`, most states lie behind a race, where `MapMatchesFiles` says nothing any more: 98 of
100 in a search without `RaceBound`, which therefore cuts behaviours off after a race once a third metric is made. With three
metrics, two updates and one crash a search without it went through 6.8 of some 7.3 million states and found no error.

`MaxUpdates`, `MaxFaults`, `MaxFailures`, `MaxMetrics`, `MaxCrashes`, `MaxStreams` and
`MaxTime` bound only the length of behaviours. Deadlock is checked except in the
`FlushJournal` runs, where a start that failed really is the end. Symmetry is used only in
runs without liveness properties and where no definition tells the symmetric values apart.

Properties with exceptions. `AckedReachable`, `DurableStaysDurable` and others leave out
a metric marked `lossy`: it met an I/O error, or a block was read between its save and its
apply. `TornFilesCovered`, `DurableStaysDurable` and the refinement leave out metrics that are `spoilt`, by
an error in their file or by a mixed journal. `MapMatchesFiles` leaves out names that `raced`: a metric was reached
before its first save was through; or its name was created again before its drop was, a flush of it included;
or the name has a new file while an update or a select of a dropped
metric of that name has opened an older one and not put it into the cache yet. `CachedStreamsCurrent` leaves out those that
were `overtaken` (the file was removed while a thread had opened it, or an older metric renamed its own over it) and
`CachedTuplesBelong` metrics that are `ghosts` (they loaded tuples after their deletion); a metric out of the map and not yet
deleted may have its successor's. Each is a history
variable set by exactly the interleavings that its comment names, and each clause is
needed: with any one of them removed TLC finds a counterexample. They are known
weaknesses of the code, listed as hazards at the lines where they arise. A property is not listed under a hazard
that it excepts.

`SelectShowsData` has the precondition `Freq[b] <= q.from`: slots never written are
stamped with time 0, so a `GROUP BY` query from 0 meets an empty newer tuple and takes a
coarser block's data to be covered by it. Without `GROUP BY` rows of blocks that overlap may
repeat data; `SelectCountsOnce` is about rows with groups.

## 5. Fairness

- `FlushJournal`: `WF(Flush)`. The flush thread loops until it is interrupted
  (`rrdb.cpp:455`), with a sleep; nothing else is assumed. `EventuallyDurable` excepts a
  process that stopped and metrics marked `lossy`.
- `StatsServer`: weak fairness of each thread's own next step. The workers, the status
  thread and the flush thread are loops; the main thread runs every handler that is ready,
  since requests are finitely many. Nothing is assumed of a signal, of failures, or of a
  client that connected and does not finish its request (`HandleRead`): the server has no timeout.

## 6. What is proved

`MetricBlocks_proofs`, for any policy that satisfies `PolicyAssumption` (what
`retention_policy_validate` accepts), any values and times, and any number of updates:

- `TypeCorrect`: `Spec => []TypeOK`. The point is that every slot computed by walking back
  or shifting forward is inside the buffer (`CircleFacts`), and that a point passed to the next
  block is one (`MergeFacts`). `TypeOK` is inductive by itself.
- `BuffersInOrder`: `Spec => []RingOrder`. `RingOrder` with `TypeOK` is inductive. One lemma per case of `find_tuple` says
  what becomes of each slot (`Restarted`, `Grown`, `Advanced`, `Walked`); from these the order follows. Seen from
  the newest tuple backwards, a tuple is one frequency older than the one before it, or was never
  written; a shift either restarts the buffer or turns it by some tuples, and then every age is the
  former age plus that number (`AgesAfterAdvance`); a walk into the past stamps the tuples it passes.
- `RetainedDataIsKept`: `Spec => KeepsRetained`. A tuple with data is in its place (`DataInPlace`), so the slots a shift
  clears are those whose time is a whole duration behind the new position, and the stamp of a walk is
  the one the tuple had.
- `SelectFindsAll`: `Spec => []SelectMissesNothing`. Order inside a block is not enough: the loop over the blocks stops
  as well. `Descending` says that no block's newest tuple starts later than that of a block before it; it is inductive
  together with what the data in the cascade is no newer than.

- `RollupsAreExact`: `Spec => []RollupExact`, and `RollupsAreBounded`: `Spec => []RollupBounded`. Both compare a tuple with the
  accepted updates of its interval, and neither is inductive: while a cascade runs an update is in no tuple of the next block, and
  from a tuple's interval alone one cannot tell under which start an earlier block filed an update that is late. The
  invariant, `ContentsExplained`, says instead that the contents have an explanation (`Explained`): the updates can be numbered, and
  each given the last block that it `reached` and the `start` under which every block on its way filed it, such that
  each slot's tuple aggregates exactly the updates filed there (`Filing`: number, sum, and extremes unless there are none), an
  update that went no further is still in the newest tuple of its block (`Waiting`), a start is never later
  than the update and at most `Slack(b)` earlier (`Stamped`), a newest tuple is empty only in a block that received nothing (`Started`),
  and the data in the cascade aggregates the updates that are on their way (`Incoming`). One lemma for each
  way a block deals with data: it stays (`Stays`), goes on as it is (`GoesOn`) or closes a tuple that goes on (`Closes`). That the
  cases of `find_tuple` are no other, and where they put the data, are the lemmas that the proofs above use.
- `Started` is what keeps a zero minimum from leaking: an empty tuple is rolled up once at most, by a block that never received
  anything, into a block that never received anything.
- The proof found `RollupBounded` wrong as it was stated first. Its lower bound left out too few updates when there are four blocks: an
  update filed too early in a block is rolled up later than its own time says, so `Pending` has to reach `Slack(c)` further than the
  newest tuple of block c. TLC then found the behaviour for frequencies 1, 2, 4, 8, two tuples each, and updates
  at 7, 8, 9, 12, 15; with the three blocks of the run there is none. The statement has that slack now, and the theorem is about any
  number of blocks.
- `InstantsCountOnce`: `Spec => []SelectCountsOnce`, for any statements with `QueryAssumption`. Of the blocks it needs only
  their types: whatever tuples select hands over, in whatever order, a walker lets no instant count twice. The invariant of
  the grouping walker, `GroupWalkers`, holds before and after each `append` and each round of its two loops: the pieces it has, in
  rows and in the current group, are apart (`Apart`) and none begins before the instant `ts` from which on it wants nothing (`After`);
  the rows are of earlier groups than the current one unless the walker has come to the statement's beginning (`Newer`), where
  its groups no longer move. `Taking` is what is left of that between the merge of a piece and the step to the
  next group. The piece a tuple gives ends at `ts` (`TookHolds`): that is the comparison which keeps a coarse tuple
  from repeating what finer ones have covered. The walkers are folds, and one lemma for each says that the fold stays in the
  walkers when its step does.

`MetricBlockFile_proofs`, for the same policies, and any sequence of updates, failures, saves, reloads and restarts:

- `FileAlwaysLoads`: `FileSpec => []FileLoads`; `StampsSurvive`: `FileSpec => []StampsSurviveReload`; `CleanBlocksAreInFile`:
  `FileSpec => []CleanBlocksMatchFile`. `RingOrder` is not an invariant here: a last block cut after `_max_pos` comes back with zeroed
  slots between others. `FileInv` says instead that each slot is where its place calls for, or is zeroed (`Placed`),
  of the blocks in memory and of what the file's images would be loaded as (`Loaded`), and that a clean block agrees with its image.
  A save makes an image of a block that is `Placed` (`ImageIsOK`), a reload or a restart makes a block of an image, and the cases of
  `find_tuple` keep `Placed` by the lemmas of `MetricBlocks_proofs`. The walk that finds no tuple changes a block without marking it:
  it is clean still, since a tuple with data is stamped with what it says already (`WalkKeepsClean`).

`FlushJournal_proofs`, for any number of metrics, blocks, updates and faults:

- `TypeCorrect`, and `JournalWrittenAhead`: `Spec => []WriteAhead`. `WriteAhead` only speaks of the apply,
  and is not inductive: that the journal is complete then depends on how it was written. `IInv` adds
  `JournalGrows` (while the journal is written, the pieces that are not in `left` are those of the buffer), `LeftIsBuffered` (what is left to do is in the buffer) and `OwnerKnown` (the buffer
  belongs to a metric whenever it is in use). One lemma per action, and the theorem by PTL.

The second half of `FlushJournal_proofs`, for the same:

- `AckedStaysReachable`: `Spec => []AckedReachable`, and `CleanStopKeepsAcked`: `Spec => []CleanStopKeepsAll`. The
  proof follows the newest version of a block, `Latest`: the block's own tuples if it has modified ones, else the journal's
  buffer while they are on their way, else the file. Unless the metric is `lossy`, the blocks cache has that version or
  nothing (`CachesCurrent`), so the next update is made of it, and everything acknowledged is in it
  (`AckedInLatest`). `OneLeft` says why at most one metric can stay dirty at a stop: the buffer found in use is freed
  by the exception it causes.

Its last part, for the same, equal layouts and I/O errors included:

- `TornFilesAreCovered`: `Spec => []TornFilesCovered`; `DurableKept`: `Spec => DurableStaysDurable`; and
  `FlushImplementsStore`: `Spec => FlushIsAtomic`: initial states map to initial states, and
  each step to a step of `SnapshotStore` or to a stutter. Only a journal that was written to the end is applied, or its metric
  is `spoilt` (`WrittenThrough`). The argument for the others: each version of a block has an update
  that the versions before it have not (`Apart`, `BufferNew`), so a file shows how far a snapshot got (`Progress`), and
  a journal that was written to the end is overwritten or deleted only when all of it or none of it is in the file (`JournalKept`).
  Until then a torn file is covered by it (`TornCovered`). Nothing durable is lost since each version is made of the one
  before (`Grown`, `JournalGrown`).
- That `spoilt` metrics are left out is not for the prover's sake. When layouts agree, the rest of an older journal passes for
  the new one's, as the run `foreign_data` shows, and one crash and the recovery from that mixture tear a file that no
  journal covers. An I/O error inside a metric's file tears it for good, since the next flush overwrites the journal.
  In the abstract store both are a `Damage` that the metric's next snapshot ends.

`MetricRegistry_proofs`, for any names, clients, and bounds that satisfy `RegistryAssumption`:

- `TypeCorrect`: `Spec => []TypeOK`; `FilesMatch`: `Spec => []MapMatchesFiles`; `FailsAfterDropOnly`:
  `Spec => []StartFailsOnlyAfterDrop`; `NothingReplaced`: `Spec => CreationReplacesNothing`. `RInv` has two parts. `Global` is
  what holds at any time, races or not: what a name refers to belongs to it, a lock is held by the one who saves,
  and what the flush thread still refers to is in the map or is being dropped. `Calm(n)` is about one name on which no race
  happened: which of the metric, its file, its temporary file, the journal, the cached stream and the threads that work
  on it are in step, for every place a thread can stand between two locks. `Zombie(n)` is about a metric loaded from a file
  that was marked deleted: nobody saves, drops or flushes it, so it still has what it stored.
- `Streams` is its part about the cache of open files: while a name has a file, or a rename is about to give it one, the cache
  has that file's stream or none, and the flush has no other file open. It would not be inductive without the third race: a
  stream of an older file may be opened, and is harmless until it is put into the cache; no condition on the state of
  the name itself rules it out. `Grown` says what an update may do to its metric, whatever file it read.
- A step of a thread changes what belongs to one name (`Local`, `FlushLocal`), and leaves every other name's `Calm` as it
  was (`AsideKeeps`), so each action is reasoned about at the one name it works on. TLC checked `RInv` on the
  bounds of `registry` before it was proved.

`MetricCaches_proofs`, for any names, addresses, threads, limits and bounds that satisfy `CachesAssumption`:

- `CachedStreamsStayCurrent`: `Spec => []CachedStreamsCurrent`, and `CachedTuplesStayOwned`: `Spec => []CachedTuplesBelong`. The
  argument goes by age, since metrics are numbered as they are created. `FileNotOlder`: a file is not older than any
  metric of its name that has been saved. So what a client finds or opens under its metric's lock is its own file or
  its successor's (`Loader`), and a name that was not overtaken has no file when a new metric's is renamed to it
  (`Renamer`), hence no stream that could be another file's. A cached stream, and one opened and not yet
  inserted, then stays that of the name until the name loses its file, and then it is erased first or the name counts as overtaken.
- A metric outside the map will be deleted by the thread that took it out (`Undeleted`), and the deletion erases what is
  cached at its address: so the owner of cached tuples lives, and its address is no other block's.
- The step of the induction for `Rename` failed at first, for a good reason: with three clients a metric that was dropped while it was
  being saved may be the last to rename, over its successor's file. TLC then found that behaviour with three clients;
  `overtaken` covers it, and the run `caches` has the third client since.

- `MemoryIsAccountedFor`: `Spec => []UsedMemoryKept`, for any sizes. `used` is a sum over the entries of the cache, so each step
  needs what one entry more or less does to a sum (`FoldFacts`), and a loop of `purge` that erases one entry after another takes
  the sum of what it erased. The bound holds of each insertion because a purge comes first. `CachesAssumption`
  asks for a name at least: without one, nothing is cached and `used` is 0, but no size bounds it.

`StatsServer_proofs`, for any requests and any pools that satisfy `ServerAssumption`:

- `StopJoinsAll`: `Spec => []LastFlushAlone`, and `StopSavesAll`: `Spec => []StoppedIsSaved`.
  Neither is inductive. `IInv` adds `Joined` (the threads that `stop` has joined so far stay ended, which
  depends on where the main thread is between two joins), `InGoodHands` (an update taken by a flush
  belongs to a flush in progress, and nothing is applied once the last flush has begun to save) and
  `Shape` (the types the steps need). One lemma per group of actions: starting, serving, workers,
  status and flush threads, stopping.
- `PoolsThere`: `Spec => []PoolsInUse`, and `CountersAreExact`: `Spec => []CountersExact`. `CInv` adds `PoolStages` (where
  the main thread is decides which pools exist and which are stopping), `Quiet` (the status thread has not
  begun before it is started, and only a handler has a request in its hands) and `Counters`: `used` is the queue's length plus the workers that run, and
  `started` less `finished` that number too but for a request or a worker between its two increments. The count of workers
  is a cardinality, so the lemmas say what one worker's step does to it.

`StatementExecution_proofs`, for any width of intervals, any units of which the first is 1, and any statements:

- `PoliciesUsableAlways`, `FilesBehindMetricsAlways`, `ShownPolicyRecreatesAlways` and
  `ErrorsChangeNothingAlways`. The inductive invariant `MapInv` says of every metric that its blocks are those of an
  accepted policy and that it has a file exactly if it could be saved; the rest is arithmetic: a coarsest unit
  exists and divides (`UnitForFacts`), writing and reading an interval or a policy gives it back although the
  reading wraps around (`IntervalRoundTrip`, `PolicyRoundTrip`), only the last element of an accepted policy can
  be empty (`OnlyLastEmpty`), and an accepted policy without an empty element has usable blocks (`AcceptedUsable`).
  The theorems are about `ExecutionSpec`, which executes any statements; the run checks the same formulas where
  the statements come out of the parser. `PoliciesUsableAlways` is what entitles `MetricBlocks` to `PolicyAssumption`.

Assumptions of the proofs: `UnitsAssumption`, `ExecutionAssumption`, `PolicyAssumption`, `InputAssumption`, `ConstantsAssumption`,
`AbsentAssumption`, `ServerAssumption`, `RegistryAssumption` and `CachesAssumption`, evaluated by the runs of the modules that declare them.

`FoldFacts` is about two folds that the modules use, which the library defines by recursive functions over the subsets of a finite set.
For `SumFunctionOnSet`, the fold of `+`, the lemmas show that this function exists (`SumExists`) and is one (`SumUnique`), and then by least
counterexample (`SmallestSet`) that any element can be taken out first (`SumRemove`), that a sum depends on the values only
(`SumAgree`), what it is over two sets (`SumUnion`), over fewer elements (`SumMonotone`), times a factor (`SumScale`), and
that summing over the values of a function and for each over its arguments is summing over the arguments (`SumFibres`).
The last one is how sums over accepted values, in the properties, become sums over updates, in the invariant.
For `FoldLeft` they show that its function exists when the step is a function (`WalkExists`), and that one which takes the steps of
a function that stays in a set stays in that set (`FollowingStays`). A fold's step is an operator, which cannot be a lemma's
parameter: each lemma about a loop of the walkers puts its own step into a function first.

Only model-checked: everything else. Liveness (`EventuallyDurable`, `EventuallyServed`,
`StopEnds`) is out of the prover's reach. `SelectShowsData` relates a statement's rows to the accepted updates through the contents of
all blocks at once (that a finer block's empty tuple means there was no update, unless that block had moved on), which
`Explained` gives block by block only. `Understood`, `NothingElse` and `MetricsNameable` rest on `QueryLanguage`, whose grammar is recursive,
and so does the `TypeOK` of `QueryService`.

## 7. Where code and documentation differ

1. `purge_loss`: an update of the past can land in the last block behind `_max_pos`; the save
   leaves it out of the file, and the next purge or restart forgets it (`rrdb_metric_block.cpp:272`).
2. `lost_update`: between the save of a block into the journal's buffer and its write into the
   file the block has no modified tuples; if the cache has dropped it too, an update reads the old
   block from the file, and the next flush writes that one (`rrdb_metric_block.cpp:286`).
3. `foreign_data`: the journal of a metric overwrites the one before in place; after a crash behind the
   new header, the old blocks behind it pass for the new metric's (`rrdb_journal_file.cpp:183`).
4. `drop_leaves_file`: a drop while the flush, or a create, of that metric is in progress can leave a file.

Met while modelling, and without a run of their own:

5. `start` leaves the journal's buffer in use after a recovery; the first `begin_file` throws
   (`rrdb_journal_file.cpp:61`), and when that is the flush of `stop`, a dirty metric is not saved. It is the
   exception that `CleanStopKeepsAll` states (against "never lose your data", `README.md:20`).
6. A SELECT of more than one column writes no comma between them, neither in the header nor in the rows
   (`rrdb_metric_tuple.cpp:65`, `:83`), where `LANGUAGE.md:195` shows commas; and with GROUP BY an empty line
   follows every row (`rrdb.cpp:231`).
7. SHOW STATUS answers without a header, and with no error when nothing matches (`rrdb.cpp:81`, `:648`; `LANGUAGE.md:126`).
8. A SELECT whose first timestamp is not before the second looks for no metric, so that it is no error if there is
   none (`rrdb.cpp:293`; `LANGUAGE.md:171`).
9. A name may begin with a digit, a dot or a dash; over UDP it may be empty and may have spaces inside
   (`statements.cpp:28`; `LANGUAGE.md:17`). Such a metric cannot be named in a query: hence the exception in
   `MetricsNameable`.
10. The help of `config.cpp` gives other defaults of the flush interval and the policy than `rrdb.cpp:336`.
11. The empty query is executed as a CREATE of a metric without a name, which fails at its first save and
    leaves that metric in the map until a restart. A policy whose last duration is 0 is accepted, and the metric has the same fate.
    A frequency of 0 divides by zero, which ends the process on the usual machines (`retention_policy.cpp:52`).

12. A select or an update that found its metric before a drop may open the metric's file before the deletion and put the stream
    into the cache after it (`rrdb_files_cache.cpp:215`, `:235`). If the name has been created again and saved meanwhile, later updates
    and flushes of the new metric go to the unlinked file and are gone at the next restart, with no error. It is the third race of
    `MapMatchesFiles` and what `CachedStreamsCurrent` calls overtaken.

A journal that is cut off makes `start` fail, every time. Such a journal is not whole, so by `TornFilesCovered` it covers no
torn file: no metric's file is torn then, unless an I/O error or an earlier mixture left one so (`spoilt`), and
deleting the journal by hand is safe. This does not help with the mixture of two journals (3.): it
does not make `start` fail, and what it did to the file shows only in the data.

## 8. Not modelled

- Configuration, its size of memory included, logging and helpers: no state that changes.
- Of the languages: numerals of 2^64 and more, values of `double_` (a value is any numeral), names longer than
  a file may have, and two numerals in a row, which would read as one. The text of answers: rows, errors and averages.
- Times before 1970: `time_t` is signed, and the short language takes negative timestamps (`statements.cpp:75`), for
  which `%` rounds the other way and tuples would be misaligned. `InputAssumption` has `Times \subseteq Nat`, and what is said about blocks is said for such times.
- `set_max_size`, `set_max_used_memory` and `clear` of the caches: called only before there is anything in
  them, after everything stopped, or by tests.
- Two threads that seek and transfer on one cached stream at the same time (`apply_journal` has no lock,
  `get_tuples` the metric's): a data race on a `std::fstream`. A client that seeks between the seek and the
  write of `apply_journal` (`rrdb_journal_file.cpp:102`) sends that block to another one's place; here a seek
  and its transfer are one step, and what the modules show holds as long as that race is not met.
- Exceptions of `update_metric` in the status thread or the flush thread end the process without a last flush
  (`server.cpp:267`): for the data it is a crash (`Terminate` in `StatsServer`). A connection that never closes
  its sending side is read forever (`server_tcp.cpp:218`); workers and main thread share the UDP socket
  (`server_udp.cpp:94`), about which nothing can be said at this level.
- Failures of the machine (no `fsync`), and what the operating system does to a datagram before it is received.
- Daemonizing, changing the user, the init script.
