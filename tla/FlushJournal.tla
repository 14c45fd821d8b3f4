---------------------------- MODULE FlushJournal ----------------------------
(***************************************************************************)
(* How updates reach the disk.  Updates change blocks in memory; the flush *)
(* thread takes the modified blocks of one metric after another, writes    *)
(* them to the journal file, then into the metric's own file, and deletes  *)
(* the journal when it is through (rrdb::flush_to_disk).  rrdb::start      *)
(* applies a journal it finds.  Workers update and select all the while,   *)
(* the blocks cache purges what it likes, and the process may die anywhere.*)
(*                                                                         *)
(* One metric's lock makes update, select and save_dirty_blocks atomic;    *)
(* writing the journal and the metric's file happens without it, one step  *)
(* per block here.  A block's content is the set of updates in it and an   *)
(* epoch, which stands for its _pos_ts: it changes when an update moves    *)
(* the block forward.                                                      *)
(***************************************************************************)
EXTENDS Integers, FiniteSets

CONSTANTS
  Metrics,
  NumBlocks,         (* Blocks per metric.                                   *)
  SameLayout,        (* Journals of two metrics have the same byte layout.   *)
  MaxUpdates,        (* Bound: updates per behaviour.                        *)
  MaxFaults,         (* Bound: crashes and I/O errors per behaviour.         *)
  ApplyMayFail,      (* I/O errors strike metrics' files, not only journals. *)
  Absent,            (* No data.                                             *)
  NoMetric

Blocks == 1 .. NumBlocks

ASSUME ConstantsAssumption ==
  /\ NumBlocks \in Nat \ {0}
  /\ SameLayout \in BOOLEAN /\ ApplyMayFail \in BOOLEAN
  /\ MaxUpdates \in Nat /\ MaxFaults \in Nat
  /\ NoMetric \notin Metrics

Data == [epoch : Nat, ups : SUBSET Nat]
ASSUME AbsentAssumption == Absent \notin Data

VARIABLES
  mode,       (* The process: see Modes.                                     *)
  dirty,      (* dirty[m]: Status_Dirty of the metric's header.              *)
  head,       (* head[m][b]: _pos_ts in the block's header in memory.        *)
  held,       (* held[m][b]: _modified_tuples, or Absent.                    *)
  cached,     (* cached[m][b]: the blocks cache's entry, or Absent.          *)
  broken,     (* broken[m]: the cached stream of m's file is in failed state.*)
  disk,       (* disk[m][b]: the block in the metric's file.                 *)
  buffer,     (* The journal's memory buffer: _cur_filename, _cur_data.      *)
  journal,    (* The journal file.                                           *)
  stream,     (* _jnl_ofs: "closed", "open" or "failed".                     *)
  pc,         (* Where flush_to_disk is.                                     *)
  todo,       (* Dirty metrics flush_to_disk has still to save.              *)
  left,       (* Blocks of the buffer not yet written in this stage.         *)
  updates,    (* Updates so far; the next one's identity.                    *)
  faults,     (* Crashes and I/O errors so far.                              *)
  snap,       (* History: the last snapshot taken of each metric.            *)
  expected,   (* History: updates acknowledged since the start, and those    *)
              (* the file had then.                                          *)
  lossy,      (* History: m met one of the two events that lose data: a read *)
              (* of a block between its save and its apply, an I/O error.    *)
  spoilt      (* History: metrics whose file was left half written by an I/O *)
              (* error, or is recovered from a journal that was being        *)
              (* written over another metric's, since their last snapshot.   *)

memory == <<dirty, head, held, cached, broken>>
files == <<disk, journal, stream>>
flusher == <<pc, todo, left, buffer>>
bounds == <<updates, faults>>
history == <<snap, expected, lossy, spoilt>>
vars == <<mode, memory, files, flusher, bounds, history>>

Modes == {"running", "stopping", "stopped", "crashed", "recovering", "failed"}
Up == mode \in {"running", "stopping"}

NoBlocks == [b \in Blocks |-> Absent]
NoBlocksAnywhere == [m \in Metrics |-> NoBlocks]
EmptyBuffer == [owner |-> NoMetric, data |-> NoBlocks]

(* "through" is history: the journal was written to the end since its header *)
(* was.  The program cannot tell; it takes the pieces for what they are.     *)
NoJournal == [exists |-> FALSE, owner |-> NoMetric, blocks |-> {}, piece |-> NoBlocks,
              through |-> FALSE]
BlocksOf(data) == {b \in Blocks : data[b] # Absent}
Initially == [epoch |-> 0, ups |-> {}]

Init ==
  /\ mode = "running"
  /\ dirty = [m \in Metrics |-> FALSE]
  /\ head = [m \in Metrics |-> [b \in Blocks |-> 0]]
  /\ held = NoBlocksAnywhere
  /\ cached = NoBlocksAnywhere
  /\ broken = [m \in Metrics |-> FALSE]
  /\ disk = [m \in Metrics |-> [b \in Blocks |-> Initially]]
  /\ buffer = EmptyBuffer
  /\ journal = NoJournal
  /\ stream = "closed"
  /\ pc = "idle"
  /\ todo = {}
  /\ left = {}
  /\ updates = 0 /\ faults = 0
  /\ snap = NoBlocksAnywhere
  /\ expected = [m \in Metrics |-> [b \in Blocks |-> {}]]
  /\ lossy = [m \in Metrics |-> FALSE]
  /\ spoilt = {}

-----------------------------------------------------------------------------
(***************************************************************************)
(* Workers.  get_tuples: the modified tuples, else the cache's, else the   *)
(* file's, whose tuple at _pos must start at the header's _pos_ts.         *)
(***************************************************************************)
(* Mutant of Content: get_tuples does not ask the cache.                     *)
ContentUncached(m, b) == IF held[m][b] # Absent THEN held[m][b] ELSE disk[m][b]

FromDisk(m, b) == held[m][b] = Absent /\ cached[m][b] = Absent
Content(m, b) ==
  IF held[m][b] # Absent THEN held[m][b]
  ELSE IF cached[m][b] # Absent THEN cached[m][b] ELSE disk[m][b]

Readable(m, b) ==
  FromDisk(m, b) => disk[m][b].epoch = head[m][b] /\ ~broken[m]

(* The block is saved but its file is not written yet.                       *)
InWindow(m, b) ==
  /\ pc \in {"open", "journal", "apply"} /\ buffer.owner = m
  /\ IF pc = "apply" THEN b \in left ELSE buffer.data[b] # Absent

ReadsTooEarly(m, B) == \E b \in B : FromDisk(m, b) /\ InWindow(m, b)

(* The new update reaches block b of m, and may move it forward.             *)
Updated(m, b, moved) ==
  [epoch |-> Content(m, b).epoch + (IF b \in moved THEN 1 ELSE 0),
   ups |-> Content(m, b).ups \cup {updates + 1}]

(* Mutant of Modify: the block works on a copy of the cached tuples.         *)
ModifyCopy(m, B, moved) ==
  /\ held' = [held EXCEPT ![m] =
       [b \in Blocks |-> IF b \in B THEN Updated(m, b, moved) ELSE @[b]]]
  /\ head' = [head EXCEPT ![m] =
       [b \in Blocks |-> IF b \in B THEN Updated(m, b, moved).epoch ELSE @[b]]]
  /\ dirty' = [dirty EXCEPT ![m] = TRUE]
  /\ updates' = updates + 1
  /\ lossy' = [lossy EXCEPT ![m] = @ \/ ReadsTooEarly(m, B)]
  /\ UNCHANGED cached

(* Blocks B of m take the new update: the tuples in the cache are the very   *)
(* object the block holds, so both change.                                   *)
Modify(m, B, moved) ==
  /\ held' = [held EXCEPT ![m] =
       [b \in Blocks |-> IF b \in B THEN Updated(m, b, moved) ELSE @[b]]]
  /\ cached' = [cached EXCEPT ![m] =
       [b \in Blocks |-> IF b \in B /\ (FromDisk(m, b) \/ @[b] # Absent)
                         THEN Updated(m, b, moved) ELSE @[b]]]
  /\ head' = [head EXCEPT ![m] =
       [b \in Blocks |-> IF b \in B THEN Updated(m, b, moved).epoch ELSE @[b]]]
  /\ dirty' = [dirty EXCEPT ![m] = TRUE]
  /\ updates' = updates + 1
  /\ lossy' = [lossy EXCEPT ![m] = @ \/ ReadsTooEarly(m, B)]

(* rrdb_metric::update reaching blocks lo .. hi; the client is answered.     *)
Update(m, lo, hi, moved) ==
  /\ mode = "running" /\ updates < MaxUpdates
  /\ \A b \in lo .. hi : Readable(m, b)
  /\ Modify(m, lo .. hi, moved)
  /\ expected' = [expected EXCEPT ![m] =
       [b \in Blocks |-> IF b \in lo .. hi THEN @[b] \cup {updates + 1} ELSE @[b]]]
  /\ UNCHANGED <<mode, files, flusher, broken, faults, snap, spoilt>>

(* ... and when loading block bad throws: the blocks before it are changed,  *)
(* the client gets an error.  Reading past the end of a file that is to grow *)
(* also leaves its cached stream in failed state.                            *)
UpdateFails(m, lo, bad, moved) ==
  /\ mode = "running" /\ updates < MaxUpdates
  /\ ~Readable(m, bad)
  /\ \A b \in lo .. bad - 1 : Readable(m, b)
  /\ Modify(m, lo .. bad - 1, moved)
  /\ \E b \in {broken[m], broken[m] \/ bad = NumBlocks} : broken' = [broken EXCEPT ![m] = b]
  /\ UNCHANGED <<mode, files, flusher, faults, snap, expected, spoilt>>

(* A select needs block b, which is neither modified nor cached.             *)
Load(m, b) ==
  /\ mode = "running"
  /\ FromDisk(m, b) /\ Readable(m, b)
  /\ cached' = [cached EXCEPT ![m][b] = disk[m][b]]
  /\ lossy' = [lossy EXCEPT ![m] = @ \/ InWindow(m, b)]
  /\ UNCHANGED <<mode, dirty, head, held, broken, files, flusher, bounds,
                 snap, expected, spoilt>>

(* ... and cannot have it.                                                   *)
LoadFails(m) ==
  /\ mode = "running" /\ ~Readable(m, NumBlocks)
  /\ broken' = [broken EXCEPT ![m] = TRUE]
  /\ UNCHANGED <<mode, dirty, head, held, cached, files, flusher, bounds, history>>

(* The blocks cache purges an entry; the files cache closes a stream.        *)
Purge(m, b) ==
  /\ mode = "running" /\ cached[m][b] # Absent
  /\ cached' = [cached EXCEPT ![m][b] = Absent]
  /\ UNCHANGED <<mode, dirty, head, held, broken, files, flusher, bounds, history>>

CloseStream(m) ==
  /\ mode = "running" /\ broken[m]
  /\ broken' = [broken EXCEPT ![m] = FALSE]
  /\ UNCHANGED <<mode, dirty, head, held, cached, files, flusher, bounds, history>>

-----------------------------------------------------------------------------
(***************************************************************************)
(* flush_to_disk, by the flush thread or once more by rrdb::stop.          *)
(***************************************************************************)
FlushBegin ==
  /\ Up /\ pc = "idle"
  /\ pc' = "next"
  /\ todo' = {m \in Metrics : dirty[m]}
  /\ UNCHANGED <<mode, memory, files, left, buffer, bounds, history>>

(* save_dirty_blocks: under the metric's lock the modified blocks go to the  *)
(* journal's buffer, and are no longer held.                                 *)
SaveDirtyBlocks(m) ==
  /\ pc = "next" /\ m \in todo
  /\ buffer = EmptyBuffer
  /\ buffer' = [owner |-> m, data |-> held[m]]
  /\ snap' = [snap EXCEPT ![m] = held[m]]
  /\ spoilt' = spoilt \ {m}
  /\ held' = [held EXCEPT ![m] = NoBlocks]
  /\ dirty' = [dirty EXCEPT ![m] = FALSE]
  /\ pc' = "open"
  /\ UNCHANGED <<mode, head, cached, broken, files, todo, left, bounds,
                 expected, lossy>>

(* Mutant of SaveDirtyBlocksFails: the metric is not marked dirty again.     *)
SaveDirtyBlocksForgets(m) ==
  /\ pc = "next" /\ m \in todo
  /\ buffer # EmptyBuffer
  /\ dirty' = [dirty EXCEPT ![m] = FALSE]
  /\ buffer' = EmptyBuffer
  /\ todo' = todo \ {m}
  /\ UNCHANGED <<mode, head, held, cached, broken, files, pc, left, bounds, history>>

(* begin_file finds the buffer in use and throws; save_dirty_blocks marks    *)
(* the metric dirty again and flush_to_disk goes on after clear().           *)
SaveDirtyBlocksFails(m) ==
  /\ pc = "next" /\ m \in todo
  /\ buffer # EmptyBuffer
  /\ dirty' = [dirty EXCEPT ![m] = TRUE]
  /\ buffer' = EmptyBuffer
  /\ todo' = todo \ {m}
  /\ UNCHANGED <<mode, head, held, cached, broken, files, pc, left, bounds, history>>

(* save_journal_file: truncate it when it is opened, otherwise overwrite it  *)
(* in place.  What is left of the previous metric's journal after the new    *)
(* header can be read as part of the new one when all sizes agree.           *)
Leftover == stream = "open" /\ SameLayout /\ journal.blocks = BlocksOf(buffer.data)
JournalHeader ==
  /\ pc = "open" /\ stream # "failed"
  /\ journal' = [exists |-> TRUE, owner |-> buffer.owner, blocks |-> BlocksOf(buffer.data),
                 piece |-> IF Leftover THEN journal.piece ELSE NoBlocks,
                 through |-> BlocksOf(buffer.data) = {}]
  /\ stream' = "open"
  /\ left' = BlocksOf(buffer.data)
  /\ pc' = "journal"
  /\ UNCHANGED <<mode, memory, disk, todo, buffer, bounds, history>>

First(b) == b \in left /\ \A c \in left : b <= c

JournalPiece(b) ==
  /\ pc = "journal" /\ First(b)
  /\ journal' = [journal EXCEPT !.piece[b] = buffer.data[b], !.through = left = {b}]
  /\ left' = left \ {b}
  /\ UNCHANGED <<mode, memory, disk, stream, pc, todo, buffer, bounds, history>>

(* Mutant of ApplyBegin: does not wait for the journal to be complete.       *)
ApplyBeginEarly ==
  /\ pc = "journal"
  /\ ~broken[buffer.owner]
  /\ left' = BlocksOf(buffer.data)
  /\ pc' = "apply"
  /\ UNCHANGED <<mode, memory, files, todo, buffer, bounds, history>>

(* apply_journal opens the metric's file through the files cache.            *)
ApplyBegin ==
  /\ pc = "journal" /\ left = {}
  /\ ~broken[buffer.owner]
  /\ left' = BlocksOf(buffer.data)
  /\ pc' = "apply"
  /\ UNCHANGED <<mode, memory, files, todo, buffer, bounds, history>>

ApplyPiece(b) ==
  /\ pc = "apply" /\ First(b)
  /\ disk' = [disk EXCEPT ![buffer.owner][b] = buffer.data[b]]
  /\ left' = left \ {b}
  /\ UNCHANGED <<mode, memory, journal, stream, pc, todo, buffer, bounds, history>>

(* clear() after each metric, whatever happened to it.                       *)
NextMetric ==
  /\ pc' = "next"
  /\ todo' = todo \ {buffer.owner}
  /\ left' = {}
  /\ buffer' = EmptyBuffer

ApplyEnd ==
  /\ pc = "apply" /\ left = {}
  /\ NextMetric
  /\ UNCHANGED <<mode, memory, files, bounds, history>>

(* Exceptions after save_dirty_blocks: logged, and nothing marks the metric  *)
(* dirty again.                                                              *)
Lose == lossy' = [lossy EXCEPT ![buffer.owner] = TRUE]

JournalError ==
  /\ pc \in {"open", "journal"}
  /\ \/ stream = "failed" /\ UNCHANGED faults
     \/ faults < MaxFaults /\ faults' = faults + 1
  /\ stream' = "failed"
  /\ NextMetric /\ Lose
  /\ UNCHANGED <<mode, memory, disk, journal, updates, snap, expected, spoilt>>

ApplyError ==
  /\ \/ /\ pc = "journal" /\ left = {} /\ broken[buffer.owner]
        /\ UNCHANGED <<faults, spoilt>>
     \/ /\ pc = "apply" /\ ApplyMayFail /\ faults < MaxFaults
        /\ faults' = faults + 1 /\ spoilt' = spoilt \cup {buffer.owner}
  /\ NextMetric /\ Lose
  /\ UNCHANGED <<mode, memory, files, updates, snap, expected>>

(* delete_journal_file; after the flush of rrdb::stop, the caches go too.    *)
FlushEnd ==
  /\ pc = "next" /\ todo = {}
  /\ journal' = NoJournal
  /\ stream' = "closed"
  /\ pc' = "idle"
  /\ IF mode = "stopping"
     THEN mode' = "stopped" /\ cached' = NoBlocksAnywhere
     ELSE UNCHANGED <<mode, cached>>
  /\ UNCHANGED <<dirty, head, held, broken, disk, todo, left, buffer, bounds,
                 snap, expected, lossy, spoilt>>

-----------------------------------------------------------------------------
(***************************************************************************)
(* The process: stop (the servers are stopped first, then the flush thread *)
(* is joined), crash, start with recovery.                                 *)
(***************************************************************************)
Stop ==
  /\ mode = "running" /\ pc = "idle"
  /\ mode' = "stopping"
  /\ UNCHANGED <<memory, files, flusher, bounds, history>>

Crash ==
  /\ mode \in {"running", "stopping", "recovering"} /\ faults < MaxFaults
  /\ faults' = faults + 1
  /\ mode' = "crashed"
  /\ dirty' = [m \in Metrics |-> FALSE]
  /\ held' = NoBlocksAnywhere /\ cached' = NoBlocksAnywhere
  /\ broken' = [m \in Metrics |-> FALSE]
  /\ buffer' = EmptyBuffer
  /\ stream' = "closed"
  /\ pc' = "idle" /\ todo' = {} /\ left' = {}
  /\ UNCHANGED <<head, disk, journal, updates, history>>

(* Mutant of JournalWhole: load_journal_file does not notice the end.        *)
JournalUnchecked == TRUE
JournalWhole == \A b \in journal.blocks : journal.piece[b] # Absent

(* load_metrics reads the headers of all blocks.                             *)
LoadMetrics ==
  /\ mode' = "running"
  /\ head' = [m \in Metrics |-> [b \in Blocks |-> disk[m][b].epoch]]
  /\ expected' = [m \in Metrics |-> [b \in Blocks |-> disk[m][b].ups]]

(* Mutant of Start: does not look for a journal.                             *)
StartIgnoresJournal ==
  /\ mode \in {"stopped", "crashed"}
  /\ LoadMetrics
  /\ dirty' = [m \in Metrics |-> FALSE] /\ held' = NoBlocksAnywhere
  /\ buffer' = EmptyBuffer
  /\ broken' = [m \in Metrics |-> FALSE]
  /\ UNCHANGED <<cached, files, pc, todo, left, bounds, snap, lossy, spoilt>>

Start ==
  /\ mode \in {"stopped", "crashed"} /\ ~journal.exists
  /\ LoadMetrics
  /\ dirty' = [m \in Metrics |-> FALSE] /\ held' = NoBlocksAnywhere
  /\ buffer' = EmptyBuffer
  /\ broken' = [m \in Metrics |-> FALSE]
  /\ UNCHANGED <<cached, files, pc, todo, left, bounds, snap, lossy, spoilt>>

(* A journal with everything in it that was not written to the end has the   *)
(* last blocks of the metric before.                                         *)
Mixed == spoilt' = IF journal.through THEN spoilt ELSE spoilt \cup {journal.owner}

(* Mutant of StartRecovery: the journal is deleted once it is loaded.        *)
StartRecoveryDeletes ==
  /\ mode = "crashed" /\ journal.exists /\ JournalWhole
  /\ mode' = "recovering"
  /\ buffer' = [owner |-> journal.owner,
                data |-> [b \in Blocks |-> IF b \in journal.blocks THEN journal.piece[b]
                                                                  ELSE Absent]]
  /\ left' = journal.blocks
  /\ journal' = NoJournal /\ Mixed
  /\ UNCHANGED <<memory, disk, stream, pc, todo, bounds, snap, expected, lossy>>

(* load_journal_file fills the buffer; a cut-off journal throws, and so does *)
(* rrdb::start.                                                              *)
StartRecovery ==
  /\ mode = "crashed" /\ journal.exists /\ JournalWhole
  /\ mode' = "recovering"
  /\ buffer' = [owner |-> journal.owner,
                data |-> [b \in Blocks |-> IF b \in journal.blocks THEN journal.piece[b]
                                                                  ELSE Absent]]
  /\ left' = journal.blocks
  /\ Mixed
  /\ UNCHANGED <<memory, files, pc, todo, bounds, snap, expected, lossy>>

StartFails ==
  /\ mode = "crashed" /\ journal.exists /\ ~JournalWhole
  /\ mode' = "failed"
  /\ UNCHANGED <<memory, files, flusher, bounds, history>>

RecoverPiece(b) ==
  /\ mode = "recovering" /\ First(b)
  /\ disk' = [disk EXCEPT ![buffer.owner][b] = buffer.data[b]]
  /\ left' = left \ {b}
  /\ UNCHANGED <<mode, memory, journal, stream, pc, todo, buffer, bounds, history>>

(* The recovered journal stays in the buffer and on disk.                    *)
RecoverEnd ==
  /\ mode = "recovering" /\ left = {}
  /\ LoadMetrics
  /\ UNCHANGED <<dirty, held, cached, broken, files, flusher, bounds, snap, lossy, spoilt>>

-----------------------------------------------------------------------------
Work ==
  \E m \in Metrics :
    \/ \E lo, hi \in Blocks : \E moved \in SUBSET (lo .. hi) :
         lo <= hi /\ Update(m, lo, hi, moved)
    \/ \E lo, bad \in Blocks : \E moved \in SUBSET (lo .. bad - 1) :
         lo <= bad /\ UpdateFails(m, lo, bad, moved)
    \/ \E b \in Blocks : Load(m, b) \/ Purge(m, b)
    \/ LoadFails(m) \/ CloseStream(m)

FlushStep ==
  \/ \E m \in Metrics : SaveDirtyBlocks(m) \/ SaveDirtyBlocksFails(m)
  \/ JournalHeader \/ (\E b \in Blocks : JournalPiece(b)) \/ JournalError
  \/ ApplyBegin \/ (\E b \in Blocks : ApplyPiece(b)) \/ ApplyEnd \/ ApplyError
  \/ FlushEnd

Flush == FlushBegin \/ FlushStep

Process ==
  \/ Stop \/ Crash \/ Start \/ StartRecovery \/ StartFails
  \/ (\E b \in Blocks : RecoverPiece(b)) \/ RecoverEnd

Next == Work \/ Flush \/ Process

(* The flush thread wakes up again and again and finishes what it began.     *)
Spec == Init /\ [][Next]_vars
FairSpec == Spec /\ WF_vars(Flush)
-----------------------------------------------------------------------------
Partial == [Blocks -> Data \cup {Absent}]

(* Every variable has its type.                                              *)
TypeOK ==
  /\ mode \in Modes
  /\ dirty \in [Metrics -> BOOLEAN]
  /\ head \in [Metrics -> [Blocks -> Nat]]
  /\ held \in [Metrics -> Partial]
  /\ cached \in [Metrics -> Partial]
  /\ broken \in [Metrics -> BOOLEAN]
  /\ disk \in [Metrics -> [Blocks -> Data]]
  /\ buffer \in [owner : Metrics \cup {NoMetric}, data : Partial]
  /\ journal \in [exists : BOOLEAN, owner : Metrics \cup {NoMetric},
                  blocks : SUBSET Blocks, piece : Partial, through : BOOLEAN]
  /\ stream \in {"closed", "open", "failed"}
  /\ pc \in {"idle", "next", "open", "journal", "apply"}
  /\ todo \in SUBSET Metrics
  /\ left \in SUBSET Blocks
  /\ updates \in Nat /\ faults \in Nat
  /\ snap \in [Metrics -> Partial]
  /\ expected \in [Metrics -> [Blocks -> SUBSET Nat]]
  /\ lossy \in [Metrics -> BOOLEAN] /\ spoilt \in SUBSET Metrics

(***************************************************************************)
(* Write-ahead: while blocks are being written into a metric's file, by a  *)
(* flush or by a recovery, the journal file holds the same blocks of the   *)
(* same metric, complete.                                                  *)
(***************************************************************************)
WriteAhead ==
  pc = "apply" \/ mode = "recovering" =>
    /\ journal.exists
    /\ journal.owner = buffer.owner
    /\ journal.blocks = BlocksOf(buffer.data)
    /\ \A b \in journal.blocks : journal.piece[b] = buffer.data[b]

(***************************************************************************)
(* A metric's file that holds some blocks of the latest snapshot and not   *)
(* the others can be repaired: the journal file has the whole snapshot.    *)
(* Two things break this, and nothing else does: an I/O error while the    *)
(* file is written; and, when journals have the same layout, a crash while *)
(* one is written over another's and the recovery from that mixture (see   *)
(* NoForeignData).  In particular, a journal that makes the start fail     *)
(* covers nothing.                                                         *)
(***************************************************************************)
SnapBlocks(m) == BlocksOf(snap[m])
Torn(m) ==
  \E b, c \in SnapBlocks(m) : disk[m][b] = snap[m][b] /\ disk[m][c] # snap[m][c]
TornFilesCovered ==
  \A m \in Metrics \ spoilt : Torn(m) =>
    /\ journal.exists /\ journal.owner = m /\ journal.blocks = SnapBlocks(m)
    /\ \A b \in journal.blocks : journal.piece[b] = snap[m][b]

(* What the files amount to: a file partly overwritten from the journal      *)
(* counts as overwritten.                                                    *)
Committing(m) ==
  /\ journal.exists /\ journal.owner = m /\ JournalWhole /\ journal.through
  /\ \E b \in journal.blocks : disk[m][b] = journal.piece[b]
Stored ==
  [m \in Metrics |-> [b \in Blocks |->
     IF Committing(m) /\ b \in journal.blocks THEN journal.piece[b] ELSE disk[m][b]]]

(* The journal makes a flush atomic: the module implements SnapshotStore.    *)
Store == INSTANCE SnapshotStore WITH stored <- Stored, damaged <- spoilt
FlushIsAtomic == Store!StoreSpec

(***************************************************************************)
(* What a client was told is in the metric stays within reach: the next    *)
(* read, from the block, the cache, the buffer on its way to the file or   *)
(* the file, has it.  The only ways out are those that set lossy: reading  *)
(* a block from the file between its save and its apply, and I/O errors.   *)
(***************************************************************************)
Reach(m, b) ==
  IF FromDisk(m, b) /\ InWindow(m, b) THEN buffer.data[b] ELSE Content(m, b)
AckedReachable ==
  \A m \in Metrics : Up /\ ~lossy[m] =>
    \A b \in Blocks : expected[m][b] \subseteq Reach(m, b).ups

(***************************************************************************)
(* A clean stop leaves everything acknowledged in the files; when the      *)
(* flush of rrdb::stop is the first one after a recovery, the buffer it    *)
(* finds in use costs it one metric, which stays marked dirty.             *)
(***************************************************************************)
OnDisk(m) == \A b \in Blocks : expected[m][b] \subseteq disk[m][b].ups
CleanStopKeepsAll ==
  mode = "stopped" =>
    /\ \A m \in Metrics : lossy[m] \/ dirty[m] \/ OnDisk(m)
    /\ \A m, n \in Metrics : dirty[m] /\ dirty[n] => m = n

(* Once in the files, an update stays there through crashes and restarts,    *)
(* unless its file is spoilt or was written from lost data.                  *)
DurableStaysDurable ==
  [][\A m \in Metrics \ spoilt : ~lossy[m] =>
       \A b \in Blocks : Stored[m][b].ups \subseteq Stored'[m][b].ups]_vars

(* While the process runs, what was acknowledged gets to the file, after a   *)
(* failed flush by a later one.                                              *)
EventuallyDurable ==
  \A m \in Metrics, b \in Blocks, u \in 1 .. MaxUpdates :
    u \in expected[m][b] ~> u \in disk[m][b].ups \/ mode # "running" \/ lossy[m]

-----------------------------------------------------------------------------
(***************************************************************************)
(* README.md: "Journal file: never lose your data".  Two readings the      *)
(* program does not meet.                                                  *)
(***************************************************************************)

(* Without I/O errors, an acknowledged update can be read back.              *)
NeverLoseAcked ==
  Up => \A m \in Metrics, b \in Blocks : expected[m][b] \subseteq Reach(m, b).ups

(***************************************************************************)
(* What is written to a metric's file, also by a recovery, are updates of  *)
(* that metric.  It fails when SameLayout: after a crash the journal can   *)
(* have one metric's name and the blocks of the metric saved before.       *)
(***************************************************************************)
NoForeignData ==
  \A m, n \in Metrics : m # n =>
    \A b, c \in Blocks : disk[m][b].ups \cap disk[n][c].ups = {}
=============================================================================
