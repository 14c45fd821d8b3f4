----------------------- MODULE FlushJournal_proofs -----------------------
(***************************************************************************)
(* For any number of metrics, blocks, updates and faults: the flush is     *)
(* write-ahead, its journal makes the write of a snapshot atomic, and what *)
(* became durable stays.  The first inductive invariant follows the        *)
(* journal through its stages: what is still to be written (left), what is *)
(* already there, and who owns it; the second is introduced where it is    *)
(* used, in the second half.                                               *)
(***************************************************************************)
EXTENDS FlushJournal, TLAPS

-----------------------------------------------------------------------------
(* While the journal is written, it has the buffer's blocks but those left.  *)
JournalGrows ==
  pc = "journal" =>
    /\ journal.exists /\ journal.owner = buffer.owner
    /\ journal.blocks = BlocksOf(buffer.data)
    /\ left \subseteq journal.blocks
    /\ \A b \in journal.blocks \ left : journal.piece[b] = buffer.data[b]

(* Only blocks of the buffer are left to be written to a metric's file.      *)
LeftIsBuffered ==
  pc = "apply" \/ mode = "recovering" => left \subseteq BlocksOf(buffer.data)

(* Whoever writes knows the metric; only a running process flushes.          *)
OwnerKnown ==
  /\ pc \in {"open", "journal", "apply"} \/ mode = "recovering" => buffer.owner \in Metrics
  /\ journal.exists => journal.owner \in Metrics
  /\ pc # "idle" => Up

IInv == TypeOK /\ WriteAhead /\ JournalGrows /\ LeftIsBuffered /\ OwnerKnown

USE DEF memory, files, flusher, bounds, history

(* The shapes of data.                                                       *)
LEMMA DataFacts ==
  /\ Absent \notin Data
  /\ Initially \in Data
  /\ NoBlocks \in Partial
  /\ NoBlocksAnywhere \in [Metrics -> Partial]
  /\ BlocksOf(NoBlocks) = {}
  <1>1. Initially \in Data
    BY DEF Initially, Data
  <1>2. NoBlocks \in Partial /\ BlocksOf(NoBlocks) = {}
    BY DEF NoBlocks, Partial, BlocksOf
  <1> QED
    BY <1>1, <1>2, AbsentAssumption DEF NoBlocksAnywhere

(* What get_tuples finds is data, and so is what an update makes of it.      *)
LEMMA ContentFacts ==
  ASSUME TypeOK, NEW m \in Metrics, NEW b \in Blocks, NEW moved \in SUBSET Blocks
  PROVE  Content(m, b) \in Data /\ Updated(m, b, moved) \in Data
  <1>1. Content(m, b) \in Data
    BY DEF Content, TypeOK, Partial
  <1>2. Content(m, b).epoch \in Nat /\ Content(m, b).ups \in SUBSET Nat
    BY <1>1 DEF Data
  <1>3. Content(m, b).epoch + (IF b \in moved THEN 1 ELSE 0) \in Nat
    BY <1>2
  <1>4. Content(m, b).ups \cup {updates + 1} \in SUBSET Nat
    BY <1>2 DEF TypeOK
  <1> QED
    BY <1>1, <1>3, <1>4 DEF Updated, Data

(* Modify keeps the types of what it changes.                                *)
LEMMA ModifyTypes ==
  ASSUME TypeOK, NEW m \in Metrics, NEW B \in SUBSET Blocks, NEW moved \in SUBSET Blocks,
         Modify(m, B, moved)
  PROVE  /\ held' \in [Metrics -> Partial]
         /\ cached' \in [Metrics -> Partial]
         /\ head' \in [Metrics -> [Blocks -> Nat]]
         /\ dirty' \in [Metrics -> BOOLEAN]
         /\ updates' \in Nat
         /\ lossy' \in [Metrics -> BOOLEAN]
  <1> DEFINE newHeld == [b \in Blocks |-> IF b \in B THEN Updated(m, b, moved) ELSE held[m][b]]
             newCached == [b \in Blocks |->
               IF b \in B /\ (FromDisk(m, b) \/ cached[m][b] # Absent)
               THEN Updated(m, b, moved) ELSE cached[m][b]]
             newHead == [b \in Blocks |->
               IF b \in B THEN Updated(m, b, moved).epoch ELSE head[m][b]]
  <1>1. \A b \in Blocks : Updated(m, b, moved) \in Data
    BY ContentFacts
  <1>2. newHeld \in Partial /\ newCached \in Partial
    BY <1>1 DEF TypeOK, Partial
  <1>3. newHead \in [Blocks -> Nat]
    <2>1. \A b \in Blocks : Updated(m, b, moved).epoch \in Nat
      BY <1>1 DEF Data
    <2> QED
      BY <2>1 DEF TypeOK
  <1>4. /\ held' = [held EXCEPT ![m] = newHeld]
        /\ cached' = [cached EXCEPT ![m] = newCached]
        /\ head' = [head EXCEPT ![m] = newHead]
    BY Zenon DEF Modify
  <1>5. held' \in [Metrics -> Partial] /\ cached' \in [Metrics -> Partial]
    BY <1>2, <1>4 DEF TypeOK
  <1>6. head' \in [Metrics -> [Blocks -> Nat]]
    BY <1>3, <1>4 DEF TypeOK
  <1>7. dirty' \in [Metrics -> BOOLEAN] /\ updates' \in Nat
    BY DEF Modify, TypeOK
  <1>8. lossy' \in [Metrics -> BOOLEAN]
    <2>1. lossy' = [lossy EXCEPT ![m] = lossy[m] \/ ReadsTooEarly(m, B)]
      BY Zenon DEF Modify
    <2> QED
      BY <2>1, Zenon DEF TypeOK
  <1> QED
    BY <1>5, <1>6, <1>7, <1>8

-----------------------------------------------------------------------------
(* Everything but the types only depends on the journal's stages.            *)
stages == <<mode, pc, left, buffer, journal>>
Stages == WriteAhead /\ JournalGrows /\ LeftIsBuffered /\ OwnerKnown

(* A step that leaves those variables alone keeps them.                     *)
LEMMA StagesUnchanged == Stages /\ UNCHANGED stages => Stages'
  BY DEF Stages, stages, WriteAhead, JournalGrows, LeftIsBuffered, OwnerKnown, Up

(* Workers and the caches.                                                   *)
LEMMA UpdateStep ==
  ASSUME IInv, NEW m \in Metrics, NEW lo \in Blocks, NEW hi \in Blocks,
         NEW moved \in SUBSET (lo .. hi), Update(m, lo, hi, moved)
  PROVE  IInv'
  <1>1. lo .. hi \in SUBSET Blocks /\ moved \in SUBSET Blocks
    BY ConstantsAssumption DEF Blocks
  <1>2. TypeOK'
    <2>1. expected' \in [Metrics -> [Blocks -> SUBSET Nat]]
      <3> DEFINE new == [b \in Blocks |-> IF b \in lo .. hi THEN expected[m][b] \cup {updates + 1}
                                                           ELSE expected[m][b]]
      <3>1. \A b \in Blocks : expected[m][b] \cup {updates + 1} \in SUBSET Nat
        BY DEF IInv, TypeOK
      <3>2. new \in [Blocks -> SUBSET Nat]
        BY <3>1 DEF IInv, TypeOK
      <3>3. expected' = [expected EXCEPT ![m] = new]
        BY Zenon DEF Update
      <3> QED
        BY <3>2, <3>3 DEF IInv, TypeOK
    <2>2. Modify(m, lo .. hi, moved) /\ UNCHANGED <<mode, files, flusher, broken, faults, snap, spoilt>>
      BY DEF Update
    <2> QED
      BY <1>1, <2>1, <2>2, ModifyTypes DEF IInv, TypeOK
  <1>3. Stages'
    BY StagesUnchanged DEF IInv, Stages, stages, Update
  <1> QED
    BY <1>2, <1>3 DEF IInv, Stages

(* A failed update has changed the blocks before the bad one, nothing else. *)
LEMMA UpdateFailsStep ==
  ASSUME IInv, NEW m \in Metrics, NEW lo \in Blocks, NEW bad \in Blocks,
         NEW moved \in SUBSET (lo .. bad - 1), UpdateFails(m, lo, bad, moved)
  PROVE  IInv'
  <1>1. lo .. bad - 1 \in SUBSET Blocks /\ moved \in SUBSET Blocks
    BY ConstantsAssumption DEF Blocks
  <1>2. TypeOK'
    <2>1. /\ Modify(m, lo .. bad - 1, moved)
          /\ UNCHANGED <<mode, files, flusher, faults, snap, expected, spoilt>>
      BY DEF UpdateFails
    <2>2. broken' \in [Metrics -> BOOLEAN]
      <3>1. PICK b \in {broken[m], broken[m] \/ bad = NumBlocks} :
              broken' = [broken EXCEPT ![m] = b]
        BY DEF UpdateFails
      <3>2. b \in BOOLEAN
        BY <3>1 DEF IInv, TypeOK
      <3> QED
        BY <3>1, <3>2 DEF IInv, TypeOK
    <2> QED
      BY <1>1, <2>1, <2>2, ModifyTypes DEF IInv, TypeOK
  <1>3. Stages'
    BY StagesUnchanged DEF IInv, Stages, stages, UpdateFails
  <1> QED
    BY <1>2, <1>3 DEF IInv, Stages

(* Loads and purges touch the caches only.                                  *)
LEMMA CacheStep ==
  ASSUME IInv, NEW m \in Metrics, NEW b \in Blocks,
         Load(m, b) \/ Purge(m, b) \/ LoadFails(m) \/ CloseStream(m)
  PROVE  IInv'
  <1>1. TypeOK'
    <2>1. CASE Load(m, b)
      <3>1. cached' \in [Metrics -> Partial]
        <4>1. [cached[m] EXCEPT ![b] = disk[m][b]] \in Partial
          BY DEF IInv, TypeOK, Partial
        <4>2. cached' = [cached EXCEPT ![m] = [cached[m] EXCEPT ![b] = disk[m][b]]]
          BY <2>1, Zenon DEF Load
        <4> QED
          BY <4>1, <4>2 DEF IInv, TypeOK
      <3>2. lossy' \in [Metrics -> BOOLEAN]
        <4>1. lossy' = [lossy EXCEPT ![m] = lossy[m] \/ InWindow(m, b)]
          BY <2>1, Zenon DEF Load
        <4> QED
          BY <4>1, Zenon DEF IInv, TypeOK
      <3> QED
        BY <2>1, <3>1, <3>2 DEF Load, IInv, TypeOK
    <2>2. CASE Purge(m, b)
      <3>1. [cached[m] EXCEPT ![b] = Absent] \in Partial
        BY DEF IInv, TypeOK, Partial
      <3>2. cached' = [cached EXCEPT ![m] = [cached[m] EXCEPT ![b] = Absent]]
        BY <2>2, Zenon DEF Purge
      <3> QED
        BY <2>2, <3>1, <3>2 DEF Purge, IInv, TypeOK
    <2>3. CASE LoadFails(m) \/ CloseStream(m)
      BY <2>3 DEF LoadFails, CloseStream, IInv, TypeOK
    <2> QED
      BY <2>1, <2>2, <2>3
  <1>2. UNCHANGED stages
    BY DEF Load, Purge, LoadFails, CloseStream, stages
  <1> QED
    BY <1>1, <1>2, StagesUnchanged DEF IInv, Stages

-----------------------------------------------------------------------------
(* The flush thread.                                                         *)
LEMMA FlushBeginStep ==
  ASSUME IInv, FlushBegin
  PROVE  IInv'
  <1>1. TypeOK'
    BY DEF FlushBegin, IInv, TypeOK
  <1>2. Stages'
    BY DEF FlushBegin, IInv, Stages, WriteAhead, JournalGrows, LeftIsBuffered, OwnerKnown, Up
  <1> QED
    BY <1>1, <1>2 DEF IInv, Stages

(* save_dirty_blocks fills the buffer before any stage, or fails and clears it. *)
LEMMA SaveStep ==
  ASSUME IInv, NEW m \in Metrics, SaveDirtyBlocks(m) \/ SaveDirtyBlocksFails(m)
  PROVE  IInv'
  <1>1. CASE SaveDirtyBlocks(m)
    <2>1. TypeOK'
      <3>1. held[m] \in Partial
        BY DEF IInv, TypeOK
      <3> QED
        BY <1>1, <3>1, DataFacts DEF SaveDirtyBlocks, IInv, TypeOK
    <2>2. Stages'
      BY <1>1 DEF SaveDirtyBlocks, IInv, Stages, WriteAhead, JournalGrows, LeftIsBuffered,
                  OwnerKnown, Up
    <2> QED
      BY <2>1, <2>2 DEF IInv, Stages
  <1>2. CASE SaveDirtyBlocksFails(m)
    <2>1. TypeOK'
      BY <1>2, DataFacts DEF SaveDirtyBlocksFails, EmptyBuffer, IInv, TypeOK
    <2>2. Stages'
      BY <1>2 DEF SaveDirtyBlocksFails, IInv, Stages, WriteAhead, JournalGrows,
                  LeftIsBuffered, OwnerKnown, Up
    <2> QED
      BY <2>1, <2>2 DEF IInv, Stages
  <1> QED
    BY <1>1, <1>2

(* The new header names the buffer's owner and blocks; all are left to write. *)
LEMMA JournalHeaderStep ==
  ASSUME IInv, JournalHeader
  PROVE  IInv'
  <1>1. BlocksOf(buffer.data) \in SUBSET Blocks
    BY DEF BlocksOf
  <1>2. buffer.owner \in Metrics
    BY DEF JournalHeader, IInv, OwnerKnown
  <1>3. TypeOK'
    <2>1. (IF Leftover THEN journal.piece ELSE NoBlocks) \in Partial
      BY DataFacts DEF IInv, TypeOK
    <2>2. journal' \in [exists : BOOLEAN, owner : Metrics \cup {NoMetric},
                        blocks : SUBSET Blocks, piece : Partial, through : BOOLEAN]
      BY <1>1, <1>2, <2>1 DEF JournalHeader
    <2> QED
      BY <1>1, <2>2 DEF JournalHeader, IInv, TypeOK
  <1>4. Stages'
    BY <1>2 DEF JournalHeader, IInv, Stages, WriteAhead, JournalGrows, LeftIsBuffered,
                OwnerKnown, Up
  <1> QED
    BY <1>3, <1>4 DEF IInv, Stages

(* Each block written makes the journal grow by what the buffer has.        *)
LEMMA JournalPieceStep ==
  ASSUME IInv, NEW b \in Blocks, JournalPiece(b)
  PROVE  IInv'
  <1> DEFINE piece == [journal.piece EXCEPT ![b] = buffer.data[b]]
  <1>1. /\ journal' = [journal EXCEPT !.piece = piece, !.through = left = {b}]
        /\ left' = left \ {b}
        /\ UNCHANGED <<mode, pc, buffer>>
    BY Zenon DEF JournalPiece
  <1>2. piece \in Partial
    BY DEF IInv, TypeOK, Partial
  <1>3. /\ journal'.exists = journal.exists /\ journal'.owner = journal.owner
        /\ journal'.blocks = journal.blocks /\ journal'.piece = piece
    BY <1>1 DEF IInv, TypeOK
  <1>4. TypeOK'
    <2>1. (left = {b}) \in BOOLEAN
      OBVIOUS
    <2>2. journal' \in [exists : BOOLEAN, owner : Metrics \cup {NoMetric},
                        blocks : SUBSET Blocks, piece : Partial, through : BOOLEAN]
      BY <1>1, <1>2, <2>1 DEF IInv, TypeOK
    <2> QED
      BY <2>2 DEF JournalPiece, IInv, TypeOK
  <1>5. JournalGrows'
    <2>1. pc = "journal" /\ JournalGrows
      BY DEF JournalPiece, IInv
    <2>2. ASSUME NEW c \in journal.blocks \ left'
          PROVE  piece[c] = buffer.data[c]
      <3>1. c \in Blocks
        BY DEF IInv, TypeOK
      <3> QED
        BY <1>1, <2>1, <2>2, <3>1 DEF JournalGrows, IInv, TypeOK, Partial
    <2> QED
      BY <1>1, <1>3, <2>1, <2>2 DEF JournalGrows
  <1>6. WriteAhead' /\ LeftIsBuffered' /\ OwnerKnown'
    BY <1>1, <1>3 DEF JournalPiece, IInv, WriteAhead, LeftIsBuffered, OwnerKnown, Up
  <1> QED
    BY <1>4, <1>5, <1>6 DEF IInv

(* The journal is complete: writing the metric's file may begin.             *)
LEMMA ApplyBeginStep ==
  ASSUME IInv, ApplyBegin
  PROVE  IInv'
  <1>1. TypeOK'
    BY DEF ApplyBegin, BlocksOf, IInv, TypeOK
  <1>2. Stages'
    BY DEF ApplyBegin, IInv, Stages, WriteAhead, JournalGrows, LeftIsBuffered, OwnerKnown, Up
  <1> QED
    BY <1>1, <1>2 DEF IInv, Stages

(* One block of the buffer goes to the metric's file, in a flush or in a     *)
(* recovery.                                                                 *)
LEMMA PieceStep ==
  ASSUME IInv, NEW b \in Blocks, ApplyPiece(b) \/ RecoverPiece(b)
  PROVE  IInv'
  <1>1. /\ b \in left /\ left' = left \ {b}
        /\ pc = "apply" \/ mode = "recovering"
        /\ disk' = [disk EXCEPT ![buffer.owner] =
                     [disk[buffer.owner] EXCEPT ![b] = buffer.data[b]]]
        /\ UNCHANGED <<mode, memory, journal, stream, pc, todo, buffer, bounds, history>>
    BY Zenon DEF ApplyPiece, RecoverPiece, First
  <1>2. buffer.data[b] \in Data
    <2>1. buffer.data[b] # Absent
      BY <1>1 DEF IInv, LeftIsBuffered, BlocksOf
    <2> QED
      BY <2>1 DEF IInv, TypeOK, Partial
  <1>3. buffer.owner \in Metrics
    BY <1>1 DEF IInv, OwnerKnown
  <1>4. disk' \in [Metrics -> [Blocks -> Data]]
    BY <1>1, <1>2, <1>3 DEF IInv, TypeOK
  <1>5. TypeOK'
    BY <1>1, <1>4 DEF IInv, TypeOK
  <1>6. Stages'
    BY <1>1 DEF ApplyPiece, RecoverPiece, IInv, Stages, WriteAhead, JournalGrows,
                LeftIsBuffered, OwnerKnown, Up
  <1> QED
    BY <1>5, <1>6 DEF IInv, Stages

(* The end of one metric, good or bad, and of the flush.                     *)
LEMMA NextMetricStep ==
  ASSUME IInv, ApplyEnd \/ JournalError \/ ApplyError
  PROVE  IInv'
  <1>1. /\ pc' = "next" /\ left' = {} /\ buffer' = EmptyBuffer /\ todo' = todo \ {buffer.owner}
        /\ mode' = mode /\ journal' = journal
    BY DEF ApplyEnd, JournalError, ApplyError, NextMetric
  <1>2. pc # "idle" /\ mode # "recovering"
    BY DEF ApplyEnd, JournalError, ApplyError, IInv, OwnerKnown, Up
  <1>3. TypeOK'
    <2>1. EmptyBuffer \in [owner : Metrics \cup {NoMetric}, data : Partial]
      BY DataFacts DEF EmptyBuffer
    <2>2. lossy' \in [Metrics -> BOOLEAN]
      <3>1. CASE lossy' = lossy
        BY <3>1 DEF IInv, TypeOK
      <3>2. CASE Lose
        BY <3>2 DEF Lose, IInv, TypeOK
      <3> QED
        BY <3>1, <3>2 DEF ApplyEnd, JournalError, ApplyError
    <2>3. faults' \in Nat /\ stream' \in {"closed", "open", "failed"}
      <3>1. faults' \in {faults, faults + 1} /\ stream' \in {stream, "failed"}
        BY DEF ApplyEnd, JournalError, ApplyError
      <3> QED
        BY <3>1 DEF IInv, TypeOK
    <2>4. UNCHANGED <<mode, memory, disk, journal, updates, snap, expected>>
      BY DEF ApplyEnd, JournalError, ApplyError
    <2>5. spoilt' \in SUBSET Metrics
      <3>1. buffer.owner \in Metrics
        BY DEF ApplyEnd, JournalError, ApplyError, IInv, OwnerKnown
      <3>2. spoilt' = spoilt \/ spoilt' = spoilt \cup {buffer.owner}
        BY DEF ApplyEnd, JournalError, ApplyError
      <3> QED
        BY <3>1, <3>2 DEF IInv, TypeOK
    <2> QED
      BY <1>1, <2>1, <2>2, <2>3, <2>4, <2>5 DEF IInv, TypeOK
  <1>4. Stages'
    BY <1>1, <1>2 DEF IInv, Stages, WriteAhead, JournalGrows, LeftIsBuffered, OwnerKnown, Up
  <1> QED
    BY <1>3, <1>4 DEF IInv, Stages

(* The journal is deleted only when nothing is being written from it.       *)
LEMMA FlushEndStep ==
  ASSUME IInv, FlushEnd
  PROVE  IInv'
  <1>1. TypeOK'
    <2>1. NoJournal \in [exists : BOOLEAN, owner : Metrics \cup {NoMetric},
                         blocks : SUBSET Blocks, piece : Partial, through : BOOLEAN]
      BY DataFacts DEF NoJournal
    <2>2. mode' \in Modes /\ cached' \in [Metrics -> Partial]
      BY DataFacts DEF FlushEnd, Modes, IInv, TypeOK
    <2> QED
      BY <2>1, <2>2 DEF FlushEnd, IInv, TypeOK
  <1>2. mode' # "recovering" /\ pc' = "idle" /\ ~journal'.exists
    BY DEF FlushEnd, NoJournal, IInv, OwnerKnown, Up
  <1>3. Stages'
    BY <1>2 DEF Stages, WriteAhead, JournalGrows, LeftIsBuffered, OwnerKnown
  <1> QED
    BY <1>1, <1>3 DEF IInv, Stages

-----------------------------------------------------------------------------
(* The process.                                                              *)
LEMMA StopStep ==
  ASSUME IInv, Stop
  PROVE  IInv'
  <1>1. TypeOK'
    BY DEF Stop, Modes, IInv, TypeOK
  <1>2. Stages'
    BY DEF Stop, IInv, Stages, WriteAhead, JournalGrows, LeftIsBuffered, OwnerKnown, Up
  <1> QED
    BY <1>1, <1>2 DEF IInv, Stages

(* A crash ends every stage.                                                *)
LEMMA CrashStep ==
  ASSUME IInv, Crash
  PROVE  IInv'
  <1>1. TypeOK'
    BY DataFacts DEF Crash, Modes, EmptyBuffer, IInv, TypeOK
  <1>2. Stages'
    BY DEF Crash, IInv, Stages, WriteAhead, JournalGrows, LeftIsBuffered, OwnerKnown, Up
  <1> QED
    BY <1>1, <1>2 DEF IInv, Stages

(* Reading all headers keeps the types.                                      *)
LEMMA LoadMetricsTypes ==
  ASSUME TypeOK, LoadMetrics
  PROVE  /\ mode' = "running"
         /\ head' \in [Metrics -> [Blocks -> Nat]]
         /\ expected' \in [Metrics -> [Blocks -> SUBSET Nat]]
  BY DEF LoadMetrics, TypeOK, Data

(* A start without a journal begins outside every stage.                    *)
LEMMA StartStep ==
  ASSUME IInv, Start
  PROVE  IInv'
  <1>1. TypeOK'
    BY LoadMetricsTypes, DataFacts DEF Start, Modes, EmptyBuffer, IInv, TypeOK
  <1>2. pc = "idle" /\ pc' = "idle" /\ mode' = "running" /\ journal' = journal
    BY DEF Start, LoadMetrics, IInv, OwnerKnown, Up
  <1>3. Stages'
    BY <1>2 DEF IInv, Stages, WriteAhead, JournalGrows, LeftIsBuffered, OwnerKnown
  <1> QED
    BY <1>1, <1>3 DEF IInv, Stages

(* Only a complete journal is loaded, so the buffer gets all its blocks.     *)
LEMMA StartRecoveryStep ==
  ASSUME IInv, StartRecovery
  PROVE  IInv'
  <1> DEFINE data == [b \in Blocks |-> IF b \in journal.blocks THEN journal.piece[b] ELSE Absent]
  <1>1. /\ mode = "crashed" /\ mode' = "recovering"
        /\ journal.exists /\ JournalWhole /\ journal' = journal
        /\ buffer' = [owner |-> journal.owner, data |-> data]
        /\ left' = journal.blocks /\ pc' = pc
    BY DEF StartRecovery
  <1>2. data \in Partial
    BY DEF IInv, TypeOK, Partial
  <1>3. journal.owner \in Metrics /\ journal.blocks \in SUBSET Blocks
    BY <1>1 DEF IInv, OwnerKnown, TypeOK
  <1>4. BlocksOf(data) = journal.blocks
    BY <1>1, <1>3 DEF BlocksOf, JournalWhole
  <1>5. TypeOK'
    <2>1. buffer' \in [owner : Metrics \cup {NoMetric}, data : Partial]
      BY <1>1, <1>2, <1>3
    <2>2. spoilt' \in SUBSET Metrics
      BY <1>3 DEF StartRecovery, Mixed, IInv, TypeOK
    <2> QED
      BY <1>1, <1>3, <2>1, <2>2 DEF StartRecovery, Modes, IInv, TypeOK
  <1>6. pc' = "idle"
    BY <1>1 DEF IInv, OwnerKnown, Up
  <1>7. buffer'.data = data /\ buffer'.owner = journal.owner
    BY <1>1
  <1>8. \A b \in journal.blocks : journal.piece[b] = data[b]
    BY <1>3
  <1> HIDE DEF data
  <1>9. Stages'
    BY <1>1, <1>3, <1>4, <1>6, <1>7, <1>8
       DEF Stages, WriteAhead, JournalGrows, LeftIsBuffered, OwnerKnown
  <1> QED
    BY <1>5, <1>9 DEF IInv, Stages

(* A start that fails changes nothing but the mode.                         *)
LEMMA StartFailsStep ==
  ASSUME IInv, StartFails
  PROVE  IInv'
  <1>1. TypeOK'
    BY DEF StartFails, Modes, IInv, TypeOK
  <1>2. Stages'
    BY DEF StartFails, IInv, Stages, WriteAhead, JournalGrows, LeftIsBuffered, OwnerKnown, Up
  <1> QED
    BY <1>1, <1>2 DEF IInv, Stages

(* The end of a recovery leaves its stage.                                  *)
LEMMA RecoverEndStep ==
  ASSUME IInv, RecoverEnd
  PROVE  IInv'
  <1>1. TypeOK'
    BY LoadMetricsTypes DEF RecoverEnd, Modes, IInv, TypeOK
  <1>2. pc = "idle" /\ pc' = "idle" /\ mode' = "running" /\ journal' = journal
    BY DEF RecoverEnd, LoadMetrics, IInv, OwnerKnown, Up
  <1>3. Stages'
    BY <1>2 DEF IInv, Stages, WriteAhead, JournalGrows, LeftIsBuffered, OwnerKnown
  <1> QED
    BY <1>1, <1>3 DEF IInv, Stages

-----------------------------------------------------------------------------
(* The initial state satisfies the invariant.                               *)
LEMMA InitIInv == Init => IInv
  <1> SUFFICES ASSUME Init PROVE IInv
    OBVIOUS
  <1>1. TypeOK
    <2>1. NoJournal \in [exists : BOOLEAN, owner : Metrics \cup {NoMetric},
                         blocks : SUBSET Blocks, piece : Partial, through : BOOLEAN]
      BY DataFacts DEF NoJournal
    <2>2. EmptyBuffer \in [owner : Metrics \cup {NoMetric}, data : Partial]
      BY DataFacts DEF EmptyBuffer
    <2> QED
      BY <2>1, <2>2, DataFacts DEF Init, TypeOK, Modes
  <1>2. Stages
    BY DEF Init, NoJournal, Stages, WriteAhead, JournalGrows, LeftIsBuffered, OwnerKnown
  <1> QED
    BY <1>1, <1>2 DEF IInv, Stages

(* Every step of the specification keeps it.                                *)
LEMMA NextIInv == IInv /\ [Next]_vars => IInv'
  <1> SUFFICES ASSUME IInv, [Next]_vars PROVE IInv'
    OBVIOUS
  <1>1. CASE Work
    <2>1. PICK m \in Metrics :
            \/ \E lo, hi \in Blocks : \E moved \in SUBSET (lo .. hi) :
                 lo <= hi /\ Update(m, lo, hi, moved)
            \/ \E lo, bad \in Blocks : \E moved \in SUBSET (lo .. bad - 1) :
                 lo <= bad /\ UpdateFails(m, lo, bad, moved)
            \/ \E b \in Blocks : Load(m, b) \/ Purge(m, b)
            \/ LoadFails(m) \/ CloseStream(m)
      BY <1>1 DEF Work
    <2>2. 1 \in Blocks
      BY ConstantsAssumption DEF Blocks
    <2> QED
      BY <2>1, <2>2, UpdateStep, UpdateFailsStep, CacheStep
  <1>2. CASE Flush
    BY <1>2, FlushBeginStep, SaveStep, JournalHeaderStep, JournalPieceStep, ApplyBeginStep,
       PieceStep, NextMetricStep, FlushEndStep DEF Flush, FlushStep
  <1>3. CASE Process
    BY <1>3, StopStep, CrashStep, StartStep, StartRecoveryStep, StartFailsStep, PieceStep,
       RecoverEndStep DEF Process
  <1>4. CASE UNCHANGED vars
    <2>1. TypeOK'
      BY <1>4 DEF vars, IInv, TypeOK
    <2>2. Stages'
      BY <1>4, StagesUnchanged DEF vars, stages, IInv, Stages
    <2> QED
      BY <2>1, <2>2 DEF IInv, Stages
  <1> QED
    BY <1>1, <1>2, <1>3, <1>4 DEF Next

(* For any number of metrics, blocks and faults the types are right: a       *)
(* metric's file only ever gets blocks the buffer has (apply_journal).       *)
THEOREM TypeCorrect == Spec => []TypeOK
  <1>1. IInv => TypeOK
    BY DEF IInv
  <1> QED
    BY <1>1, InitIInv, NextIInv, PTL DEF Spec

(* Write-ahead logging: at every moment some block of a metric's file may be *)
(* half overwritten, the journal file holds that metric's blocks, complete   *)
(* (rrdb::flush_to_disk, rrdb::start).                                       *)
THEOREM JournalWrittenAhead == Spec => []WriteAhead
  <1>1. IInv => WriteAhead
    BY DEF IInv
  <1> QED
    BY <1>1, InitIInv, NextIInv, PTL DEF Spec

-----------------------------------------------------------------------------
(***************************************************************************)
(* What was acknowledged stays within reach while the process runs, and a  *)
(* clean stop leaves it in the files: for any number of metrics, blocks,   *)
(* updates and faults, whatever the workers and the caches do meanwhile.   *)
(*                                                                         *)
(* The argument follows the newest version of a block (Latest) from the    *)
(* block through the journal's buffer into the file.  Unless the metric    *)
(* met one of the two events that lose data, the blocks cache has that     *)
(* version or nothing, so an update is always made of it.                  *)
(***************************************************************************)
Latest(m, b) ==
  IF held[m][b] # Absent THEN held[m][b]
  ELSE IF InWindow(m, b) THEN buffer.data[b] ELSE disk[m][b]

(* The blocks cache never has an old version.                                *)
CachesCurrent ==
  \A m \in Metrics, b \in Blocks :
    Up /\ ~lossy[m] /\ cached[m][b] # Absent => cached[m][b] = Latest(m, b)

AckedInLatest ==
  \A m \in Metrics, b \in Blocks :
    (Up \/ mode = "stopped") /\ ~lossy[m] => expected[m][b] \subseteq Latest(m, b).ups

(* What is modified is marked, and only in a process that is there.          *)
HeldDirty == \A m \in Metrics, b \in Blocks : held[m][b] # Absent => dirty[m]
Down ==
  /\ ~Up => cached = NoBlocksAnywhere
  /\ mode \in {"crashed", "recovering", "failed"} => held = NoBlocksAnywhere

(* The flush of a stop leaves one metric at most: its buffer can be found in *)
(* use once.                                                                 *)
OneLeft ==
  (mode = "stopping" /\ pc # "idle") \/ mode = "stopped" =>
    /\ \A m, n \in Metrics : dirty[m] /\ dirty[n] /\ m \notin todo /\ n \notin todo => m = n
    /\ \A m \in Metrics : pc = "next" /\ dirty[m] /\ m \notin todo => buffer = EmptyBuffer
    /\ pc \in {"open", "journal", "apply"} => ~dirty[buffer.owner]
    /\ mode = "stopped" => todo = {}

Contents == CachesCurrent /\ AckedInLatest /\ HeldDirty /\ Down /\ OneLeft
KInv == IInv /\ Contents

USE DEF memory, files, flusher, bounds, history

-----------------------------------------------------------------------------
(* Steps that make no version of a block newer or older.                     *)
LEMMA LatestKept ==
  ASSUME Contents,
         Up' \/ mode' = "stopped" => Up \/ mode = "stopped", Up' => Up,
         \A m \in Metrics : lossy[m] => lossy'[m],
         expected' = expected,
         \A m \in Metrics, b \in Blocks : cached'[m][b] \in {Absent, cached[m][b]},
         \A m \in Metrics, b \in Blocks : ~lossy'[m] => Latest(m, b)' = Latest(m, b)
  PROVE  CachesCurrent' /\ AckedInLatest'
  <1>1. CachesCurrent'
    <2> SUFFICES ASSUME NEW m \in Metrics, NEW b \in Blocks, Up', ~lossy'[m], cached'[m][b] # Absent
                 PROVE  cached'[m][b] = Latest(m, b)'
      BY DEF CachesCurrent
    <2>1. cached'[m][b] = cached[m][b] /\ ~lossy[m] /\ Up /\ Latest(m, b)' = Latest(m, b)
      OBVIOUS
    <2> QED
      BY <2>1 DEF Contents, CachesCurrent
  <1>2. AckedInLatest'
    <2> SUFFICES ASSUME NEW m \in Metrics, NEW b \in Blocks, (Up \/ mode = "stopped")', ~lossy'[m]
                 PROVE  expected'[m][b] \subseteq Latest(m, b)'.ups
      BY DEF AckedInLatest
    <2>1. ~lossy[m] /\ (Up \/ mode = "stopped") /\ Latest(m, b)' = Latest(m, b)
      BY DEF Up
    <2> QED
      BY <2>1 DEF Contents, AckedInLatest
  <1> QED
    BY <1>1, <1>2

(* Steps to where no process is.                                             *)
LEMMA NobodyLooks ==
  ASSUME mode' \in {"crashed", "recovering", "failed"}
  PROVE  CachesCurrent' /\ AckedInLatest' /\ OneLeft'
  BY DEF CachesCurrent, AckedInLatest, OneLeft, Up

(* Unless it is too early to read the block from the file, get_tuples gives  *)
(* its newest version.                                                       *)
LEMMA ContentIsLatest ==
  ASSUME Contents, Up, NEW m \in Metrics, NEW b \in Blocks,
         ~lossy[m], ~(FromDisk(m, b) /\ InWindow(m, b))
  PROVE  Content(m, b) = Latest(m, b)
  BY DEF Contents, CachesCurrent, Content, Latest, FromDisk

-----------------------------------------------------------------------------
(* An update, complete or not: the blocks it reaches get the newest version  *)
(* and the update.                                                           *)
LEMMA ModifyContents ==
  ASSUME KInv, NEW m \in Metrics, NEW B \in SUBSET Blocks, NEW moved \in SUBSET Blocks,
         Modify(m, B, moved), mode = "running", UNCHANGED <<mode, files, flusher>>,
         \A n \in Metrics, b \in Blocks :
           expected'[n][b] \subseteq
             expected[n][b] \cup (IF n = m /\ b \in B THEN {updates + 1} ELSE {})
  PROVE  Contents'
  <1>0. TypeOK /\ Contents /\ Up /\ Up' /\ mode' = "running"
    BY DEF KInv, IInv, Up
  <1>1. /\ \A n \in Metrics, b \in Blocks : n # m \/ b \notin B =>
             held'[n][b] = held[n][b] /\ cached'[n][b] = cached[n][b]
        /\ \A b \in B : held'[m][b] = Updated(m, b, moved)
        /\ \A b \in B : cached'[m][b] \in {Absent, Updated(m, b, moved)}
        /\ dirty'[m] /\ \A n \in Metrics : dirty[n] => dirty'[n]
    <2> DEFINE newHeld == [b \in Blocks |-> IF b \in B THEN Updated(m, b, moved) ELSE held[m][b]]
               newCached == [b \in Blocks |->
                 IF b \in B /\ (FromDisk(m, b) \/ cached[m][b] # Absent)
                 THEN Updated(m, b, moved) ELSE cached[m][b]]
    <2>1. held' = [held EXCEPT ![m] = newHeld] /\ cached' = [cached EXCEPT ![m] = newCached]
      BY Zenon DEF Modify
    <2>2. dirty' = [dirty EXCEPT ![m] = TRUE]
      BY DEF Modify
    <2>3. /\ \A n \in Metrics \ {m} : held'[n] = held[n] /\ cached'[n] = cached[n]
          /\ held'[m] = newHeld /\ cached'[m] = newCached
      BY <1>0, <2>1 DEF TypeOK
    <2>4. dirty'[m] /\ \A n \in Metrics : dirty[n] => dirty'[n]
      BY <1>0, <2>2 DEF TypeOK
    <2>5. \A b \in B : held'[m][b] = Updated(m, b, moved)
      BY <2>3
    <2>6. \A b \in B : cached'[m][b] \in {Absent, Updated(m, b, moved)}
      BY <2>3
    <2>7. \A n \in Metrics, b \in Blocks : n # m \/ b \notin B =>
            held'[n][b] = held[n][b] /\ cached'[n][b] = cached[n][b]
      BY <2>3
    <2> QED
      BY <2>4, <2>5, <2>6, <2>7
  <1>2. /\ \A n \in Metrics : lossy[n] => lossy'[n]
        /\ ~lossy'[m] => \A b \in B : ~(FromDisk(m, b) /\ InWindow(m, b))
    <2>1. lossy' = [lossy EXCEPT ![m] = lossy[m] \/ ReadsTooEarly(m, B)]
      BY Zenon DEF Modify
    <2>2. lossy'[m] = (lossy[m] \/ ReadsTooEarly(m, B)) /\ \A n \in Metrics \ {m} : lossy'[n] = lossy[n]
      BY <1>0, <2>1, Zenon DEF TypeOK
    <2> QED
      BY <2>2, Zenon DEF ReadsTooEarly
  <1>3. \A n \in Metrics, b \in Blocks : n # m \/ b \notin B => Latest(n, b)' = Latest(n, b)
    BY <1>1 DEF Latest, InWindow
  <1>4. \A b \in B : Updated(m, b, moved) \in Data /\ Latest(m, b)' = Updated(m, b, moved)
    BY <1>0, <1>1, ContentFacts, DataFacts DEF Latest
  <1>5. ASSUME NEW b \in B, ~lossy'[m]
        PROVE  Updated(m, b, moved).ups = Latest(m, b).ups \cup {updates + 1}
    BY <1>0, <1>2, <1>5, ContentIsLatest DEF Updated
  <1>6. CachesCurrent'
    <2> SUFFICES ASSUME NEW n \in Metrics, NEW b \in Blocks, ~lossy'[n], cached'[n][b] # Absent
                 PROVE  cached'[n][b] = Latest(n, b)'
      BY DEF CachesCurrent
    <2>1. CASE n # m \/ b \notin B
      BY <1>0, <1>1, <1>2, <1>3, <2>1 DEF Contents, CachesCurrent
    <2>2. CASE n = m /\ b \in B
      BY <1>1, <1>4, <2>2
    <2> QED
      BY <2>1, <2>2
  <1>7. AckedInLatest'
    <2> SUFFICES ASSUME NEW n \in Metrics, NEW b \in Blocks, ~lossy'[n]
                 PROVE  expected'[n][b] \subseteq Latest(n, b)'.ups
      BY DEF AckedInLatest
    <2>1. expected[n][b] \subseteq Latest(n, b).ups
      BY <1>0, <1>2 DEF Contents, AckedInLatest
    <2>2. CASE n # m \/ b \notin B
      <3>1. expected'[n][b] \subseteq expected[n][b]
        BY <2>2
      <3>2. Latest(n, b)' = Latest(n, b)
        BY <1>3, <2>2
      <3> QED
        BY <2>1, <3>1, <3>2
    <2>3. CASE n = m /\ b \in B
      <3>1. expected'[n][b] \subseteq expected[n][b] \cup {updates + 1}
        BY <2>3
      <3>2. Latest(n, b)'.ups = Latest(n, b).ups \cup {updates + 1}
        BY <1>4, <1>5, <2>3
      <3> QED
        BY <2>1, <3>1, <3>2
    <2> QED
      BY <2>2, <2>3
  <1>8. HeldDirty'
    BY <1>0, <1>1 DEF Contents, HeldDirty
  <1>9. Down' /\ OneLeft'
    BY <1>0 DEF Down, OneLeft, Up
  <1> QED
    BY <1>6, <1>7, <1>8, <1>9 DEF Contents

LEMMA UpdateContents ==
  ASSUME KInv, NEW m \in Metrics, NEW lo \in Blocks, NEW hi \in Blocks,
         NEW moved \in SUBSET (lo .. hi), Update(m, lo, hi, moved)
  PROVE  Contents'
  <1>1. lo .. hi \in SUBSET Blocks /\ moved \in SUBSET Blocks
    BY ConstantsAssumption DEF Blocks
  <1>2. Modify(m, lo .. hi, moved) /\ mode = "running" /\ UNCHANGED <<mode, files, flusher>>
    BY DEF Update
  <1>3. ASSUME NEW n \in Metrics, NEW b \in Blocks
        PROVE  expected'[n][b] \subseteq
                 expected[n][b] \cup (IF n = m /\ b \in lo .. hi THEN {updates + 1} ELSE {})
    <2> DEFINE new == [c \in Blocks |-> IF c \in lo .. hi THEN expected[m][c] \cup {updates + 1}
                                                         ELSE expected[m][c]]
    <2>1. expected' = [expected EXCEPT ![m] = new]
      BY Zenon DEF Update
    <2>2. expected'[n] = IF n = m THEN new ELSE expected[n]
      BY <2>1 DEF KInv, IInv, TypeOK
    <2> QED
      BY <2>2
  <1> QED
    BY <1>1, <1>2, <1>3, ModifyContents

LEMMA UpdateFailsContents ==
  ASSUME KInv, NEW m \in Metrics, NEW lo \in Blocks, NEW bad \in Blocks,
         NEW moved \in SUBSET (lo .. bad - 1), UpdateFails(m, lo, bad, moved)
  PROVE  Contents'
  <1>1. lo .. bad - 1 \in SUBSET Blocks /\ moved \in SUBSET Blocks
    BY ConstantsAssumption DEF Blocks
  <1>2. /\ Modify(m, lo .. bad - 1, moved) /\ mode = "running"
        /\ UNCHANGED <<mode, files, flusher, expected>>
    BY DEF UpdateFails
  <1> QED
    BY <1>1, <1>2, ModifyContents

(* Loads and purges.                                                         *)
LEMMA CacheContents ==
  ASSUME KInv, NEW m \in Metrics, NEW b \in Blocks,
         Load(m, b) \/ Purge(m, b) \/ LoadFails(m) \/ CloseStream(m)
  PROVE  Contents'
  <1>0. TypeOK /\ Contents /\ Up /\ Up' /\ mode' = "running" /\ mode = "running"
    BY DEF KInv, IInv, Up, Load, Purge, LoadFails, CloseStream
  <1>1. UNCHANGED <<dirty, held, files, flusher, expected>>
    BY DEF Load, Purge, LoadFails, CloseStream
  <1>2. \A n \in Metrics, c \in Blocks : Latest(n, c)' = Latest(n, c)
    BY <1>1 DEF Latest, InWindow
  <1>3. HeldDirty' /\ Down' /\ OneLeft'
    BY <1>0, <1>1 DEF Contents, HeldDirty, Down, OneLeft, Up
  <1>4. CASE Load(m, b)
    <2>1. /\ cached' = [cached EXCEPT ![m] = [cached[m] EXCEPT ![b] = disk[m][b]]]
          /\ lossy' = [lossy EXCEPT ![m] = lossy[m] \/ InWindow(m, b)] /\ FromDisk(m, b)
      BY <1>4, Zenon DEF Load
    <2>2. \A n \in Metrics : lossy[n] => lossy'[n]
      BY <1>0, <2>1, Zenon DEF TypeOK
    <2>3. ~lossy'[m] => ~InWindow(m, b)
      BY <1>0, <2>1, Zenon DEF TypeOK
    <2>4. \A n \in Metrics, c \in Blocks :
            cached'[n][c] = IF n = m /\ c = b THEN disk[m][b] ELSE cached[n][c]
      BY <1>0, <2>1 DEF TypeOK, Partial
    <2>5. CachesCurrent'
      <3> SUFFICES ASSUME NEW n \in Metrics, NEW c \in Blocks, ~lossy'[n], cached'[n][c] # Absent
                   PROVE  cached'[n][c] = Latest(n, c)'
        BY DEF CachesCurrent
      <3>1. CASE n = m /\ c = b
        <4>1. Latest(n, c) = disk[m][b]
          BY <2>1, <2>3, <3>1 DEF Latest, FromDisk
        <4> QED
          BY <1>2, <2>4, <3>1, <4>1
      <3>2. CASE ~(n = m /\ c = b)
        BY <1>0, <1>2, <2>2, <2>4, <3>2 DEF Contents, CachesCurrent
      <3> QED
        BY <3>1, <3>2
    <2>6. AckedInLatest'
      BY <1>0, <1>1, <1>2, <2>2 DEF Contents, AckedInLatest
    <2> QED
      BY <1>3, <2>5, <2>6 DEF Contents
  <1>5. CASE Purge(m, b) \/ LoadFails(m) \/ CloseStream(m)
    <2>1. lossy' = lossy
      BY <1>5 DEF Purge, LoadFails, CloseStream
    <2>2. \A n \in Metrics, c \in Blocks : cached'[n][c] \in {Absent, cached[n][c]}
      <3>1. CASE Purge(m, b)
        <4>1. cached' = [cached EXCEPT ![m] = [cached[m] EXCEPT ![b] = Absent]]
          BY <3>1, Zenon DEF Purge
        <4> QED
          BY <1>0, <4>1 DEF TypeOK, Partial
      <3>2. CASE cached' = cached
        BY <3>2
      <3> QED
        BY <1>5, <3>1, <3>2 DEF LoadFails, CloseStream
    <2>3. CachesCurrent' /\ AckedInLatest'
      BY <1>0, <1>1, <1>2, <2>1, <2>2, LatestKept
    <2> QED
      BY <1>3, <2>3 DEF Contents
  <1> QED
    BY <1>4, <1>5
-----------------------------------------------------------------------------
(* The flush.                                                                *)
LEMMA FlushBeginContents ==
  ASSUME KInv, FlushBegin
  PROVE  Contents'
  <1>1. Contents /\ UNCHANGED <<mode, memory, files, left, buffer, history>> /\ pc = "idle"
        /\ pc' = "next" /\ Up /\ todo' = {m \in Metrics : dirty[m]}
    BY DEF KInv, FlushBegin
  <1>2. \A m \in Metrics, b \in Blocks : Latest(m, b)' = Latest(m, b)
    BY <1>1 DEF Latest, InWindow
  <1>3. CachesCurrent' /\ AckedInLatest'
    BY <1>1, <1>2, LatestKept DEF Up
  <1>4. HeldDirty' /\ Down' /\ OneLeft'
    BY <1>1 DEF Contents, HeldDirty, Down, OneLeft, Up
  <1> QED
    BY <1>3, <1>4 DEF Contents

(* What save_dirty_blocks moves into the buffer is in the window.            *)
LEMMA SaveContents ==
  ASSUME KInv, NEW m \in Metrics, SaveDirtyBlocks(m) \/ SaveDirtyBlocksFails(m)
  PROVE  Contents'
  <1>0. /\ TypeOK /\ Contents /\ Up /\ pc = "next" /\ m \in todo
        /\ UNCHANGED <<mode, head, cached, broken, files, bounds, expected, lossy>>
    BY DEF KInv, IInv, OwnerKnown, SaveDirtyBlocks, SaveDirtyBlocksFails
  <1>1. CASE SaveDirtyBlocks(m)
    <2>1. /\ held' = [held EXCEPT ![m] = NoBlocks]
          /\ buffer'.owner = m /\ buffer'.data = held[m] /\ pc' = "open" /\ todo' = todo
          /\ dirty' = [dirty EXCEPT ![m] = FALSE]
      BY <1>1 DEF SaveDirtyBlocks
    <2>2. /\ \A b \in Blocks : held'[m][b] = Absent
          /\ \A n \in Metrics \ {m} : held'[n] = held[n] /\ dirty'[n] = dirty[n]
          /\ ~dirty'[m]
      BY <1>0, <2>1 DEF TypeOK, NoBlocks
    <2>3. ASSUME NEW n \in Metrics, NEW b \in Blocks PROVE Latest(n, b)' = Latest(n, b)
      BY <1>0, <2>1, <2>2 DEF Latest, InWindow
    <2>4. CachesCurrent' /\ AckedInLatest'
      BY <1>0, <2>3, LatestKept DEF Up
    <2>5. HeldDirty'
      BY <1>0, <2>2 DEF Contents, HeldDirty
    <2>6. Down' /\ OneLeft'
      BY <1>0, <2>1, <2>2 DEF Contents, Down, OneLeft, Up
    <2> QED
      BY <2>4, <2>5, <2>6 DEF Contents
  <1>2. CASE SaveDirtyBlocksFails(m)
    <2>1. /\ held' = held /\ pc' = pc /\ buffer # EmptyBuffer /\ buffer' = EmptyBuffer
          /\ dirty' = [dirty EXCEPT ![m] = TRUE] /\ todo' = todo \ {m}
      BY <1>2 DEF SaveDirtyBlocksFails
    <2>2. dirty'[m] /\ \A n \in Metrics \ {m} : dirty'[n] = dirty[n]
      BY <1>0, <2>1 DEF TypeOK
    <2>3. ASSUME NEW n \in Metrics, NEW b \in Blocks PROVE Latest(n, b)' = Latest(n, b)
      BY <1>0, <2>1 DEF Latest, InWindow
    <2>4. CachesCurrent' /\ AckedInLatest'
      BY <1>0, <2>3, LatestKept DEF Up
    <2>5. HeldDirty' /\ Down'
      BY <1>0, <2>1, <2>2 DEF Contents, HeldDirty, Down, Up
    <2>6. OneLeft'
      BY <1>0, <2>1, <2>2 DEF Contents, OneLeft, Up
    <2> QED
      BY <2>4, <2>5, <2>6 DEF Contents
  <1> QED
    BY <1>1, <1>2

(* Writing the journal changes no version, nor does opening the file.        *)
LEMMA JournalContents ==
  ASSUME KInv, JournalHeader \/ (\E b \in Blocks : JournalPiece(b)) \/ ApplyBegin
  PROVE  Contents'
  <1>1. /\ UNCHANGED <<mode, memory, disk, todo, buffer, history>> /\ pc \in {"open", "journal"}
        /\ pc' \in {"journal", "apply"}
        /\ pc' = "apply" => left' = BlocksOf(buffer.data)
    BY Zenon DEF JournalHeader, JournalPiece, ApplyBegin
  <1>2. Contents /\ Up
    BY <1>1 DEF KInv, IInv, OwnerKnown
  <1>3. ASSUME NEW m \in Metrics, NEW b \in Blocks PROVE Latest(m, b)' = Latest(m, b)
    BY <1>1 DEF Latest, InWindow, BlocksOf
  <1>4. CachesCurrent' /\ AckedInLatest'
    BY <1>1, <1>2, <1>3, LatestKept DEF Up
  <1>5. HeldDirty' /\ Down' /\ OneLeft'
    BY <1>1, <1>2 DEF Contents, HeldDirty, Down, OneLeft, Up
  <1> QED
    BY <1>2, <1>4, <1>5 DEF Contents

(* A block written to the file has there the version it had in the buffer.   *)
LEMMA ApplyPieceContents ==
  ASSUME KInv, NEW b \in Blocks, ApplyPiece(b)
  PROVE  Contents'
  <1> DEFINE o == buffer.owner
  <1>1. /\ b \in left /\ left' = left \ {b} /\ pc = "apply"
        /\ disk' = [disk EXCEPT ![o] = [disk[o] EXCEPT ![b] = buffer.data[b]]]
        /\ UNCHANGED <<mode, memory, journal, stream, pc, todo, buffer, bounds, history>>
    BY Zenon DEF ApplyPiece, First
  <1>2. TypeOK /\ Contents /\ Up /\ o \in Metrics
    BY <1>1 DEF KInv, IInv, OwnerKnown
  <1>3. \A n \in Metrics, c \in Blocks :
          disk'[n][c] = IF n = o /\ c = b THEN buffer.data[b] ELSE disk[n][c]
    BY <1>1, <1>2 DEF TypeOK
  <1>4. ASSUME NEW m \in Metrics, NEW c \in Blocks PROVE Latest(m, c)' = Latest(m, c)
    BY <1>1, <1>3 DEF Latest, InWindow
  <1>5. CachesCurrent' /\ AckedInLatest'
    BY <1>1, <1>2, <1>4, LatestKept DEF Up
  <1>6. HeldDirty' /\ Down' /\ OneLeft'
    BY <1>1, <1>2 DEF Contents, HeldDirty, Down, OneLeft, Up
  <1> QED
    BY <1>5, <1>6 DEF Contents

(* After the last block the window is empty; an error makes its metric lossy. *)
LEMMA NextMetricContents ==
  ASSUME KInv, ApplyEnd \/ JournalError \/ ApplyError
  PROVE  Contents'
  <1>1. /\ pc \in {"open", "journal", "apply"} /\ pc' = "next" /\ buffer' = EmptyBuffer
        /\ todo' = todo \ {buffer.owner}
        /\ UNCHANGED <<mode, memory, disk, journal, updates, snap, expected>>
        /\ \/ lossy' = lossy /\ pc = "apply" /\ left = {}
           \/ lossy' = [lossy EXCEPT ![buffer.owner] = TRUE]
    BY DEF ApplyEnd, JournalError, ApplyError, NextMetric, Lose
  <1>2. TypeOK /\ Contents /\ Up /\ buffer.owner \in Metrics
    BY <1>1 DEF KInv, IInv, OwnerKnown
  <1>3. \A m \in Metrics : lossy[m] => lossy'[m]
    BY <1>1, <1>2 DEF TypeOK
  <1>4. ASSUME NEW m \in Metrics, NEW b \in Blocks, ~lossy'[m] PROVE Latest(m, b)' = Latest(m, b)
    <2>1. ~InWindow(m, b)
      BY <1>1, <1>2, <1>4 DEF InWindow, TypeOK
    <2> QED
      BY <1>1, <2>1 DEF Latest, InWindow
  <1>5. CachesCurrent' /\ AckedInLatest'
    BY <1>1, <1>2, <1>3, <1>4, LatestKept DEF Up
  <1>6. HeldDirty' /\ Down'
    BY <1>1, <1>2 DEF Contents, HeldDirty, Down, Up
  <1>7. OneLeft'
    BY <1>1, <1>2 DEF Contents, OneLeft, Up
  <1> QED
    BY <1>5, <1>6, <1>7 DEF Contents

LEMMA FlushEndContents ==
  ASSUME KInv, FlushEnd
  PROVE  Contents'
  <1>1. /\ pc = "next" /\ pc' = "idle" /\ todo = {}
        /\ UNCHANGED <<dirty, head, held, broken, disk, todo, left, buffer, bounds, history>>
        /\ \/ mode = "stopping" /\ mode' = "stopped" /\ cached' = NoBlocksAnywhere
           \/ mode # "stopping" /\ UNCHANGED <<mode, cached>>
    BY DEF FlushEnd
  <1>2. Contents /\ Up
    BY <1>1 DEF KInv, IInv, OwnerKnown
  <1>3. \A m \in Metrics, b \in Blocks : Latest(m, b)' = Latest(m, b)
    BY <1>1 DEF Latest, InWindow
  <1>4. \A m \in Metrics, b \in Blocks : cached'[m][b] \in {Absent, cached[m][b]}
    BY <1>1 DEF NoBlocksAnywhere, NoBlocks
  <1>5. CachesCurrent' /\ AckedInLatest'
    BY <1>1, <1>2, <1>3, <1>4, LatestKept DEF Up
  <1>6. HeldDirty' /\ Down'
    BY <1>1, <1>2 DEF Contents, HeldDirty, Down, Up
  <1>7. OneLeft'
    BY <1>1, <1>2 DEF Contents, OneLeft, Up
  <1> QED
    BY <1>5, <1>6, <1>7 DEF Contents

-----------------------------------------------------------------------------
(* The process.                                                              *)
LEMMA StopContents ==
  ASSUME KInv, Stop
  PROVE  Contents'
  <1>1. /\ Contents /\ mode = "running" /\ mode' = "stopping" /\ pc = "idle"
        /\ UNCHANGED <<memory, files, flusher, bounds, history>>
    BY DEF KInv, Stop
  <1>2. \A m \in Metrics, b \in Blocks : Latest(m, b)' = Latest(m, b)
    BY <1>1 DEF Latest, InWindow
  <1>3. CachesCurrent' /\ AckedInLatest'
    BY <1>1, <1>2, LatestKept DEF Up
  <1>4. HeldDirty' /\ Down' /\ OneLeft'
    BY <1>1 DEF Contents, HeldDirty, Down, OneLeft, Up
  <1> QED
    BY <1>3, <1>4 DEF Contents

LEMMA CrashContents ==
  ASSUME KInv, Crash
  PROVE  Contents'
  <1>1. mode' = "crashed" /\ held' = NoBlocksAnywhere /\ cached' = NoBlocksAnywhere
    BY DEF Crash
  <1>2. HeldDirty' /\ Down'
    BY <1>1 DEF HeldDirty, Down, Up, NoBlocksAnywhere, NoBlocks
  <1> QED
    BY <1>1, <1>2, NobodyLooks DEF Contents

(* Nothing is expected of a metric but what its file has when it is loaded.  *)
LEMMA LoadContents ==
  ASSUME KInv, Start \/ RecoverEnd
  PROVE  Contents'
  <1>1. /\ mode' = "running" /\ pc' = pc /\ pc = "idle" /\ disk' = disk /\ cached' = cached
        /\ held' = NoBlocksAnywhere /\ cached = NoBlocksAnywhere
        /\ expected' = [m \in Metrics |-> [b \in Blocks |-> disk[m][b].ups]]
    <2>1. mode \in {"stopped", "crashed", "recovering"}
      BY DEF Start, RecoverEnd
    <2>2. pc = "idle" /\ cached = NoBlocksAnywhere
      BY <2>1 DEF KInv, IInv, OwnerKnown, Contents, Down, Up
    <2>3. held' = NoBlocksAnywhere
      BY <2>1 DEF Start, RecoverEnd, KInv, Contents, Down
    <2>4. LoadMetrics /\ UNCHANGED <<pc, disk, cached>>
      BY DEF Start, RecoverEnd
    <2> QED
      BY <2>2, <2>3, <2>4 DEF LoadMetrics
  <1>2. \A m \in Metrics, b \in Blocks :
          held'[m][b] = Absent /\ cached'[m][b] = Absent /\ Latest(m, b)' = disk[m][b]
    BY <1>1 DEF Latest, InWindow, NoBlocksAnywhere, NoBlocks
  <1>3. CachesCurrent' /\ AckedInLatest' /\ HeldDirty'
    BY <1>1, <1>2 DEF CachesCurrent, AckedInLatest, HeldDirty
  <1>4. Down' /\ OneLeft'
    BY <1>1 DEF Down, OneLeft, Up
  <1> QED
    BY <1>3, <1>4 DEF Contents

LEMMA RecoveryContents ==
  ASSUME KInv, StartRecovery \/ StartFails \/ \E b \in Blocks : RecoverPiece(b)
  PROVE  Contents'
  <1>1. /\ UNCHANGED memory /\ mode \in {"crashed", "recovering"}
        /\ mode' \in {"recovering", "failed"}
    BY DEF StartRecovery, StartFails, RecoverPiece
  <1>2. HeldDirty' /\ Down'
    BY <1>1 DEF KInv, Contents, HeldDirty, Down, Up
  <1> QED
    BY <1>1, <1>2, NobodyLooks DEF Contents

-----------------------------------------------------------------------------
LEMMA InitKInv == Init => KInv
  <1> SUFFICES ASSUME Init PROVE KInv
    OBVIOUS
  <1>1. HeldDirty /\ CachesCurrent
    BY DEF Init, HeldDirty, CachesCurrent, NoBlocksAnywhere, NoBlocks
  <1>2. AckedInLatest /\ Down /\ OneLeft
    BY DEF Init, AckedInLatest, Down, OneLeft, Up
  <1> QED
    BY <1>1, <1>2, InitIInv DEF KInv, Contents

LEMMA NextKInv == KInv /\ [Next]_vars => KInv'
  <1> SUFFICES ASSUME KInv, [Next]_vars PROVE KInv'
    OBVIOUS
  <1>0. IInv'
    BY NextIInv DEF KInv
  <1>1. CASE Work
    <2>1. PICK m \in Metrics :
            \/ \E lo, hi \in Blocks : \E moved \in SUBSET (lo .. hi) :
                 lo <= hi /\ Update(m, lo, hi, moved)
            \/ \E lo, bad \in Blocks : \E moved \in SUBSET (lo .. bad - 1) :
                 lo <= bad /\ UpdateFails(m, lo, bad, moved)
            \/ \E b \in Blocks : Load(m, b) \/ Purge(m, b)
            \/ LoadFails(m) \/ CloseStream(m)
      BY <1>1 DEF Work
    <2>2. 1 \in Blocks
      BY ConstantsAssumption DEF Blocks
    <2>3. Contents'
      BY <2>1, <2>2, UpdateContents, UpdateFailsContents, CacheContents
    <2> QED
      BY <1>0, <2>3 DEF KInv
  <1>2. CASE Flush
    <2>1. Contents'
      BY <1>2, FlushBeginContents, SaveContents, JournalContents, ApplyPieceContents,
         NextMetricContents, FlushEndContents DEF Flush, FlushStep
    <2> QED
      BY <1>0, <2>1 DEF KInv
  <1>3. CASE Process
    <2>1. Contents'
      BY <1>3, StopContents, CrashContents, LoadContents, RecoveryContents DEF Process
    <2> QED
      BY <1>0, <2>1 DEF KInv
  <1>4. CASE UNCHANGED vars
    <2>1. UNCHANGED <<mode, memory, files, flusher, history>>
      BY <1>4 DEF vars
    <2>2. \A m \in Metrics, b \in Blocks : Latest(m, b)' = Latest(m, b)
      BY <2>1 DEF Latest, InWindow
    <2>3. CachesCurrent' /\ AckedInLatest'
      BY <2>1, <2>2, LatestKept DEF KInv, Up
    <2>4. HeldDirty' /\ Down' /\ OneLeft'
      BY <2>1 DEF KInv, Contents, HeldDirty, Down, OneLeft, Up
    <2> QED
      BY <1>0, <2>3, <2>4 DEF KInv, Contents
  <1> QED
    BY <1>1, <1>2, <1>3, <1>4 DEF Next

(* The next read finds what was acknowledged: in the block, in the cache, in *)
(* the buffer on its way to the file, or in the file.                        *)
THEOREM AckedStaysReachable == Spec => []AckedReachable
  <1>1. KInv => AckedReachable
    <2> SUFFICES ASSUME KInv, NEW m \in Metrics, Up, ~lossy[m], NEW b \in Blocks
                 PROVE  expected[m][b] \subseteq Reach(m, b).ups
      BY DEF AckedReachable
    <2>1. expected[m][b] \subseteq Latest(m, b).ups
      BY DEF KInv, Contents, AckedInLatest
    <2>2. Reach(m, b) = Latest(m, b)
      <3>1. CASE FromDisk(m, b) /\ InWindow(m, b)
        BY <3>1 DEF Reach, Latest, FromDisk
      <3>2. CASE ~(FromDisk(m, b) /\ InWindow(m, b))
        BY <3>2, ContentIsLatest DEF Reach, KInv
      <3> QED
        BY <3>1, <3>2
    <2> QED
      BY <2>1, <2>2
  <1> QED
    BY <1>1, InitKInv, NextKInv, PTL DEF Spec

(* rrdb::stop, "flush data": what was acknowledged is in the files, but for  *)
(* metrics that met an error, and for one at most that found the journal's   *)
(* buffer in use and is still marked dirty.                                  *)
THEOREM CleanStopKeepsAcked == Spec => []CleanStopKeepsAll
  <1>1. KInv => CleanStopKeepsAll
    <2> SUFFICES ASSUME KInv, mode = "stopped"
                 PROVE  /\ \A m \in Metrics : lossy[m] \/ dirty[m] \/ OnDisk(m)
                        /\ \A m, n \in Metrics : dirty[m] /\ dirty[n] => m = n
      BY DEF CleanStopKeepsAll
    <2>1. ASSUME NEW m \in Metrics, ~lossy[m], ~dirty[m] PROVE OnDisk(m)
      <3> SUFFICES ASSUME NEW b \in Blocks PROVE expected[m][b] \subseteq disk[m][b].ups
        BY DEF OnDisk
      <3>1. expected[m][b] \subseteq Latest(m, b).ups /\ held[m][b] = Absent
        BY <2>1 DEF KInv, Contents, AckedInLatest, HeldDirty
      <3>2. pc = "idle"
        BY DEF KInv, IInv, OwnerKnown, Up
      <3> QED
        BY <3>1, <3>2 DEF Latest, InWindow
    <2>2. \A m, n \in Metrics : dirty[m] /\ dirty[n] => m = n
      BY DEF KInv, Contents, OneLeft
    <2> QED
      BY <2>1, <2>2
  <1> QED
    BY <1>1, InitKInv, NextKInv, PTL DEF Spec

-----------------------------------------------------------------------------
(***************************************************************************)
(* The journal makes the write of a snapshot into a metric's file atomic,  *)
(* crashes while it is written and crashes of the recovery included: for   *)
(* any number of metrics, blocks, updates and faults, whatever the layouts *)
(* of their journals, as long as the metric is not spoilt: its file cut    *)
(* short by an I/O error, or recovered from a mixture of two journals.     *)
(*                                                                         *)
(* The argument: a snapshot has, in every block, an update the file does   *)
(* not have (Apart), so the file shows how far the snapshot got; whenever  *)
(* the journal is about to be overwritten or deleted, all of it has been   *)
(* written or none (JournalKept), unless it was not written to the end     *)
(* itself, and then its owner's file has nothing of it (WrittenThrough).   *)
(* That nothing durable is lost rests on every version being made of the   *)
(* one before (Grown).                                                     *)
(***************************************************************************)

(* y is absent, or x has an update that y has not.                           *)
Newer(x, y) == x # Absent /\ y # Absent => \E u \in x.ups : u \notin y.ups
Past(x, n) == x # Absent => \A u \in x.ups : u <= n

(* Nothing has an update that has not been made.                             *)
Fresh ==
  \A b \in Blocks :
    /\ Past(buffer.data[b], updates) /\ Past(journal.piece[b], updates)
    /\ \A m \in Metrics :
         Past(disk[m][b], updates) /\ Past(held[m][b], updates) /\ Past(cached[m][b], updates)

(* What is modified is newer than the file and than what is on its way there. *)
Apart ==
  \A m \in Metrics, b \in Blocks :
    Newer(held[m][b], disk[m][b]) /\ (buffer.owner = m => Newer(held[m][b], buffer.data[b]))
BufferNew ==
  pc \in {"open", "journal"} =>
    \A b \in Blocks : Newer(buffer.data[b], disk[buffer.owner][b])

Stamps == Fresh /\ Apart /\ BufferNew

(* x is newer than what it is not equal to.                                  *)
LEMMA NewerDiffers == ASSUME NEW x, NEW y, Newer(x, y), x # Absent, y # Absent PROVE x # y
  BY DEF Newer

(* An update is newer than everything before it.                             *)
LEMMA UpdatedIsNewer ==
  ASSUME TypeOK, Fresh, NEW m \in Metrics, NEW b \in Blocks, NEW moved \in SUBSET Blocks,
         NEW y, y \in Data \cup {Absent}, Past(y, updates)
  PROVE  Newer(Updated(m, b, moved), y) /\ Past(Updated(m, b, moved), updates + 1)
  <1>1. updates + 1 \in Updated(m, b, moved).ups
    BY DEF Updated
  <1>2. y # Absent => updates + 1 \notin y.ups
    BY DEF Past, TypeOK
  <1>3. Content(m, b).ups \in SUBSET Nat /\ updates \in Nat
    BY ContentFacts DEF TypeOK, Data
  <1>4. \A u \in Content(m, b).ups : u <= updates
    <2>1. Content(m, b) \in {held[m][b], cached[m][b], disk[m][b]} /\ Content(m, b) # Absent
      BY ContentFacts, DataFacts DEF Content
    <2> QED
      BY <2>1 DEF Fresh, Past
  <1>5. \A u \in Updated(m, b, moved).ups : u <= updates + 1
    BY <1>3, <1>4 DEF Updated
  <1> QED
    BY <1>1, <1>2, <1>5 DEF Newer, Past

LEMMA ModifyStamps ==
  ASSUME IInv, Stamps, NEW m \in Metrics, NEW B \in SUBSET Blocks, NEW moved \in SUBSET Blocks,
         Modify(m, B, moved), UNCHANGED <<files, flusher>>
  PROVE  Stamps'
  <1>0. TypeOK /\ Stamps /\ updates \in Nat /\ updates' = updates + 1
    BY DEF IInv, TypeOK, Modify
  <1>1. ASSUME NEW n \in Metrics, NEW b \in Blocks
        PROVE  /\ \/ held'[n][b] = held[n][b]
                  \/ n = m /\ b \in B /\ held'[n][b] = Updated(m, b, moved)
               /\ cached'[n][b] \in {cached[n][b], Updated(m, b, moved)}
    <2> DEFINE newHeld == [c \in Blocks |-> IF c \in B THEN Updated(m, c, moved) ELSE held[m][c]]
               newCached == [c \in Blocks |->
                 IF c \in B /\ (FromDisk(m, c) \/ cached[m][c] # Absent)
                 THEN Updated(m, c, moved) ELSE cached[m][c]]
    <2>1. held' = [held EXCEPT ![m] = newHeld] /\ cached' = [cached EXCEPT ![m] = newCached]
      BY Zenon DEF Modify
    <2>2. /\ held'[n] = IF n = m THEN newHeld ELSE held[n]
          /\ cached'[n] = IF n = m THEN newCached ELSE cached[n]
      BY <1>0, <2>1 DEF TypeOK
    <2> QED
      BY <2>2
  <1>2. ASSUME NEW b \in Blocks, NEW n \in Metrics
        PROVE  /\ disk[n][b] \in Data \cup {Absent} /\ buffer.data[b] \in Data \cup {Absent}
               /\ Past(disk[n][b], updates) /\ Past(buffer.data[b], updates)
               /\ Past(held[n][b], updates) /\ Past(cached[n][b], updates)
    BY <1>0 DEF Stamps, Fresh, TypeOK, Partial
  <1>3. \A x : Past(x, updates) /\ x \in Data \cup {Absent} => Past(x, updates + 1)
    BY <1>0 DEF Past, Data
  <1>4. Fresh'
    <2> SUFFICES ASSUME NEW b \in Blocks
                 PROVE  /\ Past(buffer.data[b], updates + 1) /\ Past(journal.piece[b], updates + 1)
                        /\ \A n \in Metrics : /\ Past(disk[n][b], updates + 1)
                                              /\ Past(held'[n][b], updates + 1)
                                              /\ Past(cached'[n][b], updates + 1)
      BY <1>0 DEF Fresh
    <2>1. Past(buffer.data[b], updates + 1) /\ Past(journal.piece[b], updates + 1)
      BY <1>0, <1>3 DEF Stamps, Fresh, TypeOK, Partial
    <2>2. ASSUME NEW n \in Metrics
          PROVE  /\ Past(disk[n][b], updates + 1)
                 /\ Past(held'[n][b], updates + 1) /\ Past(cached'[n][b], updates + 1)
      <3>1. Past(Updated(m, b, moved), updates + 1)
        BY <1>0, <1>2, UpdatedIsNewer DEF Stamps
      <3>2. /\ Past(disk[n][b], updates + 1)
            /\ Past(held[n][b], updates + 1) /\ Past(cached[n][b], updates + 1)
        BY <1>0, <1>2, <1>3 DEF TypeOK, Partial
      <3> QED
        BY <1>1, <3>1, <3>2
    <2> QED
      BY <2>1, <2>2
  <1>5. Apart'
    <2> SUFFICES ASSUME NEW n \in Metrics, NEW b \in Blocks
                 PROVE  /\ Newer(held'[n][b], disk[n][b])
                        /\ buffer.owner = n => Newer(held'[n][b], buffer.data[b])
      BY DEF Apart
    <2>1. /\ Newer(Updated(m, b, moved), disk[n][b])
          /\ Newer(Updated(m, b, moved), buffer.data[b])
      BY <1>0, <1>2, UpdatedIsNewer DEF Stamps
    <2> QED
      BY <1>1, <2>1 DEF Stamps, Apart
  <1>6. BufferNew'
    BY DEF Stamps, BufferNew
  <1> QED
    BY <1>4, <1>5, <1>6 DEF Stamps

(* Steps in which data only vanishes.                                        *)
LEMMA VanishStamps ==
  ASSUME TypeOK, Stamps, updates' = updates, disk' = disk, pc' \notin {"open", "journal"},
         buffer' \in {buffer, EmptyBuffer}, journal' \in {journal, NoJournal},
         \A m \in Metrics, b \in Blocks :
           held'[m][b] \in {Absent, held[m][b]} /\ cached'[m][b] \in {Absent, cached[m][b]}
  PROVE  Stamps'
  <1>1. /\ \A b \in Blocks : buffer'.data[b] \in {Absent, buffer.data[b]}
        /\ \A m \in Metrics : buffer'.owner = m => buffer' = buffer
        /\ \A b \in Blocks : journal'.piece[b] \in {Absent, journal.piece[b]}
    BY ConstantsAssumption DEF EmptyBuffer, NoJournal, NoBlocks
  <1>2. Fresh'
    <2> SUFFICES ASSUME NEW b \in Blocks
                 PROVE  /\ Past(buffer'.data[b], updates) /\ Past(journal'.piece[b], updates)
                        /\ \A m \in Metrics : /\ Past(disk[m][b], updates)
                                              /\ Past(held'[m][b], updates)
                                              /\ Past(cached'[m][b], updates)
      BY DEF Fresh
    <2> QED
      BY <1>1 DEF Stamps, Fresh, Past
  <1>3. Apart'
    <2> SUFFICES ASSUME NEW m \in Metrics, NEW b \in Blocks
                 PROVE  /\ Newer(held'[m][b], disk[m][b])
                        /\ buffer'.owner = m => Newer(held'[m][b], buffer'.data[b])
      BY DEF Apart
    <2>1. /\ Newer(held[m][b], disk[m][b])
          /\ buffer'.owner = m => Newer(held[m][b], buffer'.data[b])
      BY <1>1 DEF Stamps, Apart
    <2> QED
      BY <2>1 DEF Newer
  <1>4. BufferNew'
    BY DEF BufferNew
  <1> QED
    BY <1>2, <1>3, <1>4 DEF Stamps

(* A select puts into the cache what the file has.                           *)
LEMMA CacheStamps ==
  ASSUME TypeOK, Stamps, NEW m \in Metrics, NEW b \in Blocks,
         Load(m, b) \/ Purge(m, b) \/ LoadFails(m) \/ CloseStream(m)
  PROVE  Stamps'
  <1>1. UNCHANGED <<held, files, flusher, updates>>
    BY DEF Load, Purge, LoadFails, CloseStream
  <1>2. \A n \in Metrics, c \in Blocks : cached'[n][c] \in {Absent, cached[n][c], disk[n][c]}
    <2>1. CASE Load(m, b)
      <3>1. cached' = [cached EXCEPT ![m] = [cached[m] EXCEPT ![b] = disk[m][b]]]
        BY <2>1, Zenon DEF Load
      <3> QED
        BY <3>1 DEF TypeOK, Partial
    <2>2. CASE Purge(m, b)
      <3>1. cached' = [cached EXCEPT ![m] = [cached[m] EXCEPT ![b] = Absent]]
        BY <2>2, Zenon DEF Purge
      <3> QED
        BY <3>1 DEF TypeOK, Partial
    <2>3. CASE LoadFails(m) \/ CloseStream(m)
      BY <2>3 DEF LoadFails, CloseStream
    <2> QED
      BY <2>1, <2>2, <2>3
  <1>3. Fresh'
    BY <1>1, <1>2 DEF Stamps, Fresh, Past
  <1>4. Apart' /\ BufferNew'
    BY <1>1 DEF Stamps, Apart, BufferNew
  <1> QED
    BY <1>3, <1>4 DEF Stamps

(* What was modified is now on its way, and newer than the file.             *)
LEMMA SaveStamps ==
  ASSUME TypeOK, Stamps, NEW m \in Metrics, SaveDirtyBlocks(m)
  PROVE  Stamps'
  <1>1. /\ held' = [held EXCEPT ![m] = NoBlocks] /\ pc' = "open"
        /\ buffer'.owner = m /\ buffer'.data = held[m]
        /\ UNCHANGED <<cached, files, updates>>
    BY DEF SaveDirtyBlocks
  <1>2. /\ \A b \in Blocks : held'[m][b] = Absent
        /\ \A n \in Metrics \ {m} : held'[n] = held[n]
    BY <1>1 DEF TypeOK, NoBlocks
  <1>3. Fresh'
    BY <1>1, <1>2 DEF Stamps, Fresh, Past
  <1>4. Apart'
    <2> SUFFICES ASSUME NEW n \in Metrics, NEW b \in Blocks
                 PROVE  /\ Newer(held'[n][b], disk[n][b])
                        /\ m = n => Newer(held'[n][b], buffer'.data[b])
      BY <1>1 DEF Apart
    <2>1. CASE n = m
      BY <1>2, <2>1 DEF Newer
    <2>2. CASE n # m
      BY <1>2, <2>2 DEF Stamps, Apart
    <2> QED
      BY <2>1, <2>2
  <1>5. BufferNew'
    BY <1>1 DEF Stamps, Apart, BufferNew
  <1> QED
    BY <1>3, <1>4, <1>5 DEF Stamps

(* The journal is written from the buffer.                                   *)
LEMMA JournalStamps ==
  ASSUME TypeOK, Stamps, JournalHeader \/ \E b \in Blocks : JournalPiece(b)
  PROVE  Stamps'
  <1>1. /\ UNCHANGED <<memory, disk, buffer, updates>>
        /\ pc \in {"open", "journal"}
    BY DEF JournalHeader, JournalPiece
  <1>2. \A c \in Blocks : journal'.piece[c] \in {Absent, journal.piece[c], buffer.data[c]}
    <2>1. CASE JournalHeader
      BY <2>1 DEF JournalHeader, NoBlocks
    <2>2. ASSUME NEW b \in Blocks, JournalPiece(b)
          PROVE  \A c \in Blocks : journal'.piece[c] \in {journal.piece[c], buffer.data[c]}
      <3>1. journal' = [journal EXCEPT !.piece = [journal.piece EXCEPT ![b] = buffer.data[b]],
                                       !.through = left = {b}]
        BY <2>2, Zenon DEF JournalPiece
      <3> QED
        BY <3>1 DEF TypeOK, Partial
    <2> QED
      BY <2>1, <2>2
  <1>3. Fresh'
    BY <1>1, <1>2 DEF Stamps, Fresh, Past
  <1>4. Apart' /\ BufferNew'
    BY <1>1 DEF Stamps, Apart, BufferNew
  <1> QED
    BY <1>3, <1>4 DEF Stamps

(* The file gets a block that what is modified is newer than.                *)
LEMMA PieceStamps ==
  ASSUME IInv, Stamps, NEW b \in Blocks, ApplyPiece(b) \/ RecoverPiece(b)
  PROVE  Stamps'
  <1> DEFINE o == buffer.owner
  <1>1. /\ disk' = [disk EXCEPT ![o] = [disk[o] EXCEPT ![b] = buffer.data[b]]]
        /\ UNCHANGED <<memory, journal, pc, buffer, updates>>
        /\ pc = "apply" \/ mode = "recovering"
    BY Zenon DEF ApplyPiece, RecoverPiece
  <1>2. TypeOK /\ pc \notin {"open", "journal"}
    BY <1>1 DEF IInv, OwnerKnown, Up
  <1>3. \A n \in Metrics, c \in Blocks :
          disk'[n][c] \in {disk[n][c]} \cup IF n = o THEN {buffer.data[c]} ELSE {}
    BY <1>1, <1>2 DEF TypeOK
  <1>4. Fresh'
    BY <1>1, <1>3 DEF Stamps, Fresh, Past
  <1>5. Apart'
    BY <1>1, <1>3 DEF Stamps, Apart
  <1>6. BufferNew'
    BY <1>1, <1>2 DEF BufferNew
  <1> QED
    BY <1>4, <1>5, <1>6 DEF Stamps

(* The recovery's buffer meets no modified block.                            *)
LEMMA StartRecoveryStamps ==
  ASSUME KInv, Stamps, StartRecovery
  PROVE  Stamps'
  <1>1. /\ mode = "crashed" /\ UNCHANGED <<memory, files, pc, updates>>
        /\ buffer'.data = [b \in Blocks |-> IF b \in journal.blocks THEN journal.piece[b] ELSE Absent]
    BY DEF StartRecovery
  <1>2. held = NoBlocksAnywhere /\ pc = "idle"
    BY <1>1 DEF KInv, IInv, OwnerKnown, Contents, Down, Up
  <1>3. Fresh'
    BY <1>1 DEF Stamps, Fresh, Past
  <1>4. Apart'
    BY <1>1, <1>2 DEF Apart, Newer, NoBlocksAnywhere, NoBlocks
  <1>5. BufferNew'
    BY <1>1, <1>2 DEF BufferNew
  <1> QED
    BY <1>3, <1>4, <1>5 DEF Stamps

LEMMA InitStamps == Init => Stamps
  BY DEF Init, Stamps, Fresh, Apart, BufferNew, Past, Newer, EmptyBuffer, NoJournal, NoBlocks,
         NoBlocksAnywhere, Initially

LEMMA NextStamps == KInv /\ Stamps /\ [Next]_vars => Stamps'
  <1> SUFFICES ASSUME KInv, Stamps, [Next]_vars PROVE Stamps'
    OBVIOUS
  <1>0. IInv /\ TypeOK
    BY DEF KInv, IInv
  <1>1. CASE Work
    <2>1. ASSUME NEW m \in Metrics, NEW lo \in Blocks, NEW hi \in Blocks,
                 NEW moved \in SUBSET (lo .. hi), Update(m, lo, hi, moved)
          PROVE  Stamps'
      <3>1. lo .. hi \in SUBSET Blocks /\ moved \in SUBSET Blocks
        BY ConstantsAssumption DEF Blocks
      <3>2. Modify(m, lo .. hi, moved) /\ UNCHANGED <<files, flusher>>
        BY <2>1 DEF Update
      <3> QED
        BY <1>0, <3>1, <3>2, ModifyStamps
    <2>2. ASSUME NEW m \in Metrics, NEW lo \in Blocks, NEW bad \in Blocks,
                 NEW moved \in SUBSET (lo .. bad - 1), UpdateFails(m, lo, bad, moved)
          PROVE  Stamps'
      <3>1. lo .. bad - 1 \in SUBSET Blocks /\ moved \in SUBSET Blocks
        BY ConstantsAssumption DEF Blocks
      <3>2. Modify(m, lo .. bad - 1, moved) /\ UNCHANGED <<files, flusher>>
        BY <2>2 DEF UpdateFails
      <3> QED
        BY <1>0, <3>1, <3>2, ModifyStamps
    <2>3. 1 \in Blocks
      BY ConstantsAssumption DEF Blocks
    <2> QED
      BY <1>0, <1>1, <2>1, <2>2, <2>3, CacheStamps DEF Work
  <1>2. CASE \/ FlushBegin \/ (\E m \in Metrics : SaveDirtyBlocksFails(m)) \/ ApplyBegin
             \/ JournalError \/ ApplyEnd \/ ApplyError \/ FlushEnd
             \/ Stop \/ Crash \/ Start \/ StartFails \/ RecoverEnd \/ UNCHANGED vars
    <2>1. /\ updates' = updates /\ disk' = disk
          /\ buffer' \in {buffer, EmptyBuffer} /\ journal' \in {journal, NoJournal}
      BY <1>2 DEF FlushBegin, SaveDirtyBlocksFails, ApplyBegin, JournalError, ApplyEnd, ApplyError,
                  NextMetric, FlushEnd, Stop, Crash, Start, StartFails, RecoverEnd, vars
    <2>2. held' \in {held, NoBlocksAnywhere} /\ cached' \in {cached, NoBlocksAnywhere}
      BY <1>2 DEF FlushBegin, SaveDirtyBlocksFails, ApplyBegin, JournalError, ApplyEnd, ApplyError,
                  NextMetric, FlushEnd, Stop, Crash, Start, StartFails, RecoverEnd, vars
    <2>3. \A m \in Metrics, b \in Blocks :
            held'[m][b] \in {Absent, held[m][b]} /\ cached'[m][b] \in {Absent, cached[m][b]}
      BY <2>2 DEF NoBlocksAnywhere, NoBlocks
    <2>4. CASE pc' \in {"open", "journal"}
      <3>1. UNCHANGED vars
        BY <1>2, <2>4, <1>0
           DEF FlushBegin, SaveDirtyBlocksFails, ApplyBegin, JournalError, ApplyEnd, ApplyError,
               NextMetric, FlushEnd, Stop, Crash, Start, StartFails, RecoverEnd, IInv, OwnerKnown, Up
      <3> QED
        BY <3>1 DEF vars, Stamps, Fresh, Apart, BufferNew
    <2>5. CASE pc' \notin {"open", "journal"}
      BY <1>0, <2>1, <2>3, <2>5, VanishStamps
    <2> QED
      BY <2>4, <2>5
  <1>3. CASE Flush \/ Process
    BY <1>0, <1>2, <1>3, SaveStamps, JournalStamps, PieceStamps, StartRecoveryStamps
       DEF Flush, FlushStep, Process
  <1> QED
    BY <1>1, <1>2, <1>3 DEF Next

-----------------------------------------------------------------------------
(* The file has the buffer's blocks but those left.                          *)
Progress ==
  pc = "apply" \/ mode = "recovering" =>
    \A b \in BlocksOf(buffer.data) \ left : disk[buffer.owner][b] = buffer.data[b]

(* What is written is the latest snapshot of a metric still to be saved.     *)
Buffered ==
  pc \in {"open", "journal", "apply"} => buffer.data = snap[buffer.owner] /\ buffer.owner \in todo

(* Only a journal written to the end is applied, or its metric is spoilt.    *)
WrittenThrough ==
  /\ pc = "journal" => (journal.through <=> left = {})
  /\ pc = "apply" => journal.through
  /\ mode = "recovering" => journal.through \/ journal.owner \in spoilt
JournalDone == JournalWhole /\ journal.through

HasSnap(m) ==
  /\ journal.exists /\ journal.owner = m /\ journal.blocks = SnapBlocks(m) /\ journal.through
  /\ \A b \in journal.blocks : journal.piece[b] = snap[m][b]
Settled == \A b \in journal.blocks : disk[journal.owner][b] = journal.piece[b]
Untouched == \A b \in journal.blocks : disk[journal.owner][b] # journal.piece[b]

Spared(m) == m \notin spoilt

(* A complete journal is that of the latest snapshot or is in the file; and  *)
(* while no metric is written, either all of it is in the file or nothing.   *)
JournalKept ==
  journal.exists /\ JournalDone =>
    \/ Settled
    \/ /\ HasSnap(journal.owner)
       /\ Up /\ pc \in {"idle", "next", "open"} =>
            /\ pc # "idle" /\ journal.owner \notin todo
            /\ Spared(journal.owner) => Untouched

TornCovered == \A m \in Metrics : Spared(m) => ~Torn(m) \/ HasSnap(m)

Stages2 == Progress /\ Buffered /\ WrittenThrough /\ JournalKept /\ TornCovered
AInv == KInv /\ Stamps /\ Stages2

(* What the files amount to for one metric.                                  *)
StoredOf(m) ==
  [b \in Blocks |->
     IF Committing(m) /\ b \in journal.blocks THEN journal.piece[b] ELSE disk[m][b]]

LEMMA StoredFacts ==
  /\ Stored = [m \in Metrics |-> StoredOf(m)]
  /\ \A m \in Metrics : Stored[m] = StoredOf(m)
  BY DEF Stored, StoredOf

(* A snapshot that has been taken is as the buffer has it: its blocks are    *)
(* not in the file yet.                                                      *)
LEMMA NewSnapNotTorn ==
  ASSUME NEW m \in Metrics, \A b \in Blocks : Newer(snap[m][b], disk[m][b]),
         \A b \in Blocks : disk[m][b] # Absent
  PROVE  ~Torn(m)
  BY DEF Torn, SnapBlocks, BlocksOf, Newer

(* A snapshot in the journal makes it whole.                                 *)
LEMMA HasSnapIsDone == ASSUME NEW m \in Metrics, HasSnap(m) PROVE JournalDone
  BY DEF HasSnap, JournalDone, JournalWhole, SnapBlocks, BlocksOf

(* While no metric is written the files are what they amount to, and whole.  *)
LEMMA Between ==
  ASSUME AInv, Up, pc \in {"idle", "next", "open"}, NEW m \in Metrics, Spared(m)
  PROVE  ~Torn(m) /\ StoredOf(m) = disk[m]
  <1>1. disk[m] = [b \in Blocks |-> disk[m][b]] /\ journal.blocks \in SUBSET Blocks
    BY DEF AInv, KInv, IInv, TypeOK
  <1>2. CASE journal.exists /\ JournalDone /\ journal.owner = m
    <2>1. Settled \/ Untouched
      BY <1>2 DEF AInv, Stages2, JournalKept
    <2>2. ~Torn(m)
      BY <2>1 DEF AInv, Stages2, TornCovered, Torn, HasSnap, Settled, Untouched
    <2>3. \A b \in Blocks :
            (IF Committing(m) /\ b \in journal.blocks THEN journal.piece[b] ELSE disk[m][b])
              = disk[m][b]
      BY <1>2, <2>1 DEF Committing, Settled, Untouched
    <2> QED
      BY <1>1, <2>2, <2>3 DEF StoredOf
  <1>3. CASE ~(journal.exists /\ JournalDone /\ journal.owner = m)
    <2>1. ~Torn(m)
      BY <1>3, HasSnapIsDone DEF AInv, Stages2, TornCovered, HasSnap
    <2>2. ~Committing(m)
      BY <1>3 DEF Committing, JournalDone
    <2> QED
      BY <1>1, <2>1, <2>2 DEF StoredOf
  <1> QED
    BY <1>2, <1>3

-----------------------------------------------------------------------------
(* Steps that write neither the files nor the buffer: nobody sees a          *)
(* difference.                                                               *)
LEMMA QuietStages ==
  ASSUME AInv, UNCHANGED <<disk, journal, snap, spoilt>>,
         \/ UNCHANGED <<pc, todo, buffer, left>> /\ Up' = Up
            /\ (mode' = "recovering" => mode = "recovering")
         \/ ~Up' /\ pc' = "idle" /\ mode' # "recovering"
         \/ /\ Up' /\ Up /\ pc' = "next" /\ pc \in {"idle", "next", "open"}
            /\ pc # "idle" => todo' \subseteq todo
  PROVE  Stages2'
  <1>0. /\ UNCHANGED <<Settled, Untouched, JournalDone>>
        /\ \A m \in Metrics : Torn(m)' = Torn(m) /\ HasSnap(m)' = HasSnap(m) /\ Spared(m)' = Spared(m)
    BY DEF Settled, Untouched, JournalDone, JournalWhole, Spared, Torn, HasSnap, SnapBlocks
  <1>1. Progress' /\ Buffered' /\ WrittenThrough'
    BY DEF AInv, KInv, IInv, OwnerKnown, Stages2, Progress, Buffered,
           WrittenThrough, Up
  <1>2. JournalKept'
    <2> SUFFICES ASSUME journal.exists, JournalDone, ~Settled
                 PROVE  /\ HasSnap(journal.owner)'
                        /\ (Up /\ pc \in {"idle", "next", "open"})' =>
                             /\ pc' # "idle" /\ journal.owner \notin todo'
                             /\ Spared(journal.owner)' => Untouched
      BY <1>0 DEF JournalKept
    <2>1. journal.owner \in Metrics
      BY DEF AInv, KInv, IInv, OwnerKnown
    <2>2. /\ HasSnap(journal.owner)
          /\ Up /\ pc \in {"idle", "next", "open"} =>
               /\ pc # "idle" /\ journal.owner \notin todo
               /\ Spared(journal.owner) => Untouched
      BY DEF AInv, Stages2, JournalKept
    <2> QED
      BY <1>0, <2>1, <2>2
  <1>3. TornCovered'
    BY <1>0 DEF AInv, Stages2, TornCovered
  <1> QED
    BY <1>1, <1>2, <1>3 DEF Stages2

(* What is not lossy was not.                                                *)
LEMMA LossyBefore ==
  ASSUME TypeOK, [Next]_vars, NEW m \in Metrics, ~lossy'[m]
  PROVE  ~lossy[m]
  <1>1. \/ lossy' = lossy
        \/ \E n \in Metrics : \E B : lossy' = [lossy EXCEPT ![n] = lossy[n] \/ ReadsTooEarly(n, B)]
        \/ \E n \in Metrics, b \in Blocks : lossy' = [lossy EXCEPT ![n] = lossy[n] \/ InWindow(n, b)]
        \/ lossy' = [lossy EXCEPT ![buffer.owner] = TRUE]
    <2>1. CASE Work
      <3>1. PICK n \in Metrics :
            \/ \E lo, hi \in Blocks : \E moved \in SUBSET (lo .. hi) :
                 lo <= hi /\ Update(n, lo, hi, moved)
            \/ \E lo, bad \in Blocks : \E moved \in SUBSET (lo .. bad - 1) :
                 lo <= bad /\ UpdateFails(n, lo, bad, moved)
            \/ \E b \in Blocks : Load(n, b) \/ Purge(n, b)
            \/ LoadFails(n) \/ CloseStream(n)
        BY <2>1 DEF Work
      <3> QED
        BY <3>1, Zenon DEF Update, UpdateFails, Modify, Load, Purge, LoadFails, CloseStream
    <2>2. CASE Flush
      BY <2>2 DEF Flush, FlushStep, FlushBegin, SaveDirtyBlocks, SaveDirtyBlocksFails, JournalHeader,
                  JournalPiece, JournalError, ApplyBegin, ApplyPiece, ApplyEnd, ApplyError, FlushEnd,
                  Lose
    <2>3. CASE Process \/ UNCHANGED vars
      BY <2>3 DEF Process, Stop, Crash, Start, StartRecovery, StartFails, RecoverPiece, RecoverEnd,
                  vars
    <2> QED
      BY <2>1, <2>2, <2>3 DEF Next
  <1> QED
    BY <1>1, Zenon DEF TypeOK

(* What a step means for the files: nothing to those that are not spoilt, ... *)
StoreKept ==
  /\ UNCHANGED <<snap, spoilt>>
  /\ \A m \in Metrics : Spared(m) => StoredOf(m)' = StoredOf(m)

(* ... or that one is spoilt, ...                                            *)
Spoils(o) == UNCHANGED <<disk, journal, snap>> /\ spoilt' = spoilt \cup {o}

(* ... or that the snapshot of one metric is there, of which nothing was.    *)
Committed(o) ==
  /\ UNCHANGED <<snap, spoilt>> /\ HasSnap(o) /\ StoredOf(o) = disk[o]
  /\ StoredOf(o)' = Store!Overlay(StoredOf(o), snap[o])
  /\ \A m \in Metrics \ {o} : StoredOf(m)' = StoredOf(m)

LEMMA SameFiles == UNCHANGED <<disk, journal>> => \A m \in Metrics : StoredOf(m)' = StoredOf(m)
  BY DEF StoredOf, Committing, JournalWhole

(* A snapshot is taken.                                                      *)
LEMMA SaveStages ==
  ASSUME AInv, NEW m \in Metrics, SaveDirtyBlocks(m)
  PROVE  Stages2'
  <1>1. /\ pc = "next" /\ m \in todo /\ pc' = "open"
        /\ snap' = [snap EXCEPT ![m] = held[m]]
        /\ buffer'.owner = m /\ buffer'.data = held[m]
        /\ UNCHANGED <<mode, files, todo, left>> /\ spoilt' = spoilt \ {m}
    BY DEF SaveDirtyBlocks
  <1>2. TypeOK /\ Up /\ Up'
    BY <1>1 DEF AInv, KInv, IInv, OwnerKnown, Up
  <1>3. snap'[m] = held[m] /\ \A n \in Metrics \ {m} : snap'[n] = snap[n]
    BY <1>1, <1>2 DEF TypeOK
  <1>4. \A n \in Metrics \ {m} :
          Torn(n)' = Torn(n) /\ HasSnap(n)' = HasSnap(n) /\ Spared(n)' = Spared(n)
    BY <1>1, <1>3 DEF Spared, Torn, HasSnap, SnapBlocks
  <1>5. Progress' /\ WrittenThrough' /\ Buffered'
    BY <1>1, <1>2, <1>3 DEF Progress, WrittenThrough, Buffered, Up
  <1>6. JournalKept'
    <2> SUFFICES ASSUME journal.exists, JournalDone, ~Settled
                 PROVE  /\ HasSnap(journal.owner)'
                        /\ journal.owner \notin todo /\ (Spared(journal.owner)' => Untouched)
      BY <1>1 DEF JournalKept, JournalDone, JournalWhole, Settled, Untouched
    <2>1. journal.owner \in Metrics
      BY DEF AInv, KInv, IInv, OwnerKnown
    <2>2. /\ HasSnap(journal.owner) /\ journal.owner \notin todo
          /\ Spared(journal.owner) => Untouched
      BY <1>1, <1>2 DEF AInv, Stages2, JournalKept
    <2> QED
      BY <1>1, <1>4, <2>1, <2>2
  <1>7. TornCovered'
    <2>1. ~Torn(m)'
      <3>1. \A b \in Blocks : snap'[m][b] # Absent => snap'[m][b] # disk[m][b]
        BY <1>2, <1>3, DataFacts, NewerDiffers DEF AInv, Stamps, Apart, TypeOK
      <3> QED
        BY <1>1, <3>1 DEF Torn, SnapBlocks, BlocksOf
    <2> QED
      BY <1>1, <1>4, <2>1 DEF AInv, Stages2, TornCovered
  <1> QED
    BY <1>5, <1>6, <1>7 DEF Stages2

(* While the journal is written its metric's file has none of the snapshot.  *)
LEMMA NothingWritten ==
  ASSUME AInv, pc \in {"open", "journal"}
  PROVE  /\ buffer.owner \in Metrics /\ buffer.data = snap[buffer.owner]
         /\ \A b \in BlocksOf(buffer.data) : disk[buffer.owner][b] # buffer.data[b]
         /\ ~Torn(buffer.owner)
  <1>1. buffer.owner \in Metrics /\ buffer.data = snap[buffer.owner] /\ TypeOK
    BY DEF AInv, KInv, IInv, OwnerKnown, Stages2, Buffered
  <1>2. \A b \in BlocksOf(buffer.data) : disk[buffer.owner][b] # buffer.data[b]
    BY <1>1, DataFacts DEF AInv, Stamps, BufferNew, Newer, BlocksOf, TypeOK
  <1> QED
    BY <1>1, <1>2 DEF Torn, SnapBlocks

(* The header of the new journal: there must be nothing left that needs the  *)
(* old one.                                                                  *)
LEMMA HeaderStages ==
  ASSUME AInv, JournalHeader
  PROVE  Stages2' /\ StoreKept
  <1>1. /\ pc = "open" /\ pc' = "journal" /\ journal'.exists /\ journal'.owner = buffer.owner
        /\ journal'.blocks = BlocksOf(buffer.data)
        /\ journal'.through = (journal'.blocks = {})
        /\ left' = BlocksOf(buffer.data)
        /\ UNCHANGED <<mode, memory, disk, todo, buffer, bounds, history>>
    BY DEF JournalHeader
  <1>2. TypeOK /\ Up /\ Up'
    BY <1>1 DEF AInv, KInv, IInv, OwnerKnown, Up
  <1>3. BlocksOf(buffer.data) \in SUBSET Blocks
    BY DEF BlocksOf
  <1>4. \A m \in Metrics : Torn(m)' = Torn(m)
    BY <1>1 DEF Torn, SnapBlocks
  <1>5. Progress' /\ WrittenThrough' /\ Buffered'
    BY <1>1, <1>2, <1>3 DEF Progress, WrittenThrough, AInv, Stages2, Buffered, Up
  <1>6. JournalKept'
    BY <1>1, <1>3 DEF JournalKept, JournalDone, Settled
  <1>7. TornCovered'
    BY <1>1, <1>2, <1>4, Between DEF TornCovered, Spared
  <1>8. ASSUME NEW m \in Metrics, Spared(m) PROVE StoredOf(m)' = StoredOf(m)
    <2>1. StoredOf(m) = disk[m] /\ disk[m] = [b \in Blocks |-> disk[m][b]]
      BY <1>1, <1>2, <1>8, Between DEF TypeOK
    <2>2. ~Committing(m)'
      BY <1>1, <1>3 DEF Committing
    <2> QED
      BY <1>1, <2>1, <2>2 DEF StoredOf
  <1> QED
    BY <1>1, <1>5, <1>6, <1>7, <1>8 DEF Stages2, StoreKept

(* The journal grows; once it is whole it has the snapshot, of which the     *)
(* file has nothing.                                                         *)
LEMMA JournalPieceStages ==
  ASSUME AInv, NEW b \in Blocks, JournalPiece(b)
  PROVE  Stages2' /\ StoreKept
  <1> DEFINE o == buffer.owner
             piece == [journal.piece EXCEPT ![b] = buffer.data[b]]
  <1>1. /\ pc = "journal" /\ b \in left /\ left' = left \ {b}
        /\ journal' = [journal EXCEPT !.piece = piece, !.through = left = {b}]
        /\ UNCHANGED <<mode, memory, disk, stream, pc, todo, buffer, bounds, history>>
    BY Zenon DEF JournalPiece, First
  <1>2. /\ TypeOK /\ Up /\ Up' /\ JournalGrows /\ JournalGrows' /\ o \in Metrics
        /\ buffer.data = snap[o]
    <2>1. JournalGrows'
      BY NextIInv DEF AInv, KInv, IInv, Next, Flush, FlushStep
    <2> QED
      BY <1>1, <2>1, NothingWritten DEF AInv, KInv, IInv, OwnerKnown, Up
  <1>3. /\ journal'.exists /\ journal'.owner = o /\ journal'.blocks = BlocksOf(buffer.data)
        /\ journal.exists /\ journal.owner = o /\ journal.blocks = BlocksOf(buffer.data)
        /\ journal'.piece = piece /\ journal'.through = (left' = {})
    <2>1. (left = {b}) = (left' = {})
      BY <1>1
    <2> QED
      BY <1>1, <1>2, <2>1 DEF JournalGrows, TypeOK
  <1>4. /\ \A m \in Metrics : Torn(m)' = Torn(m)
        /\ \A m \in Metrics \ {o} : ~HasSnap(m)
    BY <1>1, <1>3 DEF Torn, SnapBlocks, HasSnap
  <1>5. ~journal.through
    BY <1>1 DEF AInv, Stages2, WrittenThrough
  <1>6. Progress' /\ WrittenThrough' /\ Buffered'
    BY <1>1, <1>2, <1>3 DEF Progress, WrittenThrough, AInv, Stages2, Buffered, Up
  <1>7. JournalKept'
    <2> SUFFICES ASSUME JournalDone' PROVE HasSnap(o)'
      BY <1>1, <1>3 DEF JournalKept
    <2>1. left' = {} /\ journal'.through
      BY <1>3 DEF JournalDone
    <2> QED
      BY <1>1, <1>2, <1>3, <2>1 DEF JournalGrows, HasSnap, SnapBlocks
  <1>8. TornCovered'
    BY <1>1, <1>4, NothingWritten DEF AInv, Stages2, TornCovered, Spared
  <1>9. ASSUME NEW m \in Metrics PROVE StoredOf(m)' = StoredOf(m)
    <2>1. ~Committing(m)
      BY <1>5 DEF Committing
    <2>2. ~Committing(m)'
      <3>1. CASE left' # {}
        BY <1>3, <3>1 DEF Committing
      <3>2. CASE left' = {}
        BY <1>1, <1>2, <1>3, <3>2, NothingWritten DEF Committing, JournalGrows
      <3> QED
        BY <3>1, <3>2
    <2> QED
      BY <1>1, <2>1, <2>2 DEF StoredOf
  <1> QED
    BY <1>1, <1>6, <1>7, <1>8, <1>9 DEF Stages2, StoreKept

(* One block of the latest snapshot goes to the file: the first one commits. *)
LEMMA PieceStores ==
  ASSUME TypeOK, NEW o \in Metrics, NEW b \in Blocks, HasSnap(o), JournalWhole,
         b \in journal.blocks, UNCHANGED <<journal, snap, spoilt>>,
         \A m \in Metrics, c \in Blocks :
           disk'[m][c] = IF m = o /\ c = b THEN journal.piece[b] ELSE disk[m][c]
  PROVE  StoreKept \/ Committed(o)
  <1>1. /\ journal.exists /\ journal.owner = o /\ journal.blocks = SnapBlocks(o) /\ journal.through
        /\ journal.blocks \in SUBSET Blocks
        /\ \A c \in journal.blocks : journal.piece[c] = snap[o][c]
    BY DEF HasSnap, SnapBlocks, BlocksOf
  <1>2. ASSUME NEW m \in Metrics \ {o} PROVE StoredOf(m)' = StoredOf(m)
    <2>1. ~Committing(m) /\ ~Committing(m)'
      BY <1>1 DEF Committing
    <2>2. \A c \in Blocks : disk'[m][c] = disk[m][c]
      OBVIOUS
    <2> QED
      BY <2>1, <2>2 DEF StoredOf
  <1>3. StoredOf(o)' = [c \in Blocks |-> IF c \in journal.blocks THEN journal.piece[c] ELSE disk[o][c]]
    <2>1. Committing(o)'
      BY <1>1 DEF Committing, JournalWhole
    <2>2. \A c \in Blocks : c \notin journal.blocks => disk'[o][c] = disk[o][c]
      OBVIOUS
    <2> QED
      BY <2>1, <2>2 DEF StoredOf
  <1>4. CASE Committing(o)
    <2>1. StoredOf(o)' = StoredOf(o)
      BY <1>3, <1>4 DEF StoredOf
    <2> QED
      BY <1>2, <2>1 DEF StoreKept
  <1>5. CASE ~Committing(o)
    <2>1. StoredOf(o) = [c \in Blocks |-> disk[o][c]]
      BY <1>5 DEF StoredOf
    <2>2. StoredOf(o) = disk[o]
      BY <2>1 DEF TypeOK
    <2>3. \A c \in Blocks :
            (IF c \in journal.blocks THEN journal.piece[c] ELSE disk[o][c])
              = (IF snap[o][c] = Absent THEN StoredOf(o)[c] ELSE snap[o][c])
      BY <1>1, <2>1 DEF SnapBlocks, BlocksOf
    <2>4. StoredOf(o)' = Store!Overlay(StoredOf(o), snap[o])
      BY <1>3, <2>3 DEF Store!Overlay
    <2> QED
      BY <1>2, <2>2, <2>4 DEF Committed
  <1> QED
    BY <1>4, <1>5

(* ... in a flush.                                                           *)
LEMMA ApplyPieceStages ==
  ASSUME AInv, NEW b \in Blocks, ApplyPiece(b)
  PROVE  Stages2' /\ (StoreKept \/ \E o \in Metrics : Committed(o))
  <1> DEFINE o == buffer.owner
  <1>1. /\ pc = "apply" /\ b \in left /\ left' = left \ {b}
        /\ disk' = [disk EXCEPT ![o] = [disk[o] EXCEPT ![b] = buffer.data[b]]]
        /\ UNCHANGED <<mode, memory, journal, stream, pc, todo, buffer, bounds, history>>
    BY Zenon DEF ApplyPiece, First
  <1>2. /\ TypeOK /\ Up /\ Up' /\ mode # "recovering" /\ o \in Metrics
        /\ buffer.data = snap[o] /\ b \in BlocksOf(buffer.data)
    BY <1>1 DEF AInv, KInv, IInv, OwnerKnown, LeftIsBuffered, Stages2, Buffered, Up
  <1>3. /\ journal.exists /\ journal.owner = o /\ journal.blocks = BlocksOf(buffer.data)
        /\ \A c \in journal.blocks : journal.piece[c] = buffer.data[c]
        /\ journal.through
    BY <1>1 DEF AInv, KInv, IInv, WriteAhead, Stages2, WrittenThrough
  <1>4. HasSnap(o) /\ JournalWhole
    BY <1>2, <1>3, HasSnapIsDone DEF JournalDone, HasSnap, SnapBlocks
  <1>5. \A m \in Metrics, c \in Blocks :
          disk'[m][c] = IF m = o /\ c = b THEN journal.piece[b] ELSE disk[m][c]
    BY <1>1, <1>2, <1>3 DEF TypeOK
  <1>6. Progress'
    BY <1>1, <1>2, <1>3, <1>5 DEF AInv, Stages2, Progress, BlocksOf
  <1>7. Buffered' /\ WrittenThrough'
    BY <1>1, <1>2 DEF AInv, Stages2, Buffered, WrittenThrough
  <1>8. \A m \in Metrics : HasSnap(m)' = HasSnap(m)
    BY <1>1 DEF HasSnap, SnapBlocks
  <1>9. JournalKept'
    BY <1>1, <1>2, <1>3, <1>4, <1>8 DEF JournalKept
  <1>10. TornCovered'
    <2>1. \A m \in Metrics \ {o} : Torn(m)' = Torn(m)
      BY <1>1, <1>5 DEF Torn, SnapBlocks, BlocksOf
    <2> QED
      BY <1>1, <1>4, <1>8, <2>1 DEF AInv, Stages2, TornCovered, Spared
  <1>11. StoreKept \/ Committed(o)
    BY <1>1, <1>2, <1>3, <1>4, <1>5, PieceStores
  <1> QED
    BY <1>2, <1>6, <1>7, <1>9, <1>10, <1>11 DEF Stages2

(* ... in a recovery, where the file may have the blocks already.            *)
LEMMA RecoverPieceStages ==
  ASSUME AInv, NEW b \in Blocks, RecoverPiece(b)
  PROVE  Stages2' /\ (StoreKept \/ \E o \in Metrics : Committed(o))
  <1> DEFINE o == buffer.owner
  <1>1. /\ mode = "recovering" /\ b \in left /\ left' = left \ {b}
        /\ disk' = [disk EXCEPT ![o] = [disk[o] EXCEPT ![b] = buffer.data[b]]]
        /\ UNCHANGED <<mode, memory, journal, stream, pc, todo, buffer, bounds, history>>
    BY Zenon DEF RecoverPiece, First
  <1>2. /\ TypeOK /\ ~Up /\ ~Up' /\ pc = "idle" /\ o \in Metrics
        /\ b \in BlocksOf(buffer.data)
    BY <1>1 DEF AInv, KInv, IInv, OwnerKnown, LeftIsBuffered, Up
  <1>3. /\ journal.exists /\ journal.owner = o /\ journal.blocks = BlocksOf(buffer.data)
        /\ \A c \in journal.blocks : journal.piece[c] = buffer.data[c]
    BY <1>1 DEF AInv, KInv, IInv, WriteAhead
  <1>4. JournalWhole
    BY <1>3 DEF JournalWhole, BlocksOf
  <1>5. \A m \in Metrics, c \in Blocks :
          disk'[m][c] = IF m = o /\ c = b THEN journal.piece[b] ELSE disk[m][c]
    BY <1>1, <1>2, <1>3 DEF TypeOK
  <1>6. Progress'
    BY <1>1, <1>2, <1>3, <1>5 DEF AInv, Stages2, Progress, BlocksOf
  <1>7. Buffered' /\ WrittenThrough'
    BY <1>1, <1>2 DEF AInv, Stages2, Buffered, WrittenThrough
  <1>8. \A m \in Metrics : HasSnap(m)' = HasSnap(m)
    BY <1>1 DEF HasSnap, SnapBlocks
  <1>9. CASE Settled
    <2>1. \A m \in Metrics, c \in Blocks : disk'[m][c] = disk[m][c]
      BY <1>2, <1>3, <1>5, <1>9 DEF Settled
    <2>2. Settled'
      BY <1>1, <1>2, <1>3, <1>9, <2>1 DEF Settled, BlocksOf
    <2>3. \A m \in Metrics : Torn(m)' = Torn(m)
      BY <1>1, <2>1 DEF Torn, SnapBlocks, BlocksOf
    <2>4. TornCovered'
      BY <1>1, <1>8, <2>3 DEF AInv, Stages2, TornCovered, Spared
    <2>5. \A m \in Metrics : Committing(m)' = Committing(m)
      BY <1>1, <1>2, <1>3, <2>1 DEF Committing, JournalWhole, BlocksOf
    <2>6. \A m \in Metrics : StoredOf(m)' = StoredOf(m)
      BY <1>1, <2>1, <2>5 DEF StoredOf
    <2> QED
      BY <1>1, <1>6, <1>7, <2>2, <2>4, <2>6 DEF Stages2, JournalKept, StoreKept
  <1>10. CASE ~Settled /\ journal.through
    <2>1. HasSnap(o)
      BY <1>3, <1>4, <1>10 DEF AInv, Stages2, JournalDone, JournalKept
    <2>2. JournalKept'
      BY <1>1, <1>2, <1>3, <1>8, <2>1 DEF JournalKept, Up
    <2>3. TornCovered'
      <3>1. \A m \in Metrics \ {o} : Torn(m)' = Torn(m)
        BY <1>1, <1>5 DEF Torn, SnapBlocks, BlocksOf
      <3> QED
        BY <1>1, <1>8, <2>1, <3>1 DEF AInv, Stages2, TornCovered, Spared
    <2>4. StoreKept \/ Committed(o)
      BY <1>1, <1>2, <1>3, <1>4, <1>5, <2>1, PieceStores
    <2> QED
      BY <1>2, <1>6, <1>7, <2>2, <2>3, <2>4 DEF Stages2
  <1>11. CASE ~journal.through
    <2>1. ~Spared(o)
      BY <1>1, <1>3, <1>11 DEF AInv, Stages2, WrittenThrough, Spared
    <2>2. \A m \in Metrics \ {o} : Torn(m)' = Torn(m) /\ Spared(m)' = Spared(m)
      BY <1>1, <1>5 DEF Torn, SnapBlocks, BlocksOf, Spared
    <2>3. TornCovered'
      BY <1>1, <1>8, <2>1, <2>2 DEF AInv, Stages2, TornCovered, Spared
    <2>4. JournalKept'
      BY <1>1, <1>11 DEF JournalKept, JournalDone
    <2>5. ASSUME NEW m \in Metrics \ {o} PROVE StoredOf(m)' = StoredOf(m)
      <3>1. ~Committing(m) /\ ~Committing(m)'
        BY <1>1, <1>3 DEF Committing
      <3>2. \A c \in Blocks : disk'[m][c] = disk[m][c]
        BY <1>5
      <3> QED
        BY <3>1, <3>2 DEF StoredOf
    <2>6. StoreKept
      BY <1>1, <2>1, <2>5 DEF StoreKept
    <2> QED
      BY <1>6, <1>7, <2>3, <2>4, <2>6 DEF Stages2
  <1> QED
    BY <1>9, <1>10, <1>11

(* Steps that leave the files alone but change what is being written.        *)
LEMMA StageChanges ==
  ASSUME AInv, UNCHANGED <<disk, journal, snap>>, spoilt \subseteq spoilt',
         Progress', Buffered', WrittenThrough',
         journal.exists /\ JournalDone /\ (Up /\ pc \in {"idle", "next", "open"})' => Settled
  PROVE  Stages2' /\ (spoilt' = spoilt => StoreKept)
  <1>1. /\ UNCHANGED <<Settled, Untouched, JournalDone>>
        /\ \A m \in Metrics : Torn(m)' = Torn(m) /\ HasSnap(m)' = HasSnap(m)
    BY DEF Settled, Untouched, JournalDone, JournalWhole, Torn, HasSnap, SnapBlocks
  <1>2. JournalKept'
    <2> SUFFICES ASSUME journal.exists, JournalDone, ~Settled
                 PROVE  HasSnap(journal.owner)' /\ ~(Up /\ pc \in {"idle", "next", "open"})'
      BY <1>1 DEF JournalKept
    <2>1. HasSnap(journal.owner) /\ journal.owner \in Metrics
      BY DEF AInv, KInv, IInv, OwnerKnown, Stages2, JournalKept
    <2> QED
      BY <1>1, <2>1
  <1>3. TornCovered'
    BY <1>1 DEF AInv, Stages2, TornCovered, Spared
  <1> QED
    BY <1>2, <1>3, SameFiles DEF Stages2, StoreKept

LEMMA ApplyStages ==
  ASSUME AInv, ApplyBegin \/ ApplyEnd \/ StartRecovery \/ RecoverEnd
  PROVE  Stages2' /\ (StoreKept \/ \E o \in Metrics : Spoils(o))
  <1>0. IInv /\ TypeOK /\ Stages2
    BY DEF AInv, KInv, IInv
  <1>1. CASE ApplyBegin
    <2>1. /\ pc = "journal" /\ left = {} /\ pc' = "apply" /\ left' = BlocksOf(buffer.data)
          /\ UNCHANGED <<mode, memory, files, todo, buffer, bounds, history>>
      BY <1>1 DEF ApplyBegin
    <2>2. Progress' /\ Buffered' /\ WrittenThrough'
      BY <1>0, <2>1 DEF Progress, Stages2, Buffered, WrittenThrough, IInv, OwnerKnown, Up
    <2> QED
      BY <2>1, <2>2, StageChanges
  <1>2. CASE ApplyEnd
    <2>1. /\ pc = "apply" /\ left = {} /\ pc' = "next" /\ UNCHANGED <<mode, memory, files, bounds, history>>
      BY <1>2 DEF ApplyEnd, NextMetric
    <2>2. mode # "recovering"
      BY <1>0, <2>1 DEF IInv, OwnerKnown, Up
    <2>3. Progress' /\ Buffered' /\ WrittenThrough'
      BY <2>1, <2>2 DEF Progress, Buffered, WrittenThrough
    <2>4. Settled
      BY <1>0, <2>1 DEF IInv, WriteAhead, Stages2, Progress, Settled
    <2> QED
      BY <2>1, <2>3, <2>4, StageChanges
  <1>3. CASE StartRecovery
    <2>1. /\ mode = "crashed" /\ mode' = "recovering" /\ left' = journal.blocks
          /\ buffer'.data = [b \in Blocks |-> IF b \in journal.blocks THEN journal.piece[b] ELSE Absent]
          /\ UNCHANGED <<memory, files, pc, todo, bounds, snap>>
          /\ spoilt' = IF journal.through THEN spoilt ELSE spoilt \cup {journal.owner}
          /\ journal.owner \in Metrics
      BY <1>0, <1>3 DEF StartRecovery, Mixed, IInv, OwnerKnown
    <2>2. pc = "idle"
      BY <1>0, <2>1 DEF IInv, OwnerKnown, Up
    <2>3. Progress' /\ Buffered' /\ WrittenThrough'
      BY <2>1, <2>2 DEF Progress, Buffered, WrittenThrough, BlocksOf
    <2> QED
      BY <2>1, <2>3, StageChanges DEF Up, Spoils
  <1>4. CASE RecoverEnd
    <2>1. /\ mode = "recovering" /\ left = {} /\ mode' = "running"
          /\ UNCHANGED <<files, flusher, snap, spoilt>>
      BY <1>4 DEF RecoverEnd, LoadMetrics
    <2>2. pc = "idle"
      BY <1>0, <2>1 DEF IInv, OwnerKnown, Up
    <2>3. Progress' /\ Buffered' /\ WrittenThrough'
      BY <2>1, <2>2 DEF Progress, Buffered, WrittenThrough
    <2>4. Settled
      BY <1>0, <2>1 DEF IInv, WriteAhead, Stages2, Progress, Settled
    <2> QED
      BY <2>1, <2>3, <2>4, StageChanges
  <1> QED
    BY <1>1, <1>2, <1>3, <1>4

(* An error leaves a complete journal of which the file has nothing, or a    *)
(* metric that is no longer spared.                                          *)
LEMMA ErrorStages ==
  ASSUME AInv, JournalError \/ ApplyError
  PROVE  Stages2' /\ (StoreKept \/ Spoils(buffer.owner))
  <1> DEFINE o == buffer.owner
  <1>1. /\ pc' = "next" /\ todo' = todo \ {o}
        /\ UNCHANGED <<mode, memory, disk, journal, snap>>
        /\ \/ pc \in {"open", "journal"} /\ spoilt' = spoilt
           \/ pc = "apply" /\ spoilt' = spoilt \cup {o}
    BY DEF JournalError, ApplyError, NextMetric
  <1>2. TypeOK /\ Up /\ Up' /\ mode # "recovering" /\ o \in Metrics
    BY <1>1 DEF AInv, KInv, IInv, OwnerKnown, Up
  <1>3. \A m \in Metrics : Spared(m)' => Spared(m)
    BY <1>1 DEF Spared
  <1>4. /\ UNCHANGED <<Settled, Untouched, JournalDone>>
        /\ \A m \in Metrics : Torn(m)' = Torn(m) /\ HasSnap(m)' = HasSnap(m)
    BY <1>1 DEF Settled, Untouched, JournalDone, JournalWhole, Torn, HasSnap, SnapBlocks
  <1>5. Progress' /\ Buffered' /\ WrittenThrough'
    BY <1>1, <1>2 DEF Progress, Buffered, WrittenThrough
  <1>6. TornCovered'
    BY <1>3, <1>4 DEF AInv, Stages2, TornCovered
  <1>7. JournalKept'
    <2> DEFINE q == journal.owner
    <2> SUFFICES ASSUME journal.exists, JournalDone, ~Settled
                 PROVE  /\ HasSnap(q) /\ q \notin todo'
                        /\ q \notin spoilt' => Untouched
      <3>1. journal.exists => q \in Metrics
        BY DEF AInv, KInv, IInv, OwnerKnown
      <3>2. /\ journal' = journal /\ (JournalDone)' = JournalDone /\ (Settled)' = Settled
            /\ (Untouched)' = Untouched /\ pc' # "idle"
        BY <1>1, <1>4
      <3>3. journal.exists => HasSnap(journal.owner)' = HasSnap(q)
        BY <1>4, <3>1, <3>2
      <3> QED
        BY <3>2, <3>3, Zenon DEF JournalKept, Spared
    <2>1. HasSnap(q)
      BY DEF AInv, Stages2, JournalKept
    <2>2. CASE pc = "open"
      BY <1>1, <1>2, <1>3, <2>2 DEF AInv, KInv, IInv, OwnerKnown, Stages2, JournalKept, Spared
    <2>3. CASE pc = "journal"
      <3>1. q = o /\ left = {}
        BY <2>3 DEF AInv, KInv, IInv, JournalGrows, Stages2, WrittenThrough, JournalDone
      <3>2. Untouched
        BY <2>3, <3>1, NothingWritten DEF AInv, KInv, IInv, JournalGrows, Untouched
      <3> QED
        BY <1>1, <2>1, <3>1, <3>2
    <2>4. CASE pc = "apply"
      <3>1. q = o
        BY <2>4 DEF AInv, KInv, IInv, WriteAhead
      <3> QED
        BY <1>1, <1>3, <2>1, <2>4, <3>1
    <2> QED
      BY <1>1, <2>2, <2>3, <2>4
  <1> QED
    BY <1>1, <1>5, <1>6, <1>7, SameFiles DEF Stages2, StoreKept, Spoils

(* The journal can go when all of it has been written, or nothing.           *)
LEMMA FlushEndStages ==
  ASSUME AInv, FlushEnd
  PROVE  Stages2' /\ StoreKept
  <1>1. /\ pc = "next" /\ pc' = "idle" /\ journal' = NoJournal /\ ~journal'.exists
        /\ UNCHANGED <<disk, snap, spoilt>> /\ mode' \in {mode, "stopped"}
    BY DEF FlushEnd, NoJournal
  <1>2. TypeOK /\ Up /\ mode' # "recovering"
    BY <1>1 DEF AInv, KInv, IInv, OwnerKnown, Up
  <1>3. Progress' /\ Buffered' /\ WrittenThrough' /\ JournalKept'
    BY <1>1, <1>2 DEF Progress, Buffered, WrittenThrough, JournalKept
  <1>4. TornCovered'
    BY <1>1, <1>2, Between DEF TornCovered, Spared, Torn, SnapBlocks
  <1>5. ASSUME NEW m \in Metrics, Spared(m) PROVE StoredOf(m)' = StoredOf(m)
    <2>1. StoredOf(m) = disk[m] /\ disk[m] = [b \in Blocks |-> disk[m][b]]
      BY <1>1, <1>2, <1>5, Between DEF TypeOK
    <2>2. ~Committing(m)'
      BY <1>1 DEF Committing
    <2> QED
      BY <1>1, <2>1, <2>2 DEF StoredOf
  <1> QED
    BY <1>1, <1>3, <1>4, <1>5 DEF Stages2, StoreKept

-----------------------------------------------------------------------------
LEMMA InitAInv == Init => AInv
  <1> SUFFICES ASSUME Init PROVE AInv
    OBVIOUS
  <1>1. Progress /\ Buffered /\ WrittenThrough /\ JournalKept
    BY DEF Init, Progress, Buffered, WrittenThrough, JournalKept, NoJournal
  <1>2. TornCovered
    BY DEF Init, TornCovered, Torn, SnapBlocks, BlocksOf, NoBlocksAnywhere, NoBlocks
  <1> QED
    BY <1>1, <1>2, InitKInv, InitStamps DEF AInv, Stages2

(* The steps that write nothing.                                             *)
LEMMA OtherSteps ==
  ASSUME AInv,
         \/ Work \/ FlushBegin \/ (\E m \in Metrics : SaveDirtyBlocksFails(m))
         \/ Stop \/ Crash \/ StartFails \/ UNCHANGED vars
  PROVE  /\ UNCHANGED <<disk, journal, snap, spoilt>>
         /\ \/ UNCHANGED <<pc, todo, buffer, left>> /\ Up' = Up
               /\ (mode' = "recovering" => mode = "recovering")
            \/ ~Up' /\ pc' = "idle" /\ mode' # "recovering"
            \/ /\ Up' /\ Up /\ pc' = "next" /\ pc \in {"idle", "next", "open"}
               /\ pc # "idle" => todo' \subseteq todo
  <1>1. CASE Work
    <2>1. PICK n \in Metrics :
          \/ \E lo, hi \in Blocks : \E moved \in SUBSET (lo .. hi) :
               lo <= hi /\ Update(n, lo, hi, moved)
          \/ \E lo, bad \in Blocks : \E moved \in SUBSET (lo .. bad - 1) :
               lo <= bad /\ UpdateFails(n, lo, bad, moved)
          \/ \E b \in Blocks : Load(n, b) \/ Purge(n, b)
          \/ LoadFails(n) \/ CloseStream(n)
      BY <1>1 DEF Work
    <2>2. UNCHANGED <<mode, files, flusher, snap, spoilt>>
      BY <2>1, Zenon DEF Update, UpdateFails, Load, Purge, LoadFails, CloseStream
    <2> QED
      BY <2>2 DEF Up
  <1>2. CASE UNCHANGED vars
    BY <1>2 DEF vars, Up
  <1>3. CASE FlushBegin
    <2>1. /\ Up /\ pc = "idle" /\ pc' = "next"
          /\ UNCHANGED <<mode, files, snap, spoilt>>
      BY <1>3 DEF FlushBegin
    <2> QED
      BY <2>1 DEF Up
  <1>4. ASSUME NEW m \in Metrics, SaveDirtyBlocksFails(m)
        PROVE  /\ UNCHANGED <<disk, journal, snap, spoilt>>
               /\ Up' /\ Up /\ pc' = "next" /\ pc = "next" /\ todo' \subseteq todo
    <2>1. pc = "next" /\ todo' = todo \ {m} /\ UNCHANGED <<mode, files, pc, snap, spoilt>>
      BY <1>4 DEF SaveDirtyBlocksFails
    <2>2. Up
      BY <2>1 DEF AInv, KInv, IInv, OwnerKnown
    <2> QED
      BY <2>1, <2>2 DEF Up
  <1>5. CASE Stop
    <2>1. mode = "running" /\ mode' = "stopping" /\ UNCHANGED <<files, flusher, snap, spoilt>>
      BY <1>5 DEF Stop
    <2> QED
      BY <2>1 DEF Up
  <1>6. CASE Crash
    <2>1. mode' = "crashed" /\ pc' = "idle" /\ UNCHANGED <<disk, journal, snap, spoilt>>
      BY <1>6 DEF Crash
    <2> QED
      BY <2>1 DEF Up
  <1>7. CASE StartFails
    <2>1. mode = "crashed" /\ mode' = "failed" /\ UNCHANGED <<files, flusher, snap, spoilt>>
      BY <1>7 DEF StartFails
    <2> QED
      BY <2>1 DEF Up
  <1> QED
    BY <1>1, <1>2, <1>3, <1>4, <1>5, <1>6, <1>7

(* Every step keeps the invariant, and means one of four things for the      *)
(* files: a snapshot is taken, one is written, one is spoilt, or nothing to  *)
(* those that are not.                                                       *)
LEMMA StepAInv ==
  ASSUME AInv, [Next]_vars
  PROVE  /\ AInv'
         /\ \/ StoreKept \/ \E o \in Metrics : Committed(o) \/ Spoils(o)
            \/ \E m \in Metrics : SaveDirtyBlocks(m)
  <1>0. KInv' /\ Stamps' /\ TypeOK
    BY NextKInv, NextStamps DEF AInv, KInv, IInv
  <1>1. pc \in {"open", "journal", "apply"} => buffer.owner \in Metrics
    BY DEF AInv, KInv, IInv, OwnerKnown
  <1>2. CASE \/ Work \/ FlushBegin \/ (\E m \in Metrics : SaveDirtyBlocksFails(m))
             \/ Stop \/ Crash \/ StartFails \/ UNCHANGED vars
    BY <1>0, <1>2, OtherSteps, QuietStages, SameFiles DEF AInv, StoreKept
  <1>3. CASE Start
    <2>1. /\ UNCHANGED <<disk, journal, snap, spoilt, pc>> /\ ~journal.exists
          /\ mode' = "running" /\ mode \in {"stopped", "crashed"}
      BY <1>3 DEF Start, LoadMetrics
    <2>2. pc = "idle"
      BY <2>1 DEF AInv, KInv, IInv, OwnerKnown, Up
    <2>3. Progress' /\ Buffered' /\ WrittenThrough'
      BY <2>1, <2>2 DEF Progress, Buffered, WrittenThrough
    <2> QED
      BY <1>0, <2>1, <2>3, StageChanges DEF AInv
  <1>4. CASE \/ (\E m \in Metrics : SaveDirtyBlocks(m)) \/ JournalHeader
             \/ (\E b \in Blocks : JournalPiece(b) \/ ApplyPiece(b) \/ RecoverPiece(b))
    BY <1>0, <1>4, SaveStages, HeaderStages, JournalPieceStages, ApplyPieceStages,
       RecoverPieceStages DEF AInv
  <1>5. CASE \/ ApplyBegin \/ ApplyEnd \/ StartRecovery \/ RecoverEnd
             \/ JournalError \/ ApplyError \/ FlushEnd
    <2>1. JournalError \/ ApplyError => buffer.owner \in Metrics
      BY <1>1 DEF JournalError, ApplyError
    <2> QED
      BY <1>0, <1>5, <2>1, ApplyStages, ErrorStages, FlushEndStages DEF AInv
  <1> QED
    BY <1>2, <1>3, <1>4, <1>5 DEF Next, Flush, FlushStep, Process

(* A metric's file with only a part of the latest snapshot can be repaired   *)
(* from the journal file (rrdb::start), unless an I/O error left it so, or a *)
(* recovery from a mixture of two journals did.                              *)
THEOREM TornFilesAreCovered == Spec => []TornFilesCovered
  <1>1. AInv => TornFilesCovered
    BY DEF AInv, Stages2, TornCovered, Spared, HasSnap, TornFilesCovered
  <1>2. AInv /\ [Next]_vars => AInv'
    BY StepAInv
  <1> QED
    BY <1>1, <1>2, InitAInv, PTL DEF Spec

(* The flush, with its journal, its crashes and its recoveries, implements   *)
(* the store in which a snapshot is written as a whole (SnapshotStore); what *)
(* an I/O error in a metric's file or a mixed journal damages, is damaged    *)
(* until that metric's next snapshot.                                        *)
THEOREM FlushImplementsStore == Spec => FlushIsAtomic
  <1>1. Init => Store!StoreInit
    BY DEF Init, Store!StoreInit, NoBlocksAnywhere, NoBlocks
  <1>2. AInv /\ [Next]_vars => [Store!StoreNext]_<<Stored, snap, spoilt>>
    <2> SUFFICES ASSUME AInv, [Next]_vars
                 PROVE  Store!StoreNext \/ UNCHANGED <<Stored, snap, spoilt>>
      OBVIOUS
    <2>1. Stored' = [m \in Metrics |-> StoredOf(m)'] /\ Stored = [m \in Metrics |-> StoredOf(m)]
      BY StoredFacts DEF Stored, StoredOf
    <2>2. CASE StoreKept
      <3>1. \A m \in Metrics : Stored'[m] = IF m \in spoilt THEN Stored'[m] ELSE Stored[m]
        BY <2>1, <2>2 DEF StoreKept, Spared
      <3>2. Stored' = [m \in Metrics |-> IF m \in spoilt THEN Stored'[m] ELSE Stored[m]]
        BY <2>1, <3>1
      <3> QED
        BY <2>2, <3>2 DEF StoreKept, Store!StoreNext, Store!Decay
    <2>3. ASSUME NEW o \in Metrics, Committed(o) PROVE Store!StoreNext
      <3>1. Stored' = [Stored EXCEPT ![o] = Store!Overlay(Stored[o], snap[o])]
        BY <2>1, <2>3 DEF Committed
      <3> QED
        BY <2>3, <3>1 DEF Store!StoreNext, Store!Commit, Committed
    <2>4. ASSUME NEW m \in Metrics, SaveDirtyBlocks(m) PROVE Store!StoreNext
      <3>1. /\ snap' = [snap EXCEPT ![m] = held[m]] /\ UNCHANGED <<disk, journal>>
            /\ snap \in [Metrics -> Partial]
            /\ spoilt' = spoilt \ {m}
        BY <2>4 DEF SaveDirtyBlocks, AInv, KInv, IInv, TypeOK
      <3>2. snap' = [snap EXCEPT ![m] = snap'[m]]
        BY <3>1
      <3>3. Stored' = Stored
        BY <2>1, <3>1, SameFiles
      <3> QED
        BY <3>1, <3>2, <3>3 DEF Store!StoreNext, Store!TakeSnapshot
    <2>5. ASSUME NEW o \in Metrics, Spoils(o) PROVE Store!StoreNext
      BY <2>1, <2>5, SameFiles DEF Spoils, Store!StoreNext, Store!Damage
    <2> QED
      BY <2>2, <2>3, <2>4, <2>5, StepAInv
  <1>3. AInv /\ [Next]_vars => AInv'
    BY StepAInv
  <1> QED
    BY <1>1, <1>2, <1>3, InitAInv, PTL DEF Spec, FlushIsAtomic, Store!StoreSpec

-----------------------------------------------------------------------------
(***************************************************************************)
(* Once in the files an update stays there.  A newer version of a block    *)
(* has every update of the older ones (Grown), so writing the snapshot     *)
(* over the file loses none.                                               *)
(***************************************************************************)
Within(x, y) == x.ups \subseteq y.ups

Grown ==
  \A m \in Metrics, b \in Blocks : Up /\ ~lossy[m] =>
    /\ Within(disk[m][b], Latest(m, b))
    /\ InWindow(m, b) =>
         Within(disk[m][b], buffer.data[b]) /\ Within(buffer.data[b], Latest(m, b))

JournalGrown ==
  journal.exists /\ JournalDone /\ ~lossy[journal.owner] =>
    \A b \in journal.blocks : Within(disk[journal.owner][b], journal.piece[b])

DInv == AInv /\ Grown /\ JournalGrown

(* Steps that make no version newer or older and write no file.              *)
LEMMA GrownKept ==
  ASSUME Grown, Up' => Up, disk' = disk,
         \A m \in Metrics, b \in Blocks : ~lossy'[m] =>
           /\ ~lossy[m] /\ Latest(m, b)' = Latest(m, b)
           /\ InWindow(m, b)' => InWindow(m, b) /\ buffer' = buffer
  PROVE  Grown'
  <1> SUFFICES ASSUME NEW m \in Metrics, NEW b \in Blocks, Up', ~lossy'[m]
               PROVE  /\ Within(disk'[m][b], Latest(m, b)')
                      /\ InWindow(m, b)' =>
                           /\ Within(disk'[m][b], buffer'.data[b])
                           /\ Within(buffer'.data[b], Latest(m, b)')
    BY DEF Grown
  <1> QED
    BY DEF Grown

(* An update is made of the newest version, or its metric is lossy.          *)
LEMMA ModifyGrown ==
  ASSUME KInv, Grown, NEW m \in Metrics, NEW B \in SUBSET Blocks, NEW moved \in SUBSET Blocks,
         Modify(m, B, moved), mode = "running", UNCHANGED <<mode, files, flusher>>
  PROVE  Grown'
  <1>0. TypeOK /\ Contents /\ Up
    BY DEF KInv, IInv, Up
  <1>1. /\ \A n \in Metrics, b \in Blocks : n # m \/ b \notin B => held'[n][b] = held[n][b]
        /\ \A b \in B : held'[m][b] = Updated(m, b, moved)
    <2> DEFINE newHeld == [b \in Blocks |-> IF b \in B THEN Updated(m, b, moved) ELSE held[m][b]]
    <2>1. held' = [held EXCEPT ![m] = newHeld]
      BY Zenon DEF Modify
    <2>2. held'[m] = newHeld /\ \A n \in Metrics \ {m} : held'[n] = held[n]
      BY <1>0, <2>1 DEF TypeOK
    <2>3. \A b \in B : held'[m][b] = Updated(m, b, moved)
      BY <2>2
    <2>4. \A n \in Metrics, b \in Blocks : n # m \/ b \notin B => held'[n][b] = held[n][b]
      BY <2>2
    <2> QED
      BY <2>3, <2>4
  <1>2. /\ \A n \in Metrics : lossy[n] => lossy'[n]
        /\ ~lossy'[m] => \A b \in B : ~(FromDisk(m, b) /\ InWindow(m, b))
    <2>1. lossy' = [lossy EXCEPT ![m] = lossy[m] \/ ReadsTooEarly(m, B)]
      BY Zenon DEF Modify
    <2>2. lossy'[m] = (lossy[m] \/ ReadsTooEarly(m, B)) /\ \A n \in Metrics \ {m} : lossy'[n] = lossy[n]
      BY <1>0, <2>1, Zenon DEF TypeOK
    <2> QED
      BY <2>2, Zenon DEF ReadsTooEarly
  <1>3. \A n \in Metrics, b \in Blocks : InWindow(n, b)' = InWindow(n, b)
    BY DEF InWindow
  <1>4. ASSUME NEW n \in Metrics, NEW b \in Blocks, ~lossy'[n]
        PROVE  Within(Latest(n, b), Latest(n, b)')
    <2>1. CASE n # m \/ b \notin B
      BY <1>1, <2>1 DEF Latest, InWindow, Within
    <2>2. CASE n = m /\ b \in B
      <3>1. Latest(m, b)' = Updated(m, b, moved)
        BY <1>0, <1>1, <2>2, ContentFacts, DataFacts DEF Latest
      <3>2. Content(m, b) = Latest(m, b)
        BY <1>0, <1>2, <1>4, <2>2, ContentIsLatest
      <3> QED
        BY <2>2, <3>1, <3>2 DEF Updated, Within
    <2> QED
      BY <2>1, <2>2
  <1> SUFFICES ASSUME NEW n \in Metrics, NEW b \in Blocks, ~lossy'[n]
               PROVE  /\ Within(disk[n][b], Latest(n, b)')
                      /\ InWindow(n, b) =>
                           /\ Within(disk[n][b], buffer.data[b])
                           /\ Within(buffer.data[b], Latest(n, b)')
    BY <1>3 DEF Grown
  <1>5. /\ Within(disk[n][b], Latest(n, b))
        /\ InWindow(n, b) =>
             Within(disk[n][b], buffer.data[b]) /\ Within(buffer.data[b], Latest(n, b))
    BY <1>0, <1>2 DEF Grown
  <1> QED
    BY <1>4, <1>5 DEF Within

LEMMA WorkGrown ==
  ASSUME KInv, Grown, Work
  PROVE  Grown'
  <1>1. PICK m \in Metrics :
          \/ \E lo, hi \in Blocks : \E moved \in SUBSET (lo .. hi) :
               lo <= hi /\ Update(m, lo, hi, moved)
          \/ \E lo, bad \in Blocks : \E moved \in SUBSET (lo .. bad - 1) :
               lo <= bad /\ UpdateFails(m, lo, bad, moved)
          \/ \E b \in Blocks : Load(m, b) \/ Purge(m, b)
          \/ LoadFails(m) \/ CloseStream(m)
    BY DEF Work
  <1>2. ASSUME NEW lo \in Blocks, NEW hi \in Blocks, NEW moved \in SUBSET (lo .. hi),
               Update(m, lo, hi, moved)
        PROVE  Grown'
    <2>1. lo .. hi \in SUBSET Blocks /\ moved \in SUBSET Blocks
      BY ConstantsAssumption DEF Blocks
    <2>2. Modify(m, lo .. hi, moved) /\ mode = "running" /\ UNCHANGED <<mode, files, flusher>>
      BY <1>2 DEF Update
    <2> QED
      BY <2>1, <2>2, ModifyGrown
  <1>3. ASSUME NEW lo \in Blocks, NEW bad \in Blocks, NEW moved \in SUBSET (lo .. bad - 1),
               UpdateFails(m, lo, bad, moved)
        PROVE  Grown'
    <2>1. lo .. bad - 1 \in SUBSET Blocks /\ moved \in SUBSET Blocks
      BY ConstantsAssumption DEF Blocks
    <2>2. Modify(m, lo .. bad - 1, moved) /\ mode = "running" /\ UNCHANGED <<mode, files, flusher>>
      BY <1>3 DEF UpdateFails
    <2> QED
      BY <2>1, <2>2, ModifyGrown
  <1>4. CASE (\E b \in Blocks : Load(m, b) \/ Purge(m, b)) \/ LoadFails(m) \/ CloseStream(m)
    <2>1. UNCHANGED <<mode, held, files, flusher>>
      BY <1>4 DEF Load, Purge, LoadFails, CloseStream
    <2>2. \A n \in Metrics : ~lossy'[n] => ~lossy[n]
      <3>1. [Next]_vars
        BY DEF Next
      <3> QED
        BY <3>1, LossyBefore DEF KInv, IInv
    <2>3. \A n \in Metrics, b \in Blocks :
            Latest(n, b)' = Latest(n, b) /\ InWindow(n, b)' = InWindow(n, b)
      BY <2>1 DEF Latest, InWindow
    <2> QED
      BY <2>1, <2>2, <2>3, GrownKept DEF Up
  <1> QED
    BY <1>1, <1>2, <1>3, <1>4

(* What is modified has been made of the file's version.                     *)
LEMMA SaveGrown ==
  ASSUME KInv, Grown, NEW m \in Metrics, SaveDirtyBlocks(m)
  PROVE  Grown'
  <1>1. /\ held' = [held EXCEPT ![m] = NoBlocks] /\ pc = "next" /\ pc' = "open"
        /\ buffer'.owner = m /\ buffer'.data = held[m]
        /\ UNCHANGED <<mode, disk, lossy>>
    BY DEF SaveDirtyBlocks
  <1>2. TypeOK /\ Up
    BY <1>1 DEF KInv, IInv, OwnerKnown
  <1>3. /\ \A b \in Blocks : held'[m][b] = Absent
        /\ \A n \in Metrics \ {m} : held'[n] = held[n]
    BY <1>1, <1>2 DEF TypeOK, NoBlocks
  <1>4. ASSUME NEW n \in Metrics, NEW b \in Blocks
        PROVE  /\ Latest(n, b)' = Latest(n, b)
               /\ InWindow(n, b)' => n = m /\ buffer'.data[b] = Latest(n, b)
    BY <1>1, <1>3 DEF Latest, InWindow
  <1> SUFFICES ASSUME NEW n \in Metrics, NEW b \in Blocks, ~lossy[n]
               PROVE  /\ Within(disk[n][b], Latest(n, b)')
                      /\ InWindow(n, b)' =>
                           /\ Within(disk[n][b], buffer'.data[b])
                           /\ Within(buffer'.data[b], Latest(n, b)')
    BY <1>1 DEF Grown
  <1>5. Within(disk[n][b], Latest(n, b))
    BY <1>2 DEF Grown
  <1> QED
    BY <1>4, <1>5 DEF Within

LEMMA ApplyPieceGrown ==
  ASSUME KInv, Grown, NEW b \in Blocks, ApplyPiece(b)
  PROVE  Grown'
  <1> DEFINE o == buffer.owner
  <1>1. /\ b \in left /\ left' = left \ {b} /\ pc = "apply"
        /\ disk' = [disk EXCEPT ![o] = [disk[o] EXCEPT ![b] = buffer.data[b]]]
        /\ UNCHANGED <<mode, memory, journal, stream, pc, todo, buffer, bounds, history>>
    BY Zenon DEF ApplyPiece, First
  <1>2. TypeOK /\ Up /\ o \in Metrics
    BY <1>1 DEF KInv, IInv, OwnerKnown
  <1>3. \A n \in Metrics, c \in Blocks :
          disk'[n][c] = IF n = o /\ c = b THEN buffer.data[b] ELSE disk[n][c]
    BY <1>1, <1>2 DEF TypeOK
  <1>4. ASSUME NEW n \in Metrics, NEW c \in Blocks
        PROVE  /\ Latest(n, c)' = Latest(n, c)
               /\ InWindow(n, c)' => InWindow(n, c) /\ ~(n = o /\ c = b)
               /\ n = o /\ c = b => InWindow(n, c)
    BY <1>1, <1>3 DEF Latest, InWindow
  <1> SUFFICES ASSUME NEW n \in Metrics, NEW c \in Blocks, ~lossy[n]
               PROVE  /\ Within(disk'[n][c], Latest(n, c)')
                      /\ InWindow(n, c)' =>
                           /\ Within(disk'[n][c], buffer.data[c])
                           /\ Within(buffer.data[c], Latest(n, c)')
    BY <1>1 DEF Grown
  <1>5. /\ Within(disk[n][c], Latest(n, c))
        /\ InWindow(n, c) =>
             Within(disk[n][c], buffer.data[c]) /\ Within(buffer.data[c], Latest(n, c))
    BY <1>2 DEF Grown
  <1> QED
    BY <1>3, <1>4, <1>5

LEMMA FlushGrown ==
  ASSUME KInv, Grown, Flush
  PROVE  Grown'
  <1>0. TypeOK /\ \A m \in Metrics : ~lossy'[m] => ~lossy[m]
    <2>1. [Next]_vars
      BY DEF Next
    <2> QED
      BY <2>1, LossyBefore DEF KInv, IInv
  <1>1. CASE FlushBegin \/ FlushEnd \/ \E m \in Metrics : SaveDirtyBlocksFails(m)
    <2>1. /\ UNCHANGED <<held, disk>> /\ pc \in {"idle", "next"} /\ pc' \in {"idle", "next"}
      BY <1>1 DEF FlushBegin, FlushEnd, SaveDirtyBlocksFails
    <2>2. Up
      BY <1>1, <2>1 DEF KInv, IInv, OwnerKnown, FlushBegin, FlushEnd, SaveDirtyBlocksFails
    <2>3. \A m \in Metrics, b \in Blocks : Latest(m, b)' = Latest(m, b) /\ ~InWindow(m, b)'
      BY <2>1 DEF Latest, InWindow
    <2> QED
      BY <1>0, <2>1, <2>2, <2>3, GrownKept
  <1>2. CASE JournalHeader \/ (\E b \in Blocks : JournalPiece(b)) \/ ApplyBegin
    <2>1. /\ UNCHANGED <<mode, memory, disk, todo, buffer, history>> /\ pc \in {"open", "journal"}
          /\ pc' \in {"journal", "apply"}
          /\ pc' = "apply" => left' = BlocksOf(buffer.data)
      BY <1>2 DEF JournalHeader, JournalPiece, ApplyBegin
    <2>2. \A m \in Metrics, b \in Blocks :
            Latest(m, b)' = Latest(m, b) /\ InWindow(m, b)' = InWindow(m, b)
      BY <2>1 DEF Latest, InWindow, BlocksOf
    <2> QED
      BY <1>0, <2>1, <2>2, GrownKept DEF Up
  <1>3. CASE ApplyEnd \/ JournalError \/ ApplyError
    <2>1. /\ pc \in {"open", "journal", "apply"} /\ pc' = "next"
          /\ UNCHANGED <<mode, memory, disk>>
          /\ \/ pc = "apply" /\ left = {}
             \/ lossy' = [lossy EXCEPT ![buffer.owner] = TRUE]
      BY <1>3 DEF ApplyEnd, JournalError, ApplyError, NextMetric, Lose
    <2>2. ASSUME NEW m \in Metrics, NEW b \in Blocks, ~lossy'[m]
          PROVE  Latest(m, b)' = Latest(m, b) /\ ~InWindow(m, b)'
      <3>1. ~InWindow(m, b)
        BY <1>0, <2>1, <2>2 DEF InWindow, TypeOK
      <3> QED
        BY <2>1, <3>1 DEF Latest, InWindow
    <2> QED
      BY <1>0, <2>1, <2>2, GrownKept DEF Up
  <1> QED
    BY <1>1, <1>2, <1>3, SaveGrown, ApplyPieceGrown DEF Flush, FlushStep

LEMMA ProcessGrown ==
  ASSUME KInv, Grown, Process
  PROVE  Grown'
  <1>1. CASE Stop
    <2>1. mode = "running" /\ pc = "idle" /\ UNCHANGED <<held, disk, pc, lossy>>
      BY <1>1 DEF Stop
    <2>2. \A m \in Metrics, b \in Blocks : Latest(m, b)' = Latest(m, b) /\ ~InWindow(m, b)'
      BY <2>1 DEF Latest, InWindow
    <2> QED
      BY <2>1, <2>2, GrownKept DEF Up
  <1>2. CASE Crash \/ StartRecovery \/ StartFails \/ \E b \in Blocks : RecoverPiece(b)
    <2>1. mode' \notin {"running", "stopping"}
      BY <1>2 DEF Crash, StartRecovery, StartFails, RecoverPiece
    <2> QED
      BY <2>1 DEF Grown, Up
  <1>3. CASE Start \/ RecoverEnd
    <2>1. pc' = "idle" /\ held' = NoBlocksAnywhere
      <3>1. mode \in {"stopped", "crashed", "recovering"} /\ pc' = pc
        BY <1>3 DEF Start, RecoverEnd
      <3>2. pc = "idle"
        BY <3>1 DEF KInv, IInv, OwnerKnown, Up
      <3> QED
        BY <1>3, <3>1, <3>2 DEF Start, RecoverEnd, KInv, Contents, Down
    <2>2. \A m \in Metrics, b \in Blocks : (Latest(m, b))' = disk'[m][b] /\ ~InWindow(m, b)'
      BY <2>1 DEF Latest, InWindow, NoBlocksAnywhere, NoBlocks
    <2> QED
      BY <2>2 DEF Grown, Within
  <1> QED
    BY <1>1, <1>2, <1>3 DEF Process

(* The journal is filled from the buffer and leaves with the file's blocks   *)
(* equal to its own.                                                         *)
LEMMA StepJournalGrown ==
  ASSUME DInv, AInv', [Next]_vars
  PROVE  JournalGrown'
  <1>0. TypeOK /\ \A m \in Metrics : ~lossy'[m] => ~lossy[m]
    BY LossyBefore DEF DInv, AInv, KInv, IInv
  <1>1. journal.exists => journal.owner \in Metrics
    BY DEF DInv, AInv, KInv, IInv, OwnerKnown
  <1>2. CASE UNCHANGED <<disk, journal>>
    BY <1>0, <1>1, <1>2 DEF DInv, JournalGrown, JournalDone, JournalWhole
  <1>3. CASE JournalHeader
    <2>1. journal'.through => journal'.blocks = {}
      BY <1>3 DEF JournalHeader
    <2> QED
      BY <2>1 DEF JournalGrown, JournalDone
  <1>4. ASSUME NEW b \in Blocks, JournalPiece(b) PROVE JournalGrown'
    <2> DEFINE o == buffer.owner
    <2>1. /\ pc = "journal" /\ pc' = "journal" /\ buffer' = buffer /\ left' = left \ {b}
          /\ UNCHANGED <<disk, lossy>>
      BY <1>4 DEF JournalPiece
    <2>2. Up /\ JournalGrows' /\ WrittenThrough' /\ journal'.blocks \in SUBSET Blocks /\ o \in Metrics
      BY <2>1 DEF DInv, AInv, KInv, IInv, OwnerKnown, Stages2, TypeOK
    <2> SUFFICES ASSUME JournalDone', ~lossy[o], NEW c \in journal'.blocks
                 PROVE  Within(disk[o][c], journal'.piece[c])
      BY <2>1, <2>2 DEF JournalGrown, JournalGrows
    <2>3. journal'.blocks = BlocksOf(buffer.data) /\ left' = {}
      BY <2>1, <2>2 DEF JournalGrows, WrittenThrough, JournalDone
    <2>4. journal'.piece[c] = buffer.data[c] /\ c \in Blocks /\ InWindow(o, c)
      BY <2>1, <2>2, <2>3 DEF JournalGrows, InWindow, BlocksOf
    <2> QED
      BY <2>2, <2>4 DEF DInv, Grown
  <1>5. ASSUME NEW b \in Blocks, ApplyPiece(b) \/ RecoverPiece(b) PROVE JournalGrown'
    <2> DEFINE o == buffer.owner
    <2>1. /\ disk' = [disk EXCEPT ![o] = [disk[o] EXCEPT ![b] = buffer.data[b]]]
          /\ UNCHANGED <<journal, lossy>> /\ b \in left
          /\ pc = "apply" \/ mode = "recovering"
      BY <1>5, Zenon DEF ApplyPiece, RecoverPiece, First
    <2>2. o \in Metrics /\ journal.owner = o /\ b \in journal.blocks /\ journal.piece[b] = buffer.data[b]
      BY <2>1 DEF DInv, AInv, KInv, IInv, OwnerKnown, WriteAhead, LeftIsBuffered
    <2>3. \A c \in Blocks : disk'[o][c] = IF c = b THEN journal.piece[b] ELSE disk[o][c]
      BY <1>0, <2>1, <2>2 DEF TypeOK
    <2>4. journal.blocks \in SUBSET Blocks
      BY <1>0 DEF TypeOK
    <2> QED
      BY <2>1, <2>2, <2>3, <2>4 DEF DInv, JournalGrown, JournalDone, JournalWhole, Within
  <1>6. CASE FlushEnd
    BY <1>6 DEF FlushEnd, NoJournal, JournalGrown
  <1>7. CASE \/ Work \/ FlushBegin \/ (\E m \in Metrics : SaveDirtyBlocksFails(m))
             \/ Stop \/ Crash \/ StartFails \/ UNCHANGED vars
    BY <1>2, <1>7, OtherSteps DEF DInv
  <1>8. CASE \/ (\E m \in Metrics : SaveDirtyBlocks(m)) \/ JournalError \/ ApplyBegin
             \/ ApplyEnd \/ ApplyError \/ Start \/ StartRecovery \/ RecoverEnd
    <2>1. UNCHANGED <<disk, journal>>
      BY <1>8 DEF SaveDirtyBlocks, JournalError, ApplyBegin, ApplyEnd, ApplyError, Start,
                  StartRecovery, RecoverEnd
    <2> QED
      BY <1>2, <2>1
  <1> QED
    BY <1>3, <1>4, <1>5, <1>6, <1>7, <1>8 DEF Next, Flush, FlushStep, Process

LEMMA InitDInv == Init => DInv
  <1> SUFFICES ASSUME Init PROVE DInv
    OBVIOUS
  <1>1. Grown
    BY DEF Init, Grown, Latest, InWindow, NoBlocksAnywhere, NoBlocks, Within
  <1>2. JournalGrown
    BY DEF Init, JournalGrown, NoJournal
  <1> QED
    BY <1>1, <1>2, InitAInv DEF DInv

LEMMA StepDInv ==
  ASSUME DInv, [Next]_vars
  PROVE  DInv'
  <1>1. AInv' /\ KInv /\ Grown
    BY StepAInv DEF DInv, AInv
  <1>2. Grown'
    <2>1. CASE UNCHANGED vars
      BY <1>1, <2>1 DEF vars, Grown, Latest, InWindow, Up
    <2> QED
      BY <1>1, <2>1, WorkGrown, FlushGrown, ProcessGrown DEF Next
  <1> QED
    BY <1>1, <1>2, StepJournalGrown DEF DInv

(* Once an update is in the files, by what a start would make of them, no    *)
(* crash, restart or later flush takes it out again, unless the metric is    *)
(* spoilt or lossy (README.md: "never lose your data").                      *)
THEOREM DurableKept == Spec => DurableStaysDurable
  <1>1. DInv /\ [Next]_vars =>
          [\A m \in Metrics \ spoilt : ~lossy[m] =>
             \A b \in Blocks : Stored[m][b].ups \subseteq Stored'[m][b].ups]_vars
    <2> SUFFICES ASSUME DInv, [Next]_vars, NEW m \in Metrics \ spoilt, ~lossy[m],
                        NEW b \in Blocks
                 PROVE  Within(StoredOf(m)[b], (StoredOf(m)')[b])
      <3>1. \A n \in Metrics : Stored[n] = StoredOf(n) /\ Stored'[n] = StoredOf(n)'
        BY StoredFacts DEF Stored, StoredOf
      <3> QED
        BY <3>1 DEF Within
    <2>1. CASE StoreKept
      BY <2>1 DEF StoreKept, Spared, Within
    <2>2. ASSUME NEW o \in Metrics, Committed(o)
          PROVE  Within(StoredOf(m)[b], (StoredOf(m)')[b])
      <3>1. CASE m = o
        <4>1. HasSnap(o) /\ JournalDone /\ StoredOf(o) = disk[o]
          BY <2>2, HasSnapIsDone DEF Committed
        <4>2. (StoredOf(o)')[b] = IF snap[o][b] = Absent THEN disk[o][b] ELSE snap[o][b]
          BY <2>2, <4>1 DEF Committed, Store!Overlay
        <4>3. snap[o][b] # Absent => Within(disk[o][b], snap[o][b])
          BY <3>1, <4>1 DEF DInv, JournalGrown, HasSnap, SnapBlocks, BlocksOf
        <4> QED
          BY <3>1, <4>1, <4>2, <4>3 DEF Within
      <3>2. CASE m # o
        BY <2>2, <3>2 DEF Committed, Within
      <3> QED
        BY <3>1, <3>2
    <2>3. CASE \E n \in Metrics : SaveDirtyBlocks(n)
      <3>1. UNCHANGED <<disk, journal>>
        BY <2>3 DEF SaveDirtyBlocks
      <3> QED
        BY <3>1, SameFiles DEF Within
    <2>4. ASSUME NEW o \in Metrics, Spoils(o)
          PROVE  Within(StoredOf(m)[b], (StoredOf(m)')[b])
      BY <2>4, SameFiles DEF Spoils, Within
    <2> QED
      BY <2>1, <2>2, <2>3, <2>4, StepAInv DEF DInv
  <1>2. DInv /\ [Next]_vars => DInv'
    BY StepDInv
  <1> QED
    BY <1>1, <1>2, InitDInv, PTL DEF Spec, DurableStaysDurable
=============================================================================
