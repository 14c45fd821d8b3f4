----------------------- MODULE MetricBlockFile_proofs -----------------------
(***************************************************************************)
(* A metric and its file, for every retention policy and every sequence of *)
(* updates, saves, purges and restarts: the file can always be loaded, and *)
(* the blocks keep the stamps that find_tuple relies on.                   *)
(*                                                                         *)
(* The time order of MetricBlocks does not survive: a last block that was  *)
(* cut after _max_pos comes back with holes, zeroed slots between others.  *)
(* What does survive (Placed) holds of the blocks in memory and of what    *)
(* each block's image in the file would be loaded as.                      *)
(***************************************************************************)
EXTENDS MetricBlockFile, MetricBlocks_proofs

(* A buffer's slots are where their position calls for, or empty.            *)
Placed(b, p, ts, buffer) ==
  \A s \in Slots(b) :
    \/ buffer[s].ts = ts - Back(b, p, s) * Freq[b]
    \/ /\ Back(b, p, s) > 0 /\ buffer[s] = ZeroTuple(0)
       /\ b # LastBlock =>
            \A r \in Slots(b) : Back(b, p, s) <= Back(b, p, r) => buffer[r] = ZeroTuple(0)

(* What read_block_data makes of the image f.                                *)
Loaded(b, f) ==
  [s \in Slots(b) |-> IF s \in DiskSlots(b, f.max_pos) THEN f.tuples[s] ELSE ZeroTuple(0)]

ImageOK(b, f) ==
  /\ f.pos \in Slots(b) /\ f.max_pos \in Slots(b) /\ f.pos_ts \in Int
  /\ f.pos <= f.max_pos
  /\ DOMAIN f.tuples = DiskSlots(b, f.max_pos)
  /\ Loaded(b, f) \in [Slots(b) -> Tuple]
  /\ Placed(b, f.pos, f.pos_ts, Loaded(b, f))

FileOK ==
  /\ DOMAIN max_pos = Blocks /\ \A b \in Blocks : max_pos[b] \in Slots(b)
  /\ file.last \in [ts : Int, value : Int]
  /\ \A b \in Blocks : ImageOK(b, file.blocks[b])

StampsOK == \A b \in Blocks : Placed(b, pos[b], pos_ts[b], tuples[b])

FileInv == TypeOK /\ FileOK /\ StampsOK /\ CleanBlocksMatchFile

-----------------------------------------------------------------------------
(* Stamps, in the terms of MetricBlocks.                                     *)

(* A last block with holes.                                                  *)
Gappy(b) ==
  \A s \in Slots(b) : InPlace(b, s) \/ (Age(b, s) > 0 /\ tuples[b][s] = ZeroTuple(0))

(* Placed is time order, but for the holes of the last block.                *)
LEMMA PlacedInMemory ==
  ASSUME TypeOK, NEW b \in Blocks
  PROVE  Placed(b, pos[b], pos_ts[b], tuples[b]) <=> Gappy(b) /\ (b # LastBlock => InOrder(b))
  <1>1. \A s \in Slots(b) : Age(b, s) \in Nat
    BY AgeFacts
  <1>2. ASSUME InOrder(b) PROVE Gappy(b)
    BY <1>1, <1>2 DEF InOrder, Gappy, Untouched
  <1>3. ASSUME b # LastBlock
        PROVE  Placed(b, pos[b], pos_ts[b], tuples[b]) <=> InOrder(b)
    BY <1>1, <1>3 DEF Placed, InOrder, Untouched, InPlace, Age
  <1>4. ASSUME b = LastBlock
        PROVE  Placed(b, pos[b], pos_ts[b], tuples[b]) <=> Gappy(b)
    BY <1>4 DEF Placed, Gappy, InPlace, Age
  <1> QED
    BY <1>2, <1>3, <1>4

(* The same in the state after a step.                                       *)
LEMMA PlacedAfter ==
  ASSUME NEW b \in Blocks, Gappy(b)', b # LastBlock => InOrder(b)'
  PROVE  Placed(b, pos[b], pos_ts[b], tuples[b])'
  BY DEF Placed, Gappy, InOrder, Untouched, InPlace, Age

(* Every case of block->update leaves the holes it finds or stamps them.     *)
LEMMA UpdateBlockGappy ==
  ASSUME TypeOK, NEW b \in Blocks, Gappy(b), UpdateBlock(b)
  PROVE  Gappy(b)'
  <1>0. \A s \in Slots(b) : Age(b, s) \in Nat
    BY AgeFacts
  <1>1. CASE IgnoreTooOld(b)
    BY <1>1 DEF IgnoreTooOld, Gappy, InPlace, Age
  <1>2. CASE CompleteShift(b)
    <2>1. Restarted(b)
      BY <1>2, CompleteShiftSlots
    <2> QED
      BY <2>1 DEF Restarted, Gappy
  <1>3. CASE KeepInCurrent(b)
    <2>1. Grown(b)
      BY <1>3, KeepInCurrentSlots
    <2>2. \A s \in Slots(b) : Age(b, s)' = Age(b, s) /\ (InPlace(b, s) => InPlace(b, s)')
      BY <2>1 DEF Grown, Age, InPlace
    <2>3. \A s \in Slots(b) : Age(b, s) > 0 => tuples'[b][s] = tuples[b][s]
      BY <2>1, AgeFacts DEF Grown
    <2> QED
      BY <2>2, <2>3 DEF Gappy
  <1>4. CASE ShiftForward(b)
    <2>1. PICK n \in 1 .. Count[b] - 1 : Advanced(b, n)
      BY <1>4, ShiftForwardSlots
    <2>2. n \in Nat
      BY SlotNumbers
    <2>3. ASSUME NEW s \in Slots(b), ~ InPlace(b, s)'
          PROVE  Age(b, s)' > 0 /\ tuples'[b][s] = ZeroTuple(0)
      <3>1. /\ ~ InPlace(b, s) /\ tuples'[b][s] = tuples[b][s]
            /\ Age(b, s)' = Age(b, s) + n
        BY <2>1, <2>3 DEF Advanced
      <3> QED
        BY <1>0, <2>2, <3>1 DEF Gappy
    <2> QED
      BY <2>3 DEF Gappy
  <1>5. CASE KeepInPast(b) \/ FallOffTheWalk(b)
    <2>1. PICK n \in 0 .. Count[b] - 1 : Walked(b, n)
      BY <1>5, KeepInPastSlots, FallOffTheWalkSlots
    <2>2. \A s \in Slots(b) : /\ Age(b, s)' = Age(b, s)
                              /\ InPlace(b, s)' \/ tuples'[b][s] = tuples[b][s]
      BY <2>1 DEF Walked, Age
    <2>3. pos_ts'[b] = pos_ts[b]
      BY <2>1 DEF Walked
    <2> QED
      BY <2>2, <2>3 DEF Gappy, InPlace
  <1> QED
    BY <1>1, <1>2, <1>3, <1>4, <1>5 DEF UpdateBlock

(* So a step on block b leaves every block with its stamps.                  *)
LEMMA UpdateBlockStamps ==
  ASSUME TypeOK, StampsOK, NEW b \in Blocks, UpdateBlock(b)
  PROVE  StampsOK'
  <1>1. \A c \in Blocks : Gappy(c) /\ (c # LastBlock => InOrder(c))
    BY PlacedInMemory DEF StampsOK
  <1>2. ASSUME NEW c \in Blocks \ {b}
        PROVE  pos'[c] = pos[c] /\ pos_ts'[c] = pos_ts[c] /\ tuples'[c] = tuples[c]
    BY UpdateBlockOthers
  <1>3. ASSUME NEW c \in Blocks \ {b}
        PROVE  Placed(c, pos[c], pos_ts[c], tuples[c])'
    BY <1>2 DEF StampsOK, Placed
  <1>4. Placed(b, pos[b], pos_ts[b], tuples[b])'
    BY <1>1, UpdateBlockGappy, UpdatedBlockInOrder, PlacedAfter
  <1> QED
    BY <1>3, <1>4 DEF StampsOK

-----------------------------------------------------------------------------
(* The file.                                                                 *)

(* The parts of an image.                                                    *)
LEMMA ImageFacts ==
  ASSUME NEW b
  PROVE  /\ Image(b).pos = pos[b] /\ Image(b).pos_ts = pos_ts[b]
         /\ Image(b).max_pos = MaxPosAtWrite(b)
         /\ Image(b).tuples = [s \in DiskSlots(b, MaxPosAtWrite(b)) |-> tuples[b][s]]
  BY DEF Image

(* What is stored of a block is part of it.                                  *)
LEMMA DiskSlotsFit ==
  ASSUME NEW b \in Blocks, NEW max \in Slots(b)
  PROVE  /\ DiskSlots(b, max) \subseteq Slots(b)
         /\ \A s \in Slots(b) : s <= max => s \in DiskSlots(b, max)
  <1>1. max \in Nat /\ max < Count[b] /\ Count[b] \in Nat /\ \A s \in Slots(b) : s \in Nat
    BY SlotNumbers
  <1> QED
    BY <1>1 DEF DiskSlots, Slots

(* What a save writes of a block can be loaded again.                        *)
LEMMA ImageIsOK ==
  ASSUME TypeOK, NEW b \in Blocks, max_pos[b] \in Slots(b),
         Placed(b, pos[b], pos_ts[b], tuples[b])
  PROVE  ImageOK(b, Image(b)) /\ MaxPosAtWrite(b) \in Slots(b)
  <1> DEFINE f == Image(b)
             max == MaxPosAtWrite(b)
  <1>1. /\ pos[b] \in Slots(b) /\ pos_ts[b] \in Int /\ tuples[b] \in [Slots(b) -> Tuple]
        /\ \A s \in Slots(b) : s \in Nat /\ s < Count[b]
    BY BlockTypes, SlotNumbers
  <1>2. max \in Slots(b) /\ pos[b] <= max
    BY <1>1 DEF MaxPosAtWrite, Larger
  <1>3. /\ f.pos = pos[b] /\ f.pos_ts = pos_ts[b] /\ f.max_pos = max
        /\ f.tuples = [s \in DiskSlots(b, max) |-> tuples[b][s]]
    BY ImageFacts
  <1> HIDE DEF f, max
  <1>4. DiskSlots(b, max) \subseteq Slots(b) /\ pos[b] \in DiskSlots(b, max)
    BY <1>1, <1>2, DiskSlotsFit
  <1>5. \A s \in Slots(b) :
          Loaded(b, f)[s] = IF s \in DiskSlots(b, max) THEN tuples[b][s] ELSE ZeroTuple(0)
    BY <1>3 DEF Loaded
  <1>6. Loaded(b, f) \in [Slots(b) -> Tuple]
    <2>1. \A s \in Slots(b) : Loaded(b, f)[s] \in Tuple
      BY <1>1, <1>5, ZeroTupleFacts
    <2> QED
      BY <2>1 DEF Loaded
  <1>7. ASSUME NEW s \in Slots(b)
        PROVE  \/ Loaded(b, f)[s].ts = pos_ts[b] - Back(b, pos[b], s) * Freq[b]
               \/ /\ Back(b, pos[b], s) > 0 /\ Loaded(b, f)[s] = ZeroTuple(0)
                  /\ b # LastBlock =>
                       \A r \in Slots(b) :
                         Back(b, pos[b], s) <= Back(b, pos[b], r) => Loaded(b, f)[r] = ZeroTuple(0)
    <2>1. CASE b # LastBlock
      <3>1. \A r \in Slots(b) : Loaded(b, f)[r] = tuples[b][r]
        BY <1>5, <2>1 DEF DiskSlots
      <3> QED
        BY <3>1 DEF Placed
    <2>2. CASE b = LastBlock /\ s \in DiskSlots(b, max)
      <3>1. Loaded(b, f)[s] = tuples[b][s]
        BY <1>5, <2>2
      <3> QED
        BY <2>2, <3>1 DEF Placed
    <2>3. CASE b = LastBlock /\ s \notin DiskSlots(b, max)
      <3>1. Loaded(b, f)[s] = ZeroTuple(0) /\ s # pos[b]
        BY <1>4, <1>5, <2>3
      <3>2. Age(b, s) > 0
        BY <3>1, AgeFacts
      <3> QED
        BY <2>3, <3>1, <3>2 DEF Age
    <2> QED
      BY <2>1, <2>2, <2>3
  <1>8. Placed(b, f.pos, f.pos_ts, Loaded(b, f))
    BY <1>3, <1>7 DEF Placed
  <1> QED
    BY <1>1, <1>2, <1>3, <1>6, <1>8 DEF ImageOK, f, max

(* The tuple at the position of an image starts when the image says.         *)
LEMMA ImageLoads ==
  ASSUME NEW b \in Blocks, NEW f, ImageOK(b, f)
  PROVE  /\ f.pos < Count[b] /\ f.max_pos < Count[b] /\ f.pos <= f.max_pos
         /\ f.pos \in DOMAIN f.tuples
         /\ f.tuples[f.pos].ts = f.pos_ts
  <1>1. /\ f.pos \in Slots(b) /\ f.max_pos \in Slots(b) /\ f.pos <= f.max_pos
        /\ DOMAIN f.tuples = DiskSlots(b, f.max_pos) /\ f.pos_ts \in Int
        /\ Placed(b, f.pos, f.pos_ts, Loaded(b, f))
    BY DEF ImageOK
  <1>2. f.pos \in Nat /\ f.pos < Count[b] /\ f.max_pos \in Nat /\ f.max_pos < Count[b]
    BY <1>1, SlotNumbers
  <1>3. f.pos \in DiskSlots(b, f.max_pos)
    BY <1>1, DiskSlotsFit
  <1>4. Loaded(b, f)[f.pos] = f.tuples[f.pos]
    BY <1>1, <1>3 DEF Loaded
  <1>5. Back(b, f.pos, f.pos) = 0 /\ 0 * Freq[b] = 0
    BY <1>2, SlotNumbers DEF Back
  <1>6. Loaded(b, f)[f.pos].ts = f.pos_ts
    BY <1>1, <1>5 DEF Placed
  <1> QED
    BY <1>1, <1>2, <1>3, <1>4, <1>6

(* Init: create_metric writes all blocks.                                    *)
LEMMA InitFileInv == FileInit => FileInv
  <1> SUFFICES ASSUME FileInit PROVE FileInv
    OBVIOUS
  <1>1. TypeOK
    BY EmptyTypeOK DEF FileInit
  <1>2. StampsOK
    <2> SUFFICES ASSUME NEW b \in Blocks, NEW s \in Slots(b)
                 PROVE  \/ tuples[b][s].ts = pos_ts[b] - Back(b, pos[b], s) * Freq[b]
                        \/ /\ Back(b, pos[b], s) > 0
                           /\ \A r \in Slots(b) : tuples[b][r] = ZeroTuple(0)
      BY DEF StampsOK, Placed
    <2>1. /\ pos[b] = 0 /\ pos_ts[b] = 0 /\ \A r \in Slots(b) : tuples[b][r] = ZeroTuple(0)
      BY DEF FileInit, InitEmpty
    <2>2. Age(b, s) \in Nat /\ 0 * Freq[b] = 0 /\ ZeroTuple(0).ts = 0
      BY <1>1, AgeFacts, SlotNumbers, ZeroTupleFacts
    <2> QED
      BY <2>1, <2>2 DEF Age
  <1>3. DOMAIN max_pos = Blocks /\ \A b \in Blocks : max_pos[b] \in Slots(b) /\ max_pos[b] = 0
    BY PolicyFacts DEF FileInit
  <1>4. \A b \in Blocks : file.blocks[b] = Image(b)
    BY DEF FileInit
  <1>5. FileOK
    <2>1. \A b \in Blocks : ImageOK(b, file.blocks[b])
      BY <1>1, <1>2, <1>3, <1>4, ImageIsOK DEF StampsOK
    <2>2. file.last \in [ts : Int, value : Int]
      BY DEF FileInit, InitEmpty
    <2> QED
      BY <1>3, <2>1, <2>2 DEF FileOK
  <1>6. CleanBlocksMatchFile
    <2> SUFFICES ASSUME NEW b \in Blocks
                 PROVE  /\ pos[b] = file.blocks[b].pos /\ pos_ts[b] = file.blocks[b].pos_ts
                        /\ max_pos[b] = file.blocks[b].max_pos
                        /\ \A s \in DiskSlots(b, max_pos[b]) : tuples[b][s] = ReadBlockData(b)[s]
      BY DEF CleanBlocksMatchFile, SameData
    <2>1. /\ file.blocks[b].pos = pos[b] /\ file.blocks[b].pos_ts = pos_ts[b]
          /\ file.blocks[b].max_pos = MaxPosAtWrite(b)
          /\ file.blocks[b].tuples = [s \in DiskSlots(b, MaxPosAtWrite(b)) |-> tuples[b][s]]
      BY <1>4, ImageFacts
    <2>2. MaxPosAtWrite(b) = max_pos[b]
      BY <1>3 DEF MaxPosAtWrite, Larger, FileInit, InitEmpty
    <2>3. DiskSlots(b, max_pos[b]) \subseteq Slots(b)
      <3>1. max_pos[b] \in Slots(b)
        BY <1>3
      <3> QED
        BY <3>1, DiskSlotsFit
    <2> QED
      BY <2>1, <2>2, <2>3 DEF ReadBlockData
  <1> QED
    BY <1>1, <1>2, <1>5, <1>6 DEF FileInv

-----------------------------------------------------------------------------
(* The steps.                                                                *)

(* A walk that found no tuple leaves the block clean: the tuples with data   *)
(* already say what it stamped.                                              *)
LEMMA WalkKeepsClean ==
  ASSUME TypeOK, NEW b \in Blocks, Gappy(b), FallOffTheWalk(b), NEW s \in Slots(b)
  PROVE  SameData(tuples'[b][s], tuples[b][s])
  <1>1. tuples'[b] = WalkedBuffer(b, Count[b] - 1)
    BY DEF FallOffTheWalk, TypeOK
  <1>2. CASE tuples[b][s].count > 0
    <2>1. InPlace(b, s)
      BY <1>2 DEF Gappy, ZeroTuple
    <2>2. tuples[b][s] \in Tuple
      BY BlockTypes
    <2>3. [tuples[b][s] EXCEPT !.ts = tuples[b][s].ts] = tuples[b][s]
      BY <2>2 DEF Tuple
    <2>4. tuples'[b][s] = tuples[b][s]
      BY <1>1, <2>1, <2>3 DEF WalkedBuffer, InPlace
    <2> QED
      BY <2>4 DEF SameData
  <1>3. CASE ~ (tuples[b][s].count > 0)
    <2>1. tuples[b][s] \in Tuple
      BY BlockTypes
    <2>2. \A ts : [tuples[b][s] EXCEPT !.ts = ts].count = tuples[b][s].count
      BY <2>1 DEF Tuple
    <2>3. tuples'[b][s].count = tuples[b][s].count
      BY <1>1, <2>2 DEF WalkedBuffer
    <2> QED
      BY <1>3, <2>3 DEF SameData
  <1> QED
    BY <1>2, <1>3

(* An update leaves the file alone, and marks the blocks it changes.         *)
LEMMA UpdateBlockClean ==
  ASSUME FileInv, NEW b \in Blocks, UpdateBlock(b), UNCHANGED <<max_pos, file>>
  PROVE  CleanBlocksMatchFile'
  <1>1. TypeOK /\ FileOK /\ StampsOK /\ CleanBlocksMatchFile
    BY DEF FileInv
  <1>2. \A c \in Blocks : ReadBlockData(c)' = ReadBlockData(c)
    BY DEF ReadBlockData
  <1>3. ASSUME NEW c \in Blocks, ~ modified'[c]
        PROVE  /\ ~ modified[c] /\ pos'[c] = pos[c] /\ pos_ts'[c] = pos_ts[c]
               /\ \A s \in Slots(c) : tuples'[c][s] = tuples[c][s]
                                        \/ SameData(tuples'[c][s], tuples[c][s])
    <2>1. CASE c # b
      BY <1>1, <1>3, <2>1, UpdateBlockOthers
    <2>2. CASE c = b /\ IgnoreTooOld(b)
      BY <1>3, <2>2 DEF IgnoreTooOld
    <2>3. CASE c = b /\ FallOffTheWalk(b)
      <3>1. Gappy(b)
        BY <1>1, PlacedInMemory DEF StampsOK
      <3> QED
        BY <1>1, <1>3, <2>3, <3>1, WalkKeepsClean DEF FallOffTheWalk
    <2>4. ASSUME c = b,
                 CompleteShift(b) \/ KeepInCurrent(b) \/ ShiftForward(b) \/ KeepInPast(b)
          PROVE  FALSE
      <3>1. modified' = [modified EXCEPT ![b] = TRUE] /\ modified \in [Blocks -> BOOLEAN]
        BY <1>1, <2>4 DEF CompleteShift, KeepInCurrent, ShiftForward, KeepInPast, Keep, TypeOK
      <3> QED
        BY <1>3, <2>4, <3>1
    <2> QED
      BY <2>1, <2>2, <2>3, <2>4 DEF UpdateBlock
  <1>4. ASSUME NEW c \in Blocks, ~ modified'[c], NEW s \in DiskSlots(c, max_pos[c])
        PROVE  SameData(tuples'[c][s], ReadBlockData(c)[s])
    <2>1. s \in Slots(c)
      <3>1. max_pos[c] \in Slots(c)
        BY <1>1 DEF FileOK
      <3> QED
        BY <3>1, DiskSlotsFit
    <2>2. SameData(tuples[c][s], ReadBlockData(c)[s])
      BY <1>1, <1>3, <1>4 DEF CleanBlocksMatchFile
    <2> QED
      BY <1>3, <1>4, <2>1, <2>2 DEF SameData
  <1> QED
    BY <1>1, <1>2, <1>3, <1>4 DEF CleanBlocksMatchFile

(* The rest of an update: its start, its failure, and the end of the model.  *)
LEMMA UpdateFileInv == ASSUME FileInv, Update PROVE FileInv'
  <1>1. TypeOK /\ FileOK /\ StampsOK /\ CleanBlocksMatchFile
    BY DEF FileInv
  <1>2. UNCHANGED <<max_pos, file>>
    BY DEF Update
  <1>3. FileOK'
    BY <1>1, <1>2 DEF FileOK, ImageOK, Loaded, Placed
  <1>4. ASSUME NEW b \in Blocks, UpdateBlock(b) PROVE FileInv'
    <2>1. TypeOK'
      BY <1>1, <1>4, UpdateBlockTypeOK
    <2>2. StampsOK' /\ CleanBlocksMatchFile'
      BY <1>1, <1>2, <1>4, UpdateBlockStamps, UpdateBlockClean
    <2> QED
      BY <1>3, <2>1, <2>2 DEF FileInv
  <1>5. ASSUME UNCHANGED <<pos, pos_ts, tuples, modified>>, TypeOK' PROVE FileInv'
    <2>1. StampsOK'
      BY <1>1, <1>5 DEF StampsOK, Placed
    <2>2. CleanBlocksMatchFile'
      BY <1>1, <1>2, <1>5 DEF CleanBlocksMatchFile, ReadBlockData
    <2> QED
      BY <1>3, <1>5, <2>1, <2>2 DEF FileInv
  <1>6. ASSUME NEW ts \in Times, NEW v \in Values, BeginUpdate(ts, v) PROVE FileInv'
    <2>1. TypeOK'
      BY <1>1, <1>6, BeginUpdateTypeOK
    <2> QED
      BY <1>5, <1>6, <2>1 DEF BeginUpdate
  <1>7. ASSUME NEW b \in Blocks, FailToLoad(b) PROVE FileInv'
    <2>1. ctx' \in [block : 0 .. Len(Freq), in : Tuple]
      BY <1>7, PassOnTypes, ZeroTupleFacts DEF FailToLoad, Stop
    <2>2. failures' \in 0 .. MaxFailures
      BY <1>1, <1>7, InputAssumption DEF FailToLoad, TypeOK
    <2>3. TypeOK'
      BY <1>1, <1>7, <2>1, <2>2 DEF FailToLoad, TypeOK
    <2> QED
      BY <1>5, <1>7, <2>3 DEF FailToLoad
  <1>8. ASSUME Finished PROVE FileInv'
    <2>1. TypeOK'
      BY <1>1, <1>8 DEF Finished, metricVars, TypeOK
    <2> QED
      BY <1>5, <1>8, <2>1 DEF Finished, metricVars
  <1> QED
    BY <1>4, <1>6, <1>7, <1>8 DEF Update

(* Save: every modified block leaves an image that can be loaded, and is the *)
(* same as its image from then on.                                           *)
LEMMA SaveFileInv == ASSUME FileInv, Save PROVE FileInv'
  <1>1. TypeOK /\ FileOK /\ StampsOK /\ CleanBlocksMatchFile
    BY DEF FileInv
  <1>2. /\ UNCHANGED <<pos, pos_ts, tuples, ctx, last, accepted, failures>>
        /\ modified' = [b \in Blocks |-> FALSE]
        /\ max_pos' = [b \in Blocks |-> IF modified[b] THEN MaxPosAtWrite(b) ELSE max_pos[b]]
        /\ file'.last = last
        /\ \A b \in Blocks :
             file'.blocks[b] = IF modified[b] THEN Image(b) ELSE file.blocks[b]
    BY DEF Save
  <1>3. TypeOK'
    BY <1>1, <1>2 DEF TypeOK
  <1>4. StampsOK'
    BY <1>1, <1>2 DEF StampsOK, Placed
  <1>5. \A b \in Blocks : ImageOK(b, Image(b)) /\ MaxPosAtWrite(b) \in Slots(b)
    BY <1>1, ImageIsOK DEF FileOK, StampsOK
  <1>6. FileOK'
    <2>1. \A b \in Blocks : max_pos'[b] \in Slots(b)
      BY <1>1, <1>2, <1>5 DEF FileOK
    <2>2. ASSUME NEW b \in Blocks PROVE ImageOK(b, file.blocks[b])'
      <3>1. PICK f : f = file'.blocks[b]
        OBVIOUS
      <3>2. ImageOK(b, f)
        BY <1>1, <1>2, <1>5, <3>1 DEF FileOK
      <3> QED
        BY <3>1, <3>2 DEF ImageOK, Loaded, Placed
    <2>3. file'.last \in [ts : Int, value : Int]
      BY <1>1, <1>2 DEF TypeOK
    <2> QED
      BY <1>2, <2>1, <2>2, <2>3 DEF FileOK
  <1>7. ASSUME NEW b \in Blocks
        PROVE  /\ pos[b] = file'.blocks[b].pos /\ pos_ts[b] = file'.blocks[b].pos_ts
               /\ max_pos'[b] = file'.blocks[b].max_pos
               /\ \A s \in DiskSlots(b, max_pos'[b]) : SameData(tuples[b][s], ReadBlockData(b)'[s])
    <2>1. CASE ~ modified[b]
      <3>1. file'.blocks[b] = file.blocks[b] /\ max_pos'[b] = max_pos[b]
        BY <1>2, <2>1
      <3>2. ReadBlockData(b)' = ReadBlockData(b)
        BY <3>1 DEF ReadBlockData
      <3> QED
        BY <1>1, <2>1, <3>1, <3>2 DEF CleanBlocksMatchFile
    <2>2. CASE modified[b]
      <3>1. file'.blocks[b] = Image(b) /\ max_pos'[b] = MaxPosAtWrite(b)
        BY <1>2, <2>2
      <3>2. \A s \in DiskSlots(b, MaxPosAtWrite(b)) : ReadBlockData(b)'[s] = tuples[b][s]
        <4>1. ASSUME NEW s \in DiskSlots(b, MaxPosAtWrite(b))
              PROVE  s \in Slots(b) /\ Image(b).tuples[s] = tuples[b][s]
          <5>1. MaxPosAtWrite(b) \in Slots(b)
            BY <1>5
          <5> QED
            BY <5>1, DiskSlotsFit, ImageFacts
        <4> QED
          BY <3>1, <4>1 DEF ReadBlockData
      <3> QED
        BY <3>1, <3>2, ImageFacts DEF SameData
    <2> QED
      BY <2>1, <2>2
  <1>8. CleanBlocksMatchFile'
    BY <1>2, <1>7 DEF CleanBlocksMatchFile
  <1> QED
    BY <1>3, <1>4, <1>6, <1>8 DEF FileInv

(* Reload: a clean block becomes what its image would be loaded as.          *)
LEMMA ReloadFileInv == ASSUME FileInv, NEW b \in Blocks, Reload(b) PROVE FileInv'
  <1>1. TypeOK /\ FileOK /\ StampsOK /\ CleanBlocksMatchFile
    BY DEF FileInv
  <1>2. /\ pos[b] = file.blocks[b].pos /\ pos_ts[b] = file.blocks[b].pos_ts
        /\ max_pos[b] = file.blocks[b].max_pos
    BY <1>1 DEF CleanBlocksMatchFile, Reload
  <1>3. ReadBlockData(b) = Loaded(b, file.blocks[b])
    BY <1>2 DEF ReadBlockData, Loaded
  <1>4. /\ tuples'[b] = ReadBlockData(b)
        /\ \A c \in Blocks \ {b} : tuples'[c] = tuples[c]
        /\ DOMAIN tuples' = Blocks
    BY <1>1 DEF Reload, TypeOK
  <1>5. /\ Loaded(b, file.blocks[b]) \in [Slots(b) -> Tuple]
        /\ Placed(b, pos[b], pos_ts[b], ReadBlockData(b))
    BY <1>1, <1>2, <1>3 DEF FileOK, ImageOK
  <1>6. UNCHANGED <<pos, pos_ts, modified, ctx, last, accepted, failures, max_pos, file>>
    BY DEF Reload
  <1>7. TypeOK'
    <2>1. \A c \in Blocks : tuples'[c] \in [Slots(c) -> Tuple]
      BY <1>1, <1>3, <1>4, <1>5 DEF TypeOK
    <2> QED
      BY <1>1, <1>4, <1>6, <2>1 DEF TypeOK
  <1>8. FileOK'
    BY <1>1, <1>6 DEF FileOK, ImageOK, Loaded, Placed
  <1>9. StampsOK'
    <2>1. Placed(b, pos[b], pos_ts[b], tuples[b])'
      BY <1>4, <1>5, <1>6 DEF Placed
    <2>2. ASSUME NEW c \in Blocks \ {b} PROVE Placed(c, pos[c], pos_ts[c], tuples[c])'
      BY <1>1, <1>4, <1>6 DEF StampsOK, Placed
    <2> QED
      BY <2>1, <2>2 DEF StampsOK
  <1>10. CleanBlocksMatchFile'
    <2>1. \A c \in Blocks : ReadBlockData(c)' = ReadBlockData(c)
      BY <1>6 DEF ReadBlockData
    <2> QED
      BY <1>1, <1>4, <1>6, <2>1 DEF CleanBlocksMatchFile, SameData
  <1> QED
    BY <1>7, <1>8, <1>9, <1>10 DEF FileInv

(* Restart: every block does.                                                *)
LEMMA RestartFileInv == ASSUME FileInv, Restart PROVE FileInv'
  <1>1. TypeOK /\ FileOK
    BY DEF FileInv
  <1>2. /\ UNCHANGED <<accepted, failures, file>>
        /\ modified' = [b \in Blocks |-> FALSE]
        /\ ctx' = Idle /\ last' = file.last
        /\ DOMAIN tuples' = Blocks /\ DOMAIN max_pos' = Blocks
        /\ pos' = [b \in Blocks |-> file.blocks[b].pos]
        /\ pos_ts' = [b \in Blocks |-> file.blocks[b].pos_ts]
        /\ \A b \in Blocks : /\ max_pos'[b] = file.blocks[b].max_pos
                             /\ tuples'[b] = Loaded(b, file.blocks[b])
    BY DEF Restart, Loaded
  <1>3. ASSUME NEW b \in Blocks
        PROVE  LET f == file.blocks[b]
               IN  /\ f.pos \in Slots(b) /\ f.pos \in Nat /\ f.pos_ts \in Int
                   /\ f.max_pos \in Slots(b)
                   /\ Loaded(b, f) \in [Slots(b) -> Tuple]
                   /\ Placed(b, f.pos, f.pos_ts, Loaded(b, f))
    BY <1>1, SlotNumbers DEF FileOK, ImageOK
  <1>4. TypeOK'
    <2>1. pos' \in [Blocks -> Nat] /\ \A b \in Blocks : pos'[b] \in Slots(b)
      BY <1>2, <1>3
    <2>2. pos_ts' \in [Blocks -> Int]
      BY <1>2, <1>3
    <2>3. \A b \in Blocks : tuples'[b] \in [Slots(b) -> Tuple]
      BY <1>2, <1>3
    <2>4. ctx' \in [block : 0 .. Len(Freq), in : Tuple]
      BY <1>2, PolicyFacts, PassOnTypes, ZeroTupleFacts DEF Stop
    <2>5. last' \in [ts : Int, value : Int]
      BY <1>1, <1>2 DEF FileOK
    <2> QED
      BY <1>1, <1>2, <2>1, <2>2, <2>3, <2>4, <2>5 DEF TypeOK
  <1>5. FileOK'
    <2>1. \A b \in Blocks : max_pos'[b] \in Slots(b)
      BY <1>2, <1>3
    <2> QED
      BY <1>1, <1>2, <2>1 DEF FileOK, ImageOK, Loaded, Placed
  <1>6. StampsOK'
    BY <1>2, <1>3 DEF StampsOK, Placed
  <1>7. CleanBlocksMatchFile'
    <2>1. \A b \in Blocks : ReadBlockData(b)' = tuples'[b]
      BY <1>2 DEF ReadBlockData, Loaded
    <2> QED
      BY <1>2, <2>1 DEF CleanBlocksMatchFile, SameData
  <1> QED
    BY <1>4, <1>5, <1>6, <1>7 DEF FileInv

-----------------------------------------------------------------------------
(* Whatever happens to the metric and its file.                              *)
LEMMA FileInvariant == FileSpec => []FileInv
  <1>1. FileInit => FileInv
    BY InitFileInv
  <1>2. FileInv /\ [FileNext]_vars => FileInv'
    <2> SUFFICES ASSUME FileInv, [FileNext]_vars PROVE FileInv'
      OBVIOUS
    <2>1. CASE Update
      BY <2>1, UpdateFileInv
    <2>2. CASE Save
      BY <2>2, SaveFileInv
    <2>3. ASSUME NEW b \in Blocks, Reload(b) PROVE FileInv'
      BY <2>3, ReloadFileInv
    <2>4. CASE Restart
      BY <2>4, RestartFileInv
    <2>5. CASE UNCHANGED vars
      BY <2>5 DEF vars, metricVars, FileInv, TypeOK, FileOK, ImageOK, Loaded, StampsOK, Placed,
                  CleanBlocksMatchFile, ReadBlockData
    <2> QED
      BY <2>1, <2>2, <2>3, <2>4, <2>5 DEF FileNext
  <1> QED
    BY <1>1, <1>2, PTL DEF FileSpec

(* For every policy: what write_block leaves on disk passes the sanity       *)
(* checks of read_block and read_block_data, a truncated last block too.     *)
THEOREM FileAlwaysLoads == FileSpec => []FileLoads
  <1>1. FileInv => FileLoads
    BY ImageLoads DEF FileInv, FileOK, FileLoads
  <1> QED
    BY <1>1, FileInvariant, PTL

(* For every policy: reloads, restarts and updates cut short leave each slot *)
(* with the time its place calls for, or empty (find_tuple's checks).        *)
THEOREM StampsSurvive == FileSpec => []StampsSurviveReload
  <1>1. FileInv => StampsSurviveReload
    <2> SUFFICES ASSUME FileInv PROVE StampsSurviveReload
      OBVIOUS
    <2>1. \A b \in Blocks : Placed(b, pos[b], pos_ts[b], tuples[b])
      BY DEF FileInv, StampsOK
    <2> QED
      BY <2>1 DEF Placed, StampsSurviveReload, InPlace, Age
  <1> QED
    BY <1>1, FileInvariant, PTL

(* For every policy: the blocks cache may purge a block without modified     *)
(* tuples; the file has its data up to _max_pos (free_cache, get_tuples).    *)
THEOREM CleanBlocksAreInFile == FileSpec => []CleanBlocksMatchFile
  <1>1. FileInv => CleanBlocksMatchFile
    BY DEF FileInv
  <1> QED
    BY <1>1, FileInvariant, PTL
=============================================================================
