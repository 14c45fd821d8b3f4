-------------------------- MODULE MetricBlockFile --------------------------
(***************************************************************************)
(* A metric together with its data file: what write_block leaves on disk   *)
(* and what read_block / read_block_data make of it after the blocks cache *)
(* has purged the block or the server has restarted.  The last block of a  *)
(* metric is stored truncated after the highest slot its position was ever *)
(* seen at by a save (_max_pos), so that the file grows only as needed.    *)
(* Saving is one step here: who may run between its parts is FlushJournal's*)
(* subject.                                                                *)
(***************************************************************************)
EXTENDS MetricBlocks

VARIABLES
  max_pos,    (* max_pos[b]: _header._max_pos.                               *)
  file        (* The metric file: its header's last value, and its blocks.   *)

vars == <<metricVars, max_pos, file>>

LastBlock == Len(Freq)
Larger(m, n) == IF m < n THEN n ELSE m

(* get_disk_data_size: the slots that are written for a given max_pos.       *)
DiskSlots(b, max) == IF b = LastBlock THEN 0 .. max ELSE Slots(b)

(* Mutant of MaxPosAtWrite: write_block forgets to raise _max_pos.           *)
MaxPosAtWriteStale(b) == max_pos[b]
MaxPosAtWrite(b) == Larger(max_pos[b], pos[b])

Image(b) ==
  [pos |-> pos[b], pos_ts |-> pos_ts[b], max_pos |-> MaxPosAtWrite(b),
   tuples |-> [s \in DiskSlots(b, MaxPosAtWrite(b)) |-> tuples[b][s]]]

(* read_block_data: fresh zeroed tuples, overwritten by what the file has.   *)
ReadBlockData(b) ==
  [s \in Slots(b) |-> IF s \in DiskSlots(b, max_pos[b]) THEN file.blocks[b].tuples[s]
                                                        ELSE ZeroTuple(0)]

(* create_metric: the blocks are created and save_file writes all of them.   *)
FileInit ==
  /\ InitEmpty
  /\ modified = [b \in Blocks |-> FALSE]
  /\ max_pos = [b \in Blocks |-> 0]
  /\ file = [last |-> last, blocks |-> [b \in Blocks |-> Image(b)]]

-----------------------------------------------------------------------------
Update ==
  /\ \/ \E ts \in Times, v \in Values : BeginUpdate(ts, v)
     \/ \E b \in Blocks : UpdateBlock(b) \/ FailToLoad(b)
     \/ Finished
  /\ UNCHANGED <<max_pos, file>>

(* save_dirty_blocks with the journal applied: the modified blocks and the   *)
(* header go to the file, and the tuples are no longer held by the blocks.   *)
(* An update that no block took makes the metric dirty for its header alone. *)
Save ==
  /\ ctx = Idle
  /\ last # file.last \/ \E b \in Blocks : modified[b]
  /\ max_pos' = [b \in Blocks |-> IF modified[b] THEN MaxPosAtWrite(b) ELSE max_pos[b]]
  /\ file' = [last |-> last,
              blocks |-> [b \in Blocks |-> IF modified[b] THEN Image(b) ELSE file.blocks[b]]]
  /\ modified' = [b \in Blocks |-> FALSE]
  /\ UNCHANGED <<pos, pos_ts, tuples, ctx, last, accepted, failures>>

(* The cache has purged block b; the next get_tuples reads it again.         *)
Reload(b) ==
  /\ ~modified[b]
  /\ tuples' = [tuples EXCEPT ![b] = ReadBlockData(b)]
  /\ UNCHANGED <<pos, pos_ts, modified, ctx, last, accepted, failures, max_pos, file>>

(* The process dies, in an update or between two, and load_file reads the    *)
(* headers; the data blocks follow when they are first used.                 *)
Restart ==
  /\ pos' = [b \in Blocks |-> file.blocks[b].pos]
  /\ pos_ts' = [b \in Blocks |-> file.blocks[b].pos_ts]
  /\ max_pos' = [b \in Blocks |-> file.blocks[b].max_pos]
  /\ last' = file.last
  /\ tuples' = [b \in Blocks |-> [s \in Slots(b) |->
                  IF s \in DiskSlots(b, file.blocks[b].max_pos)
                  THEN file.blocks[b].tuples[s] ELSE ZeroTuple(0)]]
  /\ modified' = [b \in Blocks |-> FALSE]
  /\ ctx' = Idle
  /\ UNCHANGED <<accepted, failures, file>>

FileNext == Update \/ Save \/ (\E b \in Blocks : Reload(b)) \/ Restart

FileSpec == FileInit /\ [][FileNext]_vars

-----------------------------------------------------------------------------
(***************************************************************************)
(* Whatever a save writes can be loaded again: the sanity checks of        *)
(* read_block on the header and the check of read_block_data that the      *)
(* tuple at _pos starts at _pos_ts hold for every block of the file, in    *)
(* particular for a last block that was cut after _max_pos.                *)
(***************************************************************************)
FileLoads ==
  \A b \in Blocks :
    LET f == file.blocks[b]
    IN  /\ f.pos < Count[b] /\ f.max_pos < Count[b]
        /\ f.max_pos > 0 => f.pos <= f.max_pos
        /\ f.pos \in DOMAIN f.tuples
        /\ f.tuples[f.pos].ts = f.pos_ts

(***************************************************************************)
(* The checks of block->update survive reloads, restarts and updates cut   *)
(* short: the current tuple starts at _pos_ts, every other slot has the    *)
(* time its place calls for or is untouched; and in every block but the    *)
(* last the untouched slots are the oldest.                                *)
(***************************************************************************)
StampsSurviveReload ==
  \A b \in Blocks : \A s \in Slots(b) :
    \/ InPlace(b, s)
    \/ /\ Age(b, s) > 0 /\ tuples[b][s] = ZeroTuple(0)
       /\ b # LastBlock =>
            \A r \in Slots(b) : Age(b, s) <= Age(b, r) => tuples[b][r] = ZeroTuple(0)

(***************************************************************************)
(* A block without modified tuples can be purged from memory at any time:  *)
(* reading the file gives back every data point, except in slots of the    *)
(* last block above _max_pos, which the file does not have.                *)
(***************************************************************************)
SameData(t, u) == t.count > 0 \/ u.count > 0 => t = u
CleanBlocksMatchFile ==
  \A b \in Blocks : ~modified[b] =>
    /\ pos[b] = file.blocks[b].pos
    /\ pos_ts[b] = file.blocks[b].pos_ts
    /\ max_pos[b] = file.blocks[b].max_pos
    /\ \A s \in DiskSlots(b, max_pos[b]) : SameData(tuples[b][s], ReadBlockData(b)[s])

(***************************************************************************)
(* LANGUAGE.md: the policy "instructs stats-rrdb to keep" the data of each *)
(* period, and an update's timestamp "can be in the past".  So purging a   *)
(* saved block from the cache must not change what it holds.               *)
(***************************************************************************)
PurgeLosesNothing ==
  \A b \in Blocks : ~modified[b] =>
    \A s \in Slots(b) : SameData(tuples[b][s], ReadBlockData(b)[s])
=============================================================================
