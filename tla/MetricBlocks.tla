---------------------------- MODULE MetricBlocks ----------------------------
(***************************************************************************)
(* The in-memory side of one metric: a list of blocks, one per element of  *)
(* the retention policy, each a circular buffer of aggregated tuples.      *)
(* rrdb_metric::update hands the value to the first block; each block      *)
(* either keeps it (the value falls into its current tuple) or passes      *)
(* something on to the next one: the tuple it just closed when the value   *)
(* moves the block forward (a rollup), or the value itself when it belongs *)
(* to the past.  The metric's lock is held during the whole cascade; here  *)
(* one step is one call of rrdb_metric_block::update, so that an exception *)
(* between two blocks is visible.                                          *)
(***************************************************************************)
EXTENDS Integers, Sequences, FiniteSets, Functions

CONSTANTS
  Freq,         (* Freq[b]: seconds covered by one tuple of block b.         *)
  Count,        (* Count[b]: tuples of block b (duration / frequency).       *)
  Times,        (* Timestamps clients send.                                  *)
  Values,       (* Values clients send.                                      *)
  MaxUpdates,   (* Bound: updates per behaviour.                             *)
  MaxFailures   (* Bound: exceptions while a block's tuples are loaded.      *)

Blocks == 1 .. Len(Freq)
Duration(b) == Freq[b] * Count[b]
Slots(b) == 0 .. Count[b] - 1

(***************************************************************************)
(* What holds of the blocks of every metric with a file, whatever policy   *)
(* it was created with: StatementExecution shows it (PoliciesUsable).      *)
(***************************************************************************)
ASSUME PolicyAssumption ==
  /\ Len(Freq) \in Nat \ {0} /\ Len(Count) = Len(Freq)
  /\ \A b \in 1 .. Len(Freq) : Freq[b] \in Nat \ {0} /\ Count[b] \in Nat \ {0}
  /\ \A b \in 2 .. Len(Freq) :
        Freq[b] % Freq[b - 1] = 0 /\ Freq[b] <= Freq[b - 1] * Count[b - 1]

(* time_t is signed; updates of times before 1970 are left out.              *)
ASSUME InputAssumption ==
  /\ Times \subseteq Nat
  /\ Values \subseteq Int
  /\ MaxUpdates \in Nat /\ MaxFailures \in Nat

VARIABLES
  pos,        (* pos[b]: slot of block b's newest tuple (_header._pos).      *)
  pos_ts,     (* pos_ts[b]: start of that tuple (_header._pos_ts).           *)
  tuples,     (* tuples[b]: the circular buffer.                             *)
  modified,   (* modified[b]: block b has _modified_tuples to be saved.      *)
  ctx,        (* The update in progress and the block it is at.              *)
  last,       (* Header's _last_value_ts and _last_value.                    *)
  accepted,   (* History: accepted[t, v]: updates of value v at time t.      *)
  failures    (* Exceptions so far.                                          *)

metricVars == <<pos, pos_ts, tuples, modified, ctx, last, accepted, failures>>

-----------------------------------------------------------------------------
(* A tuple aggregates data points; _sum_sqr, kept like _sum, is left out. *)
Tuple == [ts : Int, count : Nat, sum : Int, min : Int, max : Int]
ZeroTuple(ts) == [ts |-> ts, count |-> 0, sum |-> 0, min |-> 0, max |-> 0]
Point(ts, v) == [ts |-> ts, count |-> 1, sum |-> v, min |-> v, max |-> v]

(* Mutant of Merge: an empty tuple's zero minimum and maximum count.         *)
MergeNoEmptyTest(t, in) ==
  [t EXCEPT !.count = @ + in.count, !.sum = @ + in.sum,
            !.min = IF @ > in.min THEN in.min ELSE @,
            !.max = IF @ < in.max THEN in.max ELSE @]

(* rrdb_metric_tuple_update; a single value merges as the tuple of one point. *)
Merge(t, in) ==
  [t EXCEPT !.count = @ + in.count, !.sum = @ + in.sum,
            !.min = IF @ > in.min \/ t.count = 0 THEN in.min ELSE @,
            !.max = IF @ < in.max \/ t.count = 0 THEN in.max ELSE @]

NormalizedTs(ts) == ts - (ts % Freq[1])

(* Mutant of LatestPossibleTs: one tuple early.                              *)
LatestPossibleTsEarly(b) == pos_ts[b] + Duration(b) - Freq[b]
LatestPossibleTs(b) == pos_ts[b] + Duration(b)
EarliestTs(b) == pos_ts[b] - Duration(b) - Freq[b]

(* Mutant of LatestTs: the start of the newest tuple, not its end.           *)
LatestTsStart(b) == pos_ts[b]
LatestTs(b) == pos_ts[b] + Freq[b]

(* Mutant of Forward: wraps around one slot late.                            *)
ForwardPastEnd(b, s, n) == IF s + n <= Count[b] THEN s + n ELSE s + n - Count[b]

(* The slot n places after (get_next_pos) or before (get_prev_pos) slot s,   *)
(* and how far back from the current slot a slot is, for n and s in Slots(b).*)
Forward(b, s, n) == IF s + n < Count[b] THEN s + n ELSE s + n - Count[b]
Back(b, s, n) == IF s >= n THEN s - n ELSE s - n + Count[b]
Age(b, s) == Back(b, pos[b], s)

-----------------------------------------------------------------------------
Idle == [block |-> 0, in |-> ZeroTuple(0)]

InitEmpty ==
  /\ pos = [b \in Blocks |-> 0]
  /\ pos_ts = [b \in Blocks |-> 0]
  /\ tuples = [b \in Blocks |-> [s \in Slots(b) |-> ZeroTuple(0)]]
  /\ ctx = Idle
  /\ last = [ts |-> 0, value |-> 0]
  /\ accepted = [u \in Times \X Values |-> 0]
  /\ failures = 0

(* A new metric: its blocks own their zeroed tuples until the first save.    *)
Init == InitEmpty /\ modified = [b \in Blocks |-> TRUE]

UpdatesSoFar == FoldFunction(+, 0, accepted)

(* rrdb_metric::update up to the loop: the header, then block 1's turn.      *)
BeginUpdate(ts, v) ==
  /\ ctx = Idle
  /\ UpdatesSoFar < MaxUpdates
  /\ last' = IF last.ts <= ts THEN [ts |-> ts, value |-> v] ELSE last
  /\ ctx' = [block |-> 1, in |-> Point(NormalizedTs(ts), v)]
  /\ accepted' = [accepted EXCEPT ![<<ts, v>>] = @ + 1]
  /\ UNCHANGED <<pos, pos_ts, tuples, modified, failures>>

(* The loop's next iteration, with what this block put into `out`.           *)
PassOn(b, out) ==
  ctx' = IF b < Len(Freq) THEN [block |-> b + 1, in |-> out] ELSE Idle

Stop == ctx' = Idle

(* Mutant of Keep: forgets to save a block changed in the past only.         *)
KeepForgetsPast(b, buffer, s) ==
  /\ tuples' = [tuples EXCEPT ![b] = [buffer EXCEPT ![s] = Merge(@, ctx.in)]]
  /\ modified' = [modified EXCEPT ![b] = @ \/ ctx.in.ts >= pos_ts[b]]

(* Block b keeps the incoming data in slot s of its new buffer.              *)
Keep(b, buffer, s) ==
  /\ tuples' = [tuples EXCEPT ![b] = [buffer EXCEPT ![s] = Merge(@, ctx.in)]]
  /\ modified' = [modified EXCEPT ![b] = TRUE]

Current(b) == tuples[b][pos[b]]

(***************************************************************************)
(* rrdb_metric_block::update and find_tuple, one action per case.          *)
(***************************************************************************)

(* The data is past everything the buffer could hold: start over at slot 0.  *)
CompleteShift(b) ==
  /\ ctx.block = b
  /\ LatestPossibleTs(b) <= ctx.in.ts
  /\ Keep(b, [s \in Slots(b) |-> ZeroTuple(IF s = 0 THEN ctx.in.ts ELSE 0)], 0)
  /\ pos' = [pos EXCEPT ![b] = 0]
  /\ pos_ts' = [pos_ts EXCEPT ![b] = ctx.in.ts]
  /\ PassOn(b, Current(b))
  /\ UNCHANGED <<last, accepted, failures>>

(* The current tuple covers the data: the next block hears of it later.      *)
KeepInCurrent(b) ==
  /\ ctx.block = b
  /\ pos_ts[b] <= ctx.in.ts /\ ctx.in.ts < LatestPossibleTs(b)
  /\ ctx.in.ts < Current(b).ts + Freq[b]
  /\ Keep(b, tuples[b], pos[b])
  /\ Stop
  /\ UNCHANGED <<pos, pos_ts, last, accepted, failures>>

(* Mutant of AdvancedBuffer: stamps the slots but keeps their old data.      *)
AdvancedBufferUncleared(b, n) ==
  [s \in Slots(b) |->
     LET ahead == Back(b, s, pos[b])
     IN  IF ahead \in 1 .. n THEN [tuples[b][s] EXCEPT !.ts = pos_ts[b] + ahead * Freq[b]]
                             ELSE tuples[b][s]]

(* The buffer advances n tuples, clearing the slots it passes over, and the  *)
(* tuple that was current is rolled up.                                      *)
AdvancedBuffer(b, n) ==
  [s \in Slots(b) |->
     LET ahead == Back(b, s, pos[b])
     IN  IF ahead \in 1 .. n THEN ZeroTuple(pos_ts[b] + ahead * Freq[b])
                             ELSE tuples[b][s]]

ShiftForward(b) ==
  /\ ctx.block = b
  /\ ctx.in.ts < LatestPossibleTs(b)
  /\ Current(b).ts + Freq[b] <= ctx.in.ts
  /\ \E n \in 1 .. Count[b] - 1 :
       /\ pos_ts[b] + n * Freq[b] <= ctx.in.ts
       /\ ctx.in.ts < pos_ts[b] + (n + 1) * Freq[b]
       /\ Keep(b, AdvancedBuffer(b, n), Forward(b, pos[b], n))
       /\ pos' = [pos EXCEPT ![b] = Forward(b, @, n)]
       /\ pos_ts' = [pos_ts EXCEPT ![b] = @ + n * Freq[b]]
  /\ PassOn(b, Current(b))
  /\ UNCHANGED <<last, accepted, failures>>

(* Mutant of WalkedBuffer: trusts the stamps it finds.                       *)
WalkedBufferUnstamped(b, n) == tuples[b]

(* The walk into the past stamps every slot it visits, n of them.            *)
WalkedBuffer(b, n) ==
  [s \in Slots(b) |->
     IF Age(b, s) \in 1 .. n
     THEN [tuples[b][s] EXCEPT !.ts = pos_ts[b] - Age(b, s) * Freq[b]]
     ELSE tuples[b][s]]

(* The data belongs to an older tuple: update it there and in later blocks.  *)
KeepInPast(b) ==
  /\ ctx.block = b
  /\ ctx.in.ts < pos_ts[b]
  /\ \E n \in 1 .. Count[b] - 1 :
       /\ pos_ts[b] - n * Freq[b] <= ctx.in.ts
       /\ ctx.in.ts < pos_ts[b] - (n - 1) * Freq[b]
       /\ Keep(b, WalkedBuffer(b, n), Back(b, pos[b], n))
  /\ PassOn(b, ctx.in)
  /\ UNCHANGED <<pos, pos_ts, last, accepted, failures>>

(* get_earliest_ts reaches two tuples further back than the buffer does: the *)
(* walk stamps every slot, finds none, and block->update returns early.      *)
FallOffTheWalk(b) ==
  /\ ctx.block = b
  /\ EarliestTs(b) <= ctx.in.ts
  /\ ctx.in.ts < pos_ts[b] - (Count[b] - 1) * Freq[b]
  /\ tuples' = [tuples EXCEPT ![b] = WalkedBuffer(b, Count[b] - 1)]
  /\ PassOn(b, ctx.in)
  /\ UNCHANGED <<pos, pos_ts, modified, last, accepted, failures>>

(* Too old for this block; a later one may take it.                          *)
IgnoreTooOld(b) ==
  /\ ctx.block = b
  /\ ctx.in.ts < EarliestTs(b)
  /\ PassOn(b, ctx.in)
  /\ UNCHANGED <<pos, pos_ts, tuples, modified, last, accepted, failures>>

(* get_tuples throws while it loads the block: the update stops half way.    *)
FailToLoad(b) ==
  /\ ctx.block = b
  /\ ~modified[b]
  /\ failures < MaxFailures
  /\ failures' = failures + 1
  /\ ctx' = Idle
  /\ UNCHANGED <<pos, pos_ts, tuples, modified, last, accepted>>

UpdateBlock(b) ==
  \/ CompleteShift(b) \/ KeepInCurrent(b) \/ ShiftForward(b)
  \/ KeepInPast(b) \/ FallOffTheWalk(b) \/ IgnoreTooOld(b)

(* The bound is reached: nothing is left to do.                              *)
Finished ==
  /\ ctx = Idle
  /\ UpdatesSoFar = MaxUpdates
  /\ UNCHANGED metricVars

Next ==
  \/ \E ts \in Times, v \in Values : BeginUpdate(ts, v)
  \/ \E b \in Blocks : UpdateBlock(b)
  \/ Finished

Spec == Init /\ [][Next]_metricVars

-----------------------------------------------------------------------------
(***************************************************************************)
(* rrdb_metric::select and rrdb_metric_block::select: the slots handed to  *)
(* the walker for [ts1, ts2).  Both loops go from the newest to the oldest *)
(* and stop at the first interval that ends before ts1.                    *)
(***************************************************************************)
Overlaps(from, to, ts1, ts2) == ts1 < to /\ from < ts2

SelectReaches(b, ts1) == \A c \in 1 .. b : ts1 < LatestTs(c)
SlotReached(b, s, ts1) ==
  \A r \in Slots(b) : Age(b, r) <= Age(b, s) => ts1 < tuples[b][r].ts + Freq[b]

Selected(b, ts1, ts2) ==
  IF SelectReaches(b, ts1) /\ Overlaps(EarliestTs(b), LatestTs(b), ts1, ts2)
  THEN {s \in Slots(b) :
          /\ SlotReached(b, s, ts1)
          /\ Overlaps(tuples[b][s].ts, tuples[b][s].ts + Freq[b], ts1, ts2)}
  ELSE {}

-----------------------------------------------------------------------------
(* Every variable has its type; the context names a block or is idle.        *)
TypeOK ==
  /\ pos \in [Blocks -> Nat] /\ \A b \in Blocks : pos[b] \in Slots(b)
  /\ pos_ts \in [Blocks -> Int]
  /\ DOMAIN tuples = Blocks
  /\ \A b \in Blocks : tuples[b] \in [Slots(b) -> Tuple]
  /\ modified \in [Blocks -> BOOLEAN]
  /\ ctx \in [block : 0 .. Len(Freq), in : Tuple]
  /\ last \in [ts : Int, value : Int]
  /\ accepted \in [Times \X Values -> Nat]
  /\ failures \in 0 .. MaxFailures

(***************************************************************************)
(* The buffer is in time order.  Going back from the current slot, each    *)
(* tuple starts exactly one frequency before the one after it, until the   *)
(* slots that were never written, which are all zero.  At age 0 this is    *)
(* CHECK_AND_THROW(get_cur_ts() == tuples[_pos]._ts) of block->update; the *)
(* rest is what lets the walk into the past trust its arithmetic and lets  *)
(* select stop at the first tuple that is too early.                       *)
(***************************************************************************)
InPlace(b, s) == tuples[b][s].ts = pos_ts[b] - Age(b, s) * Freq[b]
RingOrder ==
  \A b \in Blocks : \A s \in Slots(b) :
    \/ InPlace(b, s)
    \/ /\ Age(b, s) > 0
       /\ \A r \in Slots(b) : Age(b, s) <= Age(b, r) => tuples[b][r] = ZeroTuple(0)

(***************************************************************************)
(* From the third block on, what arrives is a tuple of the block before,   *)
(* filed by its start.  A complete shift restarts a block at any multiple  *)
(* of the first frequency, so such a tuple may straddle two tuples here:   *)
(* a point is filed at most Slack(b) seconds too early.                    *)
(***************************************************************************)
Slack(b) == FoldFunctionOnSet(+, 0, [c \in Blocks |-> Freq[c] - Freq[1]], 2 .. b - 1)

(***************************************************************************)
(* The data points block b knows of: those that cannot be in the current   *)
(* tuple of an earlier block, which has not been rolled up yet.            *)
(***************************************************************************)
Pending(b, t) == \E c \in 1 .. b - 1 : pos_ts[c] <= t /\ t < LatestTs(c) + Slack(c)
Between(from, to) ==
  {u \in Times \X Values :
     accepted[u] > 0 /\ from <= NormalizedTs(u[1]) /\ NormalizedTs(u[1]) < to}
Known(b, from, to) == {u \in Between(from, to) : ~Pending(b, NormalizedTs(u[1]))}
Points(U) == FoldFunctionOnSet(+, 0, accepted, U)

(* The points it may know of: those every earlier block may be past.         *)
Passed(b, from, to) ==
  {u \in Between(from, to) : \A c \in 1 .. b - 1 : NormalizedTs(u[1]) < pos_ts[c] + Slack(c)}

(***************************************************************************)
(* Rollups neither lose nor repeat data.  Between updates, every tuple of  *)
(* the first two blocks aggregates exactly the accepted points of its      *)
(* interval: their number, their sum, their extremes.  An empty tuple that *)
(* is rolled up must not leak its zero minimum or maximum.                 *)
(***************************************************************************)
RollupExact ==
  ctx = Idle =>
    \A b \in Blocks \cap {1, 2} : \A s \in Slots(b) :
      LET t == tuples[b][s]
          from == pos_ts[b] - Age(b, s) * Freq[b]
          U == Known(b, from, from + Freq[b])
      IN  /\ t.count = Points(U)
          /\ t.sum = FoldFunctionOnSet(+, 0, [u \in U |-> u[2] * accepted[u]], U)
          /\ t.count > 0 => /\ t.min \in {u[2] : u \in U} /\ t.max \in {u[2] : u \in U}
                            /\ \A u \in U : t.min <= u[2] /\ u[2] <= t.max

(***************************************************************************)
(* In the blocks after them a point is never lost and never repeated, only *)
(* filed up to Slack(b) too early: a tuple has every point that block b    *)
(* knows of and that must be in it, and none that block b has not seen or  *)
(* that cannot be in it.                                                   *)
(***************************************************************************)
RollupBounded ==
  ctx = Idle =>
    \A b \in Blocks : \A s \in Slots(b) :
      LET from == pos_ts[b] - Age(b, s) * Freq[b]
          to == from + Freq[b]
      IN  /\ Points(Known(b, from + Slack(b), to)) <= tuples[b][s].count
          /\ tuples[b][s].count <= Points(Passed(b, from, to + Slack(b)))

(***************************************************************************)
(* Selecting from ts1 on returns every non-empty tuple that ends after ts1 *)
(* and starts no later than the newest data: stopping early never hides    *)
(* one, neither inside a block nor by skipping the blocks after it.        *)
(***************************************************************************)
SelectMissesNothing ==
  ctx = Idle => \A ts1 \in Times : \A b \in Blocks : \A s \in Slots(b) :
    LET t == tuples[b][s]
        ts2 == t.ts + 1
    IN  t.count > 0 /\ ts1 < t.ts + Freq[b] /\ ts1 < ts2 /\ ts1 < LatestTs(1)
          => s \in Selected(b, ts1, ts2)

(***************************************************************************)
(* An update never destroys data a block should still keep: a non-empty    *)
(* tuple disappears only when the buffer has moved a whole duration past   *)
(* it.                                                                     *)
(***************************************************************************)
KeepsRetained ==
  [][\A b \in Blocks : \A s \in Slots(b) :
       tuples[b][s].count > 0 /\ pos_ts'[b] - Duration(b) < tuples[b][s].ts
         => \E r \in Slots(b) : /\ tuples'[b][r].ts = tuples[b][s].ts
                                /\ tuples[b][s].count <= tuples'[b][r].count]_metricVars
=============================================================================
