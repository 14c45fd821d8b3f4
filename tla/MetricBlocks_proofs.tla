------------------------ MODULE MetricBlocks_proofs ------------------------
(***************************************************************************)
(* For every retention policy, every set of timestamps and values: the     *)
(* blocks of a metric keep their types, their buffers keep time order, no  *)
(* retained data disappears, select finds it, rollups are exact, and no    *)
(* instant counts twice in what a SELECT makes of them.                    *)
(* The step from one to the next block is one lemma per case of find_tuple.*)
(*                                                                         *)
(* For the rollups it takes an explanation of the contents: a numbering of *)
(* the updates made so far and, for each, how far it got (reached) and     *)
(* under which start every block on its way filed it (start).  Tracked     *)
(* says that a slot's tuple aggregates the updates filed there, and that   *)
(* an update is still in the newest tuple of the last block it reached;    *)
(* this is kept by every step, which neither RollupExact nor RollupBounded *)
(* is.                                                                     *)
(***************************************************************************)
EXTENDS SelectWalker, FoldFacts, TLAPS

-----------------------------------------------------------------------------
(* Facts about the policy and about tuples.                                  *)

(* A block has a positive frequency and at least one slot.                   *)
LEMMA PolicyFacts ==
  /\ Len(Freq) \in Nat \ {0}
  /\ 1 \in Blocks
  /\ \A b \in Blocks : /\ b \in Nat
                       /\ Freq[b] \in Nat \ {0} /\ Count[b] \in Nat \ {0}
                       /\ 0 \in Slots(b)
  BY PolicyAssumption DEF Blocks, Slots

(* Merging keeps a tuple a tuple, and its start, and loses no point of it.   *)
LEMMA MergeFacts ==
  ASSUME NEW t \in Tuple, NEW in \in Tuple
  PROVE  /\ Merge(t, in) \in Tuple /\ Merge(t, in).ts = t.ts
         /\ t.count <= Merge(t, in).count
  <1>1. /\ t.ts \in Int /\ t.count \in Nat /\ t.sum \in Int /\ t.min \in Int /\ t.max \in Int
        /\ in.count \in Nat /\ in.sum \in Int /\ in.min \in Int /\ in.max \in Int
    BY DEF Tuple
  <1> DEFINE c == t.count + in.count
             d == t.sum + in.sum
             e == IF t.min > in.min \/ t.count = 0 THEN in.min ELSE t.min
             f == IF t.max < in.max \/ t.count = 0 THEN in.max ELSE t.max
             u == [t EXCEPT !.count = c, !.sum = d, !.min = e, !.max = f]
  <1>2. Merge(t, in) = u
    BY Zenon DEF Merge
  <1>3. c \in Nat /\ d \in Int /\ e \in Int /\ f \in Int /\ t.count <= c
    BY <1>1
  <1> HIDE DEF c, d, e, f
  <1>4. u \in Tuple /\ u.ts = t.ts /\ u.count = c
    BY <1>3 DEF Tuple
  <1> QED
    BY <1>2, <1>3, <1>4, Zenon

(* An empty tuple is a tuple.                                                *)
LEMMA ZeroTupleFacts ==
  ASSUME NEW ts \in Int
  PROVE  ZeroTuple(ts) \in Tuple /\ ZeroTuple(ts).ts = ts
  BY DEF ZeroTuple, Tuple

(* The starts and the numbers of points of all tuples are numbers.           *)
LEMMA TupleNumbers ==
  ASSUME TypeOK
  PROVE  /\ ctx.in.ts \in Int /\ ctx.in.count \in Nat
         /\ \A b \in Blocks : \A s \in Slots(b) :
              tuples[b][s].ts \in Int /\ tuples[b][s].count \in Nat
  <1>1. \A t \in Tuple : t.ts \in Int /\ t.count \in Nat
    BY DEF Tuple
  <1>2. ctx.in \in Tuple /\ \A b \in Blocks : \A s \in Slots(b) : tuples[b][s] \in Tuple
    BY DEF TypeOK
  <1> QED
    BY <1>1, <1>2

(* The circle of slots: moving stays on it, and Back measures what Forward   *)
(* and Back have moved.                                                      *)
LEMMA CircleFacts ==
  ASSUME NEW b \in Blocks, NEW s \in Slots(b), NEW r \in Slots(b), NEW n \in Slots(b)
  PROVE  /\ Forward(b, s, n) \in Slots(b)
         /\ Back(b, s, n) \in Slots(b)
         /\ Back(b, s, r) \in Slots(b)
         /\ (Back(b, s, r) = 0) <=> (s = r)
         /\ Back(b, Forward(b, s, n), s) = n
         /\ Back(b, s, Back(b, s, n)) = n
  <1>1. /\ Count[b] \in Nat \ {0}
        /\ s \in Nat /\ s < Count[b]
        /\ r \in Nat /\ r < Count[b]
        /\ n \in Nat /\ n < Count[b]
    BY PolicyFacts DEF Slots
  <1>2. \A i \in Nat : i < Count[b] => i \in Slots(b)
    BY <1>1 DEF Slots
  <1>3. Forward(b, s, n) \in Nat /\ Forward(b, s, n) < Count[b]
    BY <1>1 DEF Forward
  <1>4. /\ Back(b, s, n) \in Nat /\ Back(b, s, n) < Count[b]
        /\ Back(b, s, r) \in Nat /\ Back(b, s, r) < Count[b]
    BY <1>1 DEF Back
  <1>5. (Back(b, s, r) = 0) <=> (s = r)
    BY <1>1 DEF Back
  <1>6. Back(b, Forward(b, s, n), s) = n /\ Back(b, s, Back(b, s, n)) = n
    BY <1>1 DEF Back, Forward
  <1> QED
    BY <1>2, <1>3, <1>4, <1>5, <1>6

(* A slot is a number below the block's count, and so is any n below it.     *)
LEMMA SlotNumbers ==
  ASSUME NEW b \in Blocks
  PROVE  /\ \A s \in Slots(b) : s \in Nat /\ s < Count[b]
         /\ \A n \in 1 .. Count[b] - 1 : n \in Slots(b) /\ n \in Nat /\ 1 <= n /\ n < Count[b]
         /\ Count[b] \in Nat \ {0} /\ Freq[b] \in Nat \ {0}
  <1>1. Count[b] \in Nat \ {0} /\ Freq[b] \in Nat \ {0}
    BY PolicyFacts
  <1> QED
    BY <1>1 DEF Slots

(* What the types say of one block.                                          *)
LEMMA BlockTypes ==
  ASSUME TypeOK, NEW b \in Blocks
  PROVE  /\ pos[b] \in Slots(b) /\ pos_ts[b] \in Int
         /\ tuples[b] \in [Slots(b) -> Tuple] /\ ctx.in \in Tuple
         /\ DOMAIN pos = Blocks /\ DOMAIN pos_ts = Blocks /\ DOMAIN tuples = Blocks
  BY DEF TypeOK

(* Going back some places and measuring the way gives the number of places.  *)
LEMMA BackMeasures ==
  \A b \in Blocks : \A s \in Slots(b), n \in Slots(b) :
    Back(b, s, n) \in Slots(b) /\ Back(b, s, Back(b, s, n)) = n
  <1> TAKE b \in Blocks
  <1> TAKE s \in Slots(b), n \in Slots(b)
  <1> QED
    BY CircleFacts

(* Multiplication by a frequency distributes.                                *)
LEMMA Distributes ==
  \A i, j, f \in Int : /\ i * f \in Int
                       /\ (i + j) * f = i * f + j * f
                       /\ (i - j) * f = i * f - j * f
  OBVIOUS

-----------------------------------------------------------------------------
(* Type correctness.                                                         *)

(* Empty blocks have their types, modified or not.                           *)
LEMMA EmptyTypeOK ==
  ASSUME InitEmpty, modified \in [Blocks -> BOOLEAN]
  PROVE  TypeOK
  <1>1. \A ts \in Int : ZeroTuple(ts) \in Tuple
    BY ZeroTupleFacts
  <1>2. pos \in [Blocks -> Nat] /\ \A b \in Blocks : pos[b] \in Slots(b)
    BY PolicyFacts DEF InitEmpty
  <1>3. \A b \in Blocks : tuples[b] \in [Slots(b) -> Tuple]
    BY <1>1 DEF InitEmpty
  <1>4. ctx \in [block : 0 .. Len(Freq), in : Tuple]
    BY <1>1, PolicyFacts DEF InitEmpty, Idle
  <1>5. failures \in 0 .. MaxFailures
    BY InputAssumption DEF InitEmpty
  <1> QED
    BY <1>2, <1>3, <1>4, <1>5 DEF InitEmpty, TypeOK

(* Init gives every variable its type.                                       *)
LEMMA InitTypeOK == Init => TypeOK
  BY EmptyTypeOK DEF Init

(* What Keep does to the types, for any buffer of the right shape.           *)
LEMMA KeepTypes ==
  ASSUME TypeOK, NEW b \in Blocks, NEW buffer \in [Slots(b) -> Tuple],
         NEW s \in Slots(b), Keep(b, buffer, s)
  PROVE  /\ DOMAIN tuples' = Blocks
         /\ \A c \in Blocks : tuples'[c] \in [Slots(c) -> Tuple]
         /\ modified' \in [Blocks -> BOOLEAN]
         /\ tuples'[b] = [buffer EXCEPT ![s] = Merge(buffer[s], ctx.in)]
         /\ \A c \in Blocks \ {b} : tuples'[c] = tuples[c]
  <1>1. Merge(buffer[s], ctx.in) \in Tuple
    BY MergeFacts DEF TypeOK
  <1> QED
    BY <1>1 DEF Keep, TypeOK

(* Passing data on or stopping leaves the context well-typed.                *)
LEMMA PassOnTypes ==
  ASSUME NEW b \in Blocks, NEW out \in Tuple, PassOn(b, out) \/ Stop
  PROVE  ctx' \in [block : 0 .. Len(Freq), in : Tuple]
  <1>1. Idle \in [block : 0 .. Len(Freq), in : Tuple]
    BY ZeroTupleFacts, PolicyFacts DEF Idle
  <1>2. b < Len(Freq) => [block |-> b + 1, in |-> out] \in [block : 0 .. Len(Freq), in : Tuple]
    BY PolicyFacts DEF Blocks
  <1> QED
    BY <1>1, <1>2 DEF PassOn, Stop

(* The rebuilt buffers have the right shape.                                 *)
LEMMA BufferTypes ==
  ASSUME TypeOK, NEW b \in Blocks, NEW n \in Nat
  PROVE  /\ AdvancedBuffer(b, n) \in [Slots(b) -> Tuple]
         /\ WalkedBuffer(b, n) \in [Slots(b) -> Tuple]
         /\ [s \in Slots(b) |-> ZeroTuple(IF s = 0 THEN ctx.in.ts ELSE 0)]
              \in [Slots(b) -> Tuple]
  <1>1. pos[b] \in Slots(b) /\ pos_ts[b] \in Int /\ tuples[b] \in [Slots(b) -> Tuple]
    BY DEF TypeOK
  <1>2. ASSUME NEW s \in Slots(b)
        PROVE  /\ pos_ts[b] + Back(b, s, pos[b]) * Freq[b] \in Int
               /\ pos_ts[b] - Age(b, s) * Freq[b] \in Int
    <2>1. Back(b, s, pos[b]) \in Int /\ Age(b, s) \in Int
      <3>1. Back(b, s, pos[b]) \in Slots(b) /\ Back(b, pos[b], s) \in Slots(b)
        BY <1>1, CircleFacts
      <3> QED
        BY <3>1, SlotNumbers DEF Age
    <2>2. Back(b, s, pos[b]) * Freq[b] \in Int /\ Age(b, s) * Freq[b] \in Int
      BY <2>1, PolicyFacts
    <2> QED
      BY <1>1, <2>2
  <1>3. AdvancedBuffer(b, n) \in [Slots(b) -> Tuple]
    BY <1>1, <1>2, ZeroTupleFacts DEF AdvancedBuffer
  <1>4. WalkedBuffer(b, n) \in [Slots(b) -> Tuple]
    <2>1. \A s \in Slots(b), ts \in Int : [tuples[b][s] EXCEPT !.ts = ts] \in Tuple
      BY <1>1 DEF Tuple
    <2> QED
      BY <1>1, <1>2, <2>1 DEF WalkedBuffer
  <1>5. \A s \in Slots(b) : ZeroTuple(IF s = 0 THEN ctx.in.ts ELSE 0) \in Tuple
    <2>1. ctx.in.ts \in Int
      BY DEF TypeOK, Tuple
    <2> QED
      BY <2>1, ZeroTupleFacts
  <1> QED
    BY <1>3, <1>4, <1>5

(* BeginUpdate keeps the types.                                              *)
LEMMA BeginUpdateTypeOK ==
  ASSUME TypeOK, NEW ts \in Times, NEW v \in Values, BeginUpdate(ts, v)
  PROVE  TypeOK'
  <1>1. ts \in Int /\ v \in Int
    BY InputAssumption
  <1>2. NormalizedTs(ts) \in Int
    BY <1>1, PolicyFacts DEF NormalizedTs
  <1>3. ctx' \in [block : 0 .. Len(Freq), in : Tuple]
    <2>1. Point(NormalizedTs(ts), v) \in Tuple
      BY <1>1, <1>2 DEF Point, Tuple
    <2> QED
      BY <2>1, PolicyFacts DEF BeginUpdate
  <1>4. last' \in [ts : Int, value : Int]
    BY <1>1 DEF BeginUpdate, TypeOK
  <1>5. accepted' \in [Times \X Values -> Nat]
    <2>1. <<ts, v>> \in Times \X Values
      OBVIOUS
    <2> QED
      BY <2>1 DEF BeginUpdate, TypeOK
  <1>6. UNCHANGED <<pos, pos_ts, tuples, modified, failures>>
    BY DEF BeginUpdate
  <1> QED
    BY <1>3, <1>4, <1>5, <1>6 DEF TypeOK

(* Every case of block->update keeps the types.                              *)
LEMMA CompleteShiftTypeOK ==
  ASSUME TypeOK, NEW b \in Blocks, CompleteShift(b)
  PROVE  TypeOK'
  <1>1. /\ [s \in Slots(b) |-> ZeroTuple(IF s = 0 THEN ctx.in.ts ELSE 0)]
              \in [Slots(b) -> Tuple]
        /\ 0 \in Slots(b)
    BY BufferTypes, PolicyFacts
  <1>2. /\ DOMAIN tuples' = Blocks
        /\ \A c \in Blocks : tuples'[c] \in [Slots(c) -> Tuple]
        /\ modified' \in [Blocks -> BOOLEAN]
    BY <1>1, KeepTypes DEF CompleteShift
  <1>3. pos' \in [Blocks -> Nat] /\ \A c \in Blocks : pos'[c] \in Slots(c)
    BY <1>1 DEF CompleteShift, TypeOK
  <1>4. pos_ts' \in [Blocks -> Int]
    <2>1. ctx.in.ts \in Int
      BY DEF TypeOK, Tuple
    <2> QED
      BY <2>1 DEF CompleteShift, TypeOK
  <1>5. ctx' \in [block : 0 .. Len(Freq), in : Tuple]
    <2>1. Current(b) \in Tuple
      BY DEF Current, TypeOK
    <2> QED
      BY <2>1, PassOnTypes DEF CompleteShift
  <1> QED
    BY <1>2, <1>3, <1>4, <1>5 DEF CompleteShift, TypeOK

(* The current tuple covers the data: types are kept.                       *)
LEMMA KeepInCurrentTypeOK ==
  ASSUME TypeOK, NEW b \in Blocks, KeepInCurrent(b)
  PROVE  TypeOK'
  <1>1. tuples[b] \in [Slots(b) -> Tuple] /\ pos[b] \in Slots(b)
    BY DEF TypeOK
  <1>2. /\ DOMAIN tuples' = Blocks
        /\ \A c \in Blocks : tuples'[c] \in [Slots(c) -> Tuple]
        /\ modified' \in [Blocks -> BOOLEAN]
    BY <1>1, KeepTypes DEF KeepInCurrent
  <1>3. ctx' \in [block : 0 .. Len(Freq), in : Tuple]
    BY ZeroTupleFacts, PassOnTypes DEF KeepInCurrent
  <1> QED
    BY <1>2, <1>3 DEF KeepInCurrent, TypeOK

(* Moving the buffer forward keeps the types.                               *)
LEMMA ShiftForwardTypeOK ==
  ASSUME TypeOK, NEW b \in Blocks, ShiftForward(b)
  PROVE  TypeOK'
  <1>1. PICK n \in 1 .. Count[b] - 1 :
          /\ Keep(b, AdvancedBuffer(b, n), Forward(b, pos[b], n))
          /\ pos' = [pos EXCEPT ![b] = Forward(b, @, n)]
          /\ pos_ts' = [pos_ts EXCEPT ![b] = @ + n * Freq[b]]
    BY DEF ShiftForward
  <1>2. n \in Slots(b) /\ n \in Nat /\ pos[b] \in Slots(b)
    BY SlotNumbers, BlockTypes
  <1>3. Forward(b, pos[b], n) \in Slots(b) /\ Forward(b, pos[b], n) \in Nat
    BY <1>2, CircleFacts DEF Slots
  <1>4. /\ DOMAIN tuples' = Blocks
        /\ \A c \in Blocks : tuples'[c] \in [Slots(c) -> Tuple]
        /\ modified' \in [Blocks -> BOOLEAN]
    BY <1>1, <1>2, <1>3, BufferTypes, KeepTypes
  <1>5. pos' \in [Blocks -> Nat] /\ \A c \in Blocks : pos'[c] \in Slots(c)
    BY <1>1, <1>3 DEF TypeOK
  <1>6. pos_ts' \in [Blocks -> Int]
    <2>1. n * Freq[b] \in Int
      BY <1>2, PolicyFacts
    <2> QED
      BY <1>1, <2>1 DEF TypeOK
  <1>7. ctx' \in [block : 0 .. Len(Freq), in : Tuple]
    <2>1. Current(b) \in Tuple
      BY DEF Current, TypeOK
    <2> QED
      BY <2>1, PassOnTypes DEF ShiftForward
  <1> QED
    BY <1>4, <1>5, <1>6, <1>7 DEF ShiftForward, TypeOK

(* Updating an older tuple keeps the types.                                 *)
LEMMA KeepInPastTypeOK ==
  ASSUME TypeOK, NEW b \in Blocks, KeepInPast(b)
  PROVE  TypeOK'
  <1>1. PICK n \in 1 .. Count[b] - 1 : Keep(b, WalkedBuffer(b, n), Back(b, pos[b], n))
    BY DEF KeepInPast
  <1>2. n \in Slots(b) /\ n \in Nat /\ pos[b] \in Slots(b)
    BY SlotNumbers, BlockTypes
  <1>3. Back(b, pos[b], n) \in Slots(b)
    BY <1>2, CircleFacts
  <1>4. /\ DOMAIN tuples' = Blocks
        /\ \A c \in Blocks : tuples'[c] \in [Slots(c) -> Tuple]
        /\ modified' \in [Blocks -> BOOLEAN]
    BY <1>1, <1>2, <1>3, BufferTypes, KeepTypes
  <1>5. ctx' \in [block : 0 .. Len(Freq), in : Tuple]
    BY PassOnTypes DEF KeepInPast, TypeOK
  <1> QED
    BY <1>4, <1>5 DEF KeepInPast, TypeOK

(* A walk that finds no tuple keeps the types.                              *)
LEMMA FallOffTheWalkTypeOK ==
  ASSUME TypeOK, NEW b \in Blocks, FallOffTheWalk(b)
  PROVE  TypeOK'
  <1>1. WalkedBuffer(b, Count[b] - 1) \in [Slots(b) -> Tuple]
    BY BufferTypes, PolicyFacts
  <1>2. /\ DOMAIN tuples' = Blocks
        /\ \A c \in Blocks : tuples'[c] \in [Slots(c) -> Tuple]
    BY <1>1 DEF FallOffTheWalk, TypeOK
  <1>3. ctx' \in [block : 0 .. Len(Freq), in : Tuple]
    BY PassOnTypes DEF FallOffTheWalk, TypeOK
  <1> QED
    BY <1>2, <1>3 DEF FallOffTheWalk, TypeOK

(* Passing on what is too old keeps the types.                              *)
LEMMA IgnoreTooOldTypeOK ==
  ASSUME TypeOK, NEW b \in Blocks, IgnoreTooOld(b)
  PROVE  TypeOK'
  <1>1. ctx' \in [block : 0 .. Len(Freq), in : Tuple]
    BY PassOnTypes DEF IgnoreTooOld, TypeOK
  <1> QED
    BY <1>1 DEF IgnoreTooOld, TypeOK

(* All the cases together.                                                   *)
LEMMA UpdateBlockTypeOK ==
  ASSUME TypeOK, NEW b \in Blocks, UpdateBlock(b)
  PROVE  TypeOK'
  BY CompleteShiftTypeOK, KeepInCurrentTypeOK, ShiftForwardTypeOK,
     KeepInPastTypeOK, FallOffTheWalkTypeOK, IgnoreTooOldTypeOK DEF UpdateBlock

(* Type correctness, for every policy: the cascade hands each block a tuple, *)
(* and every position stays a slot of its block (rrdb_metric::update).       *)
THEOREM TypeCorrect == Spec => []TypeOK
  <1>1. Init => TypeOK
    BY InitTypeOK
  <1>2. TypeOK /\ [Next]_metricVars => TypeOK'
    <2> SUFFICES ASSUME TypeOK, [Next]_metricVars PROVE TypeOK'
      OBVIOUS
    <2>1. ASSUME NEW ts \in Times, NEW v \in Values, BeginUpdate(ts, v) PROVE TypeOK'
      BY <2>1, BeginUpdateTypeOK
    <2>2. ASSUME NEW b \in Blocks, UpdateBlock(b) PROVE TypeOK'
      BY <2>2, UpdateBlockTypeOK
    <2>3. ASSUME UNCHANGED metricVars PROVE TypeOK'
      BY <2>3 DEF metricVars, TypeOK
    <2> QED
      BY <2>1, <2>2, <2>3 DEF Next, Finished
  <1> QED
    BY <1>1, <1>2, PTL DEF Spec

-----------------------------------------------------------------------------
(* Time order of the buffers.                                                *)

Untouched(b, s) ==
  \A r \in Slots(b) : Age(b, s) <= Age(b, r) => tuples[b][r] = ZeroTuple(0)
InOrder(b) ==
  \A s \in Slots(b) : InPlace(b, s) \/ (Age(b, s) > 0 /\ Untouched(b, s))

(* RingOrder, block by block.                                                *)
LEMMA RingOrderIsInOrder == RingOrder <=> \A b \in Blocks : InOrder(b)
  BY DEF RingOrder, InOrder, Untouched

(* A block nobody touches stays in order.                                    *)
LEMMA OthersInOrder ==
  ASSUME NEW b \in Blocks, InOrder(b),
         pos'[b] = pos[b], pos_ts'[b] = pos_ts[b], tuples'[b] = tuples[b]
  PROVE  InOrder(b)'
  BY DEF InOrder, InPlace, Untouched, Age

(* An untouched slot, and the slots of a block in order, in numbers.         *)
LEMMA AgeFacts ==
  ASSUME TypeOK, NEW b \in Blocks, NEW s \in Slots(b)
  PROVE  /\ Age(b, s) \in Slots(b) /\ Age(b, s) \in Nat
         /\ (Age(b, s) = 0) <=> (s = pos[b])
  <1>1. pos[b] \in Slots(b)
    BY DEF TypeOK
  <1>2. Age(b, s) \in Slots(b) /\ ((Age(b, s) = 0) <=> (pos[b] = s))
    BY <1>1, CircleFacts DEF Age
  <1> QED
    BY <1>2 DEF Slots

(* Moving the current slot n places ahead: the slots passed over become the  *)
(* newest, all the others n places older.                                    *)
LEMMA AgesAfterAdvance ==
  ASSUME TypeOK, NEW b \in Blocks, NEW n \in 1 .. Count[b] - 1, NEW s \in Slots(b)
  PROVE  LET ahead == Back(b, s, pos[b])
             age == Back(b, Forward(b, pos[b], n), s)
         IN  /\ ahead \in Nat
             /\ ahead \in 1 .. n => age = n - ahead
             /\ ahead \notin 1 .. n => age = Age(b, s) + n
             /\ s = Forward(b, pos[b], n) <=> ahead = n
  <1>1. /\ Count[b] \in Nat \ {0}
        /\ pos[b] \in Nat /\ pos[b] < Count[b]
        /\ s \in Nat /\ s < Count[b]
        /\ n \in Nat /\ 1 <= n /\ n < Count[b]
    BY SlotNumbers, BlockTypes
  <1> QED
    BY <1>1 DEF Back, Forward, Age

-----------------------------------------------------------------------------
(* What the cases do to the slots of their block: each slot is stamped as    *)
(* its place requires, or left alone.                                        *)
Restarted(b) ==
  /\ pos'[b] = 0 /\ pos_ts'[b] = ctx.in.ts
  /\ InPlace(b, 0)' /\ Age(b, 0)' = 0
  /\ \A s \in Slots(b) \ {0} :
       tuples'[b][s] = ZeroTuple(0) /\ Age(b, s)' \in Nat /\ Age(b, s)' > 0

LEMMA CompleteShiftSlots ==
  ASSUME TypeOK, NEW b \in Blocks, CompleteShift(b)
  PROVE  Restarted(b)
  <1> DEFINE buffer == [s \in Slots(b) |-> ZeroTuple(IF s = 0 THEN ctx.in.ts ELSE 0)]
  <1>1. buffer \in [Slots(b) -> Tuple] /\ 0 \in Slots(b)
    BY BufferTypes, PolicyFacts
  <1>2. /\ ctx.in \in Tuple /\ ctx.in.ts \in Int
        /\ pos'[b] = 0 /\ pos_ts'[b] = ctx.in.ts
    BY DEF CompleteShift, TypeOK, Tuple
  <1>3. tuples'[b] = [buffer EXCEPT ![0] = Merge(buffer[0], ctx.in)]
    BY <1>1, KeepTypes DEF CompleteShift
  <1>4. tuples'[b][0].ts = ctx.in.ts
    <2>1. Merge(buffer[0], ctx.in).ts = buffer[0].ts
      BY <1>1, <1>2, MergeFacts
    <2>2. buffer[0].ts = ctx.in.ts
      BY <1>1, <1>2, ZeroTupleFacts
    <2> QED
      BY <1>1, <1>3, <2>1, <2>2
  <1>5. \A s \in Slots(b) : s # 0 => tuples'[b][s] = ZeroTuple(0)
    BY <1>3
  <1>6. \A s \in Slots(b) : /\ Age(b, s)' \in Nat
                            /\ Age(b, s)' = 0 <=> s = 0
    <2> TAKE s \in Slots(b)
    <2>1. Back(b, 0, s) \in Slots(b) /\ (Back(b, 0, s) = 0 <=> 0 = s)
      BY <1>1, CircleFacts
    <2> QED
      BY <1>2, <2>1 DEF Age, Slots
  <1>7. InPlace(b, 0)'
    BY <1>1, <1>2, <1>4, <1>6, PolicyFacts DEF InPlace
  <1> QED
    BY <1>1, <1>2, <1>5, <1>6, <1>7 DEF Restarted

(* The current tuple takes the data.                                         *)
Grown(b) ==
  /\ pos'[b] = pos[b] /\ pos_ts'[b] = pos_ts[b]
  /\ tuples'[b][pos[b]].ts = tuples[b][pos[b]].ts
  /\ tuples[b][pos[b]].count <= tuples'[b][pos[b]].count
  /\ \A s \in Slots(b) \ {pos[b]} : tuples'[b][s] = tuples[b][s]

LEMMA KeepInCurrentSlots ==
  ASSUME TypeOK, NEW b \in Blocks, KeepInCurrent(b)
  PROVE  Grown(b)
  <1>1. /\ tuples[b] \in [Slots(b) -> Tuple] /\ pos[b] \in Slots(b) /\ ctx.in \in Tuple
        /\ pos'[b] = pos[b] /\ pos_ts'[b] = pos_ts[b]
    BY DEF KeepInCurrent, TypeOK
  <1>2. tuples'[b] = [tuples[b] EXCEPT ![pos[b]] = Merge(tuples[b][pos[b]], ctx.in)]
    BY <1>1, KeepTypes DEF KeepInCurrent
  <1> QED
    BY <1>1, <1>2, MergeFacts DEF Grown

(* The buffer advances n places: the slots it passes are stamped, the others *)
(* grow older.                                                               *)
Advanced(b, n) ==
  /\ pos_ts'[b] = pos_ts[b] + n * Freq[b]
  /\ \A s \in Slots(b) :
       \/ /\ Back(b, s, pos[b]) \in 1 .. n
          /\ InPlace(b, s)' /\ Age(b, s)' \in Nat /\ Age(b, s)' < n
       \/ /\ Back(b, s, pos[b]) \notin 1 .. n
          /\ tuples'[b][s] = tuples[b][s] /\ Age(b, s)' = Age(b, s) + n
          /\ InPlace(b, s) => InPlace(b, s)'

LEMMA ShiftForwardSlots ==
  ASSUME TypeOK, NEW b \in Blocks, ShiftForward(b)
  PROVE  \E n \in 1 .. Count[b] - 1 : Advanced(b, n)
  <1>1. PICK n \in 1 .. Count[b] - 1 :
          /\ Keep(b, AdvancedBuffer(b, n), Forward(b, pos[b], n))
          /\ pos' = [pos EXCEPT ![b] = Forward(b, @, n)]
          /\ pos_ts' = [pos_ts EXCEPT ![b] = @ + n * Freq[b]]
    BY DEF ShiftForward
  <1> DEFINE q == Forward(b, pos[b], n)
             buffer == AdvancedBuffer(b, n)
             Ahead(s) == Back(b, s, pos[b])
             NewAge(s) == Back(b, q, s)
  <1>2. /\ n \in Slots(b) /\ n \in Nat /\ 1 <= n /\ pos[b] \in Slots(b) /\ pos_ts[b] \in Int
        /\ ctx.in \in Tuple /\ Freq[b] \in Int /\ q \in Slots(b)
        /\ buffer \in [Slots(b) -> Tuple]
    <2>1. n \in Slots(b) /\ n \in Nat /\ 1 <= n /\ Freq[b] \in Int
      BY SlotNumbers
    <2>2. pos[b] \in Slots(b) /\ pos_ts[b] \in Int /\ ctx.in \in Tuple
      BY BlockTypes
    <2>3. q \in Slots(b)
      BY <2>1, <2>2, CircleFacts
    <2>4. buffer \in [Slots(b) -> Tuple]
      BY <2>1, BufferTypes, Zenon
    <2> QED
      BY <2>1, <2>2, <2>3, <2>4
  <1>3. pos'[b] = q /\ pos_ts'[b] = pos_ts[b] + n * Freq[b]
    BY <1>1, BlockTypes
  <1>4. tuples'[b] = [buffer EXCEPT ![q] = Merge(buffer[q], ctx.in)]
    <2>1. /\ q \in Slots(b) /\ DOMAIN buffer = Slots(b) /\ Keep(b, buffer, q)
          /\ DOMAIN tuples = Blocks
      BY <1>1, <1>2, BlockTypes
    <2> HIDE DEF q, buffer
    <2> QED
      BY <2>1 DEF Keep
  <1>5. \A s \in Slots(b) :
          /\ Ahead(s) \in Nat /\ Age(b, s) \in Nat
          /\ Ahead(s) \in 1 .. n => NewAge(s) = n - Ahead(s)
          /\ Ahead(s) \notin 1 .. n => NewAge(s) = Age(b, s) + n
          /\ s = q <=> Ahead(s) = n
    BY AgesAfterAdvance, AgeFacts
  <1>6. \A s \in Slots(b) : /\ tuples'[b][s].ts = buffer[s].ts
                            /\ s # q => tuples'[b][s] = buffer[s]
    BY <1>2, <1>4, MergeFacts
  <1>7. ASSUME NEW s \in Slots(b)
        PROVE  /\ Ahead(s) \in 1 .. n => buffer[s].ts = pos_ts[b] + Ahead(s) * Freq[b]
               /\ Ahead(s) \notin 1 .. n => buffer[s] = tuples[b][s]
    <2>1. Ahead(s) * Freq[b] \in Int
      <3>1. Ahead(s) \in Nat
        BY <1>5, Zenon
      <3>2. Ahead(s) \in Int /\ Freq[b] \in Int
        BY <1>2, <3>1
      <3> QED
        BY <3>2, Distributes, ZenonT(30)
    <2>2. ZeroTuple(pos_ts[b] + Ahead(s) * Freq[b]).ts = pos_ts[b] + Ahead(s) * Freq[b]
      BY <1>2, <2>1, ZeroTupleFacts
    <2> QED
      BY <2>2 DEF AdvancedBuffer
  <1> HIDE DEF q, buffer, Ahead, NewAge
  <1>8. ASSUME NEW s \in Slots(b), Ahead(s) \in 1 .. n
        PROVE  tuples'[b][s].ts = pos_ts'[b] - NewAge(s) * Freq[b]
    <2>1. tuples'[b][s].ts = pos_ts[b] + Ahead(s) * Freq[b]
      BY <1>6, <1>7, <1>8
    <2>2. /\ (n - Ahead(s)) * Freq[b] = n * Freq[b] - Ahead(s) * Freq[b]
          /\ n * Freq[b] \in Int /\ Ahead(s) * Freq[b] \in Int
      <3>1. n \in Int /\ Freq[b] \in Int
        BY <1>2
      <3>2. Ahead(s) \in Int
        <4>1. Ahead(s) \in Nat
          BY <1>5
        <4> QED
          BY <4>1
      <3> QED
        BY <3>1, <3>2, Distributes, ZenonT(30)
    <2>3. NewAge(s) = n - Ahead(s)
      BY <1>5, <1>8
    <2> QED
      BY <1>2, <1>3, <2>1, <2>2, <2>3
  <1>9. ASSUME NEW s \in Slots(b), Ahead(s) \notin 1 .. n
        PROVE  tuples'[b][s] = tuples[b][s]
    <2>1. s # q
      <3>1. n \in 1 .. n
        BY <1>2
      <3> QED
        BY <1>5, <1>9, <3>1
    <2> QED
      BY <1>6, <1>7, <1>9, <2>1
  <1>10. ASSUME NEW s \in Slots(b), Ahead(s) \notin 1 .. n, InPlace(b, s)
         PROVE  tuples'[b][s].ts = pos_ts'[b] - NewAge(s) * Freq[b]
    <2>1. tuples'[b][s].ts = pos_ts[b] - Age(b, s) * Freq[b]
      BY <1>9, <1>10 DEF InPlace
    <2>2. /\ (Age(b, s) + n) * Freq[b] = Age(b, s) * Freq[b] + n * Freq[b]
          /\ n * Freq[b] \in Int /\ Age(b, s) * Freq[b] \in Int
      <3>1. n \in Int /\ Freq[b] \in Int
        BY <1>2
      <3>2. Age(b, s) \in Int
        <4>1. Age(b, s) \in Nat
          BY <1>5
        <4> QED
          BY <4>1
      <3> QED
        BY <3>1, <3>2, Distributes, ZenonT(30)
    <2>3. NewAge(s) = Age(b, s) + n
      BY <1>5, <1>10
    <2> QED
      BY <1>2, <1>3, <2>1, <2>2, <2>3
  <1>11. ASSUME NEW s \in Slots(b) PROVE Age(b, s)' = NewAge(s)
    BY <1>3 DEF Age, NewAge
  <1>12. ASSUME NEW s \in Slots(b), Ahead(s) \in 1 .. n PROVE NewAge(s) \in Nat /\ NewAge(s) < n
    <2>1. PICK ahead \in 1 .. n : ahead = Ahead(s)
      BY <1>12
    <2>2. NewAge(s) = n - ahead
      BY <1>5, <2>1
    <2> QED
      BY <1>2, <2>2
  <1>13. Advanced(b, n)
    BY <1>3, <1>5, <1>8, <1>9, <1>10, <1>11, <1>12 DEF Advanced, InPlace, Ahead
  <1> QED
    BY <1>13

(* A walk over the n slots before the current one stamps them, and the last  *)
(* may take the data.                                                        *)
Walked(b, n) ==
  /\ pos'[b] = pos[b] /\ pos_ts'[b] = pos_ts[b]
  /\ \A s \in Slots(b) :
       \/ Age(b, s) \in 1 .. n /\ InPlace(b, s)' /\ tuples[b][s].count <= tuples'[b][s].count
       \/ Age(b, s) \notin 1 .. n /\ tuples'[b][s] = tuples[b][s]

LEMMA WalkSlots ==
  ASSUME TypeOK, NEW b \in Blocks, NEW n \in 0 .. Count[b] - 1,
         pos'[b] = pos[b], pos_ts'[b] = pos_ts[b],
         \A s \in Slots(b) :
           /\ tuples'[b][s].ts = WalkedBuffer(b, n)[s].ts
           /\ WalkedBuffer(b, n)[s].count <= tuples'[b][s].count
           /\ Age(b, s) # n => tuples'[b][s] = WalkedBuffer(b, n)[s],
         n = 0 => tuples'[b] = tuples[b]
  PROVE  Walked(b, n)
  <1>1. \A s \in Slots(b) : Age(b, s)' = Age(b, s) /\ Age(b, s) \in Nat
    BY AgeFacts DEF Age
  <1>2. n \in Nat /\ tuples[b] \in [Slots(b) -> Tuple]
    BY PolicyFacts DEF TypeOK
  <1>3. ASSUME NEW s \in Slots(b), Age(b, s) \in 1 .. n
        PROVE  InPlace(b, s)' /\ tuples[b][s].count <= tuples'[b][s].count
    <2>1. /\ WalkedBuffer(b, n)[s].ts = pos_ts[b] - Age(b, s) * Freq[b]
          /\ WalkedBuffer(b, n)[s].count = tuples[b][s].count
      <3>1. \A ts \in Int : /\ [tuples[b][s] EXCEPT !.ts = ts].ts = ts
                            /\ [tuples[b][s] EXCEPT !.ts = ts].count = tuples[b][s].count
        BY <1>2 DEF Tuple
      <3>2. pos_ts[b] - Age(b, s) * Freq[b] \in Int
        <4>1. Age(b, s) * Freq[b] \in Int
          BY <1>1, PolicyFacts
        <4> QED
          BY <4>1 DEF TypeOK
      <3> QED
        BY <1>3, <3>1, <3>2 DEF WalkedBuffer
    <2> QED
      BY <1>1, <2>1 DEF InPlace
  <1>4. ASSUME NEW s \in Slots(b), Age(b, s) \notin 1 .. n
        PROVE  tuples'[b][s] = tuples[b][s]
    <2>1. WalkedBuffer(b, n)[s] = tuples[b][s]
      BY <1>4 DEF WalkedBuffer
    <2>2. n = 0 \/ Age(b, s) # n
      BY <1>1, <1>2, <1>4
    <2> QED
      BY <2>1, <2>2
  <1> QED
    BY <1>3, <1>4 DEF Walked

LEMMA KeepInPastSlots ==
  ASSUME TypeOK, NEW b \in Blocks, KeepInPast(b)
  PROVE  \E n \in 0 .. Count[b] - 1 : Walked(b, n)
  <1>1. PICK n \in 1 .. Count[b] - 1 : Keep(b, WalkedBuffer(b, n), Back(b, pos[b], n))
    BY DEF KeepInPast
  <1> DEFINE q == Back(b, pos[b], n)
             buffer == WalkedBuffer(b, n)
  <1>2. /\ n \in Slots(b) /\ n \in Nat /\ pos[b] \in Slots(b) /\ ctx.in \in Tuple
        /\ q \in Slots(b) /\ Age(b, q) = n
        /\ buffer \in [Slots(b) -> Tuple]
    <2>1. n \in Slots(b) /\ n \in Nat
      BY PolicyFacts DEF Slots
    <2>2. pos[b] \in Slots(b) /\ ctx.in \in Tuple
      BY DEF TypeOK
    <2>3. q \in Slots(b) /\ Age(b, q) = n
      <3>1. Back(b, pos[b], n) \in Slots(b) /\ Back(b, pos[b], Back(b, pos[b], n)) = n
        BY <2>1, <2>2, BackMeasures
      <3> QED
        BY <3>1 DEF Age
    <2>4. buffer \in [Slots(b) -> Tuple]
      BY <2>1, BufferTypes, Zenon
    <2> QED
      BY <2>1, <2>2, <2>3, <2>4
  <1>3. tuples'[b] = [buffer EXCEPT ![q] = Merge(buffer[q], ctx.in)]
    <2>1. /\ q \in Slots(b) /\ DOMAIN buffer = Slots(b) /\ Keep(b, buffer, q)
          /\ DOMAIN tuples = Blocks
      BY <1>1, <1>2, BlockTypes
    <2> HIDE DEF q, buffer
    <2> QED
      BY <2>1 DEF Keep
  <1>4. \A s \in Slots(b) : /\ tuples'[b][s].ts = buffer[s].ts
                            /\ buffer[s].count <= tuples'[b][s].count
                            /\ Age(b, s) # n => tuples'[b][s] = buffer[s]
    <2>1. \A s \in Slots(b) : buffer[s].count <= buffer[s].count
      BY <1>2 DEF Tuple
    <2> QED
      BY <1>2, <1>3, <2>1, MergeFacts
  <1>5. pos'[b] = pos[b] /\ pos_ts'[b] = pos_ts[b]
    BY DEF KeepInPast
  <1>6. n \in 0 .. Count[b] - 1 /\ n # 0
    BY PolicyFacts
  <1> QED
    BY <1>4, <1>5, <1>6, WalkSlots

LEMMA FallOffTheWalkSlots ==
  ASSUME TypeOK, NEW b \in Blocks, FallOffTheWalk(b)
  PROVE  \E n \in 0 .. Count[b] - 1 : Walked(b, n)
  <1>1. /\ tuples'[b] = WalkedBuffer(b, Count[b] - 1)
        /\ pos'[b] = pos[b] /\ pos_ts'[b] = pos_ts[b]
    BY DEF FallOffTheWalk, TypeOK
  <1>2. Count[b] - 1 \in 0 .. Count[b] - 1 /\ Count[b] - 1 \in Nat
    BY PolicyFacts
  <1>3. Count[b] - 1 = 0 => WalkedBuffer(b, Count[b] - 1) = tuples[b]
    <2>1. tuples[b] \in [Slots(b) -> Tuple]
      BY DEF TypeOK
    <2> QED
      BY <2>1 DEF WalkedBuffer
  <1>4. \A s \in Slots(b) : WalkedBuffer(b, Count[b] - 1)[s].count <= WalkedBuffer(b, Count[b] - 1)[s].count
    BY <1>2, BufferTypes DEF Tuple
  <1> QED
    BY <1>1, <1>2, <1>3, <1>4, WalkSlots

-----------------------------------------------------------------------------
(* So the block an action works on stays in order.                           *)
LEMMA CompleteShiftInOrder ==
  ASSUME NEW b \in Blocks, Restarted(b)
  PROVE  InOrder(b)'
  <1>1. ASSUME NEW s \in Slots(b) \ {0} PROVE Age(b, s)' > 0 /\ Untouched(b, s)'
    <2>1. Age(b, s)' \in Nat /\ Age(b, s)' > 0 /\ Age(b, 0)' = 0
      BY DEF Restarted
    <2>2. ASSUME NEW r \in Slots(b), Age(b, s)' <= Age(b, r)'
          PROVE  tuples'[b][r] = ZeroTuple(0)
      <3>1. r # 0
        BY <2>1, <2>2
      <3> QED
        BY <3>1 DEF Restarted
    <2> QED
      BY <2>1, <2>2 DEF Untouched
  <1>2. InPlace(b, 0)'
    BY DEF Restarted
  <1> QED
    BY <1>1, <1>2 DEF InOrder

LEMMA KeepInCurrentInOrder ==
  ASSUME TypeOK, NEW b \in Blocks, InOrder(b), Grown(b)
  PROVE  InOrder(b)'
  <1>1. \A s \in Slots(b) : Age(b, s)' = Age(b, s) /\ (InPlace(b, s) => InPlace(b, s)')
    BY DEF Grown, Age, InPlace
  <1>2. ASSUME NEW s \in Slots(b), Age(b, s) > 0, Untouched(b, s)
        PROVE  Untouched(b, s)'
    <2> SUFFICES ASSUME NEW r \in Slots(b), Age(b, s) <= Age(b, r)
                 PROVE  tuples'[b][r] = ZeroTuple(0)
      BY <1>1 DEF Untouched
    <2>1. r # pos[b]
      BY <1>2, AgeFacts
    <2> QED
      BY <1>2, <2>1 DEF Untouched, Grown
  <1> QED
    BY <1>1, <1>2 DEF InOrder

LEMMA ShiftForwardInOrder ==
  ASSUME TypeOK, NEW b \in Blocks, InOrder(b), NEW n \in 1 .. Count[b] - 1, Advanced(b, n)
  PROVE  InOrder(b)'
  <1>0. n \in Nat /\ \A s \in Slots(b) : Age(b, s) \in Nat
    BY AgeFacts, PolicyFacts
  <1>1. ASSUME NEW s \in Slots(b), Back(b, s, pos[b]) \notin 1 .. n, Age(b, s) > 0, Untouched(b, s)
        PROVE  Age(b, s)' > 0 /\ Untouched(b, s)'
    <2>1. Age(b, s)' = Age(b, s) + n
      BY <1>1 DEF Advanced
    <2>2. ASSUME NEW r \in Slots(b), Age(b, s)' <= Age(b, r)'
          PROVE  tuples'[b][r] = ZeroTuple(0)
      <3>1. /\ Back(b, r, pos[b]) \notin 1 .. n
            /\ tuples'[b][r] = tuples[b][r] /\ Age(b, r)' = Age(b, r) + n
        BY <1>0, <2>1, <2>2 DEF Advanced
      <3> QED
        BY <1>0, <1>1, <2>1, <2>2, <3>1 DEF Untouched
    <2> QED
      BY <1>0, <1>1, <2>1, <2>2 DEF Untouched
  <1>2. ASSUME NEW s \in Slots(b) PROVE InPlace(b, s)' \/ (Age(b, s)' > 0 /\ Untouched(b, s)')
    <2>1. CASE Back(b, s, pos[b]) \in 1 .. n \/ InPlace(b, s)
      BY <2>1 DEF Advanced
    <2>2. CASE Back(b, s, pos[b]) \notin 1 .. n /\ ~InPlace(b, s)
      BY <1>1, <2>2 DEF InOrder
    <2> QED
      BY <2>1, <2>2
  <1> QED
    BY <1>2 DEF InOrder

LEMMA WalkInOrder ==
  ASSUME TypeOK, NEW b \in Blocks, InOrder(b), NEW n \in 0 .. Count[b] - 1, Walked(b, n)
  PROVE  InOrder(b)'
  <1>1. n \in Nat /\ \A s \in Slots(b) : Age(b, s)' = Age(b, s) /\ Age(b, s) \in Nat
    BY AgeFacts, PolicyFacts DEF Age, Walked
  <1>2. ASSUME NEW s \in Slots(b), InPlace(b, s) PROVE InPlace(b, s)'
    BY <1>1, <1>2 DEF InPlace, Walked
  <1>3. ASSUME NEW s \in Slots(b), Age(b, s) \notin 1 .. n, Age(b, s) > 0, Untouched(b, s)
        PROVE  Untouched(b, s)'
    <2> SUFFICES ASSUME NEW r \in Slots(b), Age(b, s) <= Age(b, r)
                 PROVE  tuples'[b][r] = ZeroTuple(0)
      BY <1>1 DEF Untouched
    <2>1. Age(b, r) \notin 1 .. n
      BY <1>1, <1>3
    <2> QED
      BY <1>3, <2>1 DEF Untouched, Walked
  <1>4. ASSUME NEW s \in Slots(b), Age(b, s) \in 1 .. n PROVE InPlace(b, s)'
    BY <1>4 DEF Walked
  <1> QED
    BY <1>1, <1>2, <1>3, <1>4 DEF InOrder

(* So the block at work stays in order.                                      *)
LEMMA UpdatedBlockInOrder ==
  ASSUME TypeOK, NEW b \in Blocks, InOrder(b), UpdateBlock(b)
  PROVE  InOrder(b)'
  <1>1. CASE IgnoreTooOld(b)
    BY <1>1, OthersInOrder DEF IgnoreTooOld
  <1>2. CASE CompleteShift(b)
    BY <1>2, CompleteShiftSlots, CompleteShiftInOrder
  <1>3. CASE KeepInCurrent(b)
    BY <1>3, KeepInCurrentSlots, KeepInCurrentInOrder
  <1>4. CASE ShiftForward(b)
    BY <1>4, ShiftForwardSlots, ShiftForwardInOrder
  <1>5. CASE KeepInPast(b) \/ FallOffTheWalk(b)
    BY <1>5, KeepInPastSlots, FallOffTheWalkSlots, WalkInOrder
  <1> QED
    BY <1>1, <1>2, <1>3, <1>4, <1>5 DEF UpdateBlock

(* And the other blocks are left alone.                                      *)
LEMMA UpdateBlockOthers ==
  ASSUME TypeOK, NEW b \in Blocks, UpdateBlock(b), NEW c \in Blocks \ {b}
  PROVE  /\ pos'[c] = pos[c] /\ pos_ts'[c] = pos_ts[c]
         /\ tuples'[c] = tuples[c] /\ modified'[c] = modified[c]
  BY DEF UpdateBlock, CompleteShift, KeepInCurrent, ShiftForward, KeepInPast,
         FallOffTheWalk, IgnoreTooOld, Keep, TypeOK

(* The whole step: the block at work, and the others.                        *)
LEMMA UpdateBlockInOrder ==
  ASSUME TypeOK, RingOrder, NEW b \in Blocks, UpdateBlock(b)
  PROVE  RingOrder'
  <1>1. \A c \in Blocks : InOrder(c)
    BY RingOrderIsInOrder
  <1>2. InOrder(b)'
    BY <1>1, UpdatedBlockInOrder
  <1>3. \A c \in Blocks : InOrder(c)'
    BY <1>1, <1>2, UpdateBlockOthers, OthersInOrder
  <1> QED
    BY <1>3 DEF RingOrder, InOrder, Untouched

(* Time order, for every policy: the tuple at _pos starts at _pos_ts, as     *)
(* CHECK_AND_THROW in block->update demands, and every tuple behind it is    *)
(* one frequency older, or never written (rrdb_metric_block::find_tuple).    *)
THEOREM BuffersInOrder == Spec => []RingOrder
  <1>1. Init => RingOrder
    <2> SUFFICES ASSUME Init, NEW b \in Blocks, NEW s \in Slots(b)
                 PROVE  InPlace(b, s) \/ (Age(b, s) > 0 /\ Untouched(b, s))
      BY RingOrderIsInOrder DEF InOrder
    <2>1. TypeOK
      BY InitTypeOK
    <2>2. \A r \in Slots(b) : tuples[b][r] = ZeroTuple(0)
      BY DEF Init, InitEmpty
    <2>3. CASE s = pos[b]
      <3>1. Age(b, s) = 0 /\ pos_ts[b] = 0
        BY <2>1, <2>3, AgeFacts DEF Init, InitEmpty
      <3>2. tuples[b][s].ts = 0
        BY <2>2, ZeroTupleFacts
      <3> QED
        BY <3>1, <3>2, PolicyFacts DEF InPlace
    <2>4. CASE s # pos[b]
      BY <2>1, <2>2, <2>4, AgeFacts DEF Untouched
    <2> QED
      BY <2>3, <2>4
  <1>2. TypeOK /\ RingOrder /\ [Next]_metricVars => RingOrder'
    <2> SUFFICES ASSUME TypeOK, RingOrder, [Next]_metricVars PROVE RingOrder'
      OBVIOUS
    <2>1. ASSUME NEW b \in Blocks, UpdateBlock(b) PROVE RingOrder'
      BY <2>1, UpdateBlockInOrder
    <2>2. ASSUME UNCHANGED <<pos, pos_ts, tuples>> PROVE RingOrder'
      BY <2>2 DEF RingOrder, InPlace, Age
    <2> QED
      BY <2>1, <2>2 DEF Next, Finished, BeginUpdate, metricVars
  <1> QED
    BY <1>1, <1>2, TypeCorrect, PTL DEF Spec

-----------------------------------------------------------------------------
(* No data is destroyed before its time.                                     *)

(* The larger of two numbers of tuples lasts longer.                         *)
LEMMA LastsLonger ==
  \A i, j \in Int, f \in Nat : i <= j => i * f <= j * f
  OBVIOUS

(* A slot with data is in its place, a whole number of tuples back.          *)
LEMMA DataInPlace ==
  ASSUME TypeOK, NEW b \in Blocks, InOrder(b), NEW s \in Slots(b), tuples[b][s].count > 0
  PROVE  /\ InPlace(b, s)
         /\ pos_ts[b] - Duration(b) < tuples[b][s].ts /\ tuples[b][s].ts <= pos_ts[b]
  <1>1. /\ Age(b, s) \in Nat /\ Age(b, s) + 1 <= Count[b] /\ pos_ts[b] \in Int
        /\ Freq[b] \in Nat \ {0} /\ Count[b] \in Nat
    <2>1. Age(b, s) \in Nat /\ Age(b, s) \in Slots(b) /\ pos_ts[b] \in Int
      BY AgeFacts DEF TypeOK
    <2> QED
      BY <2>1, PolicyFacts DEF Slots
  <1>2. InPlace(b, s)
    <2>1. ZeroTuple(0).count = 0
      BY DEF ZeroTuple
    <2>2. ~ Untouched(b, s)
      BY <1>1, <2>1 DEF Untouched
    <2> QED
      BY <2>2 DEF InOrder
  <1>3. /\ 0 * Freq[b] <= Age(b, s) * Freq[b]
        /\ (Age(b, s) + 1) * Freq[b] <= Count[b] * Freq[b]
    BY <1>1, LastsLonger
  <1>4. /\ (Age(b, s) + 1) * Freq[b] = Age(b, s) * Freq[b] + Freq[b]
        /\ Count[b] * Freq[b] = Duration(b)
        /\ 0 * Freq[b] = 0 /\ Age(b, s) * Freq[b] \in Int /\ Duration(b) \in Int
    BY <1>1 DEF Duration
  <1> QED
    BY <1>1, <1>2, <1>3, <1>4 DEF InPlace

(* What a step may do to the data of block b.                                *)
Retained(b) ==
  \A s \in Slots(b) :
    tuples[b][s].count > 0 /\ pos_ts'[b] - Duration(b) < tuples[b][s].ts
      => \E r \in Slots(b) : /\ tuples'[b][r].ts = tuples[b][s].ts
                             /\ tuples[b][s].count <= tuples'[b][r].count

(* A slot that keeps its start and its points keeps its data.                *)
LEMMA SlotsRetained ==
  ASSUME TypeOK, NEW b \in Blocks,
         \A s \in Slots(b) :
           tuples[b][s].count > 0 /\ pos_ts'[b] - Duration(b) < tuples[b][s].ts
             => \/ tuples'[b][s] = tuples[b][s]
                \/ /\ tuples'[b][s].ts = tuples[b][s].ts
                   /\ tuples[b][s].count <= tuples'[b][s].count
  PROVE  Retained(b)
  <1>1. \A s \in Slots(b) : tuples[b][s].count <= tuples[b][s].count
    BY TupleNumbers
  <1> QED
    BY <1>1 DEF Retained

(* A complete shift leaves every tuple a whole duration behind.              *)
LEMMA CompleteShiftRetains ==
  ASSUME TypeOK, NEW b \in Blocks, InOrder(b), CompleteShift(b)
  PROVE  Retained(b)
  <1>1. pos_ts'[b] = ctx.in.ts /\ LatestPossibleTs(b) <= ctx.in.ts
    BY DEF CompleteShift, TypeOK
  <1>2. pos_ts[b] \in Int /\ Duration(b) \in Int /\ ctx.in.ts \in Int
    <2>1. Freq[b] * Count[b] \in Int
      BY SlotNumbers
    <2> QED
      BY <2>1, TupleNumbers, BlockTypes DEF Duration
  <1>3. ASSUME NEW s \in Slots(b), tuples[b][s].count > 0
        PROVE  ~ (pos_ts'[b] - Duration(b) < tuples[b][s].ts)
    <2>1. tuples[b][s].ts <= pos_ts[b] /\ tuples[b][s].ts \in Int
      BY <1>3, DataInPlace, TupleNumbers
    <2> QED
      BY <1>1, <1>2, <2>1 DEF LatestPossibleTs
  <1> QED
    BY <1>3 DEF Retained

(* So does a shift of n tuples, to those it passes over.                     *)
LEMMA ShiftForwardRetains ==
  ASSUME TypeOK, NEW b \in Blocks, InOrder(b), NEW n \in 1 .. Count[b] - 1, Advanced(b, n)
  PROVE  Retained(b)
  <1>1. ASSUME NEW s \in Slots(b), Back(b, s, pos[b]) \in 1 .. n, tuples[b][s].count > 0
        PROVE  ~ (pos_ts'[b] - Duration(b) < tuples[b][s].ts)
    <2>1. Count[b] <= Age(b, s) + n
      <3>1. /\ pos[b] \in Nat /\ pos[b] < Count[b] /\ s \in Nat /\ s < Count[b]
            /\ n \in Nat /\ Count[b] \in Nat
        BY SlotNumbers, BlockTypes
      <3>2. Back(b, s, pos[b]) >= 1 /\ Back(b, s, pos[b]) <= n
        BY <1>1
      <3> QED
        BY <3>1, <3>2 DEF Age, Back
    <2>2. /\ n \in Int /\ Age(b, s) \in Int /\ Count[b] \in Int
          /\ Freq[b] \in Nat /\ pos_ts[b] \in Int
      BY AgeFacts, SlotNumbers, BlockTypes
    <2>3. Count[b] * Freq[b] <= (Age(b, s) + n) * Freq[b]
      BY <2>1, <2>2, LastsLonger
    <2>4. /\ (Age(b, s) + n) * Freq[b] = Age(b, s) * Freq[b] + n * Freq[b]
          /\ Age(b, s) * Freq[b] \in Int /\ n * Freq[b] \in Int
          /\ Count[b] * Freq[b] = Duration(b) /\ Duration(b) \in Int
      BY <2>2 DEF Duration
    <2>5. tuples[b][s].ts = pos_ts[b] - Age(b, s) * Freq[b]
      BY <1>1, DataInPlace DEF InPlace
    <2>6. pos_ts'[b] = pos_ts[b] + n * Freq[b]
      BY DEF Advanced
    <2> QED
      BY <2>2, <2>3, <2>4, <2>5, <2>6
  <1>2. ASSUME NEW s \in Slots(b), Back(b, s, pos[b]) \notin 1 .. n
        PROVE  tuples'[b][s] = tuples[b][s]
    BY <1>2 DEF Advanced
  <1> QED
    BY <1>1, <1>2, SlotsRetained

(* A walk into the past only stamps a tuple with what it already says.       *)
LEMMA WalkRetains ==
  ASSUME TypeOK, NEW b \in Blocks, InOrder(b), NEW n \in 0 .. Count[b] - 1, Walked(b, n)
  PROVE  Retained(b)
  <1>1. ASSUME NEW s \in Slots(b), Age(b, s) \in 1 .. n, tuples[b][s].count > 0
        PROVE  /\ tuples'[b][s].ts = tuples[b][s].ts
               /\ tuples[b][s].count <= tuples'[b][s].count
    <2>1. InPlace(b, s)
      BY <1>1, DataInPlace
    <2> QED
      BY <1>1, <2>1 DEF Walked, InPlace, Age
  <1>2. ASSUME NEW s \in Slots(b), Age(b, s) \notin 1 .. n
        PROVE  tuples'[b][s] = tuples[b][s]
    BY <1>2 DEF Walked
  <1> QED
    BY <1>1, <1>2, SlotsRetained

(* The whole step.                                                           *)
LEMMA UpdateBlockRetains ==
  ASSUME TypeOK, RingOrder, NEW b \in Blocks, UpdateBlock(b), NEW c \in Blocks
  PROVE  Retained(c)
  <1>1. InOrder(b)
    BY RingOrderIsInOrder
  <1>2. CASE c # b
    <2>1. tuples'[c] = tuples[c]
      BY <1>2, UpdateBlockOthers
    <2> QED
      BY <2>1, SlotsRetained
  <1>3. CASE IgnoreTooOld(b)
    BY <1>3, SlotsRetained DEF IgnoreTooOld
  <1>4. CASE KeepInCurrent(b) /\ c = b
    <2>1. Grown(b)
      BY <1>4, KeepInCurrentSlots
    <2>2. ASSUME NEW s \in Slots(b)
          PROVE  \/ tuples'[b][s] = tuples[b][s]
                 \/ /\ tuples'[b][s].ts = tuples[b][s].ts
                    /\ tuples[b][s].count <= tuples'[b][s].count
      BY <2>1 DEF Grown
    <2> QED
      BY <1>4, <2>2, SlotsRetained
  <1>5. CASE CompleteShift(b) /\ c = b
    BY <1>1, <1>5, CompleteShiftRetains
  <1>6. CASE ShiftForward(b) /\ c = b
    BY <1>1, <1>6, ShiftForwardSlots, ShiftForwardRetains
  <1>7. CASE (KeepInPast(b) \/ FallOffTheWalk(b)) /\ c = b
    BY <1>1, <1>7, KeepInPastSlots, FallOffTheWalkSlots, WalkRetains
  <1> QED
    BY <1>2, <1>3, <1>4, <1>5, <1>6, <1>7 DEF UpdateBlock

(* For every policy, an update destroys a non-empty tuple only when its      *)
(* buffer moves a whole duration past it: find_tuple clears the slots it     *)
(* passes over, and those are exactly the ones whose time is over.           *)
THEOREM RetainedDataIsKept == Spec => KeepsRetained
  <1>1. TypeOK /\ RingOrder /\ [Next]_metricVars => [\A b \in Blocks : Retained(b)]_metricVars
    <2> SUFFICES ASSUME TypeOK, RingOrder, Next, NEW b \in Blocks
                 PROVE  Retained(b) \/ UNCHANGED metricVars
      OBVIOUS
    <2>1. ASSUME NEW c \in Blocks, UpdateBlock(c) PROVE Retained(b)
      BY <2>1, UpdateBlockRetains
    <2>2. ASSUME NEW ts \in Times, NEW v \in Values, BeginUpdate(ts, v) PROVE Retained(b)
      BY <2>2, SlotsRetained DEF BeginUpdate
    <2> QED
      BY <2>1, <2>2 DEF Next, Finished
  <1>2. [\A b \in Blocks : Retained(b)]_metricVars
          => [\A b \in Blocks : \A s \in Slots(b) :
                tuples[b][s].count > 0 /\ pos_ts'[b] - Duration(b) < tuples[b][s].ts
                  => \E r \in Slots(b) :
                       /\ tuples'[b][r].ts = tuples[b][s].ts
                       /\ tuples[b][s].count <= tuples'[b][r].count]_metricVars
    BY DEF Retained
  <1> QED
    BY <1>1, <1>2, TypeCorrect, BuffersInOrder, PTL DEF Spec, KeepsRetained

-----------------------------------------------------------------------------
(* Selecting stops early and hides nothing.                                  *)

(* Each block's newest tuple starts no later than those of the blocks before *)
(* it, and what a block passes on is no newer than itself: so when select    *)
(* gives up at a block, the ones after it have nothing newer.                *)
Descending ==
  /\ \A b, c \in Blocks : c <= b => pos_ts[b] <= pos_ts[c]
  /\ \A c \in Blocks : c < ctx.block => ctx.in.ts <= pos_ts[c]

(* A block moves its newest tuple to a start between the one it had and that *)
(* of the data, and passes on something no newer than the result.            *)
LEMMA StepDescends ==
  ASSUME TypeOK, Descending, NEW b \in Blocks, ctx.block = b,
         NEW t \in Int, pos_ts' = [pos_ts EXCEPT ![b] = t], ctx'.in.ts \in Int,
         pos_ts[b] <= t, t = pos_ts[b] \/ t <= ctx.in.ts,
         ctx' = Idle \/ (ctx'.block = b + 1 /\ ctx'.in.ts <= t)
  PROVE  Descending'
  <1>1. /\ \A c \in Blocks : c \in Nat /\ pos_ts[c] \in Int
        /\ b \in Nat /\ ctx.in.ts \in Int
    BY PolicyFacts, TupleNumbers DEF TypeOK
  <1>2. pos_ts'[b] = t /\ \A c \in Blocks \ {b} : pos_ts'[c] = pos_ts[c]
    BY DEF TypeOK
  <1>3. ASSUME NEW c \in Blocks, NEW d \in Blocks, d <= c
        PROVE  pos_ts'[c] <= pos_ts'[d]
    <2>1. pos_ts[c] <= pos_ts[d]
      BY <1>3 DEF Descending
    <2>2. CASE c = b /\ d # b
      <3>1. ctx.in.ts <= pos_ts[d]
        BY <1>1, <1>3, <2>2 DEF Descending
      <3> QED
        BY <1>1, <1>2, <2>1, <2>2, <3>1
    <2>3. CASE d = b /\ c # b
      BY <1>1, <1>2, <2>1, <2>3
    <2>4. CASE c = b /\ d = b
      BY <1>2, <2>4
    <2>5. CASE c # b /\ d # b
      BY <1>2, <2>1, <2>5
    <2> QED
      BY <2>2, <2>3, <2>4, <2>5
  <1>4. ASSUME NEW c \in Blocks, c < ctx'.block
        PROVE  ctx'.in.ts <= pos_ts'[c]
    <2>1. ctx' # Idle
      BY <1>1, <1>4 DEF Idle
    <2>2. c <= b /\ ctx'.in.ts <= t
      BY <1>1, <1>4, <2>1
    <2>3. pos_ts'[b] <= pos_ts'[c]
      BY <1>3, <2>2
    <2>4. ctx'.in.ts <= pos_ts'[b]
      BY <1>2, <2>2
    <2> QED
      BY <1>1, <1>2, <2>3, <2>4
  <1> QED
    BY <1>3, <1>4 DEF Descending

(* Every case of block->update is such a step.                               *)
LEMMA UpdateBlockDescends ==
  ASSUME TypeOK, RingOrder, Descending, NEW b \in Blocks, UpdateBlock(b)
  PROVE  Descending'
  <1>1. /\ ctx.block = b /\ b \in Nat
        /\ pos_ts[b] \in Int /\ ctx.in.ts \in Int /\ Current(b).ts = pos_ts[b]
        /\ Freq[b] \in Nat \ {0} /\ Count[b] \in Nat \ {0} /\ Duration(b) \in Nat
    <2>1. ctx.block = b
      BY DEF UpdateBlock, CompleteShift, KeepInCurrent, ShiftForward, KeepInPast,
             FallOffTheWalk, IgnoreTooOld
    <2>2. InOrder(b) /\ pos[b] \in Slots(b) /\ Age(b, pos[b]) = 0
      BY RingOrderIsInOrder, AgeFacts DEF TypeOK
    <2>3. pos_ts[b] \in Int /\ Freq[b] \in Nat \ {0} /\ Count[b] \in Nat \ {0}
      BY PolicyFacts DEF TypeOK
    <2>4. tuples[b][pos[b]].ts = pos_ts[b]
      BY <2>2, <2>3 DEF InOrder, InPlace
    <2>5. Duration(b) \in Nat
      BY <2>3 DEF Duration
    <2> QED
      BY <2>1, <2>3, <2>4, <2>5, PolicyFacts, TupleNumbers DEF Current
  <1>2. ASSUME NEW out \in {ctx.in, Current(b)}, PassOn(b, out), NEW t \in Int, out.ts <= t
        PROVE  ctx'.in.ts \in Int /\ (ctx' = Idle \/ (ctx'.block = b + 1 /\ ctx'.in.ts <= t))
    BY <1>1, <1>2, ZeroTupleFacts DEF PassOn, Idle
  <1>3. ASSUME UNCHANGED pos_ts, PassOn(b, ctx.in) \/ Stop, Stop \/ ctx.in.ts <= pos_ts[b]
        PROVE  Descending'
    <2>1. pos_ts' = [pos_ts EXCEPT ![b] = pos_ts[b]]
      BY <1>3 DEF TypeOK
    <2>2. /\ ctx'.in.ts \in Int
          /\ ctx' = Idle \/ (ctx'.block = b + 1 /\ ctx'.in.ts <= pos_ts[b])
      BY <1>1, <1>2, <1>3, ZeroTupleFacts DEF Stop, Idle
    <2>3. pos_ts[b] \in Int /\ pos_ts[b] <= pos_ts[b]
      BY <1>1
    <2> QED
      BY <1>1, <2>1, <2>2, <2>3, StepDescends, Zenon
  <1>4. ASSUME NEW t \in Int, pos_ts' = [pos_ts EXCEPT ![b] = t], PassOn(b, Current(b)),
               pos_ts[b] <= t, t <= ctx.in.ts
        PROVE  Descending'
    BY <1>1, <1>2, <1>4, StepDescends
  <1>5. CASE CompleteShift(b)
    <2>1. pos_ts[b] <= ctx.in.ts
      BY <1>1, <1>5 DEF CompleteShift, LatestPossibleTs
    <2>2. pos_ts' = [pos_ts EXCEPT ![b] = ctx.in.ts] /\ PassOn(b, Current(b))
      BY <1>5 DEF CompleteShift
    <2>3. ctx.in.ts \in Int /\ ctx.in.ts <= ctx.in.ts
      BY <1>1
    <2> QED
      BY <1>4, <2>1, <2>2, <2>3, Zenon
  <1>6. CASE KeepInCurrent(b)
    BY <1>3, <1>6 DEF KeepInCurrent
  <1>7. CASE ShiftForward(b)
    <2>1. PICK n \in 1 .. Count[b] - 1 :
            /\ pos_ts[b] + n * Freq[b] <= ctx.in.ts
            /\ pos_ts' = [pos_ts EXCEPT ![b] = @ + n * Freq[b]]
      BY <1>7 DEF ShiftForward
    <2>2. n * Freq[b] \in Nat
      BY <1>1
    <2> DEFINE t == pos_ts[b] + n * Freq[b]
    <2>3. /\ t \in Int /\ pos_ts[b] <= t /\ t <= ctx.in.ts
          /\ pos_ts' = [pos_ts EXCEPT ![b] = t]
      BY <1>1, <2>1, <2>2
    <2> HIDE DEF t
    <2> QED
      BY <1>4, <1>7, <2>3 DEF ShiftForward
  <1>8. CASE KeepInPast(b)
    BY <1>1, <1>3, <1>8 DEF KeepInPast
  <1>9. CASE FallOffTheWalk(b)
    <2>1. 0 * Freq[b] <= (Count[b] - 1) * Freq[b] /\ (Count[b] - 1) * Freq[b] \in Int
      BY <1>1, LastsLonger
    <2>2. ctx.in.ts <= pos_ts[b]
      BY <1>1, <1>9, <2>1 DEF FallOffTheWalk
    <2> QED
      BY <1>3, <1>9, <2>2 DEF FallOffTheWalk
  <1>10. CASE IgnoreTooOld(b)
    <2>1. ctx.in.ts <= pos_ts[b]
      BY <1>1, <1>10 DEF IgnoreTooOld, EarliestTs
    <2> QED
      BY <1>3, <1>10, <2>1 DEF IgnoreTooOld
  <1> QED
    BY <1>5, <1>6, <1>7, <1>8, <1>9, <1>10 DEF UpdateBlock

(* For every policy: an earlier block is never behind a later one.           *)
LEMMA BlocksDescend == Spec => []Descending
  <1>1. Init => Descending
    BY PolicyFacts DEF Init, InitEmpty, Idle, Descending
  <1>2. TypeOK /\ RingOrder /\ Descending /\ [Next]_metricVars => Descending'
    <2> SUFFICES ASSUME TypeOK, RingOrder, Descending, [Next]_metricVars PROVE Descending'
      OBVIOUS
    <2>1. ASSUME NEW ts \in Times, NEW v \in Values, BeginUpdate(ts, v) PROVE Descending'
      BY <2>1, PolicyFacts DEF BeginUpdate, Descending, Blocks
    <2>2. ASSUME NEW b \in Blocks, UpdateBlock(b) PROVE Descending'
      BY <2>2, UpdateBlockDescends
    <2>3. ASSUME UNCHANGED metricVars PROVE Descending'
      BY <2>3 DEF metricVars, Descending
    <2> QED
      BY <2>1, <2>2, <2>3 DEF Next, Finished
  <1> QED
    BY <1>1, <1>2, TypeCorrect, BuffersInOrder, PTL DEF Spec

(* Time order is enough for select to find every tuple it should.            *)
LEMMA OrderMakesSelectable ==
  ASSUME TypeOK, RingOrder, Descending, NEW ts1 \in Int, NEW b \in Blocks, NEW s \in Slots(b),
         tuples[b][s].count > 0, ts1 <= tuples[b][s].ts
  PROVE  s \in Selected(b, ts1, tuples[b][s].ts + 1)
  <1> DEFINE t == tuples[b][s].ts
  <1>1. /\ InPlace(b, s) /\ pos_ts[b] - Duration(b) < t /\ t <= pos_ts[b]
        /\ InOrder(b) /\ t \in Int /\ pos_ts[b] \in Int /\ b \in Nat
        /\ Freq[b] \in Nat \ {0} /\ Duration(b) \in Int
    <2>1. InOrder(b)
      BY RingOrderIsInOrder
    <2>2. InPlace(b, s) /\ pos_ts[b] - Duration(b) < t /\ t <= pos_ts[b]
      BY <2>1, DataInPlace
    <2>3. t \in Int /\ b \in Nat /\ Freq[b] \in Nat \ {0} /\ Count[b] \in Nat
      BY TupleNumbers, PolicyFacts
    <2>4. Duration(b) \in Int /\ pos_ts[b] \in Int
      BY <2>3 DEF Duration, TypeOK
    <2> QED
      BY <2>1, <2>2, <2>3, <2>4
  <1>2. SelectReaches(b, ts1)
    <2> SUFFICES ASSUME NEW c \in 1 .. b PROVE ts1 < LatestTs(c)
      BY DEF SelectReaches
    <2>1. c \in Blocks /\ c <= b
      BY <1>1 DEF Blocks
    <2>2. pos_ts[b] <= pos_ts[c] /\ pos_ts[c] \in Int /\ Freq[c] \in Nat \ {0}
      BY <2>1, PolicyFacts DEF Descending, TypeOK
    <2> QED
      BY <1>1, <2>2 DEF LatestTs
  <1>3. Overlaps(EarliestTs(b), LatestTs(b), ts1, t + 1) /\ Overlaps(t, t + Freq[b], ts1, t + 1)
    BY <1>1 DEF Overlaps, EarliestTs, LatestTs
  <1>4. ASSUME NEW r \in Slots(b), Age(b, r) <= Age(b, s)
        PROVE  ts1 < tuples[b][r].ts + Freq[b]
    <2>1. InPlace(b, r)
      <3>1. ZeroTuple(0).count = 0
        BY DEF ZeroTuple
      <3>2. ~ Untouched(b, r)
        BY <1>4, <3>1 DEF Untouched
      <3> QED
        BY <1>1, <3>2 DEF InOrder
    <2>2. /\ Age(b, r) * Freq[b] <= Age(b, s) * Freq[b]
          /\ Age(b, r) * Freq[b] \in Int /\ Age(b, s) * Freq[b] \in Int
      <3>1. Age(b, r) \in Int /\ Age(b, s) \in Int /\ Freq[b] \in Nat
        BY <1>1, AgeFacts
      <3> QED
        BY <1>4, <3>1, LastsLonger
    <2>3. t <= tuples[b][r].ts /\ tuples[b][r].ts \in Int
      BY <1>1, <2>1, <2>2, TupleNumbers DEF InPlace
    <2> QED
      BY <1>1, <2>3
  <1>5. SlotReached(b, s, ts1)
    BY <1>4 DEF SlotReached
  <1> QED
    BY <1>2, <1>3, <1>5 DEF Selected

(* For every policy: both loops of select may stop at the first interval     *)
(* that ends before ts1 without hiding a tuple.                              *)
THEOREM SelectFindsAll == Spec => []SelectMissesNothing
  <1>1. TypeOK /\ RingOrder /\ Descending => SelectMissesNothing
    <2> SUFFICES ASSUME TypeOK, RingOrder, Descending,
                        NEW ts1 \in Times, NEW b \in Blocks, NEW s \in Slots(b),
                        tuples[b][s].count > 0, ts1 < tuples[b][s].ts + 1
                 PROVE  s \in Selected(b, ts1, tuples[b][s].ts + 1)
      BY DEF SelectMissesNothing
    <2>1. ts1 \in Int /\ ts1 <= tuples[b][s].ts
      BY TupleNumbers, InputAssumption
    <2> QED
      BY <2>1, OrderMakesSelectable
  <1> QED
    BY <1>1, TypeCorrect, BuffersInOrder, BlocksDescend, PTL

-----------------------------------------------------------------------------
(* Starts of tuples are whole numbers of the first frequency, and the slack  *)
(* of a block is that of the block before it and what that block can add.    *)
Aligned(t) == \E m \in Int : t = m * Freq[1]

(* Adding a multiple of an aligned number to an aligned number.              *)
LEMMA AlignedSum ==
  ASSUME NEW t \in Int, NEW u \in Int, Aligned(t), Aligned(u), NEW n \in Int
  PROVE  Aligned(t + n * u)
  <1>1. PICK i \in Int : t = i * Freq[1]
    BY DEF Aligned
  <1>2. PICK j \in Int : u = j * Freq[1]
    BY DEF Aligned
  <1>3. Freq[1] \in Int
    BY PolicyFacts
  <1>4. \A a, b, c \in Int : a * (b * c) = (a * b) * c /\ a * b \in Int
    OBVIOUS
  <1>5. n * u = (n * j) * Freq[1] /\ n * j \in Int
    BY <1>2, <1>3, <1>4
  <1>6. t + n * u = (i + n * j) * Freq[1]
    <2>1. (i + n * j) * Freq[1] = i * Freq[1] + (n * j) * Freq[1]
      BY <1>3, <1>5, Distributes
    <2> QED
      BY <1>1, <1>5, <2>1
  <1>7. i + n * j \in Int
    BY <1>5
  <1> QED
    BY <1>6, <1>7 DEF Aligned

(* Two different aligned numbers are at least the first frequency apart.     *)
LEMMA AlignedGap ==
  ASSUME NEW t \in Int, NEW u \in Int, Aligned(t), Aligned(u), t < u
  PROVE  t <= u - Freq[1]
  <1>1. PICK i \in Int : t = i * Freq[1]
    BY DEF Aligned
  <1>2. PICK j \in Int : u = j * Freq[1]
    BY DEF Aligned
  <1>3. Freq[1] \in Nat
    BY PolicyFacts
  <1>4. i + 1 <= j
    <2>1. j <= i => j * Freq[1] <= i * Freq[1]
      BY <1>3, LastsLonger
    <2> QED
      BY <1>1, <1>2, <1>3, <2>1
  <1>5. (i + 1) * Freq[1] <= j * Freq[1]
    BY <1>3, <1>4, LastsLonger
  <1>6. \A f \in Nat : (i + 1) * f = i * f + f
    OBVIOUS
  <1> QED
    BY <1>1, <1>2, <1>3, <1>5, <1>6

(* The normalized time of a value.                                           *)
LEMMA NormalizedFacts ==
  ASSUME NEW ts \in Nat
  PROVE  NormalizedTs(ts) \in Nat /\ Aligned(NormalizedTs(ts))
  <1>1. Freq[1] \in Nat \ {0}
    BY PolicyFacts
  <1>2. \A y \in Nat \ {0} : /\ ts % y \in Nat /\ ts \div y \in Nat
                            /\ ts = (ts \div y) * y + (ts % y) /\ (ts \div y) * y \in Nat
    OBVIOUS
  <1>3. NormalizedTs(ts) = (ts \div Freq[1]) * Freq[1] /\ NormalizedTs(ts) \in Nat
    <2>1. PICK y \in Nat \ {0} : y = Freq[1]
      BY <1>1
    <2>2. /\ ts % y \in Nat /\ ts = (ts \div y) * y + (ts % y) /\ (ts \div y) * y \in Nat
      BY <1>2
    <2>3. ts - (ts % y) = (ts \div y) * y
      <3>1. \A a, c \in Nat : ts = a + c => ts - c = a
        OBVIOUS
      <3> QED
        BY <2>2, <3>1, Zenon
    <2> QED
      BY <2>1, <2>2, <2>3, Zenon DEF NormalizedTs
  <1>4. ts \div Freq[1] \in Int
    BY <1>1, <1>2
  <1> QED
    BY <1>3, <1>4 DEF Aligned

(* Every frequency is a multiple of the first, by the policy's assumption.   *)
LEMMA FrequenciesAligned == \A b \in Blocks : Aligned(Freq[b]) /\ Freq[1] <= Freq[b]
  <1> DEFINE Bad == {b \in Blocks : ~ (Aligned(Freq[b]) /\ Freq[1] <= Freq[b])}
  <1>1. ASSUME Bad # {} PROVE FALSE
    <2>1. Bad \in SUBSET Nat
      BY PolicyFacts
    <2>2. PICK b \in Bad : \A c \in Bad : b <= c
      BY <1>1, <2>1, LeastNumber
    <2>3. b # 1
      <3>1. Freq[1] = 1 * Freq[1] /\ 1 \in Int /\ Freq[1] <= Freq[1]
        BY PolicyFacts
      <3> QED
        BY <3>1 DEF Aligned
    <2>4. b - 1 \in Blocks /\ b - 1 \in Nat /\ b \in 2 .. Len(Freq) /\ b \in Blocks
      BY <2>3, PolicyFacts DEF Blocks
    <2>5. Aligned(Freq[b - 1]) /\ Freq[1] <= Freq[b - 1]
      BY <2>2, <2>4
    <2>6. Freq[b] % Freq[b - 1] = 0
      BY <2>4, PolicyAssumption
    <2>7. Freq[b] \in Nat \ {0} /\ Freq[b - 1] \in Nat \ {0} /\ Freq[1] \in Nat
      BY <2>4, PolicyFacts
    <2>8. PICK q \in Nat : Freq[b] = q * Freq[b - 1]
      <3>1. \A x \in Nat, y \in Nat \ {0} :
              x % y = 0 => x \div y \in Nat /\ x = (x \div y) * y
        OBVIOUS
      <3> QED
        BY <2>6, <2>7, <3>1
    <2>9. Aligned(0 + q * Freq[b - 1])
      <3>1. 0 = 0 * Freq[1] /\ 0 \in Int
        BY <2>7
      <3>2. Aligned(0)
        BY <3>1 DEF Aligned
      <3> QED
        BY <2>5, <2>7, <3>2, AlignedSum
    <2>10. Freq[b - 1] <= Freq[b]
      <3>1. q # 0
        BY <2>7, <2>8
      <3>2. 1 * Freq[b - 1] <= q * Freq[b - 1]
        BY <2>7, <3>1, LastsLonger
      <3> QED
        BY <2>7, <2>8, <3>2
    <2>11. Freq[b] = 0 + q * Freq[b - 1]
      BY <2>7, <2>8
    <2> QED
      BY <2>5, <2>7, <2>9, <2>10, <2>11
  <1> QED
    BY <1>1

(* The slack of the first two blocks is zero, and how it grows.              *)
LEMMA SlackFacts ==
  /\ \A b \in Blocks : Slack(b) \in Nat
  /\ \A b \in Blocks : b \in {1, 2} => Slack(b) = 0
  /\ \A b \in Blocks : b + 1 \in Blocks => Slack(b + 1) = Slack(b) + Freq[b] - Freq[1]
  <1> DEFINE g == [c \in Blocks |-> Freq[c] - Freq[1]]
             sum(S) == SumFunctionOnSet(g, S)
  <1>1. \A b : Slack(b) = sum(2 .. b - 1)
    BY DEF Slack, SumFunctionOnSet
  <1>2. \A c \in Blocks : g[c] \in Nat
    <2>1. \A c \in Blocks : Freq[c] \in Nat /\ Freq[1] \in Nat /\ Freq[1] <= Freq[c]
      BY FrequenciesAligned, PolicyFacts
    <2> QED
      BY <2>1
  <1>3. \A b \in Blocks : 2 .. b - 1 \in SUBSET Blocks /\ IsFiniteSet(2 .. b - 1)
    <2> TAKE b \in Blocks
    <2>1. b \in Nat /\ b <= Len(Freq) /\ Len(Freq) \in Nat
      BY PolicyFacts DEF Blocks
    <2>2. IsFiniteSet(2 .. b - 1)
      BY <2>1, FS_Interval
    <2> QED
      BY <2>1, <2>2 DEF Blocks
  <1>4. ASSUME NEW b \in Blocks PROVE sum(2 .. b - 1) \in Nat
    BY <1>2, <1>3, SumType
  <1>5. ASSUME NEW b \in Blocks, b \in {1, 2} PROVE Slack(b) = 0
    <2>1. 2 .. b - 1 = {}
      BY <1>5
    <2>2. sum(2 .. b - 1) = sum({})
      BY <2>1, Zenon
    <2> QED
      BY <1>1, <2>2, SumEmpty
  <1>6. ASSUME NEW b \in Blocks, b + 1 \in Blocks PROVE Slack(b + 1) = Slack(b) + Freq[b] - Freq[1]
    <2>1. b \in Nat /\ 1 <= b /\ Freq[b] \in Nat /\ Freq[1] \in Nat
      BY PolicyFacts DEF Blocks
    <2>2. CASE b = 1
      <3>1. Slack(b + 1) = 0 /\ Slack(b) = 0
        BY <1>5, <1>6, <2>2
      <3> QED
        BY <2>1, <2>2, <3>1
    <2>3. CASE b # 1
      <3> DEFINE S == 2 .. (b + 1) - 1
      <3>1. IsFiniteSet(S) /\ b \in S /\ S \ {b} = 2 .. b - 1 /\ \A c \in S : g[c] \in Int
        <4>1. IsFiniteSet(S) /\ S \in SUBSET Blocks
          BY <1>3, <1>6
        <4>2. b \in S /\ S \ {b} = 2 .. b - 1
          BY <2>1, <2>3
        <4>3. \A c \in S : g[c] \in Nat
          BY <1>2, <4>1, Zenon
        <4> QED
          BY <4>1, <4>2, <4>3
      <3>2. sum(S) = g[b] + sum(S \ {b})
        <4> HIDE DEF g, S
        <4> QED
          BY <3>1, SumRemove
      <3>3. sum(S) = g[b] + sum(2 .. b - 1)
        BY <3>1, <3>2, Zenon
      <3>4. Slack(b + 1) = g[b] + Slack(b) /\ Slack(b) \in Nat
        BY <1>1, <1>4, <3>3, Zenon
      <3> QED
        BY <2>1, <3>4
    <2> QED
      BY <2>2, <2>3
  <1> QED
    BY <1>1, <1>4, <1>5, <1>6, Zenon

-----------------------------------------------------------------------------
(* What a tuple says of a set K of updates, when D[k] is the timestamp and   *)
(* the value of update k: their number, their sum and their extremes.        *)
Log(D, n) == n \in Nat /\ D \in [1 .. n -> Times \X Values]
One(D) == [k \in DOMAIN D |-> 1]
Val(D) == [k \in DOMAIN D |-> D[k][2]]
Extremes(D, t, K) ==
  /\ \E k \in K : t.min = D[k][2]
  /\ \E k \in K : t.max = D[k][2]
  /\ \A k \in K : t.min <= D[k][2] /\ D[k][2] <= t.max
Aggregates(D, t, K) ==
  /\ t.count = SumFunctionOnSet(One(D), K)
  /\ t.sum = SumFunctionOnSet(Val(D), K)
  /\ K # {} => Extremes(D, t, K)

(* Updates are numbered, and so are their timestamps and values.             *)
LEMMA LogFacts ==
  ASSUME NEW n, NEW D, Log(D, n)
  PROVE  \A k \in 1 .. n : /\ D[k][1] \in Nat /\ D[k][2] \in Int
                          /\ One(D)[k] = 1 /\ Val(D)[k] = D[k][2]
  <1>1. ASSUME NEW k \in 1 .. n PROVE D[k][1] \in Nat /\ D[k][2] \in Int
    BY InputAssumption DEF Log
  <1>2. ASSUME NEW k \in 1 .. n PROVE One(D)[k] = 1 /\ Val(D)[k] = D[k][2]
    BY DEF Log, One, Val
  <1> QED
    BY <1>1, <1>2

(* There are finitely many.                                                  *)
LEMMA LogFinite ==
  ASSUME NEW n, NEW D, Log(D, n), NEW K \in SUBSET (1 .. n)
  PROVE  IsFiniteSet(K)
  <1>1. IsFiniteSet(1 .. n)
    BY FS_Interval DEF Log
  <1> QED
    BY <1>1, FS_Subset

(* The number of updates is a number, zero for no update and no other set.   *)
LEMMA OneFacts ==
  ASSUME NEW n, NEW D, Log(D, n), NEW K \in SUBSET (1 .. n)
  PROVE  /\ SumFunctionOnSet(One(D), K) \in Nat
         /\ SumFunctionOnSet(One(D), K) = 0 <=> K = {}
         /\ SumFunctionOnSet(Val(D), K) \in Int
  <1>1. IsFiniteSet(K) /\ \A k \in K : One(D)[k] \in Nat \ {0} /\ One(D)[k] \in Nat /\ Val(D)[k] \in Int
    <2>1. IsFiniteSet(K)
      BY LogFinite
    <2>2. \A k \in K : One(D)[k] = 1 /\ Val(D)[k] = D[k][2] /\ D[k][2] \in Int
      BY LogFacts
    <2> QED
      BY <2>1, <2>2
  <1>2. SumFunctionOnSet(One(D), K) \in Nat
    BY <1>1, SumType
  <1>3. SumFunctionOnSet(One(D), K) = 0 <=> K = {}
    BY <1>1, SumPositive
  <1>4. SumFunctionOnSet(Val(D), K) \in Int
    BY <1>1, SumType
  <1> QED
    BY <1>2, <1>3, <1>4

(* A tuple without points says nothing of anything.                          *)
LEMMA NothingAggregated ==
  ASSUME NEW D, NEW t, t.count = 0, t.sum = 0
  PROVE  Aggregates(D, t, {})
  BY SumEmpty DEF Aggregates

(* What a tuple says does not depend on its start, nor on other updates.     *)
LEMMA SameAggregate ==
  ASSUME NEW n, NEW D, Log(D, n), NEW m, NEW E, Log(E, m), NEW K \in SUBSET (1 .. n),
         K \in SUBSET (1 .. m), \A k \in K : E[k] = D[k], NEW t, NEW u, Aggregates(D, t, K),
         u.count = t.count, u.sum = t.sum, u.min = t.min, u.max = t.max
  PROVE  Aggregates(E, u, K)
  <1>1. /\ IsFiniteSet(K)
        /\ \A k \in K : One(D)[k] = One(E)[k] /\ Val(D)[k] = Val(E)[k]
    BY LogFacts, LogFinite
  <1>2. SumFunctionOnSet(One(D), K) = SumFunctionOnSet(One(E), K)
    BY <1>1, SumAgree
  <1>3. SumFunctionOnSet(Val(D), K) = SumFunctionOnSet(Val(E), K)
    BY <1>1, SumAgree
  <1>4. K # {} => Extremes(E, u, K)
    BY DEF Aggregates, Extremes
  <1> QED
    BY <1>2, <1>3, <1>4 DEF Aggregates

(* What Merge computes.                                                      *)
LEMMA MergedFields ==
  ASSUME NEW t \in Tuple, NEW in \in Tuple
  PROVE  /\ Merge(t, in).count = t.count + in.count
         /\ Merge(t, in).sum = t.sum + in.sum
         /\ Merge(t, in).min = IF t.min > in.min \/ t.count = 0 THEN in.min ELSE t.min
         /\ Merge(t, in).max = IF t.max < in.max \/ t.count = 0 THEN in.max ELSE t.max
         /\ t.min \in Int /\ t.max \in Int /\ in.min \in Int /\ in.max \in Int
  BY DEF Merge, Tuple

(* Merging two tuples makes one that aggregates the updates of both; when    *)
(* nothing comes in, nothing may be there, or a zero would pass for a value. *)
LEMMA MergeAggregates ==
  ASSUME NEW n, NEW D, Log(D, n), NEW K \in SUBSET (1 .. n), NEW L \in SUBSET (1 .. n),
         K \cap L = {}, L = {} => K = {}, NEW t \in Tuple, NEW in \in Tuple,
         Aggregates(D, t, K), Aggregates(D, in, L)
  PROVE  Aggregates(D, Merge(t, in), K \cup L)
  <1>1. IsFiniteSet(K) /\ IsFiniteSet(L) /\ K \cup L \in SUBSET (1 .. n)
    BY LogFinite
  <1>2. \A k \in K \cup L : One(D)[k] \in Int /\ Val(D)[k] \in Int /\ D[k][2] \in Int
    BY LogFacts
  <1>3. SumFunctionOnSet(One(D), K \cup L) = SumFunctionOnSet(One(D), K) + SumFunctionOnSet(One(D), L)
    BY <1>1, <1>2, SumUnion
  <1>4. SumFunctionOnSet(Val(D), K \cup L) = SumFunctionOnSet(Val(D), K) + SumFunctionOnSet(Val(D), L)
    BY <1>1, <1>2, SumUnion
  <1> DEFINE m == Merge(t, in)
  <1>5. m.count = t.count + in.count /\ m.sum = t.sum + in.sum
    BY MergedFields
  <1>6. t.count = 0 <=> K = {}
    BY OneFacts DEF Aggregates
  <1>7. CASE L = {}
    BY <1>3, <1>4, <1>5, <1>7 DEF Aggregates
  <1>8. CASE L # {}
    <2>1. Extremes(D, in, L) /\ (K # {} => Extremes(D, t, K))
      BY <1>8 DEF Aggregates
    <2>2. /\ m.min = IF t.min > in.min \/ K = {} THEN in.min ELSE t.min
          /\ m.max = IF t.max < in.max \/ K = {} THEN in.max ELSE t.max
          /\ t.min \in Int /\ t.max \in Int /\ in.min \in Int /\ in.max \in Int
      BY <1>6, MergedFields
    <2>3. Extremes(D, m, K \cup L)
      <3> HIDE DEF m
      <3>1. CASE K = {}
        <4>1. m.min = in.min /\ m.max = in.max /\ K \cup L = L
          BY <2>2, <3>1
        <4> QED
          BY <2>1, <4>1 DEF Extremes
      <3>2. CASE K # {}
        <4>1. /\ m.min \in {t.min, in.min} /\ m.min <= t.min /\ m.min <= in.min
              /\ m.max \in {t.max, in.max} /\ t.max <= m.max /\ in.max <= m.max
              /\ m.min \in Int /\ m.max \in Int
          <5>1. /\ m.min = IF t.min > in.min THEN in.min ELSE t.min
                /\ m.max = IF t.max < in.max THEN in.max ELSE t.max
            BY <2>2, <3>2, Zenon
          <5> QED
            BY <2>2, <5>1
        <4>2. /\ \E k \in K : t.min = D[k][2]
              /\ \E k \in K : t.max = D[k][2]
              /\ \E k \in L : in.min = D[k][2]
              /\ \E k \in L : in.max = D[k][2]
          BY <2>1, <3>2 DEF Extremes
        <4>3. \E k \in K \cup L : m.min = D[k][2]
          BY <4>1, <4>2, Zenon
        <4>4. \E k \in K \cup L : m.max = D[k][2]
          BY <4>1, <4>2, Zenon
        <4>5. ASSUME NEW k \in K \cup L PROVE m.min <= D[k][2] /\ D[k][2] <= m.max
          <5>1. CASE k \in K
            <6>1. t.min <= D[k][2] /\ D[k][2] <= t.max /\ D[k][2] \in Int
              BY <1>2, <2>1, <5>1 DEF Extremes
            <6> QED
              BY <2>2, <4>1, <6>1
          <5>2. CASE k \in L
            <6>1. in.min <= D[k][2] /\ D[k][2] <= in.max /\ D[k][2] \in Int
              BY <1>2, <2>1, <5>2 DEF Extremes
            <6> QED
              BY <2>2, <4>1, <6>1
          <5> QED
            BY <5>1, <5>2
        <4> QED
          BY <4>3, <4>4, <4>5 DEF Extremes
      <3> QED
        BY <3>1, <3>2
    <2> QED
      BY <1>3, <1>4, <1>5, <2>3 DEF Aggregates, m
  <1> QED
    BY <1>7, <1>8

-----------------------------------------------------------------------------
(* What became of each update k: the last block reached[k] it got to, and    *)
(* the start[b][k] it was filed under in every block b up to that one.       *)
(* Slot s of a block whose current tuple is slot q and starts at p covers    *)
(* the starts of its interval; the updates filed there, those that arrive at *)
(* block b, and what is known of them.                                       *)
History(n, D, reached, start) ==
  Log(D, n) /\ reached \in [1 .. n -> 0 .. Len(Freq)] /\ start \in [Blocks -> [1 .. n -> Nat]]

Covers(b, q, p, s, t) ==
  p - Back(b, q, s) * Freq[b] <= t /\ t < p - Back(b, q, s) * Freq[b] + Freq[b]

Filed(reached, start, b, q, p, s) ==
  {k \in DOMAIN reached : b <= reached[k] /\ Covers(b, q, p, s, start[b][k])}

Arriving(reached, start, b, p) ==
  {k \in DOMAIN reached : reached[k] = b - 1 /\ (b = 1 \/ start[b - 1][k] < p)}

(* Updates are filed at most the slack too early, none past the newest tuple;*)
(* those a block has passed on are older than its newest tuple.              *)
Stamped(D, reached, start, b, p) ==
  \A k \in DOMAIN reached : b <= reached[k] =>
    /\ Aligned(start[b][k])
    /\ start[b][k] <= NormalizedTs(D[k][1])
    /\ NormalizedTs(D[k][1]) <= start[b][k] + Slack(b)
    /\ start[b][k] < p + Freq[b]
    /\ b < reached[k] => start[b][k] < p

(* Those it has not passed on are in its newest tuple, unless it just now    *)
(* passes them on.                                                           *)
Waiting(reached, start, b, p, block) ==
  b < Len(Freq) /\ block # b + 1 =>
    \A k \in DOMAIN reached : reached[k] = b => p <= start[b][k]

(* What block b receives: the aggregate of the updates that arrive.  When    *)
(* none does, no update got that far before.                                 *)
Incoming(D, reached, start, b, p, in) ==
  LET H == Arriving(reached, start, b, p)
  IN  /\ Aggregates(D, in, H)
      /\ Aligned(in.ts) /\ 0 <= in.ts
      /\ \A k \in H : /\ in.ts <= NormalizedTs(D[k][1])
                     /\ NormalizedTs(D[k][1]) <= in.ts + Slack(b)
      /\ H = {} => in.ts = 0 /\ \A k \in DOMAIN reached : reached[k] < b

(* A block's newest tuple is empty only before it received anything.         *)
Started(reached, start, b, q, p) ==
  /\ Aligned(p) /\ 0 <= p
  /\ Filed(reached, start, b, q, p, q) = {} => p = 0

(* Block b takes the updates of H and files them under t.                    *)
Moved(reached, start, H, b, t, reached2, start2) ==
  /\ reached2 = [k \in DOMAIN reached |-> IF k \in H THEN b ELSE reached[k]]
  /\ start2 = [start EXCEPT ![b] = [k \in DOMAIN reached |->
                                      IF k \in H THEN t ELSE start[b][k]]]

-----------------------------------------------------------------------------
(* Facts about intervals.                                                    *)

(* The current slot covers one frequency from its start on.                  *)
LEMMA CurrentCovers ==
  ASSUME NEW b \in Blocks, NEW q \in Slots(b), NEW p \in Int, NEW t
  PROVE  Covers(b, q, p, q, t) <=> p <= t /\ t < p + Freq[b]
  <1>1. Back(b, q, q) = 0
    BY CircleFacts
  <1>2. 0 * Freq[b] = 0 /\ Freq[b] \in Int
    BY PolicyFacts
  <1> QED
    BY <1>1, <1>2 DEF Covers

(* No two slots of a block cover the same time.                              *)
LEMMA CoversOnce ==
  ASSUME NEW b \in Blocks, NEW q \in Slots(b), NEW r \in Slots(b), NEW s \in Slots(b),
         NEW p \in Int, NEW t \in Int, Covers(b, q, p, r, t), Covers(b, q, p, s, t)
  PROVE  r = s
  <1>1. /\ Back(b, q, r) \in Int /\ Back(b, q, s) \in Int /\ Freq[b] \in Nat \ {0}
        /\ Back(b, q, r) * Freq[b] \in Int /\ Back(b, q, s) * Freq[b] \in Int
    <2>1. Back(b, q, r) \in Slots(b) /\ Back(b, q, s) \in Slots(b)
      BY CircleFacts
    <2> QED
      BY <2>1, SlotNumbers
  <1>2. ASSUME NEW i \in Int, NEW j \in Int, i < j
        PROVE  i * Freq[b] + Freq[b] <= j * Freq[b] /\ i * Freq[b] \in Int
    <2>1. (i + 1) * Freq[b] <= j * Freq[b]
      BY <1>1, <1>2, LastsLonger
    <2>2. \A f \in Nat : (i + 1) * f = i * f + f /\ i * f \in Int
      OBVIOUS
    <2> QED
      BY <1>1, <2>1, <2>2
  <1>3. ~ (Back(b, q, r) < Back(b, q, s)) /\ ~ (Back(b, q, s) < Back(b, q, r))
    <2>1. Back(b, q, r) < Back(b, q, s) => Back(b, q, r) * Freq[b] + Freq[b] <= Back(b, q, s) * Freq[b]
      BY <1>1, <1>2
    <2>2. Back(b, q, s) < Back(b, q, r) => Back(b, q, s) * Freq[b] + Freq[b] <= Back(b, q, r) * Freq[b]
      BY <1>1, <1>2
    <2> QED
      BY <1>1, <2>1, <2>2 DEF Covers
  <1>4. Back(b, q, r) = Back(b, q, s)
    BY <1>1, <1>3
  <1>5. /\ q \in Nat /\ q < Count[b] /\ r \in Nat /\ r < Count[b]
        /\ s \in Nat /\ s < Count[b] /\ Count[b] \in Nat
    BY SlotNumbers
  <1> QED
    BY <1>4, <1>5 DEF Back

(* The slot n places back covers the time n tuples before the newest.        *)
LEMMA BackCovers ==
  ASSUME NEW b \in Blocks, NEW q \in Slots(b), NEW p \in Int, NEW t \in Int,
         NEW n \in Slots(b), p - n * Freq[b] <= t, t < p - (n - 1) * Freq[b]
  PROVE  Covers(b, q, p, Back(b, q, n), t)
  <1>1. Back(b, q, Back(b, q, n)) = n
    BY CircleFacts
  <1>2. n \in Int /\ Freq[b] \in Nat
    BY SlotNumbers
  <1>3. \A f \in Nat : (n - 1) * f = n * f - f /\ n * f \in Int
    BY <1>2
  <1> QED
    BY <1>1, <1>2, <1>3 DEF Covers

(* What is older than a whole buffer is covered by no slot.                  *)
LEMMA TooOldForAll ==
  ASSUME NEW b \in Blocks, NEW q \in Slots(b), NEW p \in Int, NEW t \in Int,
         t < p - (Count[b] - 1) * Freq[b], NEW s \in Slots(b)
  PROVE  ~ Covers(b, q, p, s, t)
  <1>1. Back(b, q, s) \in Slots(b)
    BY CircleFacts
  <1>2. /\ Back(b, q, s) \in Int /\ Count[b] - 1 \in Int /\ Freq[b] \in Nat
        /\ Back(b, q, s) <= Count[b] - 1
    BY <1>1, SlotNumbers
  <1>3. /\ Back(b, q, s) * Freq[b] <= (Count[b] - 1) * Freq[b]
        /\ Back(b, q, s) * Freq[b] \in Int /\ (Count[b] - 1) * Freq[b] \in Int
    BY <1>2, LastsLonger
  <1> QED
    BY <1>2, <1>3 DEF Covers

-----------------------------------------------------------------------------
(* What filing the arriving updates changes in the history.                  *)

(* The new history, update by update.                                        *)
LEMMA MovedFacts ==
  ASSUME NEW n, NEW D, NEW reached, NEW start, History(n, D, reached, start),
         NEW b \in Blocks, NEW t \in Nat, NEW H, NEW reached2, NEW start2,
         Moved(reached, start, H, b, t, reached2, start2)
  PROVE  /\ History(n, D, reached2, start2)
         /\ DOMAIN reached = 1 .. n /\ DOMAIN reached2 = 1 .. n
         /\ \A k \in 1 .. n : /\ reached2[k] = IF k \in H THEN b ELSE reached[k]
                              /\ start2[b][k] = IF k \in H THEN t ELSE start[b][k]
                              /\ reached[k] \in Nat /\ reached2[k] \in Nat
         /\ \A c \in Blocks : c # b => start2[c] = start[c]
         /\ \A c \in Blocks : \A k \in 1 .. n : start[c][k] \in Nat /\ start2[c][k] \in Nat
  <1>1. b \in 0 .. Len(Freq) /\ Len(Freq) \in Nat
    BY PolicyFacts DEF Blocks
  <1>2. /\ DOMAIN reached = 1 .. n
        /\ reached2 = [k \in 1 .. n |-> IF k \in H THEN b ELSE reached[k]]
        /\ start2 = [start EXCEPT ![b] = [k \in 1 .. n |-> IF k \in H THEN t ELSE start[b][k]]]
    BY DEF History, Moved
  <1>3. reached2 \in [1 .. n -> 0 .. Len(Freq)] /\ start2 \in [Blocks -> [1 .. n -> Nat]]
    BY <1>1, <1>2 DEF History
  <1>4. History(n, D, reached2, start2)
    BY <1>3 DEF History
  <1>5. \A k \in 1 .. n : /\ reached2[k] = IF k \in H THEN b ELSE reached[k]
                          /\ start2[b][k] = IF k \in H THEN t ELSE start[b][k]
    BY <1>2 DEF History
  <1>6. \A k \in 1 .. n : reached[k] \in Nat /\ reached2[k] \in Nat
    BY <1>1, <1>3 DEF History
  <1>7. \A c \in Blocks : c # b => start2[c] = start[c]
    BY <1>2 DEF History
  <1>8. \A c \in Blocks : \A k \in 1 .. n : start[c][k] \in Nat /\ start2[c][k] \in Nat
    BY <1>3 DEF History
  <1> QED
    BY <1>2, <1>3, <1>4, <1>5, <1>6, <1>7, <1>8

(* The updates that arrive at block b are at the block before it.            *)
LEMMA ArrivingFacts ==
  ASSUME NEW n, NEW D, NEW reached, NEW start, History(n, D, reached, start), NEW b, NEW p
  PROVE  /\ Arriving(reached, start, b, p) \in SUBSET (1 .. n)
         /\ DOMAIN reached = 1 .. n
         /\ \A k \in 1 .. n : k \in Arriving(reached, start, b, p)
                                <=> reached[k] = b - 1 /\ (b = 1 \/ start[b - 1][k] < p)
  BY DEF Arriving, History

(* Other blocks hold what they held; block b also what arrived.              *)
LEMMA FiledAfter ==
  ASSUME NEW n, NEW D, NEW reached, NEW start, History(n, D, reached, start),
         NEW b \in Blocks, NEW t \in Nat, NEW p0, NEW reached2, NEW start2,
         NEW H, H = Arriving(reached, start, b, p0),
         Moved(reached, start, H, b, t, reached2, start2),
         NEW c \in Blocks, NEW q, NEW p, NEW s
  PROVE  /\ Filed(reached, start, c, q, p, s) \in SUBSET (1 .. n)
         /\ c # b => Filed(reached2, start2, c, q, p, s) = Filed(reached, start, c, q, p, s)
         /\ c = b /\ Covers(b, q, p, s, t) =>
              Filed(reached2, start2, c, q, p, s) = Filed(reached, start, c, q, p, s) \cup H
         /\ c = b /\ ~ Covers(b, q, p, s, t) =>
              Filed(reached2, start2, c, q, p, s) = Filed(reached, start, c, q, p, s)
         /\ c = b => Filed(reached, start, c, q, p, s) \cap H = {}
  <1>1. /\ DOMAIN reached = 1 .. n /\ DOMAIN reached2 = 1 .. n
        /\ \A k \in 1 .. n : /\ reached2[k] = IF k \in H THEN b ELSE reached[k]
                             /\ start2[b][k] = IF k \in H THEN t ELSE start[b][k]
                             /\ reached[k] \in Nat /\ reached2[k] \in Nat
        /\ \A d \in Blocks : d # b => start2[d] = start[d]
        /\ H \in SUBSET (1 .. n) /\ \A k \in H : reached[k] = b - 1
        /\ b \in Nat /\ c \in Nat
    <2>1. b \in Nat /\ c \in Nat
      BY PolicyFacts
    <2> QED
      BY <2>1, MovedFacts, ArrivingFacts
  <1>2. ASSUME c # b, NEW k \in 1 .. n
        PROVE  c <= reached2[k] <=> c <= reached[k]
    BY <1>1, <1>2
  <1>3. c # b => Filed(reached2, start2, c, q, p, s) = Filed(reached, start, c, q, p, s)
    BY <1>1, <1>2 DEF Filed
  <1>4. ASSUME NEW k \in 1 .. n
        PROVE  /\ k \in H => b <= reached2[k] /\ ~ (b <= reached[k]) /\ start2[b][k] = t
               /\ k \notin H => /\ b <= reached2[k] <=> b <= reached[k]
                                /\ start2[b][k] = start[b][k]
    BY <1>1
  <1>5. ASSUME c = b, Covers(b, q, p, s, t)
        PROVE  Filed(reached2, start2, c, q, p, s) = Filed(reached, start, c, q, p, s) \cup H
    BY <1>1, <1>4, <1>5 DEF Filed
  <1>6. ASSUME c = b, ~ Covers(b, q, p, s, t)
        PROVE  Filed(reached2, start2, c, q, p, s) = Filed(reached, start, c, q, p, s)
    BY <1>1, <1>4, <1>6 DEF Filed
  <1>7. /\ Filed(reached, start, c, q, p, s) \in SUBSET (1 .. n)
        /\ c = b => Filed(reached, start, c, q, p, s) \cap H = {}
    BY <1>1, <1>4 DEF Filed
  <1> QED
    BY <1>3, <1>5, <1>6, <1>7

(* Where the updates are filed stays within the bounds.                      *)
LEMMA StampedAfter ==
  ASSUME NEW n, NEW D, NEW reached, NEW start, History(n, D, reached, start),
         NEW b \in Blocks, NEW p0 \in Int, NEW in, in.ts \in Nat,
         Incoming(D, reached, start, b, p0, in), NEW reached2, NEW start2,
         Moved(reached, start, Arriving(reached, start, b, p0), b, in.ts, reached2, start2),
         NEW c \in Blocks, NEW p \in Int, NEW p2 \in Int, Stamped(D, reached, start, c, p),
         p <= p2, c # b => p2 = p, c = b - 1 => p = p0, c = b => in.ts < p2 + Freq[b]
  PROVE  Stamped(D, reached2, start2, c, p2)
  <1> DEFINE H == Arriving(reached, start, b, p0)
  <1>1. /\ DOMAIN reached = 1 .. n /\ DOMAIN reached2 = 1 .. n
        /\ \A k \in 1 .. n : /\ reached2[k] = IF k \in H THEN b ELSE reached[k]
                             /\ start2[b][k] = IF k \in H THEN in.ts ELSE start[b][k]
                             /\ reached[k] \in Nat /\ reached2[k] \in Nat
        /\ \A d \in Blocks : d # b => start2[d] = start[d]
        /\ \A k \in 1 .. n : start[c][k] \in Nat
    BY MovedFacts
  <1>2. \A k \in H : reached[k] = b - 1 /\ (b = 1 \/ start[b - 1][k] < p0)
    BY ArrivingFacts
  <1>3. b \in Nat /\ c \in Nat /\ 1 <= c /\ Freq[c] \in Nat
    BY PolicyFacts DEF Blocks
  <1> SUFFICES ASSUME NEW k \in 1 .. n, c <= reached2[k]
               PROVE  /\ Aligned(start2[c][k])
                      /\ start2[c][k] <= NormalizedTs(D[k][1])
                      /\ NormalizedTs(D[k][1]) <= start2[c][k] + Slack(c)
                      /\ start2[c][k] < p2 + Freq[c]
                      /\ c < reached2[k] => start2[c][k] < p2
    BY <1>1 DEF Stamped
  <1>4. CASE c = b /\ k \in H
    BY <1>1, <1>3, <1>4 DEF Incoming
  <1>5. CASE c # b \/ k \notin H
    <2>1. c <= reached[k] /\ start2[c][k] = start[c][k]
      BY <1>1, <1>2, <1>3, <1>5
    <2>2. /\ Aligned(start[c][k])
          /\ start[c][k] <= NormalizedTs(D[k][1])
          /\ NormalizedTs(D[k][1]) <= start[c][k] + Slack(c)
          /\ start[c][k] < p + Freq[c]
          /\ c < reached[k] => start[c][k] < p
      BY <1>1, <2>1 DEF Stamped
    <2>3. start[c][k] \in Nat /\ start[c][k] < p2 + Freq[c]
      BY <1>1, <1>3, <2>2
    <2>4. ASSUME c < reached2[k] PROVE start[c][k] < p2
      <3>1. CASE c < reached[k]
        BY <1>1, <2>2, <3>1
      <3>2. CASE ~ (c < reached[k])
        <4>1. k \in H /\ c = b - 1
          BY <1>1, <1>2, <1>3, <1>5, <2>1, <2>4, <3>2
        <4>2. start[c][k] < p0 /\ p = p0
          BY <1>2, <1>3, <4>1
        <4> QED
          BY <1>1, <4>2
      <3> QED
        BY <3>1, <3>2
    <2> QED
      BY <2>1, <2>2, <2>3, <2>4
  <1> QED
    BY <1>4, <1>5

(* Whoever is still to be passed on is in a newest tuple.                    *)
LEMMA WaitingAfter ==
  ASSUME NEW n, NEW D, NEW reached, NEW start, History(n, D, reached, start),
         NEW b \in Blocks, NEW p0 \in Int, NEW t \in Nat, NEW reached2, NEW start2,
         Moved(reached, start, Arriving(reached, start, b, p0), b, t, reached2, start2),
         NEW c \in Blocks, NEW p \in Int, NEW p2 \in Int, NEW block2,
         Waiting(reached, start, c, p, b), c # b => p2 = p, c = b - 1 => p = p0,
         c = b /\ b < Len(Freq) => block2 = b + 1 \/ (p2 = p /\ p <= t)
  PROVE  Waiting(reached2, start2, c, p2, block2)
  <1> DEFINE H == Arriving(reached, start, b, p0)
  <1>1. /\ DOMAIN reached = 1 .. n /\ DOMAIN reached2 = 1 .. n
        /\ \A k \in 1 .. n : /\ reached2[k] = IF k \in H THEN b ELSE reached[k]
                             /\ start2[b][k] = IF k \in H THEN t ELSE start[b][k]
        /\ \A d \in Blocks : d # b => start2[d] = start[d]
        /\ \A k \in 1 .. n : start[c][k] \in Nat
    BY MovedFacts
  <1>2. \A k \in 1 .. n : k \in H <=> reached[k] = b - 1 /\ (b = 1 \/ start[b - 1][k] < p0)
    BY ArrivingFacts
  <1>3. b \in Nat /\ c \in Nat /\ 1 <= c
    BY PolicyFacts DEF Blocks
  <1> SUFFICES ASSUME c < Len(Freq), block2 # c + 1, NEW k \in 1 .. n, reached2[k] = c
               PROVE  p2 <= start2[c][k]
    BY <1>1 DEF Waiting
  <1>4. CASE c = b
    <2>1. p2 = p /\ p <= t
      BY <1>4
    <2>2. CASE k \in H
      BY <1>1, <1>4, <2>1, <2>2
    <2>3. CASE k \notin H
      <3>1. reached[k] = c /\ start2[c][k] = start[c][k]
        BY <1>1, <1>4, <2>3
      <3>2. b # c + 1
        BY <1>3, <1>4
      <3> QED
        BY <1>1, <2>1, <3>1, <3>2 DEF Waiting
    <2> QED
      BY <2>2, <2>3
  <1>5. CASE c # b
    <2>1. k \notin H /\ reached[k] = c /\ start2[c][k] = start[c][k] /\ p2 = p
      BY <1>1, <1>5
    <2>2. CASE c = b - 1
      BY <1>1, <1>2, <1>3, <2>1, <2>2
    <2>3. CASE c # b - 1
      <3>1. b # c + 1
        BY <1>3, <2>3
      <3> QED
        BY <1>1, <2>1, <3>1 DEF Waiting
    <2> QED
      BY <2>2, <2>3
  <1> QED
    BY <1>4, <1>5

(* Nothing arrives only where nothing was filed.                             *)
LEMMA NothingFiled ==
  ASSUME NEW n, NEW D, NEW reached, NEW start, History(n, D, reached, start),
         NEW b \in Blocks, NEW p0, NEW in, Incoming(D, reached, start, b, p0, in),
         Arriving(reached, start, b, p0) = {}, NEW q, NEW p, NEW s
  PROVE  Filed(reached, start, b, q, p, s) = {} /\ in.ts = 0
  <1>1. in.ts = 0 /\ \A k \in 1 .. n : reached[k] < b
    BY DEF Incoming, History
  <1>2. DOMAIN reached = 1 .. n /\ b \in Nat /\ \A k \in 1 .. n : reached[k] \in Nat
    BY PolicyFacts DEF History
  <1>3. \A k \in 1 .. n : ~ (b <= reached[k])
    BY <1>1, <1>2
  <1> QED
    BY <1>1, <1>2, <1>3 DEF Filed

(* The slot that covers what arrives takes it; the buffer it is kept in      *)
(* aggregated what had been filed there.                                     *)
LEMMA FilingKept ==
  ASSUME NEW n, NEW D, NEW reached, NEW start, History(n, D, reached, start),
         NEW b \in Blocks, NEW p0, NEW in \in Tuple, in.ts \in Nat,
         Incoming(D, reached, start, b, p0, in), NEW reached2, NEW start2,
         Moved(reached, start, Arriving(reached, start, b, p0), b, in.ts, reached2, start2),
         NEW q \in Slots(b), NEW p \in Int, NEW r \in Slots(b), Covers(b, q, p, r, in.ts),
         NEW buffer \in [Slots(b) -> Tuple], NEW after,
         after = [buffer EXCEPT ![r] = Merge(buffer[r], in)], NEW s \in Slots(b),
         Aggregates(D, buffer[s], Filed(reached, start, b, q, p, s))
  PROVE  Aggregates(D, after[s], Filed(reached2, start2, b, q, p, s))
  <1>1. PICK H : H = Arriving(reached, start, b, p0)
    OBVIOUS
  <1>2. PICK K : K = Filed(reached, start, b, q, p, s)
    OBVIOUS
  <1>3. H \in SUBSET (1 .. n) /\ K \in SUBSET (1 .. n) /\ K \cap H = {}
    BY <1>1, <1>2, FiledAfter, ArrivingFacts
  <1>4. CASE s = r
    <2>1. Filed(reached2, start2, b, q, p, s) = K \cup H
      BY <1>1, <1>2, <1>4, FiledAfter
    <2>2. Aggregates(D, buffer[r], K) /\ Aggregates(D, in, H) /\ (H = {} => K = {})
      BY <1>1, <1>2, <1>4, NothingFiled DEF Incoming
    <2>3. Aggregates(D, Merge(buffer[r], in), K \cup H)
      <3>1. buffer[r] \in Tuple /\ Log(D, n)
        BY DEF History
      <3> QED
        BY <1>3, <2>2, <3>1, MergeAggregates
    <2>4. after[s] = Merge(buffer[r], in)
      BY <1>4
    <2> QED
      BY <2>1, <2>3, <2>4
  <1>5. CASE s # r
    <2>1. ~ Covers(b, q, p, s, in.ts)
      <3>1. in.ts \in Int
        OBVIOUS
      <3> QED
        BY <1>5, <3>1, CoversOnce
    <2>2. Filed(reached2, start2, b, q, p, s) = K
      BY <1>1, <1>2, <2>1, FiledAfter
    <2>3. after[s] = buffer[s] /\ Aggregates(D, buffer[s], K)
      BY <1>2, <1>5
    <2> QED
      BY <2>2, <2>3
  <1> QED
    BY <1>4, <1>5

(* Data of the past goes on as it came: what arrives next is what arrived.   *)
LEMMA PastArrives ==
  ASSUME NEW n, NEW D, NEW reached, NEW start, History(n, D, reached, start),
         NEW b \in Blocks, b + 1 \in Blocks, NEW p0, NEW in \in Tuple, in.ts \in Nat,
         Incoming(D, reached, start, b, p0, in), NEW reached2, NEW start2,
         Moved(reached, start, Arriving(reached, start, b, p0), b, in.ts, reached2, start2),
         NEW q, NEW p \in Int, in.ts < p, Waiting(reached, start, b, p, b),
         Started(reached, start, b, q, p)
  PROVE  Incoming(D, reached2, start2, b + 1, p, in)
  <1>1. PICK H : H = Arriving(reached, start, b, p0)
    OBVIOUS
  <1>2. /\ DOMAIN reached = 1 .. n /\ DOMAIN reached2 = 1 .. n
        /\ \A k \in 1 .. n : /\ reached2[k] = IF k \in H THEN b ELSE reached[k]
                             /\ start2[b][k] = IF k \in H THEN in.ts ELSE start[b][k]
                             /\ start[b][k] \in Nat
    BY <1>1, MovedFacts
  <1>3. b \in Nat /\ 1 <= b /\ b < Len(Freq) /\ b # b + 1 /\ (b + 1) - 1 = b /\ b + 1 # 1
    BY PolicyFacts DEF Blocks
  <1>4. H \in SUBSET (1 .. n) /\ \A k \in 1 .. n : k \notin H /\ reached[k] = b => p <= start[b][k]
    BY <1>1, <1>2, <1>3, ArrivingFacts DEF Waiting
  <1>5. Arriving(reached2, start2, b + 1, p) = H
    <2>1. ASSUME NEW k \in 1 .. n
          PROVE  reached2[k] = b /\ start2[b][k] < p <=> k \in H
      BY <1>2, <1>4
    <2>2. Arriving(reached2, start2, b + 1, p) = {k \in 1 .. n : reached2[k] = b /\ start2[b][k] < p}
      BY <1>2, <1>3 DEF Arriving
    <2> QED
      BY <1>4, <2>1, <2>2
  <1>6. H # {}
    <2> SUFFICES ASSUME H = {} PROVE FALSE
      OBVIOUS
    <2>1. Filed(reached, start, b, q, p, q) = {} /\ in.ts = 0
      BY <1>1, NothingFiled
    <2> QED
      BY <2>1 DEF Started
  <1>7. \A k \in H : /\ in.ts <= NormalizedTs(D[k][1])
                     /\ NormalizedTs(D[k][1]) <= in.ts + Slack(b + 1)
    <2>1. Slack(b) \in Nat /\ Slack(b) <= Slack(b + 1)
      <3>1. /\ Slack(b) \in Nat /\ Slack(b + 1) = Slack(b) + Freq[b] - Freq[1]
            /\ Freq[1] <= Freq[b] /\ Freq[b] \in Nat /\ Freq[1] \in Nat
        BY SlackFacts, FrequenciesAligned, PolicyFacts
      <3> QED
        BY <3>1
    <2> SUFFICES ASSUME NEW k \in H
                 PROVE  /\ in.ts <= NormalizedTs(D[k][1])
                        /\ NormalizedTs(D[k][1]) <= in.ts + Slack(b + 1)
      OBVIOUS
    <2>2. /\ in.ts <= NormalizedTs(D[k][1])
          /\ NormalizedTs(D[k][1]) <= in.ts + Slack(b)
      BY <1>1 DEF Incoming
    <2>3. NormalizedTs(D[k][1]) \in Nat
      BY <1>4, LogFacts, NormalizedFacts DEF History
    <2>4. Slack(b + 1) \in Nat
      BY SlackFacts
    <2> QED
      BY <2>1, <2>2, <2>3, <2>4
  <1>8. Aggregates(D, in, H) /\ Aligned(in.ts) /\ 0 <= in.ts
    BY <1>1 DEF Incoming
  <1> QED
    BY <1>5, <1>6, <1>7, <1>8, Zenon DEF Incoming

(* A closed tuple goes on: what arrives next is what was filed in it.        *)
LEMMA ClosedArrives ==
  ASSUME NEW n, NEW D, NEW reached, NEW start, History(n, D, reached, start),
         NEW b \in Blocks, b + 1 \in Blocks, NEW p0, NEW in \in Tuple, in.ts \in Nat,
         Incoming(D, reached, start, b, p0, in), NEW reached2, NEW start2,
         Moved(reached, start, Arriving(reached, start, b, p0), b, in.ts, reached2, start2),
         NEW q \in Slots(b), NEW p \in Int, NEW p2 \in Int, p + Freq[b] <= p2, p2 <= in.ts,
         Waiting(reached, start, b, p, b), Started(reached, start, b, q, p),
         Stamped(D, reached, start, b, p),
         NEW out \in Tuple, out.ts = p, Aggregates(D, out, Filed(reached, start, b, q, p, q))
  PROVE  Incoming(D, reached2, start2, b + 1, p2, out)
  <1>1. PICK H : H = Arriving(reached, start, b, p0)
    OBVIOUS
  <1>2. /\ DOMAIN reached = 1 .. n /\ DOMAIN reached2 = 1 .. n
        /\ \A k \in 1 .. n : /\ reached2[k] = IF k \in H THEN b ELSE reached[k]
                             /\ start2[b][k] = IF k \in H THEN in.ts ELSE start[b][k]
                             /\ start[b][k] \in Nat /\ reached[k] \in Nat
    BY <1>1, MovedFacts
  <1>3. b \in Nat /\ 1 <= b /\ b < Len(Freq) /\ b # b + 1 /\ (b + 1) - 1 = b /\ b + 1 # 1
    BY PolicyFacts DEF Blocks
  <1>4. /\ H \in SUBSET (1 .. n) /\ \A k \in H : reached[k] = b - 1
        /\ \A k \in 1 .. n : reached[k] = b => p <= start[b][k]
        /\ \A k \in 1 .. n : b <= reached[k] =>
             start[b][k] < p + Freq[b] /\ (b < reached[k] => start[b][k] < p)
        /\ Freq[b] \in Nat
    <2>1. H \in SUBSET (1 .. n) /\ \A k \in H : reached[k] = b - 1
      BY <1>1, <1>2 DEF Arriving
    <2>2. \A k \in 1 .. n : reached[k] = b => p <= start[b][k]
      BY <1>2, <1>3 DEF Waiting
    <2>3. \A k \in 1 .. n : b <= reached[k] =>
             start[b][k] < p + Freq[b] /\ (b < reached[k] => start[b][k] < p)
      BY <1>2 DEF Stamped
    <2> QED
      BY <2>1, <2>2, <2>3, PolicyFacts
  <1>5. PICK K : K = Filed(reached, start, b, q, p, q)
    OBVIOUS
  <1>6. K = {k \in 1 .. n : b <= reached[k] /\ p <= start[b][k] /\ start[b][k] < p + Freq[b]}
    BY <1>2, <1>5, CurrentCovers DEF Filed
  <1>7. \A k \in 1 .. n : k \in K <=> reached[k] = b
    <2> TAKE k \in 1 .. n
    <2> QED
      BY <1>2, <1>3, <1>4, <1>6
  <1>8. Arriving(reached2, start2, b + 1, p2) = K
    <2>1. ASSUME NEW k \in 1 .. n
          PROVE  reached2[k] = b /\ start2[b][k] < p2 <=> k \in K
      <3>1. CASE k \in H
        BY <1>2, <1>3, <1>4, <1>7, <3>1
      <3>2. CASE k \notin H
        <4>1. reached2[k] = reached[k] /\ start2[b][k] = start[b][k] /\ start[b][k] \in Nat
          BY <1>2, <3>2
        <4>2. reached[k] = b => start[b][k] < p + Freq[b] /\ Freq[b] \in Nat
          BY <1>3, <1>4
        <4>3. reached[k] = b => start[b][k] < p2
          BY <4>1, <4>2
        <4> QED
          BY <1>7, <4>1, <4>3
      <3> QED
        BY <3>1, <3>2
    <2>2. Arriving(reached2, start2, b + 1, p2) = {k \in 1 .. n : reached2[k] = b /\ start2[b][k] < p2}
      BY <1>2, <1>3 DEF Arriving
    <2>3. K \in SUBSET (1 .. n)
      BY <1>6
    <2> QED
      BY <2>1, <2>2, <2>3
  <1>9. \A k \in K : p <= NormalizedTs(D[k][1]) /\ NormalizedTs(D[k][1]) <= p + Slack(b + 1)
    <2> SUFFICES ASSUME NEW k \in K
                 PROVE  p <= NormalizedTs(D[k][1]) /\ NormalizedTs(D[k][1]) <= p + Slack(b + 1)
      OBVIOUS
    <2>1. k \in 1 .. n /\ reached[k] = b /\ p <= start[b][k] /\ start[b][k] < p + Freq[b]
      BY <1>6, <1>7
    <2>2. /\ Aligned(start[b][k]) /\ start[b][k] \in Int
          /\ start[b][k] <= NormalizedTs(D[k][1])
          /\ NormalizedTs(D[k][1]) <= start[b][k] + Slack(b)
      BY <1>2, <1>3, <2>1 DEF Stamped
    <2>3. start[b][k] <= p + Freq[b] - Freq[1]
      <3>1. /\ Aligned(p) /\ Aligned(Freq[b]) /\ Freq[b] \in Int /\ 1 \in Int
            /\ p + Freq[b] = p + 1 * Freq[b] /\ p + Freq[b] \in Int
        BY <1>4, FrequenciesAligned DEF Started
      <3>2. Aligned(p + 1 * Freq[b])
        BY <3>1, AlignedSum, Zenon
      <3>3. Aligned(p + Freq[b])
        BY <3>1, <3>2
      <3>4. start[b][k] <= (p + Freq[b]) - Freq[1]
        BY <2>1, <2>2, <3>1, <3>3, AlignedGap
      <3>5. Freq[1] \in Nat
        BY PolicyFacts
      <3> QED
        BY <3>1, <3>4, <3>5
    <2>4. /\ Slack(b) \in Nat /\ Slack(b + 1) = Slack(b) + Freq[b] - Freq[1]
          /\ Freq[b] \in Nat /\ Freq[1] \in Nat
      BY SlackFacts, PolicyFacts
    <2>5. NormalizedTs(D[k][1]) \in Nat
      BY <2>1, LogFacts, NormalizedFacts DEF History
    <2> QED
      BY <2>1, <2>2, <2>3, <2>4, <2>5
  <1>10. ASSUME K = {} PROVE out.ts = 0 /\ \A k \in DOMAIN reached2 : reached2[k] < b + 1
    <2>1. p = 0
      BY <1>5, <1>10 DEF Started
    <2>2. ASSUME NEW k \in 1 .. n PROVE reached[k] < b
      BY <1>2, <1>3, <1>4, <1>7, <1>10, <2>1
    <2>3. ASSUME NEW k \in 1 .. n PROVE reached2[k] < b + 1
      BY <1>2, <1>3, <2>2
    <2> QED
      BY <1>2, <2>1, <2>3
  <1>11. Aligned(out.ts) /\ 0 <= out.ts
    BY DEF Started
  <1>12. Aggregates(D, out, K)
    BY <1>5
  <1> QED
    BY <1>8, <1>9, <1>10, <1>11, <1>12, Zenon DEF Incoming

(* A block that does not move keeps what it had, one that moves gets some.   *)
LEMMA StartedAfter ==
  ASSUME NEW n, NEW D, NEW reached, NEW start, History(n, D, reached, start),
         NEW b \in Blocks, NEW p0, NEW in, in.ts \in Nat,
         Incoming(D, reached, start, b, p0, in), NEW reached2, NEW start2,
         Moved(reached, start, Arriving(reached, start, b, p0), b, in.ts, reached2, start2),
         NEW c \in Blocks, NEW q \in Slots(c), NEW p \in Int, NEW q2 \in Slots(c), NEW p2 \in Int,
         Started(reached, start, c, q, p), Aligned(p2),
         \/ q2 = q /\ p2 = p
         \/ c = b /\ p + Freq[b] <= p2 /\ p2 <= in.ts /\ in.ts < p2 + Freq[b]
  PROVE  Started(reached2, start2, c, q2, p2)
  <1>1. PICK H : H = Arriving(reached, start, b, p0)
    OBVIOUS
  <1>2. Freq[b] \in Nat \ {0} /\ 0 <= p
    BY PolicyFacts DEF Started
  <1>3. CASE q2 = q /\ p2 = p
    <2>1. Filed(reached, start, c, q, p, q) \subseteq Filed(reached2, start2, c, q, p, q)
      BY <1>1, FiledAfter
    <2> QED
      BY <1>3, <2>1 DEF Started
  <1>4. CASE c = b /\ p + Freq[b] <= p2 /\ p2 <= in.ts /\ in.ts < p2 + Freq[b]
    <2>1. Covers(b, q2, p2, q2, in.ts)
      BY <1>4, CurrentCovers
    <2>2. H \subseteq Filed(reached2, start2, c, q2, p2, q2)
      BY <1>1, <1>4, <2>1, FiledAfter
    <2>3. H # {}
      <3> SUFFICES ASSUME H = {} PROVE FALSE
        OBVIOUS
      <3>1. in.ts = 0
        BY <1>1, NothingFiled
      <3> QED
        BY <1>2, <1>4, <3>1
    <2>4. 0 <= p2
      BY <1>2, <1>4
    <2> QED
      BY <2>2, <2>3, <2>4 DEF Started
  <1> QED
    BY <1>3, <1>4

-----------------------------------------------------------------------------
(* The invariant.  Every accepted update has a history that explains what    *)
(* the blocks hold: each slot aggregates exactly the updates filed in its    *)
(* interval, and what is on its way aggregates those that arrive.            *)
Before == IF ctx.block = 1 THEN 0 ELSE pos_ts[ctx.block - 1]
Filing(D, reached, start, b) ==
  \A s \in Slots(b) :
    Aggregates(D, tuples[b][s], Filed(reached, start, b, pos[b], pos_ts[b], s))
Tracked(n, D, reached, start) ==
  /\ History(n, D, reached, start)
  /\ \A u \in Times \X Values : accepted[u] = SumFunctionOnSet(One(D), Fibre(1 .. n, D, {u}))
  /\ \A k \in 1 .. n : reached[k] = 0 => ctx.block = 1
  /\ \A b \in Blocks : /\ Stamped(D, reached, start, b, pos_ts[b])
                       /\ Waiting(reached, start, b, pos_ts[b], ctx.block)
                       /\ Started(reached, start, b, pos[b], pos_ts[b])
                       /\ Filing(D, reached, start, b)
  /\ ctx.block # 0 => Incoming(D, reached, start, ctx.block, Before, ctx.in)

Explained == \E n, D, reached, start : Tracked(n, D, reached, start)

(* The three ways in which a block deals with what arrives.                  *)
Stays(b) ==
  /\ pos'[b] = pos[b] /\ pos_ts'[b] = pos_ts[b] /\ ctx'.block = 0
  /\ pos_ts[b] <= ctx.in.ts /\ ctx.in.ts < pos_ts[b] + Freq[b]
GoesOn(b) ==
  /\ pos'[b] = pos[b] /\ pos_ts'[b] = pos_ts[b] /\ PassOn(b, ctx.in)
  /\ ctx.in.ts < pos_ts[b]
Closes(b) ==
  /\ PassOn(b, Current(b)) /\ Current(b).ts = pos_ts[b] /\ Aligned(pos_ts'[b])
  /\ pos_ts[b] + Freq[b] <= pos_ts'[b]
  /\ pos_ts'[b] <= ctx.in.ts /\ ctx.in.ts < pos_ts'[b] + Freq[b]

(* The types the lemmas above ask for.                                       *)
LEMMA TrackedTypes ==
  ASSUME TypeOK, NEW b \in Blocks, ctx.block = b, NEW n, NEW D, NEW reached, NEW start,
         Tracked(n, D, reached, start)
  PROVE  /\ ctx.in \in Tuple /\ ctx.in.ts \in Nat /\ Before \in Int
         /\ History(n, D, reached, start)
         /\ Incoming(D, reached, start, b, Before, ctx.in)
         /\ \A c \in Blocks : c = b - 1 => Before = pos_ts[c]
         /\ \A c \in Blocks : pos_ts[c] \in Int /\ pos[c] \in Slots(c)
  <1>1. b \in Nat /\ 1 <= b /\ b <= Len(Freq) /\ Len(Freq) \in Nat
    BY PolicyFacts DEF Blocks
  <1>2. Incoming(D, reached, start, b, Before, ctx.in) /\ History(n, D, reached, start)
    BY <1>1 DEF Tracked
  <1>3. ctx.in \in Tuple /\ ctx.in.ts \in Int
    BY BlockTypes, TupleNumbers
  <1>4. ctx.in.ts \in Nat
    BY <1>2, <1>3 DEF Incoming
  <1>5. \A c \in Blocks : pos_ts[c] \in Int /\ pos[c] \in Slots(c)
    BY BlockTypes
  <1>6. b # 1 => b - 1 \in Blocks
    BY <1>1 DEF Blocks
  <1>7. Before \in Int
    BY <1>5, <1>6 DEF Before
  <1>8. \A c \in Blocks : c = b - 1 => Before = pos_ts[c]
    BY <1>1 DEF Before, Blocks
  <1> QED
    BY <1>2, <1>3, <1>4, <1>5, <1>7, <1>8

(* Each of them keeps the history an explanation, if the slots are.          *)
LEMMA BlockExplained ==
  ASSUME TypeOK, TypeOK', NEW b \in Blocks, ctx.block = b,
         NEW n, NEW D, NEW reached, NEW start, Tracked(n, D, reached, start),
         NEW reached2, NEW start2,
         Moved(reached, start, Arriving(reached, start, b, Before), b, ctx.in.ts, reached2, start2),
         UNCHANGED accepted,
         \A c \in Blocks \ {b} : pos'[c] = pos[c] /\ pos_ts'[c] = pos_ts[c] /\ tuples'[c] = tuples[c],
         Filing(D, reached2, start2, b)', Stays(b) \/ GoesOn(b) \/ Closes(b)
  PROVE  Tracked(n, D, reached2, start2)'
  <1>1. /\ ctx.in \in Tuple /\ ctx.in.ts \in Nat /\ Before \in Int
        /\ History(n, D, reached, start)
        /\ Incoming(D, reached, start, b, Before, ctx.in)
        /\ \A c \in Blocks : c = b - 1 => Before = pos_ts[c]
    BY TrackedTypes
  <1>2. \A c \in Blocks : /\ pos_ts[c] \in Int /\ pos[c] \in Slots(c)
                          /\ pos_ts'[c] \in Int /\ pos'[c] \in Slots(c)
    BY DEF TypeOK
  <1>3. PICK H : H = Arriving(reached, start, b, Before)
    OBVIOUS
  <1>4. PICK in : in = ctx.in
    OBVIOUS
  <1>5. PICK p0 \in Int : p0 = Before
    BY <1>1
  <1>6. /\ in \in Tuple /\ in.ts \in Nat /\ Incoming(D, reached, start, b, p0, in)
        /\ Moved(reached, start, Arriving(reached, start, b, p0), b, in.ts, reached2, start2)
        /\ Moved(reached, start, H, b, in.ts, reached2, start2)
        /\ H = Arriving(reached, start, b, p0)
    BY <1>1, <1>3, <1>4, <1>5
  <1>7. /\ History(n, D, reached2, start2)
        /\ DOMAIN reached = 1 .. n /\ DOMAIN reached2 = 1 .. n
        /\ \A k \in 1 .. n : reached2[k] = IF k \in H THEN b ELSE reached[k]
    BY <1>1, <1>6, MovedFacts
  <1>8. /\ b \in Nat /\ 1 <= b /\ b <= Len(Freq) /\ Len(Freq) \in Nat /\ Freq[b] \in Nat \ {0}
        /\ b < Len(Freq) => b + 1 \in Blocks /\ b + 1 # 1 /\ b + 1 # 0
    BY PolicyFacts DEF Blocks
  <1>9. \A c \in Blocks : /\ pos_ts[c] <= pos_ts'[c]
                          /\ c # b => pos_ts'[c] = pos_ts[c] /\ pos'[c] = pos[c]
                          /\ c = b - 1 => pos_ts[c] = p0
    <2> TAKE c \in Blocks
    <2>1. CASE c # b
      BY <1>1, <1>2, <1>5, <2>1
    <2>2. CASE c = b
      BY <1>1, <1>2, <1>5, <1>8, <2>2 DEF Stays, GoesOn, Closes
    <2> QED
      BY <2>1, <2>2
  <1>10. \A k \in 1 .. n : reached2[k] # 0
    <2> SUFFICES ASSUME NEW k \in 1 .. n, k \notin H, reached[k] = 0 PROVE FALSE
      BY <1>7, <1>8
    <2>1. b = 1
      BY DEF Tracked
    <2>2. k \in H
      BY <1>1, <1>6, <2>1, ArrivingFacts
    <2> QED
      BY <2>2
  <1>11. in.ts < pos_ts'[b] + Freq[b]
    BY <1>2, <1>4, <1>6, <1>8 DEF Stays, GoesOn, Closes
  <1>12. ASSUME NEW c \in Blocks PROVE Stamped(D, reached2, start2, c, pos_ts'[c])
    <2>1. Stamped(D, reached, start, c, pos_ts[c])
      BY DEF Tracked
    <2>2. c = b => in.ts < pos_ts'[c] + Freq[b]
      BY <1>11
    <2> QED
      BY <1>1, <1>2, <1>6, <1>9, <2>1, <2>2, StampedAfter
  <1>13. ASSUME NEW c \in Blocks PROVE Waiting(reached2, start2, c, pos_ts'[c], ctx'.block)
    <2>1. Waiting(reached, start, c, pos_ts[c], b)
      BY DEF Tracked
    <2>2. b < Len(Freq) => ctx'.block = b + 1 \/ (pos_ts'[b] = pos_ts[b] /\ pos_ts[b] <= in.ts)
      BY <1>4 DEF Stays, GoesOn, Closes, PassOn
    <2> QED
      BY <1>1, <1>2, <1>6, <1>9, <2>1, <2>2, WaitingAfter
  <1>14. ASSUME NEW c \in Blocks PROVE Started(reached2, start2, c, pos'[c], pos_ts'[c])
    <2>1. Started(reached, start, c, pos[c], pos_ts[c])
      BY DEF Tracked
    <2>2. CASE pos'[c] = pos[c] /\ pos_ts'[c] = pos_ts[c]
      <3>1. Aligned(pos_ts'[c])
        BY <2>1, <2>2 DEF Started
      <3> QED
        BY <1>1, <1>2, <1>6, <2>1, <2>2, <3>1, StartedAfter
    <2>3. CASE c = b /\ Closes(b)
      <3>1. /\ Aligned(pos_ts'[c]) /\ pos_ts[c] + Freq[b] <= pos_ts'[c]
            /\ pos_ts'[c] <= in.ts /\ in.ts < pos_ts'[c] + Freq[b]
        BY <1>4, <2>3 DEF Closes
      <3> QED
        BY <1>1, <1>2, <1>6, <2>1, <2>3, <3>1, StartedAfter
    <2> QED
      BY <1>9, <2>2, <2>3 DEF Stays, GoesOn
  <1>15. ASSUME NEW c \in Blocks PROVE Filing(D, reached2, start2, c)'
    <2>1. CASE c = b
      BY <2>1
    <2>2. CASE c # b
      <3>1. ASSUME NEW s \in Slots(c)
            PROVE  Aggregates(D, tuples'[c][s], Filed(reached2, start2, c, pos'[c], pos_ts'[c], s))
        <4>1. Filed(reached2, start2, c, pos[c], pos_ts[c], s) = Filed(reached, start, c, pos[c], pos_ts[c], s)
          BY <1>1, <1>6, <2>2, FiledAfter
        <4>2. Aggregates(D, tuples[c][s], Filed(reached, start, c, pos[c], pos_ts[c], s))
          BY DEF Tracked, Filing
        <4> QED
          BY <1>9, <2>2, <4>1, <4>2
      <3> QED
        BY <3>1 DEF Filing
    <2> QED
      BY <2>1, <2>2
  <1>16. ctx'.block # 0 => Incoming(D, reached2, start2, ctx'.block, Before', ctx'.in)
    <2> SUFFICES ASSUME ctx'.block # 0
                 PROVE  Incoming(D, reached2, start2, ctx'.block, Before', ctx'.in)
      OBVIOUS
    <2>1. b < Len(Freq) /\ ctx'.block = b + 1 /\ b + 1 \in Blocks /\ b # b + 1
      BY <1>8 DEF Stays, GoesOn, Closes, PassOn, Idle
    <2>2. Before' = pos_ts'[b]
      BY <1>8, <2>1 DEF Before
    <2>3. /\ Waiting(reached, start, b, pos_ts[b], b)
          /\ Started(reached, start, b, pos[b], pos_ts[b])
          /\ Stamped(D, reached, start, b, pos_ts[b])
          /\ Aggregates(D, Current(b), Filed(reached, start, b, pos[b], pos_ts[b], pos[b]))
      BY <1>2 DEF Tracked, Filing, Current
    <2>4. CASE GoesOn(b)
      <3>1. ctx'.in = in /\ in.ts < pos_ts[b] /\ pos_ts'[b] = pos_ts[b]
        BY <1>4, <2>1, <2>4 DEF GoesOn, PassOn
      <3>2. Incoming(D, reached2, start2, b + 1, pos_ts[b], in)
        BY <1>1, <1>2, <1>6, <2>1, <2>3, <3>1, PastArrives
      <3> QED
        BY <2>1, <2>2, <3>1, <3>2
    <2>5. CASE Closes(b)
      <3>1. /\ ctx'.in = Current(b) /\ Current(b).ts = pos_ts[b] /\ Current(b) \in Tuple
            /\ pos_ts[b] + Freq[b] <= pos_ts'[b] /\ pos_ts'[b] <= in.ts
        BY <1>2, <1>4, <2>1, <2>5 DEF Closes, PassOn, Current, TypeOK
      <3>2. Incoming(D, reached2, start2, b + 1, pos_ts'[b], Current(b))
        BY <1>1, <1>2, <1>6, <2>1, <2>3, <3>1, ClosedArrives
      <3> QED
        BY <2>1, <2>2, <3>1, <3>2
    <2> QED
      BY <2>1, <2>4, <2>5 DEF Stays
  <1>17. \A u \in Times \X Values : accepted'[u] = SumFunctionOnSet(One(D), Fibre(1 .. n, D, {u}))
    BY DEF Tracked
  <1> QED
    BY <1>7, <1>10, <1>12, <1>13, <1>14, <1>15, <1>16, <1>17 DEF Tracked

-----------------------------------------------------------------------------
(* The six cases of block->update are of these kinds, and file what arrives. *)

(* The newest tuple says where it starts.                                    *)
LEMMA CurrentStart ==
  ASSUME TypeOK, RingOrder, NEW b \in Blocks
  PROVE  Current(b) = tuples[b][pos[b]] /\ Current(b).ts = pos_ts[b]
  <1>1. InOrder(b) /\ pos[b] \in Slots(b) /\ Age(b, pos[b]) = 0
    BY RingOrderIsInOrder, AgeFacts DEF TypeOK
  <1>2. pos_ts[b] \in Int /\ Freq[b] \in Int
    BY PolicyFacts DEF TypeOK
  <1>3. tuples[b][pos[b]].ts = pos_ts[b]
    BY <1>1, <1>2 DEF InOrder, InPlace
  <1> QED
    BY <1>3 DEF Current

(* What was filed under starts before the end of the newest tuple is not in  *)
(* the slots of later intervals.                                             *)
LEMMA NothingAhead ==
  ASSUME NEW n, NEW D, NEW reached, NEW start, History(n, D, reached, start),
         NEW b \in Blocks, NEW p \in Int, Stamped(D, reached, start, b, p),
         NEW q2 \in Slots(b), NEW p2 \in Int, NEW s \in Slots(b),
         p + Freq[b] <= p2 - Back(b, q2, s) * Freq[b]
  PROVE  Filed(reached, start, b, q2, p2, s) = {}
  <1>1. p + Freq[b] \in Int /\ Back(b, q2, s) * Freq[b] \in Int
    <2>1. Back(b, q2, s) \in Int
      BY CircleFacts, SlotNumbers
    <2> QED
      BY <2>1, PolicyFacts
  <1>2. ASSUME NEW k \in 1 .. n, b <= reached[k], Covers(b, q2, p2, s, start[b][k]) PROVE FALSE
    <2>1. start[b][k] \in Nat /\ k \in DOMAIN reached
      BY DEF History
    <2>2. start[b][k] < p + Freq[b]
      BY <1>2, <2>1 DEF Stamped
    <2>3. p2 - Back(b, q2, s) * Freq[b] <= start[b][k]
      BY <1>2 DEF Covers
    <2> QED
      BY <1>1, <2>1, <2>2, <2>3
  <1> QED
    BY <1>2 DEF Filed, History

(* Starting over: the whole buffer is of a later time.                       *)
LEMMA CompleteShiftFiles ==
  ASSUME TypeOK, RingOrder, NEW b \in Blocks, CompleteShift(b),
         NEW n, NEW D, NEW reached, NEW start, Tracked(n, D, reached, start),
         NEW reached2, NEW start2,
         Moved(reached, start, Arriving(reached, start, b, Before), b, ctx.in.ts, reached2, start2)
  PROVE  Filing(D, reached2, start2, b)' /\ Closes(b)
  <1>1. /\ ctx.block = b /\ PassOn(b, Current(b)) /\ pos'[b] = 0 /\ pos_ts'[b] = ctx.in.ts
        /\ pos_ts[b] + Duration(b) <= ctx.in.ts
        /\ Keep(b, [s \in Slots(b) |-> ZeroTuple(IF s = 0 THEN ctx.in.ts ELSE 0)], 0)
    BY DEF CompleteShift, TypeOK, LatestPossibleTs
  <1>2. /\ ctx.in \in Tuple /\ ctx.in.ts \in Nat /\ Before \in Int
        /\ History(n, D, reached, start) /\ Incoming(D, reached, start, b, Before, ctx.in)
        /\ pos_ts[b] \in Int /\ 0 \in Slots(b)
    BY <1>1, TrackedTypes, PolicyFacts
  <1>3. PICK buffer : buffer = [s \in Slots(b) |-> ZeroTuple(IF s = 0 THEN ctx.in.ts ELSE 0)]
    OBVIOUS
  <1>4. buffer \in [Slots(b) -> Tuple]
    BY <1>3, BufferTypes
  <1>5. tuples'[b] = [buffer EXCEPT ![0] = Merge(buffer[0], ctx.in)]
    BY <1>1, <1>2, <1>3, <1>4, KeepTypes
  <1>6. ASSUME NEW s \in Slots(b)
        PROVE  pos_ts[b] + Freq[b] <= ctx.in.ts - Back(b, 0, s) * Freq[b]
    <2>1. Back(b, 0, s) \in Slots(b)
      BY <1>2, CircleFacts
    <2>2. /\ Back(b, 0, s) \in Int /\ Count[b] - 1 \in Int /\ Freq[b] \in Nat
          /\ Back(b, 0, s) <= Count[b] - 1 /\ Count[b] \in Nat
      BY <2>1, SlotNumbers
    <2>3. /\ Back(b, 0, s) * Freq[b] <= (Count[b] - 1) * Freq[b] /\ Back(b, 0, s) * Freq[b] \in Int
      BY <2>2, LastsLonger
    <2>4. \A f \in Nat : (Count[b] - 1) * f = f * Count[b] - f /\ f * Count[b] \in Int
      BY <2>2
    <2> QED
      BY <1>1, <1>2, <2>2, <2>3, <2>4 DEF Duration
  <1>7. ASSUME NEW s \in Slots(b)
        PROVE  Aggregates(D, buffer[s], Filed(reached, start, b, 0, ctx.in.ts, s))
    <2>1. Stamped(D, reached, start, b, pos_ts[b])
      BY DEF Tracked
    <2>2. ctx.in.ts \in Int
      BY <1>2
    <2>3. Filed(reached, start, b, 0, ctx.in.ts, s) = {}
      BY <1>2, <1>6, <2>1, <2>2, NothingAhead
    <2>4. buffer[s].count = 0 /\ buffer[s].sum = 0
      BY <1>3 DEF ZeroTuple
    <2> QED
      BY <2>3, <2>4, NothingAggregated
  <1>8. /\ Freq[b] \in Nat \ {0} /\ ctx.in.ts \in Int
        /\ ctx.in.ts < ctx.in.ts + Freq[b] /\ ctx.in.ts <= ctx.in.ts
    BY <1>2, PolicyFacts
  <1>9. Covers(b, 0, ctx.in.ts, 0, ctx.in.ts)
    BY <1>2, <1>8, CurrentCovers
  <1>10. ASSUME NEW s \in Slots(b)
         PROVE  Aggregates(D, tuples'[b][s], Filed(reached2, start2, b, 0, ctx.in.ts, s))
    <2>1. PICK p, q : p \in Int /\ q \in Slots(b) /\ p = ctx.in.ts /\ q = 0
      BY <1>2, <1>8
    <2>2. Covers(b, q, p, q, ctx.in.ts) /\ p \in Int /\ q \in Slots(b)
      BY <1>9, <2>1
    <2>3. tuples'[b] = [buffer EXCEPT ![q] = Merge(buffer[q], ctx.in)]
      BY <1>5, <2>1
    <2>4. Aggregates(D, buffer[s], Filed(reached, start, b, q, p, s))
      BY <1>7, <2>1
    <2>5. Aggregates(D, tuples'[b][s], Filed(reached2, start2, b, q, p, s))
      BY <1>2, <1>4, <2>2, <2>3, <2>4, FilingKept
    <2> QED
      BY <2>1, <2>5
  <1>11. Filing(D, reached2, start2, b)'
    BY <1>1, <1>10 DEF Filing
  <1>12. Closes(b)
    <2>1. pos_ts[b] + Freq[b] <= ctx.in.ts
      <3>1. Back(b, 0, 0) = 0 /\ 0 * Freq[b] = 0
        BY <1>8 DEF Back
      <3> QED
        BY <1>2, <1>6, <1>8, <3>1
    <2>2. Aligned(ctx.in.ts)
      BY <1>2 DEF Incoming
    <2> QED
      BY <1>1, <1>8, <2>1, <2>2, CurrentStart DEF Closes
  <1> QED
    BY <1>11, <1>12

(* The newest tuple takes the data.                                          *)
LEMMA KeepInCurrentFiles ==
  ASSUME TypeOK, RingOrder, NEW b \in Blocks, KeepInCurrent(b),
         NEW n, NEW D, NEW reached, NEW start, Tracked(n, D, reached, start),
         NEW reached2, NEW start2,
         Moved(reached, start, Arriving(reached, start, b, Before), b, ctx.in.ts, reached2, start2)
  PROVE  Filing(D, reached2, start2, b)' /\ Stays(b)
  <1>1. /\ ctx.block = b /\ Stop /\ pos'[b] = pos[b] /\ pos_ts'[b] = pos_ts[b]
        /\ pos_ts[b] <= ctx.in.ts /\ ctx.in.ts < pos_ts[b] + Freq[b]
        /\ Keep(b, tuples[b], pos[b])
    BY CurrentStart DEF KeepInCurrent
  <1>2. /\ ctx.in \in Tuple /\ ctx.in.ts \in Nat /\ Before \in Int
        /\ History(n, D, reached, start) /\ Incoming(D, reached, start, b, Before, ctx.in)
        /\ pos_ts[b] \in Int /\ pos[b] \in Slots(b) /\ tuples[b] \in [Slots(b) -> Tuple]
    BY <1>1, TrackedTypes, BlockTypes
  <1>3. tuples'[b] = [tuples[b] EXCEPT ![pos[b]] = Merge(tuples[b][pos[b]], ctx.in)]
    BY <1>1, <1>2, KeepTypes
  <1>4. \A s \in Slots(b) : Aggregates(D, tuples[b][s], Filed(reached, start, b, pos[b], pos_ts[b], s))
    BY DEF Tracked, Filing
  <1>5. Covers(b, pos[b], pos_ts[b], pos[b], ctx.in.ts)
    BY <1>1, <1>2, CurrentCovers
  <1>6. ASSUME NEW s \in Slots(b)
        PROVE  Aggregates(D, tuples'[b][s], Filed(reached2, start2, b, pos[b], pos_ts[b], s))
    BY <1>2, <1>3, <1>4, <1>5, FilingKept
  <1> QED
    BY <1>1, <1>6 DEF Filing, Stays, Stop, Idle

(* Slots with the same interval hold the same updates.                       *)
LEMMA SameInterval ==
  ASSUME NEW reached, NEW start, NEW b, NEW s, NEW q, NEW p, NEW q2, NEW p2,
         p - Back(b, q, s) * Freq[b] = p2 - Back(b, q2, s) * Freq[b]
  PROVE  Filed(reached, start, b, q, p, s) = Filed(reached, start, b, q2, p2, s)
  <1>1. \A t : Covers(b, q, p, s, t) <=> Covers(b, q2, p2, s, t)
    BY Zenon DEF Covers
  <1> QED
    BY <1>1, Zenon DEF Filed

(* Moving forward: the slots passed over are of a later time, the others of  *)
(* the time they were.                                                       *)
LEMMA ShiftForwardFiles ==
  ASSUME TypeOK, RingOrder, NEW b \in Blocks, ShiftForward(b),
         NEW n, NEW D, NEW reached, NEW start, Tracked(n, D, reached, start),
         NEW reached2, NEW start2,
         Moved(reached, start, Arriving(reached, start, b, Before), b, ctx.in.ts, reached2, start2)
  PROVE  Filing(D, reached2, start2, b)' /\ Closes(b)
  <1>1. PICK m \in 1 .. Count[b] - 1 :
          /\ pos_ts[b] + m * Freq[b] <= ctx.in.ts
          /\ ctx.in.ts < pos_ts[b] + (m + 1) * Freq[b]
          /\ Keep(b, AdvancedBuffer(b, m), Forward(b, pos[b], m))
          /\ pos' = [pos EXCEPT ![b] = Forward(b, @, m)]
          /\ pos_ts' = [pos_ts EXCEPT ![b] = @ + m * Freq[b]]
    BY DEF ShiftForward
  <1>2. ctx.block = b /\ PassOn(b, Current(b))
    BY DEF ShiftForward
  <1>3. /\ ctx.in \in Tuple /\ ctx.in.ts \in Nat /\ Before \in Int
        /\ History(n, D, reached, start) /\ Incoming(D, reached, start, b, Before, ctx.in)
        /\ pos_ts[b] \in Int /\ pos[b] \in Slots(b) /\ Freq[b] \in Nat \ {0}
        /\ m \in Slots(b) /\ m \in Nat /\ 1 <= m
    BY <1>2, TrackedTypes, BlockTypes, SlotNumbers
  <1>4. /\ 1 * Freq[b] <= m * Freq[b] /\ m * Freq[b] \in Int /\ 1 * Freq[b] = Freq[b]
        /\ (m + 1) * Freq[b] = m * Freq[b] + Freq[b]
    <2>1. \A f \in Nat : m * f \in Int /\ 1 * f = f /\ (m + 1) * f = m * f + f
      BY <1>3
    <2>2. 1 * Freq[b] <= m * Freq[b]
      BY <1>3, LastsLonger
    <2> QED
      BY <1>3, <2>1, <2>2
  <1>5. PICK p, q, buffer : /\ p = pos_ts[b] + m * Freq[b] /\ q = Forward(b, pos[b], m)
                            /\ buffer = AdvancedBuffer(b, m)
    OBVIOUS
  <1>6. /\ p \in Int /\ q \in Slots(b) /\ buffer \in [Slots(b) -> Tuple]
        /\ pos'[b] = q /\ pos_ts'[b] = p /\ Keep(b, buffer, q)
    <2>1. p \in Int
      BY <1>3, <1>4, <1>5
    <2>2. q \in Slots(b)
      BY <1>3, <1>5, CircleFacts
    <2>3. buffer \in [Slots(b) -> Tuple]
      BY <1>3, <1>5, BufferTypes
    <2> QED
      BY <1>1, <1>5, <2>1, <2>2, <2>3, BlockTypes
  <1>7. tuples'[b] = [buffer EXCEPT ![q] = Merge(buffer[q], ctx.in)]
    BY <1>6, BlockTypes DEF Keep
  <1>8. pos_ts[b] + Freq[b] <= p /\ p <= ctx.in.ts /\ ctx.in.ts < p + Freq[b]
    BY <1>1, <1>3, <1>4, <1>5
  <1>9. Covers(b, q, p, q, ctx.in.ts)
    BY <1>6, <1>8, CurrentCovers
  <1>10. ASSUME NEW s \in Slots(b)
         PROVE  Aggregates(D, buffer[s], Filed(reached, start, b, q, p, s))
    <2>1. /\ Back(b, s, pos[b]) \in Nat /\ Age(b, s) \in Nat
          /\ Back(b, s, pos[b]) \in 1 .. m => Back(b, q, s) = m - Back(b, s, pos[b])
          /\ Back(b, s, pos[b]) \notin 1 .. m => Back(b, q, s) = Age(b, s) + m
      BY <1>5, AgesAfterAdvance, AgeFacts
    <2>2. PICK ahead \in Nat, age \in Nat : ahead = Back(b, s, pos[b]) /\ age = Age(b, s)
      BY <2>1
    <2>3. CASE ahead \in 1 .. m
      <3>1. \A f \in Nat : /\ (m - ahead) * f = m * f - ahead * f
                           /\ m * f \in Int /\ ahead * f \in Int /\ 1 * f = f
        BY <1>3
      <3>2. 1 * Freq[b] <= ahead * Freq[b]
        BY <1>3, <2>3, LastsLonger
      <3>3. pos_ts[b] + Freq[b] <= p - Back(b, q, s) * Freq[b]
        <4>1. Back(b, q, s) = m - ahead
          BY <2>1, <2>2, <2>3
        <4>2. pos_ts[b] + Freq[b] <= p - (m - ahead) * Freq[b]
          BY <1>3, <1>5, <3>1, <3>2
        <4> QED
          BY <4>1, <4>2
      <3>4. Stamped(D, reached, start, b, pos_ts[b])
        BY DEF Tracked
      <3>5. Filed(reached, start, b, q, p, s) = {}
        BY <1>3, <1>6, <3>3, <3>4, NothingAhead
      <3>6. buffer[s].count = 0 /\ buffer[s].sum = 0
        BY <1>5, <2>2, <2>3 DEF AdvancedBuffer, ZeroTuple
      <3> QED
        BY <3>5, <3>6, NothingAggregated
    <2>4. CASE ahead \notin 1 .. m
      <3>1. \A f \in Nat : /\ (age + m) * f = age * f + m * f
                           /\ m * f \in Int /\ age * f \in Int
        BY <1>3
      <3>2. pos_ts[b] - age * Freq[b] = p - (age + m) * Freq[b]
        BY <1>3, <1>5, <3>1
      <3>3. pos_ts[b] - Back(b, pos[b], s) * Freq[b] = p - Back(b, q, s) * Freq[b]
        BY <2>1, <2>2, <2>4, <3>2 DEF Age
      <3>4. Filed(reached, start, b, pos[b], pos_ts[b], s) = Filed(reached, start, b, q, p, s)
        BY <3>3, SameInterval
      <3>5. buffer[s] = tuples[b][s]
        BY <1>5, <2>2, <2>4 DEF AdvancedBuffer
      <3>6. Aggregates(D, tuples[b][s], Filed(reached, start, b, pos[b], pos_ts[b], s))
        BY DEF Tracked, Filing
      <3> QED
        BY <3>4, <3>5, <3>6
    <2> QED
      BY <2>3, <2>4
  <1>11. ASSUME NEW s \in Slots(b)
         PROVE  Aggregates(D, tuples'[b][s], Filed(reached2, start2, b, q, p, s))
    <2>1. Aggregates(D, buffer[s], Filed(reached, start, b, q, p, s))
      BY <1>10
    <2>2. p \in Int /\ q \in Slots(b) /\ buffer \in [Slots(b) -> Tuple]
      BY <1>6
    <2> QED
      BY <1>3, <1>7, <1>9, <2>1, <2>2, FilingKept
  <1>12. Aligned(p)
    <2>1. Aligned(pos_ts[b]) /\ Aligned(Freq[b]) /\ Freq[b] \in Int /\ m \in Int
      BY <1>3, FrequenciesAligned DEF Tracked, Started
    <2> QED
      BY <1>3, <1>5, <2>1, AlignedSum
  <1> QED
    BY <1>2, <1>6, <1>8, <1>11, <1>12, CurrentStart DEF Filing, Closes

(* The walk changes no more than stamps.                                     *)
LEMMA WalkedAggregates ==
  ASSUME TypeOK, NEW b \in Blocks, NEW n, NEW D, NEW reached, NEW start,
         Tracked(n, D, reached, start), NEW m, NEW s \in Slots(b)
  PROVE  Aggregates(D, WalkedBuffer(b, m)[s], Filed(reached, start, b, pos[b], pos_ts[b], s))
  <1>1. PICK t : t = tuples[b][s]
    OBVIOUS
  <1>2. PICK u : u = WalkedBuffer(b, m)[s]
    OBVIOUS
  <1>3. PICK K : K = Filed(reached, start, b, pos[b], pos_ts[b], s)
    OBVIOUS
  <1>4. t \in Tuple /\ Aggregates(D, t, K) /\ Log(D, n) /\ K \in SUBSET (1 .. n)
    BY <1>1, <1>3, BlockTypes DEF Tracked, Filing, History, Filed
  <1>5. u = t \/ \E ts : u = [t EXCEPT !.ts = ts]
    BY <1>1, <1>2 DEF WalkedBuffer
  <1>6. u.count = t.count /\ u.sum = t.sum /\ u.min = t.min /\ u.max = t.max
    BY <1>4, <1>5 DEF Tuple
  <1>7. Aggregates(D, u, K)
    BY <1>4, <1>6, SameAggregate
  <1> QED
    BY <1>2, <1>3, <1>7

(* Older data: the slot of its time takes it.                                *)
LEMMA KeepInPastFiles ==
  ASSUME TypeOK, RingOrder, NEW b \in Blocks, KeepInPast(b),
         NEW n, NEW D, NEW reached, NEW start, Tracked(n, D, reached, start),
         NEW reached2, NEW start2,
         Moved(reached, start, Arriving(reached, start, b, Before), b, ctx.in.ts, reached2, start2)
  PROVE  Filing(D, reached2, start2, b)' /\ GoesOn(b)
  <1>1. PICK m \in 1 .. Count[b] - 1 :
          /\ pos_ts[b] - m * Freq[b] <= ctx.in.ts
          /\ ctx.in.ts < pos_ts[b] - (m - 1) * Freq[b]
          /\ Keep(b, WalkedBuffer(b, m), Back(b, pos[b], m))
    BY DEF KeepInPast
  <1>2. /\ ctx.block = b /\ PassOn(b, ctx.in) /\ ctx.in.ts < pos_ts[b]
        /\ pos'[b] = pos[b] /\ pos_ts'[b] = pos_ts[b]
    BY DEF KeepInPast
  <1>3. /\ ctx.in \in Tuple /\ ctx.in.ts \in Nat /\ Before \in Int
        /\ History(n, D, reached, start) /\ Incoming(D, reached, start, b, Before, ctx.in)
        /\ pos_ts[b] \in Int /\ pos[b] \in Slots(b) /\ m \in Slots(b) /\ m \in Nat
    BY <1>2, TrackedTypes, BlockTypes, SlotNumbers
  <1>4. PICK r, buffer : r = Back(b, pos[b], m) /\ buffer = WalkedBuffer(b, m)
    OBVIOUS
  <1>5. r \in Slots(b) /\ buffer \in [Slots(b) -> Tuple] /\ Keep(b, buffer, r)
    BY <1>1, <1>3, <1>4, CircleFacts, BufferTypes
  <1>6. tuples'[b] = [buffer EXCEPT ![r] = Merge(buffer[r], ctx.in)]
    BY <1>5, BlockTypes DEF Keep
  <1>7. Covers(b, pos[b], pos_ts[b], r, ctx.in.ts)
    <2>1. ctx.in.ts \in Int
      BY <1>3
    <2> QED
      BY <1>1, <1>3, <1>4, <2>1, BackCovers
  <1>8. ASSUME NEW s \in Slots(b)
        PROVE  Aggregates(D, tuples'[b][s], Filed(reached2, start2, b, pos[b], pos_ts[b], s))
    <2>1. Aggregates(D, buffer[s], Filed(reached, start, b, pos[b], pos_ts[b], s))
      BY <1>4, WalkedAggregates
    <2> QED
      BY <1>3, <1>5, <1>6, <1>7, <2>1, FilingKept
  <1> QED
    BY <1>2, <1>8 DEF Filing, GoesOn

(* Data too old for every slot changes what none of them aggregates.         *)
LEMMA TooOldFiles ==
  ASSUME TypeOK, RingOrder, NEW b \in Blocks, FallOffTheWalk(b) \/ IgnoreTooOld(b),
         NEW n, NEW D, NEW reached, NEW start, Tracked(n, D, reached, start),
         NEW reached2, NEW start2,
         Moved(reached, start, Arriving(reached, start, b, Before), b, ctx.in.ts, reached2, start2)
  PROVE  Filing(D, reached2, start2, b)' /\ GoesOn(b)
  <1>1. /\ ctx.block = b /\ PassOn(b, ctx.in)
        /\ pos'[b] = pos[b] /\ pos_ts'[b] = pos_ts[b]
    BY DEF FallOffTheWalk, IgnoreTooOld
  <1>2. /\ ctx.in \in Tuple /\ ctx.in.ts \in Nat /\ Before \in Int
        /\ History(n, D, reached, start)
        /\ pos_ts[b] \in Int /\ pos[b] \in Slots(b)
    BY <1>1, TrackedTypes, BlockTypes
  <1>3. /\ Count[b] \in Nat \ {0} /\ Freq[b] \in Nat \ {0} /\ Count[b] - 1 \in Int
        /\ 0 <= (Count[b] - 1) * Freq[b] /\ (Count[b] - 1) * Freq[b] \in Int
        /\ Duration(b) = (Count[b] - 1) * Freq[b] + Freq[b]
    <2>1. Count[b] \in Nat \ {0} /\ Freq[b] \in Nat \ {0} /\ Count[b] - 1 \in Int
      BY PolicyFacts
    <2>2. \A f \in Nat : /\ (Count[b] - 1) * f \in Int /\ 0 * f = 0
                         /\ (Count[b] - 1) * f = f * Count[b] - f /\ f * Count[b] \in Int
      BY <2>1
    <2>3. 0 * Freq[b] <= (Count[b] - 1) * Freq[b]
      BY <2>1, LastsLonger
    <2> QED
      BY <2>1, <2>2, <2>3 DEF Duration
  <1>4. ctx.in.ts < pos_ts[b] - (Count[b] - 1) * Freq[b] /\ ctx.in.ts < pos_ts[b]
    BY <1>2, <1>3 DEF FallOffTheWalk, IgnoreTooOld, EarliestTs
  <1>5. ASSUME NEW s \in Slots(b)
        PROVE  Filed(reached2, start2, b, pos[b], pos_ts[b], s)
                 = Filed(reached, start, b, pos[b], pos_ts[b], s)
    <2>1. ctx.in.ts \in Int
      BY <1>2
    <2>2. ~ Covers(b, pos[b], pos_ts[b], s, ctx.in.ts)
      BY <1>2, <1>4, <2>1, TooOldForAll
    <2> QED
      BY <1>2, <2>2, FiledAfter
  <1>6. ASSUME NEW s \in Slots(b)
        PROVE  Aggregates(D, tuples'[b][s], Filed(reached, start, b, pos[b], pos_ts[b], s))
    <2>1. CASE FallOffTheWalk(b)
      <3>1. tuples'[b] = WalkedBuffer(b, Count[b] - 1)
        BY <2>1, BlockTypes DEF FallOffTheWalk
      <3> QED
        BY <3>1, WalkedAggregates
    <2>2. CASE IgnoreTooOld(b)
      BY <2>2 DEF IgnoreTooOld, Tracked, Filing
    <2> QED
      BY <2>1, <2>2
  <1> QED
    BY <1>1, <1>4, <1>5, <1>6 DEF Filing, GoesOn

(* A block's whole step.                                                     *)
LEMMA UpdateBlockExplained ==
  ASSUME TypeOK, TypeOK', RingOrder, Explained, NEW b \in Blocks, UpdateBlock(b)
  PROVE  Explained'
  <1>1. PICK n, D, reached, start : Tracked(n, D, reached, start)
    BY DEF Explained
  <1>2. PICK reached2, start2 :
          Moved(reached, start, Arriving(reached, start, b, Before), b, ctx.in.ts, reached2, start2)
    BY DEF Moved
  <1>3. ctx.block = b /\ UNCHANGED accepted
    BY DEF UpdateBlock, CompleteShift, KeepInCurrent, ShiftForward, KeepInPast,
           FallOffTheWalk, IgnoreTooOld
  <1>4. \A c \in Blocks \ {b} :
          pos'[c] = pos[c] /\ pos_ts'[c] = pos_ts[c] /\ tuples'[c] = tuples[c]
    BY UpdateBlockOthers
  <1>5. Filing(D, reached2, start2, b)' /\ (Stays(b) \/ GoesOn(b) \/ Closes(b))
    <2>1. CASE CompleteShift(b)
      BY <1>1, <1>2, <2>1, CompleteShiftFiles
    <2>2. CASE KeepInCurrent(b)
      BY <1>1, <1>2, <2>2, KeepInCurrentFiles
    <2>3. CASE ShiftForward(b)
      BY <1>1, <1>2, <2>3, ShiftForwardFiles
    <2>4. CASE KeepInPast(b)
      BY <1>1, <1>2, <2>4, KeepInPastFiles
    <2>5. CASE FallOffTheWalk(b) \/ IgnoreTooOld(b)
      BY <1>1, <1>2, <2>5, TooOldFiles
    <2> QED
      BY <2>1, <2>2, <2>3, <2>4, <2>5 DEF UpdateBlock
  <1>6. Tracked(n, D, reached2, start2)'
    BY <1>1, <1>2, <1>3, <1>4, <1>5, BlockExplained
  <1> QED
    BY <1>6 DEF Explained

(* One more update: its history is that it got nowhere yet.                  *)
Extended(n, D, reached, start, u, D2, reached2, start2) ==
  /\ D2 = [k \in 1 .. n + 1 |-> IF k \in 1 .. n THEN D[k] ELSE u]
  /\ reached2 = [k \in 1 .. n + 1 |-> IF k \in 1 .. n THEN reached[k] ELSE 0]
  /\ start2 = [b \in Blocks |-> [k \in 1 .. n + 1 |-> IF k \in 1 .. n THEN start[b][k] ELSE 0]]

(* What that history says.                                                   *)
LEMMA ExtendedFacts ==
  ASSUME NEW n, NEW D, NEW reached, NEW start, History(n, D, reached, start),
         NEW u \in Times \X Values, NEW D2, NEW reached2, NEW start2,
         Extended(n, D, reached, start, u, D2, reached2, start2)
  PROVE  /\ History(n + 1, D2, reached2, start2)
         /\ n \in Nat /\ 1 .. n + 1 = 1 .. n \cup {n + 1} /\ n + 1 \notin 1 .. n
         /\ DOMAIN reached = 1 .. n /\ DOMAIN reached2 = 1 .. n + 1
         /\ \A k \in 1 .. n : D2[k] = D[k] /\ reached2[k] = reached[k]
         /\ \A b \in Blocks : \A k \in 1 .. n : start2[b][k] = start[b][k]
         /\ D2[n + 1] = u /\ reached2[n + 1] = 0
  <1>1. n \in Nat /\ Len(Freq) \in Nat
    BY PolicyFacts DEF History, Log
  <1>2. 1 .. n + 1 = 1 .. n \cup {n + 1} /\ n + 1 \notin 1 .. n
    BY <1>1
  <1>3. D2 \in [1 .. n + 1 -> Times \X Values]
    BY <1>2 DEF Extended, History, Log
  <1>4. reached2 \in [1 .. n + 1 -> 0 .. Len(Freq)]
    BY <1>1, <1>2 DEF Extended, History
  <1>5. start2 \in [Blocks -> [1 .. n + 1 -> Nat]]
    BY <1>1, <1>2 DEF Extended, History
  <1>6. n + 1 \in Nat
    BY <1>1
  <1> QED
    BY <1>1, <1>2, <1>3, <1>4, <1>5, <1>6 DEF Extended, History, Log

(* Nothing changes for the blocks.                                           *)
LEMMA ExtendedBlocks ==
  ASSUME NEW n, NEW D, NEW reached, NEW start, History(n, D, reached, start),
         NEW u \in Times \X Values, NEW D2, NEW reached2, NEW start2,
         Extended(n, D, reached, start, u, D2, reached2, start2),
         NEW b \in Blocks, NEW q, NEW p, NEW s
  PROVE  /\ Filed(reached2, start2, b, q, p, s) = Filed(reached, start, b, q, p, s)
         /\ Stamped(D, reached, start, b, p) => Stamped(D2, reached2, start2, b, p)
         /\ Waiting(reached, start, b, p, 0) => Waiting(reached2, start2, b, p, 1)
         /\ Started(reached, start, b, q, p) => Started(reached2, start2, b, q, p)
         /\ \A t : Aggregates(D, t, Filed(reached, start, b, q, p, s))
                     => Aggregates(D2, t, Filed(reached2, start2, b, q, p, s))
  <1>1. /\ History(n + 1, D2, reached2, start2)
        /\ n \in Nat /\ 1 .. n + 1 = 1 .. n \cup {n + 1} /\ n + 1 \notin 1 .. n
        /\ DOMAIN reached = 1 .. n /\ DOMAIN reached2 = 1 .. n + 1
        /\ \A k \in 1 .. n : D2[k] = D[k] /\ reached2[k] = reached[k]
        /\ \A k \in 1 .. n : start2[b][k] = start[b][k]
        /\ reached2[n + 1] = 0
    BY ExtendedFacts
  <1>2. b \in Nat /\ 1 <= b /\ ~ (b <= 0)
    BY PolicyFacts DEF Blocks
  <1>3. \A r : Filed(reached2, start2, b, q, p, r) = Filed(reached, start, b, q, p, r)
    BY <1>1, <1>2 DEF Filed
  <1>4. Stamped(D, reached, start, b, p) => Stamped(D2, reached2, start2, b, p)
    BY <1>1, <1>2 DEF Stamped
  <1>5. Waiting(reached, start, b, p, 0) => Waiting(reached2, start2, b, p, 1)
    BY <1>1, <1>2 DEF Waiting
  <1>6. Started(reached, start, b, q, p) => Started(reached2, start2, b, q, p)
    BY <1>3 DEF Started
  <1>7. ASSUME NEW t, Aggregates(D, t, Filed(reached, start, b, q, p, s))
        PROVE  Aggregates(D2, t, Filed(reached2, start2, b, q, p, s))
    <2>1. PICK K : K = Filed(reached, start, b, q, p, s)
      OBVIOUS
    <2>2. K \in SUBSET (1 .. n) /\ K \in SUBSET (1 .. n + 1) /\ \A k \in K : D2[k] = D[k]
      BY <1>1, <2>1 DEF Filed
    <2>3. Log(D, n) /\ Log(D2, n + 1)
      BY <1>1 DEF History
    <2>4. Aggregates(D, t, K)
      BY <1>7, <2>1
    <2>5. Aggregates(D2, t, K)
      BY <2>2, <2>3, <2>4, SameAggregate
    <2> QED
      BY <1>3, <2>1, <2>5
  <1> QED
    BY <1>3, <1>4, <1>5, <1>6, <1>7

(* The new update counts once.                                               *)
CountsOnce(n, D, u, D2, x) ==
  SumFunctionOnSet(One(D2), Fibre(1 .. n + 1, D2, {x}))
    = SumFunctionOnSet(One(D), Fibre(1 .. n, D, {x})) + (IF x = u THEN 1 ELSE 0)

(* For it counts for itself, and the others count as before.                 *)
LEMMA OneMore ==
  ASSUME NEW n, NEW D, NEW reached, NEW start, History(n, D, reached, start),
         NEW u \in Times \X Values, NEW D2, NEW reached2, NEW start2,
         Extended(n, D, reached, start, u, D2, reached2, start2)
  PROVE  \A x : CountsOnce(n, D, u, D2, x)
  <1> SUFFICES ASSUME NEW x PROVE CountsOnce(n, D, u, D2, x)
    OBVIOUS
  <1>0. PICK e : e = n + 1
    OBVIOUS
  <1>1. /\ Log(D, n) /\ Log(D2, e)
        /\ 1 .. e = 1 .. n \cup {e} /\ e \notin 1 .. n
        /\ \A k \in 1 .. n : D2[k] = D[k]
        /\ D2[e] = u
    BY <1>0, ExtendedFacts DEF History
  <1>2. PICK K : K = Fibre(1 .. n, D, {x})
    OBVIOUS
  <1>3. K \in SUBSET (1 .. n) /\ K \in SUBSET (1 .. e) /\ e \notin K
    BY <1>1, <1>2 DEF Fibre
  <1>4. IsFiniteSet(K) /\ \A k \in K : One(D)[k] = One(D2)[k]
    BY <1>1, <1>3, LogFacts, LogFinite
  <1>5. SumFunctionOnSet(One(D), K) = SumFunctionOnSet(One(D2), K)
    BY <1>4, SumAgree
  <1>6. SumFunctionOnSet(One(D), K) \in Nat
    BY <1>1, <1>3, OneFacts
  <1>7. CASE x = u
    <2>1. PICK L : L = K \cup {e}
      OBVIOUS
    <2>2. Fibre(1 .. e, D2, {x}) = L
      BY <1>1, <1>2, <1>7, <2>1 DEF Fibre
    <2>3. L \in SUBSET (1 .. e) /\ e \in L /\ L \ {e} = K
      BY <1>1, <1>3, <2>1
    <2>4. IsFiniteSet(L) /\ (\A k \in L : One(D2)[k] \in Int) /\ One(D2)[e] = 1
      BY <1>1, <2>3, LogFacts, LogFinite
    <2>5. SumFunctionOnSet(One(D2), L) = One(D2)[e] + SumFunctionOnSet(One(D2), L \ {e})
      <3>1. e \in L /\ IsFiniteSet(L) /\ \A k \in L : One(D2)[k] \in Int
        BY <2>3, <2>4
      <3> QED
        BY <3>1, SumRemove
    <2>6. SumFunctionOnSet(One(D2), L) = 1 + SumFunctionOnSet(One(D2), K)
      BY <2>3, <2>4, <2>5
    <2> QED
      BY <1>0, <1>2, <1>5, <1>6, <1>7, <2>2, <2>6 DEF CountsOnce
  <1>8. CASE x # u
    <2>1. Fibre(1 .. e, D2, {x}) = K
      BY <1>1, <1>2, <1>8 DEF Fibre
    <2> QED
      BY <1>0, <1>2, <1>5, <1>6, <1>8, <2>1 DEF CountsOnce
  <1> QED
    BY <1>7, <1>8

(* What block 1 receives is the new update.                                  *)
LEMMA NewPointArrives ==
  ASSUME NEW n, NEW D, NEW reached, NEW start, History(n, D, reached, start),
         NEW u \in Times \X Values, NEW D2, NEW reached2, NEW start2,
         Extended(n, D, reached, start, u, D2, reached2, start2),
         \A k \in 1 .. n : reached[k] # 0
  PROVE  Incoming(D2, reached2, start2, 1, 0, Point(NormalizedTs(u[1]), u[2]))
  <1>1. /\ Log(D2, n + 1) /\ n \in Nat
        /\ 1 .. n + 1 = 1 .. n \cup {n + 1} /\ n + 1 \notin 1 .. n
        /\ DOMAIN reached2 = 1 .. n + 1
        /\ \A k \in 1 .. n : reached2[k] = reached[k]
        /\ D2[n + 1] = u /\ reached2[n + 1] = 0
    BY ExtendedFacts DEF History
  <1>2. PICK e : e = n + 1
    OBVIOUS
  <1>3. e \in 1 .. n + 1 /\ {e} \in SUBSET (1 .. n + 1) /\ {e} \ {e} = {}
    BY <1>1, <1>2
  <1>4. /\ u[1] \in Nat /\ u[2] \in Int /\ D2[e][1] = u[1] /\ D2[e][2] = u[2]
        /\ One(D2)[e] = 1 /\ Val(D2)[e] = u[2]
    BY <1>1, <1>2, <1>3, LogFacts
  <1>5. Arriving(reached2, start2, 1, 0) = {e}
    BY <1>1, <1>2 DEF Arriving
  <1>6. PICK t : t = Point(NormalizedTs(u[1]), u[2])
    OBVIOUS
  <1>7. t.ts = NormalizedTs(u[1]) /\ t.count = 1 /\ t.sum = u[2] /\ t.min = u[2] /\ t.max = u[2]
    BY <1>6 DEF Point
  <1>8. Aggregates(D2, t, {e})
    <2>1. IsFiniteSet({e}) /\ \A k \in {e} : One(D2)[k] \in Int /\ Val(D2)[k] \in Int
      BY <1>1, <1>3, <1>4, LogFinite
    <2>2. /\ SumFunctionOnSet(One(D2), {e}) = One(D2)[e] + SumFunctionOnSet(One(D2), {e} \ {e})
          /\ SumFunctionOnSet(Val(D2), {e}) = Val(D2)[e] + SumFunctionOnSet(Val(D2), {e} \ {e})
      BY <2>1, SumRemove
    <2>3. SumFunctionOnSet(One(D2), {e}) = 1 + 0 /\ SumFunctionOnSet(Val(D2), {e}) = u[2] + 0
      BY <1>3, <1>4, <2>2, SumEmpty
    <2>4. Extremes(D2, t, {e})
      BY <1>4, <1>7 DEF Extremes
    <2> QED
      BY <1>4, <1>7, <2>3, <2>4 DEF Aggregates
  <1>9. /\ Aligned(t.ts) /\ t.ts \in Nat /\ Slack(1) = 0
        /\ NormalizedTs(D2[e][1]) = t.ts
    BY <1>4, <1>7, NormalizedFacts, SlackFacts, PolicyFacts
  <1>10. Incoming(D2, reached2, start2, 1, 0, t)
    BY <1>5, <1>8, <1>9 DEF Incoming
  <1> QED
    BY <1>6, <1>10

(* An update begins: one more to explain.                                    *)
LEMMA BeginUpdateExplained ==
  ASSUME TypeOK, Explained, NEW ts \in Times, NEW v \in Values, BeginUpdate(ts, v)
  PROVE  Explained'
  <1>1. PICK n, D, reached, start : Tracked(n, D, reached, start)
    BY DEF Explained
  <1>2. PICK u \in Times \X Values : u = <<ts, v>> /\ u[1] = ts /\ u[2] = v
    <2>1. <<ts, v>> \in Times \X Values /\ <<ts, v>>[1] = ts /\ <<ts, v>>[2] = v
      OBVIOUS
    <2> QED
      BY <2>1
  <1>3. PICK D2, reached2, start2 : Extended(n, D, reached, start, u, D2, reached2, start2)
    BY DEF Extended
  <1>4. PICK m : m = n + 1
    OBVIOUS
  <1>5. /\ ctx.block = 0 /\ ctx'.block = 1 /\ ctx'.in = Point(NormalizedTs(u[1]), u[2])
        /\ UNCHANGED <<pos, pos_ts, tuples>>
    BY <1>2 DEF BeginUpdate, Idle
  <1>6. History(n, D, reached, start) /\ History(m, D2, reached2, start2)
    BY <1>1, <1>3, <1>4, ExtendedFacts DEF Tracked
  <1>7. ASSUME NEW x \in Times \X Values
        PROVE  accepted'[x] = SumFunctionOnSet(One(D2), Fibre(1 .. m, D2, {x}))
    <2>1. accepted[x] = SumFunctionOnSet(One(D), Fibre(1 .. n, D, {x})) /\ accepted[x] \in Nat
      BY <1>1 DEF Tracked, TypeOK
    <2>2. accepted'[x] = accepted[x] + (IF x = u THEN 1 ELSE 0)
      <3>1. /\ accepted' = [accepted EXCEPT ![u] = accepted[u] + 1]
            /\ DOMAIN accepted = Times \X Values
        BY <1>2 DEF BeginUpdate, TypeOK
      <3> QED
        BY <2>1, <3>1
    <2>3. SumFunctionOnSet(One(D2), Fibre(1 .. m, D2, {x}))
            = SumFunctionOnSet(One(D), Fibre(1 .. n, D, {x})) + (IF x = u THEN 1 ELSE 0)
      <3>1. History(n, D, reached, start)
        BY <1>6
      <3>2. CountsOnce(n, D, u, D2, x)
        BY <1>3, <3>1, OneMore
      <3> QED
        BY <1>4, <3>2, Zenon DEF CountsOnce
    <2> QED
      BY <2>1, <2>2, <2>3
  <1>8. ASSUME NEW b \in Blocks
        PROVE  /\ Stamped(D2, reached2, start2, b, pos_ts[b])
               /\ Waiting(reached2, start2, b, pos_ts[b], 1)
               /\ Started(reached2, start2, b, pos[b], pos_ts[b])
               /\ \A s \in Slots(b) :
                    Aggregates(D2, tuples[b][s], Filed(reached2, start2, b, pos[b], pos_ts[b], s))
    <2>1. /\ Stamped(D, reached, start, b, pos_ts[b])
          /\ Waiting(reached, start, b, pos_ts[b], 0)
          /\ Started(reached, start, b, pos[b], pos_ts[b])
          /\ \A s \in Slots(b) :
               Aggregates(D, tuples[b][s], Filed(reached, start, b, pos[b], pos_ts[b], s))
      BY <1>1, <1>5 DEF Tracked, Filing
    <2> QED
      BY <1>3, <1>6, <2>1, ExtendedBlocks
  <1>9. Incoming(D2, reached2, start2, 1, 0, ctx'.in)
    <2>1. \A k \in 1 .. n : reached[k] # 0
      BY <1>1, <1>5 DEF Tracked
    <2>2. Incoming(D2, reached2, start2, 1, 0, Point(NormalizedTs(u[1]), u[2]))
      BY <1>3, <1>6, <2>1, NewPointArrives
    <2> QED
      BY <1>5, <2>2
  <1>10. Tracked(m, D2, reached2, start2)'
    BY <1>5, <1>6, <1>7, <1>8, <1>9 DEF Tracked, Filing, Before
  <1> QED
    BY <1>10 DEF Explained

(* At first there is nothing to explain.                                     *)
LEMMA InitExplained == Init => Explained
  <1> SUFFICES ASSUME Init PROVE Explained
    OBVIOUS
  <1>1. PICK D, reached : D = [k \in 1 .. 0 |-> 0] /\ reached = [k \in 1 .. 0 |-> 0]
    OBVIOUS
  <1>2. PICK start : start = [b \in Blocks |-> [k \in 1 .. 0 |-> 0]]
    OBVIOUS
  <1>3. 1 .. 0 = {} /\ DOMAIN reached = {} /\ 0 \in Nat
    BY <1>1
  <1>4. History(0, D, reached, start)
    BY <1>1, <1>2, <1>3 DEF History, Log
  <1>5. ASSUME NEW b \in Blocks
        PROVE  /\ Stamped(D, reached, start, b, pos_ts[b])
               /\ Waiting(reached, start, b, pos_ts[b], ctx.block)
               /\ Started(reached, start, b, pos[b], pos_ts[b])
               /\ Filing(D, reached, start, b)
    <2>1. pos_ts[b] = 0 /\ \A s \in Slots(b) : tuples[b][s].count = 0 /\ tuples[b][s].sum = 0
      BY DEF Init, InitEmpty, ZeroTuple
    <2>2. Aligned(0)
      <3>1. 0 = 0 * Freq[1] /\ 0 \in Int
        BY PolicyFacts
      <3> QED
        BY <3>1 DEF Aligned
    <2>3. Stamped(D, reached, start, b, pos_ts[b]) /\ Waiting(reached, start, b, pos_ts[b], ctx.block)
      BY <1>3 DEF Stamped, Waiting
    <2>4. Started(reached, start, b, pos[b], pos_ts[b])
      BY <2>1, <2>2 DEF Started
    <2>5. ASSUME NEW s \in Slots(b)
          PROVE  Aggregates(D, tuples[b][s], Filed(reached, start, b, pos[b], pos_ts[b], s))
      <3>1. Filed(reached, start, b, pos[b], pos_ts[b], s) = {}
        BY <1>3 DEF Filed
      <3> QED
        BY <2>1, <3>1, NothingAggregated
    <2> QED
      BY <2>3, <2>4, <2>5 DEF Filing
  <1>6. ASSUME NEW u \in Times \X Values
        PROVE  accepted[u] = SumFunctionOnSet(One(D), Fibre(1 .. 0, D, {u}))
    <2>1. Fibre(1 .. 0, D, {u}) = {}
      BY <1>3 DEF Fibre
    <2>2. accepted[u] = 0
      BY DEF Init, InitEmpty
    <2> QED
      BY <2>1, <2>2, SumEmpty
  <1>7. ctx.block = 0
    BY DEF Init, InitEmpty, Idle
  <1>8. Tracked(0, D, reached, start)
    BY <1>3, <1>4, <1>5, <1>6, <1>7 DEF Tracked
  <1> QED
    BY <1>8 DEF Explained

(* For every policy and every sequence of updates, the blocks' contents have *)
(* an explanation.                                                           *)
THEOREM ContentsExplained == Spec => []Explained
  <1>1. Init => Explained
    BY InitExplained
  <1>2. TypeOK /\ RingOrder /\ Explained /\ TypeOK' /\ [Next]_metricVars => Explained'
    <2> SUFFICES ASSUME TypeOK, RingOrder, Explained, TypeOK', [Next]_metricVars PROVE Explained'
      OBVIOUS
    <2>1. ASSUME NEW ts \in Times, NEW v \in Values, BeginUpdate(ts, v) PROVE Explained'
      BY <2>1, BeginUpdateExplained
    <2>2. ASSUME NEW b \in Blocks, UpdateBlock(b) PROVE Explained'
      BY <2>2, UpdateBlockExplained
    <2>3. ASSUME UNCHANGED metricVars PROVE Explained'
      BY <2>3 DEF metricVars, Explained, Tracked, Filing, Before
    <2> QED
      BY <2>1, <2>2, <2>3 DEF Next, Finished
  <1> QED
    BY <1>1, <1>2, TypeCorrect, BuffersInOrder, PTL DEF Spec


-----------------------------------------------------------------------------
(* What the explanation says between two updates.                            *)

(* Where an update can be: with a block that has not passed it on it is      *)
(* pending for the later ones; what a block has, those before it are past.   *)
LEMMA UpdateIsSomewhere ==
  ASSUME TypeOK, ctx.block = 0, NEW n, NEW D, NEW reached, NEW start,
         Tracked(n, D, reached, start), NEW b \in Blocks, NEW k \in 1 .. n, NEW t,
         t = NormalizedTs(D[k][1])
  PROVE  /\ reached[k] < b => Pending(b, t)
         /\ b <= reached[k] => /\ \A c \in 1 .. b - 1 : t < pos_ts[c] + Slack(c)
                               /\ start[b][k] <= t /\ t <= start[b][k] + Slack(b)
         /\ t \in Nat /\ start[b][k] \in Nat /\ reached[k] \in Nat
  <1>1. /\ History(n, D, reached, start) /\ DOMAIN reached = 1 .. n /\ reached[k] # 0
        /\ \A c \in Blocks : /\ Stamped(D, reached, start, c, pos_ts[c])
                             /\ Waiting(reached, start, c, pos_ts[c], 0)
    BY DEF Tracked, History
  <1>2. t \in Nat
    BY <1>1, LogFacts, NormalizedFacts DEF History
  <1>3. Len(Freq) \in Nat /\ b \in Nat /\ 1 <= b /\ b <= Len(Freq)
    BY PolicyFacts DEF Blocks
  <1>4. reached[k] \in Nat /\ reached[k] <= Len(Freq)
    BY <1>1, <1>3 DEF History
  <1>5. \A c \in Blocks : /\ start[c][k] \in Nat /\ pos_ts[c] \in Int /\ Slack(c) \in Nat
                          /\ Freq[c] \in Nat /\ c \in Nat
    <2>1. \A c \in Blocks : start[c][k] \in Nat
      BY <1>1 DEF History
    <2> QED
      BY <2>1, BlockTypes, SlackFacts, PolicyFacts
  <1>6. ASSUME NEW c \in Blocks, c <= reached[k]
        PROVE  /\ start[c][k] <= t /\ t <= start[c][k] + Slack(c)
               /\ start[c][k] < pos_ts[c] + Freq[c]
               /\ c < reached[k] => start[c][k] < pos_ts[c]
    BY <1>1, <1>6 DEF Stamped
  <1>7. ASSUME reached[k] < b PROVE Pending(b, t)
    <2>1. PICK c : c = reached[k]
      OBVIOUS
    <2>2. c \in Blocks /\ c \in 1 .. b - 1 /\ c <= reached[k] /\ c < Len(Freq) /\ c \in Nat
      BY <1>1, <1>3, <1>4, <1>7, <2>1 DEF Blocks
    <2>3. pos_ts[c] <= start[c][k]
      <3>1. 0 # c + 1
        BY <2>2
      <3> QED
        BY <1>1, <2>1, <2>2, <3>1 DEF Waiting
    <2>4. pos_ts[c] <= t /\ t < pos_ts[c] + Freq[c] + Slack(c)
      <3>1. /\ start[c][k] \in Nat /\ pos_ts[c] \in Int /\ Slack(c) \in Nat /\ Freq[c] \in Nat
            /\ start[c][k] <= t /\ t <= start[c][k] + Slack(c)
            /\ start[c][k] < pos_ts[c] + Freq[c]
        BY <1>5, <1>6, <2>2
      <3> QED
        BY <1>2, <2>3, <3>1
    <2> QED
      BY <2>2, <2>4 DEF Pending, LatestTs
  <1>8. ASSUME b <= reached[k], NEW c \in 1 .. b - 1 PROVE t < pos_ts[c] + Slack(c)
    <2>1. c \in Blocks /\ c <= reached[k] /\ c < reached[k]
      BY <1>3, <1>4, <1>8 DEF Blocks
    <2> QED
      BY <1>2, <1>5, <1>6, <2>1
  <1> QED
    BY <1>2, <1>4, <1>5, <1>6, <1>7, <1>8

(* A set of values that were accepted counts the updates that brought them.  *)
Accepted(U) == U \in SUBSET (Times \X Values) /\ \A u \in U : accepted[u] > 0
Counted(n, D, U) == FibreSums(accepted, U, One(D), 1 .. n, D)

(* What is summed over them can be summed over the updates.                  *)
LEMMA PointsAreUpdates ==
  ASSUME TypeOK, NEW n, NEW D, Log(D, n), NEW U, Accepted(U), Counted(n, D, U)
  PROVE  /\ IsFiniteSet(U) /\ IsFiniteSet(1 .. n)
         /\ Points(U) = SumFunctionOnSet(One(D), Fibre(1 .. n, D, U))
         /\ \A u \in U : \E k \in 1 .. n : D[k] = u
  <1>1. 1 .. n \in SUBSET (1 .. n)
    OBVIOUS
  <1>2. IsFiniteSet(1 .. n)
    BY <1>1, LogFinite
  <1>3. \A k \in 1 .. n : One(D)[k] \in Int
    BY LogFacts
  <1>4. ASSUME NEW u \in U PROVE \E k \in 1 .. n : D[k] = u
    <2>1. PICK G : G = Fibre(1 .. n, D, {u})
      OBVIOUS
    <2>2. G \in SUBSET (1 .. n)
      BY <2>1 DEF Fibre
    <2>3. SumFunctionOnSet(One(D), G) # 0
      <3>1. accepted[u] = SumFunctionOnSet(One(D), G)
        BY <2>1 DEF Counted, FibreSums
      <3>2. accepted[u] > 0
        BY DEF Accepted
      <3> QED
        BY <3>1, <3>2
    <2>4. G # {}
      BY <2>2, <2>3, OneFacts
    <2> QED
      BY <2>1, <2>4 DEF Fibre
  <1>5. IsFiniteSet(U)
    <2> DEFINE V == {D[k] : k \in 1 .. n}
    <2>1. [k \in 1 .. n |-> D[k]] \in Surjection(1 .. n, V)
      BY DEF Surjection
    <2>2. IsFiniteSet(V)
      BY <1>2, <2>1, FS_Surjection
    <2>3. U \in SUBSET V
      BY <1>4
    <2> QED
      BY <2>2, <2>3, FS_Subset
  <1>6. SumFunctionOnSet(accepted, U) = SumFunctionOnSet(One(D), Fibre(1 .. n, D, U))
    <2>1. PICK w : w = One(D)
      OBVIOUS
    <2>2. PICK K : K = 1 .. n
      OBVIOUS
    <2>3. /\ \A k \in K : w[k] \in Int
          /\ IsFiniteSet(K)
      BY <1>2, <1>3, <2>1, <2>2
    <2>4. FibreSums(accepted, U, w, K, D)
      BY <2>1, <2>2 DEF Counted
    <2>5. SumFunctionOnSet(accepted, U) = SumFunctionOnSet(w, Fibre(K, D, U))
      BY <1>5, <2>3, <2>4, SumFibres
    <2> QED
      BY <2>1, <2>2, <2>5
  <1>7. Points(U) = SumFunctionOnSet(accepted, U)
    BY Zenon DEF Points, SumFunctionOnSet
  <1> QED
    BY <1>2, <1>4, <1>5, <1>6, <1>7

(* Every update brought a value that was accepted.                           *)
LEMMA UpdatesAccepted ==
  ASSUME TypeOK, NEW n, NEW D, NEW reached, NEW start, Tracked(n, D, reached, start),
         NEW k \in 1 .. n
  PROVE  D[k] \in Times \X Values /\ accepted[D[k]] > 0
  <1>1. Log(D, n) /\ \A u \in Times \X Values :
          accepted[u] = SumFunctionOnSet(One(D), Fibre(1 .. n, D, {u}))
    BY DEF Tracked, History
  <1>2. PICK u \in Times \X Values : u = D[k]
    BY <1>1 DEF Log
  <1>3. PICK G : G = Fibre(1 .. n, D, {u})
    OBVIOUS
  <1>4. G \in SUBSET (1 .. n) /\ G # {}
    BY <1>2, <1>3 DEF Fibre
  <1>5. SumFunctionOnSet(One(D), G) \in Nat /\ SumFunctionOnSet(One(D), G) # 0
    BY <1>1, <1>4, OneFacts
  <1>6. accepted[u] = SumFunctionOnSet(One(D), G)
    BY <1>1, <1>3
  <1> QED
    BY <1>2, <1>5, <1>6

(* Sets of values that were accepted, and the updates that brought them.     *)
LEMMA BetweenFacts ==
  ASSUME TypeOK, NEW n, NEW D, NEW reached, NEW start, Tracked(n, D, reached, start),
         NEW from, NEW to
  PROVE  /\ \A U : U \in SUBSET Between(from, to) => Accepted(U) /\ Counted(n, D, U)
         /\ \A k \in 1 .. n : D[k] \in Between(from, to)
              <=> from <= NormalizedTs(D[k][1]) /\ NormalizedTs(D[k][1]) < to
  <1>1. \A u \in Times \X Values : accepted[u] = SumFunctionOnSet(One(D), Fibre(1 .. n, D, {u}))
    BY DEF Tracked
  <1>2. ASSUME NEW U, U \in SUBSET Between(from, to) PROVE Accepted(U) /\ Counted(n, D, U)
    <2>1. U \in SUBSET (Times \X Values) /\ \A u \in U : accepted[u] > 0
      BY <1>2 DEF Between
    <2> QED
      BY <1>1, <2>1 DEF Accepted, Counted, FibreSums
  <1>3. ASSUME NEW k \in 1 .. n
        PROVE  D[k] \in Between(from, to)
                 <=> from <= NormalizedTs(D[k][1]) /\ NormalizedTs(D[k][1]) < to
    <2>1. D[k] \in Times \X Values /\ accepted[D[k]] > 0
      BY UpdatesAccepted
    <2> QED
      BY <2>1 DEF Between
  <1> QED
    BY <1>2, <1>3

(* The interval of a slot.                                                   *)
Interval(b, s, from, to) ==
  from = pos_ts[b] - Age(b, s) * Freq[b] /\ to = from + Freq[b] /\ from \in Int

(* The updates filed in a slot lie between those that must be there and      *)
(* those that may; in the first two blocks the two are the same.             *)
LEMMA FiledBetween ==
  ASSUME TypeOK, ctx.block = 0, NEW n, NEW D, NEW reached, NEW start,
         Tracked(n, D, reached, start), NEW b \in Blocks, NEW s \in Slots(b),
         NEW F, F = Filed(reached, start, b, pos[b], pos_ts[b], s),
         NEW from, NEW to, Interval(b, s, from, to)
  PROVE  /\ Fibre(1 .. n, D, Known(b, from + Slack(b), to)) \in SUBSET F
         /\ F \in SUBSET Fibre(1 .. n, D, Passed(b, from, to + Slack(b)))
         /\ b \in {1, 2} => F = Fibre(1 .. n, D, Known(b, from, to))
         /\ F \in SUBSET (1 .. n)
  <1>1. DOMAIN reached = 1 .. n
    BY DEF Tracked, History
  <1>2. Slack(b) \in Nat /\ from \in Int /\ to \in Int /\ b \in Nat /\ 1 \in Blocks
    BY SlackFacts, PolicyFacts DEF Interval
  <1>3. ASSUME NEW k \in 1 .. n
        PROVE  k \in F <=> b <= reached[k] /\ from <= start[b][k] /\ start[b][k] < to
    BY <1>1 DEF Filed, Covers, Age, Interval
  <1>4. \A k \in 1 .. n :
          /\ reached[k] < b => Pending(b, NormalizedTs(D[k][1]))
          /\ b <= reached[k] => /\ \A c \in 1 .. b - 1 : NormalizedTs(D[k][1]) < pos_ts[c] + Slack(c)
                                /\ start[b][k] <= NormalizedTs(D[k][1])
                                /\ NormalizedTs(D[k][1]) <= start[b][k] + Slack(b)
          /\ NormalizedTs(D[k][1]) \in Nat /\ start[b][k] \in Nat /\ reached[k] \in Nat
    BY UpdateIsSomewhere
  <1>5. ASSUME NEW k \in Fibre(1 .. n, D, Known(b, from + Slack(b), to)) PROVE k \in F
    <2>1. PICK t : t = NormalizedTs(D[k][1])
      OBVIOUS
    <2>2. k \in 1 .. n /\ D[k] \in Between(from + Slack(b), to) /\ ~ Pending(b, t)
      BY <2>1 DEF Fibre, Known
    <2>3. from + Slack(b) <= t /\ t < to
      BY <2>1, <2>2, BetweenFacts
    <2>4. /\ reached[k] < b => Pending(b, t)
          /\ b <= reached[k] => start[b][k] <= t /\ t <= start[b][k] + Slack(b)
          /\ t \in Nat /\ start[b][k] \in Nat /\ reached[k] \in Nat
      BY <1>4, <2>1, <2>2, Zenon
    <2>5. b <= reached[k]
      BY <1>2, <2>2, <2>4
    <2>6. from <= start[b][k] /\ start[b][k] < to
      <3>1. start[b][k] <= t /\ t <= start[b][k] + Slack(b) /\ t \in Int /\ start[b][k] \in Int
        BY <2>4, <2>5
      <3>2. \A f, l, x, y, z \in Int :
              f + l <= x /\ x < z /\ y <= x /\ x <= y + l => f <= y /\ y < z
        OBVIOUS
      <3>3. Slack(b) \in Int
        BY <1>2
      <3> QED
        BY <1>2, <2>3, <3>1, <3>2, <3>3, Zenon
    <2> QED
      BY <1>3, <2>2, <2>5, <2>6
  <1>6. ASSUME NEW k \in F PROVE k \in Fibre(1 .. n, D, Passed(b, from, to + Slack(b)))
    <2>1. k \in 1 .. n
      BY <1>1 DEF Filed
    <2>2. b <= reached[k] /\ from <= start[b][k] /\ start[b][k] < to
      BY <1>3, <2>1
    <2>3. from <= NormalizedTs(D[k][1]) /\ NormalizedTs(D[k][1]) < to + Slack(b)
      BY <1>2, <1>4, <2>1, <2>2
    <2>4. \A c \in 1 .. b - 1 : NormalizedTs(D[k][1]) < pos_ts[c] + Slack(c)
      BY <1>4, <2>1, <2>2
    <2>5. D[k] \in Between(from, to + Slack(b))
      BY <2>1, <2>3, BetweenFacts
    <2> QED
      BY <2>1, <2>4, <2>5 DEF Fibre, Passed
  <1>7. F \in SUBSET (1 .. n)
    BY <1>1 DEF Filed
  <1>8. ASSUME b \in {1, 2} PROVE F = Fibre(1 .. n, D, Known(b, from, to))
    <2>1. Slack(b) = 0 /\ Slack(1) = 0
      BY <1>2, <1>8, SlackFacts
    <2>2. from + Slack(b) = from /\ to + Slack(b) = to
      BY <1>2, <2>1
    <2>3. Fibre(1 .. n, D, Known(b, from, to)) \in SUBSET F
      BY <1>5, <2>2
    <2>4. ASSUME NEW k \in F PROVE k \in Fibre(1 .. n, D, Known(b, from, to))
      <3>1. k \in 1 .. n /\ b <= reached[k]
        BY <1>3, <1>7
      <3>2. ASSUME NEW c \in 1 .. b - 1
            PROVE  ~ (pos_ts[c] <= NormalizedTs(D[k][1]))
        <4>1. c = 1 /\ c \in Blocks
          BY <1>2, <1>8
        <4>2. pos_ts[c] \in Int /\ NormalizedTs(D[k][1]) < pos_ts[c] + Slack(c)
          BY <1>4, <3>1, <4>1, BlockTypes
        <4> QED
          BY <1>4, <2>1, <3>1, <4>1, <4>2
      <3>3. ~ Pending(b, NormalizedTs(D[k][1]))
        BY <3>2 DEF Pending
      <3>4. D[k] \in Between(from, to)
        BY <1>6, <2>2 DEF Fibre, Passed
      <3> QED
        BY <3>1, <3>3, <3>4 DEF Fibre, Known
    <2> QED
      BY <2>3, <2>4
  <1> QED
    BY <1>5, <1>6, <1>7, <1>8

(* More updates count for more.                                              *)
LEMMA MoreUpdates ==
  ASSUME NEW n, NEW D, Log(D, n), NEW L \in SUBSET (1 .. n), NEW K \in SUBSET L
  PROVE  SumFunctionOnSet(One(D), K) <= SumFunctionOnSet(One(D), L)
  <1>1. IsFiniteSet(L)
    BY LogFinite
  <1>2. \A k \in L : One(D)[k] \in Nat
    BY LogFacts
  <1> QED
    BY <1>1, <1>2, SumMonotone

(* The values that updates brought sum up to the updates' values.            *)
LEMMA ValuesAreUpdates ==
  ASSUME TypeOK, NEW n, NEW D, Log(D, n), NEW U, Accepted(U), Counted(n, D, U),
         NEW g, g = [u \in U |-> u[2] * accepted[u]]
  PROVE  SumFunctionOnSet(g, U) = SumFunctionOnSet(Val(D), Fibre(1 .. n, D, U))
  <1>1. IsFiniteSet(1 .. n) /\ IsFiniteSet(U)
    BY PointsAreUpdates
  <1>2. ASSUME NEW u \in U PROVE g[u] = SumFunctionOnSet(Val(D), Fibre(1 .. n, D, {u}))
    <2>1. PICK G : G = Fibre(1 .. n, D, {u})
      OBVIOUS
    <2>2. PICK one, val, c : one = One(D) /\ val = Val(D) /\ c = u[2]
      OBVIOUS
    <2>3. G \in SUBSET (1 .. n) /\ \A k \in G : D[k] = u
      BY <2>1 DEF Fibre
    <2>4. IsFiniteSet(G)
      BY <2>3, LogFinite
    <2>5. c \in Int
      <3>1. u \in Times \X Values
        BY DEF Accepted
      <3> QED
        BY <2>2, <3>1, InputAssumption
    <2>6. \A k \in G : one[k] = 1 /\ val[k] = c
      BY <2>2, <2>3, LogFacts
    <2>7. \A k \in G : one[k] \in Int /\ val[k] = c * one[k]
      BY <2>5, <2>6
    <2>8. SumFunctionOnSet(val, G) = c * SumFunctionOnSet(one, G)
      BY <2>4, <2>5, <2>7, SumScale
    <2>9. accepted[u] = SumFunctionOnSet(one, G)
      BY <2>1, <2>2 DEF Counted, FibreSums
    <2>10. g[u] = c * accepted[u]
      BY <2>2
    <2> QED
      BY <2>1, <2>2, <2>8, <2>9, <2>10
  <1>3. FibreSums(g, U, Val(D), 1 .. n, D)
    BY <1>2 DEF FibreSums
  <1>4. PICK w : w = Val(D)
    OBVIOUS
  <1>5. PICK K : K = 1 .. n
    OBVIOUS
  <1>6. IsFiniteSet(K) /\ FibreSums(g, U, w, K, D) /\ \A k \in K : w[k] \in Int
    <2>1. \A k \in K : w[k] \in Int
      BY <1>4, <1>5, LogFacts
    <2> QED
      BY <1>1, <1>3, <1>4, <1>5, <2>1
  <1>7. PICK h : h = g
    OBVIOUS
  <1>8. FibreSums(h, U, w, K, D)
    BY <1>6, <1>7
  <1>9. SumFunctionOnSet(h, U) = SumFunctionOnSet(w, Fibre(K, D, U))
    BY <1>1, <1>6, <1>8, SumFibres
  <1> QED
    BY <1>4, <1>5, <1>7, <1>9

(* What a tuple of the first two blocks says, for the updates filed there    *)
(* are those known of its interval.                                          *)
Exact(t, U) ==
  /\ t.count = Points(U)
  /\ t.sum = FoldFunctionOnSet(+, 0, [u \in U |-> u[2] * accepted[u]], U)
  /\ t.count > 0 => /\ t.min \in {u[2] : u \in U} /\ t.max \in {u[2] : u \in U}
                    /\ \A u \in U : t.min <= u[2] /\ u[2] <= t.max

(* A tuple that aggregates the updates that brought U is exact.              *)
LEMMA AggregateIsExact ==
  ASSUME TypeOK, NEW n, NEW D, Log(D, n), NEW U, Accepted(U), Counted(n, D, U),
         NEW t, NEW F, F = Fibre(1 .. n, D, U), Aggregates(D, t, F)
  PROVE  Exact(t, U)
  <1>1. /\ Points(U) = SumFunctionOnSet(One(D), F)
        /\ \A u \in U : \E k \in 1 .. n : D[k] = u
    BY PointsAreUpdates
  <1>2. PICK g : g = [u \in U |-> u[2] * accepted[u]]
    OBVIOUS
  <1>3. SumFunctionOnSet(g, U) = SumFunctionOnSet(Val(D), F)
    BY <1>2, ValuesAreUpdates
  <1>4. FoldFunctionOnSet(+, 0, [u \in U |-> u[2] * accepted[u]], U) = SumFunctionOnSet(g, U)
    BY <1>2, Zenon DEF SumFunctionOnSet
  <1>6. /\ t.count = SumFunctionOnSet(One(D), F) /\ t.sum = SumFunctionOnSet(Val(D), F)
        /\ F # {} => Extremes(D, t, F)
    BY DEF Aggregates
  <1>7. F \in SUBSET (1 .. n) /\ \A k \in F : D[k] \in U
    BY DEF Fibre
  <1>8. t.count > 0 => F # {}
    <2>1. F = {} => t.count = 0
      BY <1>6, SumEmpty
    <2> QED
      BY <2>1
  <1>9. ASSUME F # {}
        PROVE  /\ t.min \in {u[2] : u \in U} /\ t.max \in {u[2] : u \in U}
               /\ \A u \in U : t.min <= u[2] /\ u[2] <= t.max
    <2>1. /\ \E k \in F : t.min = D[k][2]
          /\ \E k \in F : t.max = D[k][2]
          /\ \A k \in F : t.min <= D[k][2] /\ D[k][2] <= t.max
      BY <1>6, <1>9 DEF Extremes
    <2>2. \A u \in U : \E k \in F : D[k] = u
      BY <1>1 DEF Fibre
    <2> QED
      BY <1>7, <2>1, <2>2
  <1> QED
    BY <1>1, <1>3, <1>4, <1>6, <1>8, <1>9, Zenon DEF Exact

(* Slots start at numbers.                                                   *)
LEMMA IntervalStart ==
  ASSUME TypeOK, NEW b \in Blocks, NEW s \in Slots(b)
  PROVE  pos_ts[b] - Age(b, s) * Freq[b] \in Int
  <1>1. pos[b] \in Slots(b) /\ pos_ts[b] \in Int
    BY BlockTypes
  <1>2. Back(b, pos[b], s) \in Slots(b)
    BY <1>1, CircleFacts
  <1>3. Age(b, s) \in Int /\ Freq[b] \in Int
    BY <1>2, SlotNumbers DEF Age
  <1> QED
    BY <1>1, <1>3

(* Between two updates the first two blocks are exact.                       *)
LEMMA SlotIsExact ==
  ASSUME TypeOK, Explained, ctx = Idle, NEW b \in Blocks, b \in {1, 2}, NEW s \in Slots(b),
         NEW from, NEW to, Interval(b, s, from, to)
  PROVE  Exact(tuples[b][s], Known(b, from, to))
  <1>1. PICK n, D, reached, start : Tracked(n, D, reached, start)
    BY DEF Explained
  <1>2. PICK F : F = Filed(reached, start, b, pos[b], pos_ts[b], s)
    OBVIOUS
  <1>3. ctx.block = 0 /\ Log(D, n) /\ Aggregates(D, tuples[b][s], F)
    BY <1>1, <1>2 DEF Idle, Tracked, Filing, History
  <1>4. PICK U : U = Known(b, from, to)
    OBVIOUS
  <1>5. F = Fibre(1 .. n, D, U)
    BY <1>1, <1>2, <1>3, <1>4, FiledBetween
  <1>6. Accepted(U) /\ Counted(n, D, U)
    <2>1. U \in SUBSET Between(from, to)
      BY <1>4 DEF Known
    <2> QED
      BY <1>1, <2>1, BetweenFacts
  <1>7. Exact(tuples[b][s], U)
    BY <1>3, <1>5, <1>6, AggregateIsExact
  <1> QED
    BY <1>4, <1>7

(* And the others are bounded.                                               *)
LEMMA SlotIsBounded ==
  ASSUME TypeOK, Explained, ctx = Idle, NEW b \in Blocks, NEW s \in Slots(b),
         NEW from, NEW to, Interval(b, s, from, to)
  PROVE  /\ Points(Known(b, from + Slack(b), to)) <= tuples[b][s].count
         /\ tuples[b][s].count <= Points(Passed(b, from, to + Slack(b)))
  <1>1. PICK n, D, reached, start : Tracked(n, D, reached, start)
    BY DEF Explained
  <1>2. PICK F : F = Filed(reached, start, b, pos[b], pos_ts[b], s)
    OBVIOUS
  <1>3. ctx.block = 0 /\ Log(D, n) /\ tuples[b][s].count = SumFunctionOnSet(One(D), F)
    BY <1>1, <1>2 DEF Idle, Tracked, Filing, History, Aggregates
  <1>4. PICK U, V : U = Known(b, from + Slack(b), to) /\ V = Passed(b, from, to + Slack(b))
    OBVIOUS
  <1>5. /\ Fibre(1 .. n, D, U) \in SUBSET F
        /\ F \in SUBSET Fibre(1 .. n, D, V) /\ F \in SUBSET (1 .. n)
    BY <1>1, <1>2, <1>3, <1>4, FiledBetween
  <1>6. Accepted(U) /\ Counted(n, D, U) /\ Accepted(V) /\ Counted(n, D, V)
    <2>1. U \in SUBSET Between(from + Slack(b), to) /\ V \in SUBSET Between(from, to + Slack(b))
      BY <1>4 DEF Known, Passed
    <2> QED
      BY <1>1, <2>1, BetweenFacts
  <1>7. /\ Points(U) = SumFunctionOnSet(One(D), Fibre(1 .. n, D, U))
        /\ Points(V) = SumFunctionOnSet(One(D), Fibre(1 .. n, D, V))
    BY <1>3, <1>6, PointsAreUpdates
  <1>8. Fibre(1 .. n, D, V) \in SUBSET (1 .. n)
    BY DEF Fibre
  <1>9. /\ SumFunctionOnSet(One(D), Fibre(1 .. n, D, U)) <= SumFunctionOnSet(One(D), F)
        /\ SumFunctionOnSet(One(D), F) <= SumFunctionOnSet(One(D), Fibre(1 .. n, D, V))
    BY <1>3, <1>5, <1>8, MoreUpdates
  <1> QED
    BY <1>3, <1>4, <1>7, <1>9

(* The properties say so of every slot's interval.                           *)
LEMMA ExplainedIsRolledUp == TypeOK /\ Explained => RollupExact /\ RollupBounded
  <1> SUFFICES ASSUME TypeOK, Explained, ctx = Idle PROVE RollupExact /\ RollupBounded
    BY Zenon DEF RollupExact, RollupBounded
  <1>1. ASSUME NEW b \in Blocks, NEW s \in Slots(b)
        PROVE  Interval(b, s, pos_ts[b] - Age(b, s) * Freq[b],
                        pos_ts[b] - Age(b, s) * Freq[b] + Freq[b])
    BY IntervalStart DEF Interval
  <1>2. RollupExact
    <2>1. ASSUME NEW b \in Blocks, b \in {1, 2}, NEW s \in Slots(b)
          PROVE  Exact(tuples[b][s], Known(b, pos_ts[b] - Age(b, s) * Freq[b],
                                           pos_ts[b] - Age(b, s) * Freq[b] + Freq[b]))
      BY <1>1, <2>1, SlotIsExact
    <2> QED
      BY <2>1, Zenon DEF RollupExact, Exact
  <1>3. RollupBounded
    <2>1. ASSUME NEW b \in Blocks, NEW s \in Slots(b), NEW from, NEW to, Interval(b, s, from, to)
          PROVE  /\ Points(Known(b, from + Slack(b), to)) <= tuples[b][s].count
                 /\ tuples[b][s].count <= Points(Passed(b, from, to + Slack(b)))
      BY <2>1, SlotIsBounded
    <2> QED
      BY <1>1, <2>1, Zenon DEF RollupBounded
  <1> QED
    BY <1>2, <1>3

(* For every policy and every sequence of updates, the tuples of the first   *)
(* two blocks aggregate exactly the data of their intervals that reached     *)
(* them.                                                                     *)
THEOREM RollupsAreExact == Spec => []RollupExact
  BY TypeCorrect, ContentsExplained, ExplainedIsRolledUp, PTL

(* For every policy and every sequence of updates, no block loses data or    *)
(* counts it twice, nor files it more than the block's slack too early.      *)
THEOREM RollupsAreBounded == Spec => []RollupBounded
  BY TypeCorrect, ContentsExplained, ExplainedIsRolledUp, PTL



-----------------------------------------------------------------------------
(* What select hands to the walkers.                                         *)

(* The pieces of time a walker is handed and, of them, makes rows of.        *)
Spans == {t \in [block : Int, slot : Int, count : Nat, from : Int, to : Int] : t.from < t.to}
Row == [ts : Int, pieces : SUBSET Spans]

(* Places in a sequence of n elements.                                       *)
LEMMA Places ==
  ASSUME NEW n \in Nat
  PROVE  1 .. n \in SUBSET Int /\ IsFiniteSet(1 .. n)
  BY FS_Interval

(* A tuple's call is a piece of time.                                        *)
LEMMA CallIsSpan ==
  ASSUME TypeOK, NEW b \in Blocks, NEW s \in Slots(b)
  PROVE  Call(b, s) \in Spans
  <1>1. tuples[b][s].ts \in Int /\ tuples[b][s].count \in Nat
    BY TupleNumbers
  <1>2. Freq[b] \in Nat \ {0} /\ b \in Int /\ s \in Int
    BY SlotNumbers, PolicyFacts
  <1>3. tuples[b][s].ts + Freq[b] \in Int /\ tuples[b][s].ts < tuples[b][s].ts + Freq[b]
    BY <1>1, <1>2
  <1> QED
    BY <1>1, <1>2, <1>3 DEF Call, Spans

(* One block's calls are added to those before.                              *)
LEMMA AppendedByHolds ==
  ASSUME TypeOK, NEW q, NEW b \in Blocks, NEW calls \in Seq(Spans)
  PROVE  AppendedBy(q, b, calls) \in Seq(Spans)
  <1> DEFINE reached == Selected(b, q.from, q.to)
             slot(a) == Back(b, pos[b], a - 1)
             hand(done, a) == IF slot(a) \in reached THEN Append(done, Call(b, slot(a))) ELSE done
             places == [a \in 1 .. Count[b] |-> a]
             start == calls
             Goes(g) == g = [s \in SUBSET (DOMAIN places) |->
                               IF s = {} THEN start ELSE hand(g[s \ {Max(s)}], places[Max(s)])]
             h == [x \in Seq(Spans) \X (1 .. Count[b]) |-> hand(x[1], places[x[2]])]
             c == CHOOSE g : Goes(g)
  <1>1. AppendedBy(q, b, calls) = c[DOMAIN places]
    BY Zenon DEF AppendedBy, FoldLeft, MapThenFoldSet
  <1>2. DOMAIN places = 1 .. Count[b] /\ Count[b] \in Nat /\ start \in Seq(Spans)
    BY SlotNumbers
  <1>3. 1 .. Count[b] \in SUBSET Int /\ IsFiniteSet(1 .. Count[b])
    BY <1>2, Places
  <1>4. \A w \in Seq(Spans), a \in 1 .. Count[b] : hand(w, places[a]) \in Seq(Spans)
    <2> SUFFICES ASSUME NEW w \in Seq(Spans), NEW a \in 1 .. Count[b]
                 PROVE  Append(w, Call(b, slot(a))) \in Seq(Spans)
      OBVIOUS
    <2>1. pos[b] \in Slots(b) /\ a - 1 \in Slots(b)
      BY SlotNumbers, BlockTypes DEF Slots
    <2>2. Call(b, slot(a)) \in Spans
      BY <2>1, BackMeasures, CallIsSpan
    <2> QED
      BY <2>2
  <1>5. /\ StepsIn(h, Seq(Spans), 1 .. Count[b])
        /\ \A x \in Seq(Spans), a \in 1 .. Count[b] : h[<<x, a>>] = hand(x, places[a])
    BY <1>4 DEF StepsIn
  <1> HIDE DEF h, hand, slot, places, start
  <1>6. PICK g : /\ Walks(g, h, start, SUBSET (1 .. Count[b]))
                 /\ Inside(g, Seq(Spans), 1 .. Count[b])
    BY <1>2, <1>3, <1>5, WalkWithin
  <1>7. Goes(g)
    <2>1. \A s \in SUBSET (1 .. Count[b]) :
            s # {} => h[<<g[s \ {Max(s)}], Max(s)>>] = hand(g[s \ {Max(s)}], places[Max(s)])
      BY <1>5, <1>6 DEF Inside
    <2>2. g = [s \in SUBSET (1 .. Count[b]) |->
                 IF s = {} THEN start ELSE hand(g[s \ {Max(s)}], places[Max(s)])]
      BY <1>6, <2>1 DEF Walks
    <2> QED
      BY <1>2, <2>2, Zenon
  <1>8. Goes(c)
    BY <1>7, Zenon
  <1> HIDE DEF c
  <1>9. Follows(c, h, start, Seq(Spans), 1 .. Count[b])
    <2>1. \A s \in SUBSET (1 .. Count[b]) :
            c[s] = IF s = {} THEN start ELSE hand(c[s \ {Max(s)}], places[Max(s)])
      BY <1>2, <1>8
    <2>2. \A s \in SUBSET (1 .. Count[b]) :
            s # {} /\ Max(s) \in 1 .. Count[b] /\ c[s \ {Max(s)}] \in Seq(Spans)
            => hand(c[s \ {Max(s)}], places[Max(s)]) = h[<<c[s \ {Max(s)}], Max(s)>>]
      BY <1>5
    <2> QED
      BY <2>1, <2>2 DEF Follows
  <1>10. c[1 .. Count[b]] \in Seq(Spans)
    BY <1>2, <1>3, <1>5, <1>9, FollowingStays
  <1> QED
    BY <1>1, <1>2, <1>10, Zenon

(* All calls of walker.append are for pieces of time.                        *)
LEMMA AppendedHolds ==
  ASSUME TypeOK, NEW q
  PROVE  Appended(q) \in Seq(Spans)
  <1> DEFINE hand(done, b) == AppendedBy(q, b, done)
             places == [b \in Blocks |-> b]
             start == <<>>
             Goes(g) == g = [s \in SUBSET (DOMAIN places) |->
                               IF s = {} THEN start ELSE hand(g[s \ {Max(s)}], places[Max(s)])]
             h == [x \in Seq(Spans) \X (1 .. Len(Freq)) |-> hand(x[1], places[x[2]])]
             c == CHOOSE g : Goes(g)
  <1>1. Appended(q) = c[DOMAIN places]
    BY Zenon DEF Appended, FoldLeft, MapThenFoldSet
  <1>2. DOMAIN places = 1 .. Len(Freq) /\ Len(Freq) \in Nat /\ Blocks = 1 .. Len(Freq)
        /\ start \in Seq(Spans)
    BY PolicyFacts DEF Blocks
  <1>3. 1 .. Len(Freq) \in SUBSET Int /\ IsFiniteSet(1 .. Len(Freq))
    BY <1>2, Places
  <1>4. \A w \in Seq(Spans), a \in 1 .. Len(Freq) : hand(w, places[a]) \in Seq(Spans)
    BY <1>2, AppendedByHolds
  <1>5. /\ StepsIn(h, Seq(Spans), 1 .. Len(Freq))
        /\ \A x \in Seq(Spans), a \in 1 .. Len(Freq) : h[<<x, a>>] = hand(x, places[a])
    BY <1>4 DEF StepsIn
  <1> HIDE DEF h, hand, places, start
  <1>6. PICK g : /\ Walks(g, h, start, SUBSET (1 .. Len(Freq)))
                 /\ Inside(g, Seq(Spans), 1 .. Len(Freq))
    BY <1>2, <1>3, <1>5, WalkWithin
  <1>7. Goes(g)
    <2>1. \A s \in SUBSET (1 .. Len(Freq)) :
            s # {} => h[<<g[s \ {Max(s)}], Max(s)>>] = hand(g[s \ {Max(s)}], places[Max(s)])
      BY <1>5, <1>6 DEF Inside
    <2>2. g = [s \in SUBSET (1 .. Len(Freq)) |->
                 IF s = {} THEN start ELSE hand(g[s \ {Max(s)}], places[Max(s)])]
      BY <1>6, <2>1 DEF Walks
    <2> QED
      BY <1>2, <2>2, Zenon
  <1>8. Goes(c)
    BY <1>7, Zenon
  <1> HIDE DEF c
  <1>9. Follows(c, h, start, Seq(Spans), 1 .. Len(Freq))
    <2>1. \A s \in SUBSET (1 .. Len(Freq)) :
            c[s] = IF s = {} THEN start ELSE hand(c[s \ {Max(s)}], places[Max(s)])
      BY <1>2, <1>8
    <2>2. \A s \in SUBSET (1 .. Len(Freq)) :
            s # {} /\ Max(s) \in 1 .. Len(Freq) /\ c[s \ {Max(s)}] \in Seq(Spans)
            => hand(c[s \ {Max(s)}], places[Max(s)]) = h[<<c[s \ {Max(s)}], Max(s)>>]
      BY <1>5
    <2> QED
      BY <2>1, <2>2 DEF Follows
  <1>10. c[1 .. Len(Freq)] \in Seq(Spans)
    BY <1>2, <1>3, <1>5, <1>9, FollowingStays
  <1> QED
    BY <1>1, <1>2, <1>10, Zenon

-----------------------------------------------------------------------------
(* What the walkers make of it.                                              *)

(* Rows come most recent first.                                              *)
Descends(rows) == \A r, s \in 1 .. Len(rows) : r < s => rows[s].ts < rows[r].ts

(* No row is older than ts.                                                  *)
Reaches(rows, ts) == \A r \in 1 .. Len(rows) : ts <= rows[r].ts

(* What the types say of a row.                                              *)
LEMMA RowTypes ==
  \A rows \in Seq(Row) : \A r \in 1 .. Len(rows) :
    rows[r] \in Row /\ rows[r].ts \in Int /\ rows[r].pieces \in SUBSET Spans
  <1>1. \A x \in Row : x.ts \in Int /\ x.pieces \in SUBSET Spans
    BY DEF Row
  <1>2. \A rows \in Seq(Row) : \A r \in 1 .. Len(rows) : rows[r] \in Row
    OBVIOUS
  <1> QED
    BY <1>1, <1>2

(* A row older than the others goes to the end.                              *)
LEMMA RowAppended ==
  ASSUME NEW rows \in Seq(Row), NEW row \in Row, Descends(rows),
         \A r \in 1 .. Len(rows) : row.ts < rows[r].ts
  PROVE  /\ Append(rows, row) \in Seq(Row)
         /\ Descends(Append(rows, row))
         /\ \A r \in 1 .. Len(Append(rows, row)) :
              \/ Append(rows, row)[r] = row
              \/ r \in 1 .. Len(rows) /\ Append(rows, row)[r] = rows[r]
  <1> DEFINE new == Append(rows, row)
  <1>1. Len(rows) \in Nat /\ new \in Seq(Row) /\ Len(new) = Len(rows) + 1
    OBVIOUS
  <1>2. /\ \A r \in 1 .. Len(rows) : new[r] = rows[r]
        /\ new[Len(rows) + 1] = row
    OBVIOUS
  <1> HIDE DEF new
  <1>3. \A r \in 1 .. Len(new) : r \in 1 .. Len(rows) \/ r = Len(rows) + 1
    BY <1>1
  <1>4. Descends(new)
    <2> SUFFICES ASSUME NEW r \in 1 .. Len(new), NEW s \in 1 .. Len(new), r < s
                 PROVE  new[s].ts < new[r].ts
      BY DEF Descends
    <2>1. r \in 1 .. Len(rows)
      BY <1>1
    <2> QED
      BY <1>2, <1>3, <2>1 DEF Descends
  <1> QED
    BY <1>1, <1>2, <1>3, <1>4 DEF new

(* The walker without GROUP BY: its rows, and the start of the last one.     *)
PlainWalkers ==
  {w \in [rows : Seq(Row), last : Int] : Descends(w.rows) /\ Reaches(w.rows, w.last)}

(* It stays one.                                                             *)
LEMMA PlainAppendHolds ==
  ASSUME NEW q, NEW w \in PlainWalkers, NEW t \in Spans
  PROVE  PlainAppend(q, w, t) \in PlainWalkers
  <1>1. CASE ~ (q.from <= t.from /\ t.from < w.last /\ t.count > 0)
    BY <1>1 DEF PlainAppend
  <1>2. CASE q.from <= t.from /\ t.from < w.last /\ t.count > 0
    <2> DEFINE row == [ts |-> t.from, pieces |-> {t}]
               rows == Append(w.rows, row)
    <2>1. w.rows \in Seq(Row) /\ w.last \in Int /\ Descends(w.rows) /\ Reaches(w.rows, w.last)
      BY DEF PlainWalkers
    <2>2. t.from \in Int /\ row \in Row /\ row.ts = t.from
      BY DEF Spans, Row
    <2>3. \A r \in 1 .. Len(w.rows) : w.rows[r].ts \in Int
      BY <2>1, RowTypes
    <2>4. \A r \in 1 .. Len(w.rows) : row.ts < w.rows[r].ts
      BY <1>2, <2>1, <2>2, <2>3 DEF Reaches
    <2> HIDE DEF row
    <2>5. /\ rows \in Seq(Row) /\ Descends(rows)
          /\ \A r \in 1 .. Len(rows) :
               rows[r] = row \/ (r \in 1 .. Len(w.rows) /\ rows[r] = w.rows[r])
      BY <2>1, <2>2, <2>4, RowAppended
    <2> HIDE DEF rows
    <2>6. Reaches(rows, t.from)
      BY <2>2, <2>3, <2>4, <2>5 DEF Reaches
    <2>7. PlainAppend(q, w, t) = [rows |-> rows, last |-> t.from]
      BY <1>2 DEF PlainAppend, rows, row
    <2> QED
      BY <2>2, <2>5, <2>6, <2>7 DEF PlainWalkers
  <1> QED
    BY <1>1, <1>2

(* Without GROUP BY rows come most recent first.                             *)
LEMMA PlainRowsHold ==
  ASSUME TypeOK, NEW q, q.to \in Int
  PROVE  PlainRows(q) \in Seq(Row) /\ Descends(PlainRows(q))
  <1> DEFINE hand(w, t) == PlainAppend(q, w, t)
             places == Appended(q)
             start == [rows |-> <<>>, last |-> q.to + 1]
             Goes(g) == g = [s \in SUBSET (DOMAIN places) |->
                               IF s = {} THEN start ELSE hand(g[s \ {Max(s)}], places[Max(s)])]
             h == [x \in PlainWalkers \X (1 .. Len(Appended(q))) |-> hand(x[1], places[x[2]])]
             c == CHOOSE g : Goes(g)
  <1>1. PlainRows(q) = c[DOMAIN places].rows
    BY Zenon DEF PlainRows, FoldLeft, MapThenFoldSet
  <1>2. /\ DOMAIN places = 1 .. Len(Appended(q)) /\ Len(Appended(q)) \in Nat
        /\ places \in Seq(Spans) /\ start \in PlainWalkers
    <2>1. places \in Seq(Spans)
      BY AppendedHolds
    <2>2. <<>> \in Seq(Row) /\ Descends(<<>>) /\ Reaches(<<>>, q.to + 1)
      BY DEF Descends, Reaches
    <2>3. start \in PlainWalkers
      BY <2>2 DEF PlainWalkers
    <2> QED
      BY <2>1, <2>3
  <1>3. 1 .. Len(Appended(q)) \in SUBSET Int /\ IsFiniteSet(1 .. Len(Appended(q)))
    BY <1>2, Places
  <1>4. \A w \in PlainWalkers, a \in 1 .. Len(Appended(q)) : hand(w, places[a]) \in PlainWalkers
    <2>1. \A a \in 1 .. Len(Appended(q)) : places[a] \in Spans
      BY <1>2
    <2> QED
      BY <2>1, PlainAppendHolds
  <1>5. /\ StepsIn(h, PlainWalkers, 1 .. Len(Appended(q)))
        /\ \A x \in PlainWalkers, a \in 1 .. Len(Appended(q)) : h[<<x, a>>] = hand(x, places[a])
    BY <1>4 DEF StepsIn
  <1> HIDE DEF h, hand, places, start
  <1>6. PICK g : /\ Walks(g, h, start, SUBSET (1 .. Len(Appended(q))))
                 /\ Inside(g, PlainWalkers, 1 .. Len(Appended(q)))
    BY <1>2, <1>3, <1>5, WalkWithin
  <1>7. Goes(g)
    <2>1. \A s \in SUBSET (1 .. Len(Appended(q))) :
            s # {} => h[<<g[s \ {Max(s)}], Max(s)>>] = hand(g[s \ {Max(s)}], places[Max(s)])
      BY <1>5, <1>6 DEF Inside
    <2>2. g = [s \in SUBSET (1 .. Len(Appended(q))) |->
                 IF s = {} THEN start ELSE hand(g[s \ {Max(s)}], places[Max(s)])]
      BY <1>6, <2>1 DEF Walks
    <2> QED
      BY <1>2, <2>2, Zenon
  <1>8. Goes(c)
    BY <1>7, Zenon
  <1> HIDE DEF c
  <1>9. Follows(c, h, start, PlainWalkers, 1 .. Len(Appended(q)))
    <2>1. \A s \in SUBSET (1 .. Len(Appended(q))) :
            c[s] = IF s = {} THEN start ELSE hand(c[s \ {Max(s)}], places[Max(s)])
      BY <1>2, <1>8
    <2>2. \A s \in SUBSET (1 .. Len(Appended(q))) :
            s # {} /\ Max(s) \in 1 .. Len(Appended(q)) /\ c[s \ {Max(s)}] \in PlainWalkers
            => hand(c[s \ {Max(s)}], places[Max(s)]) = h[<<c[s \ {Max(s)}], Max(s)>>]
      BY <1>5
    <2> QED
      BY <2>1, <2>2 DEF Follows
  <1>10. c[1 .. Len(Appended(q))] \in PlainWalkers
    BY <1>2, <1>3, <1>5, <1>9, FollowingStays
  <1> QED
    <2>1. PlainRows(q) = c[1 .. Len(Appended(q))].rows
      BY <1>1, <1>2, Zenon
    <2> QED
      BY <1>10, <2>1 DEF PlainWalkers

(* A statement with GROUP BY.                                                *)
Grouping(q) ==
  q \in [from : Nat, to : Nat, group : Nat] /\ q.from < q.to /\ 0 < q.group

(* The walker with GROUP BY.                                                 *)
Walkers == [ts : Int, beg : Int, cur : SUBSET Spans, rows : Seq(Row), done : BOOLEAN]

(* A row has pieces of its group's time only.                                *)
InGroup(q, row) == \A p \in row.pieces : row.ts <= p.from /\ p.to <= row.ts + q.group
AllInGroup(q, rows) == \A r \in 1 .. Len(rows) : InGroup(q, rows[r])

(* The pieces that count, and that no instant counts twice.                  *)
InRows(rows) == UNION {rows[r].pieces : r \in 1 .. Len(rows)}
Apart(P) == \A p, o \in P : p = o \/ p.to <= o.from \/ o.to <= p.from

(* Older rows than the current group, until it has come to the beginning.    *)
Newer(q, w) ==
  \A r \in 1 .. Len(w.rows) : w.beg < w.rows[r].ts \/ (w.cur = {} /\ w.ts <= q.from)

(* What a walker keeps, even while it takes a piece that reaches back to the *)
(* beginning of the group...                                                 *)
Taking(q, w) ==
  /\ w \in Walkers
  /\ q.from <= w.beg /\ w.beg <= w.ts /\ w.ts <= w.beg + q.group
  /\ Descends(w.rows) /\ Reaches(w.rows, w.ts) /\ AllInGroup(q, w.rows)
  /\ Newer(q, w)
  /\ InGroup(q, [ts |-> w.beg, pieces |-> w.cur])
  /\ Apart(w.cur \cup InRows(w.rows))

(* ... and between its steps: all it has is past the instant it wants.       *)
After(w) == \A p \in w.cur : w.ts <= p.from
GroupWalkers(q) == {w \in Walkers : Taking(q, w) /\ After(w)}

(* What the types say of a walker, and of a piece.                           *)
LEMMA WalkerTypes ==
  \A w \in Walkers : /\ w.ts \in Int /\ w.beg \in Int /\ w.cur \in SUBSET Spans
                     /\ w.rows \in Seq(Row) /\ w.done \in BOOLEAN
  BY DEF Walkers
LEMMA SpanTypes ==
  \A p \in Spans : p.from \in Int /\ p.to \in Int /\ p.from < p.to
  BY DEF Spans
LEMMA QueryTypes ==
  ASSUME NEW q, Grouping(q)
  PROVE  q.from \in Int /\ q.to \in Int /\ q.group \in Int /\ q.from < q.to /\ 0 < q.group
  BY DEF Grouping

(* flush moves the current pieces to a row, or drops empty ones.             *)
LEMMA FlushRowHolds ==
  ASSUME NEW q, Grouping(q), NEW w, Taking(q, w)
  PROVE  /\ FlushRow(w) \in Walkers
         /\ FlushRow(w).ts = w.ts /\ FlushRow(w).beg = w.beg
         /\ Descends(FlushRow(w).rows) /\ Reaches(FlushRow(w).rows, w.beg)
         /\ AllInGroup(q, FlushRow(w).rows)
         /\ Apart(InRows(FlushRow(w).rows))
  <1>1. /\ w \in Walkers /\ w.ts \in Int /\ w.beg \in Int /\ w.cur \in SUBSET Spans
        /\ w.rows \in Seq(Row) /\ w.beg <= w.ts
        /\ Descends(w.rows) /\ Reaches(w.rows, w.ts) /\ AllInGroup(q, w.rows)
        /\ Newer(q, w) /\ Apart(w.cur \cup InRows(w.rows))
        /\ InGroup(q, [ts |-> w.beg, pieces |-> w.cur])
    BY WalkerTypes DEF Taking
  <1>2. \A r \in 1 .. Len(w.rows) : w.rows[r].ts \in Int /\ w.ts <= w.rows[r].ts
    BY <1>1, RowTypes DEF Reaches
  <1>3. Reaches(w.rows, w.beg)
    BY <1>1, <1>2 DEF Reaches
  <1>4. CASE ~ \E p \in w.cur : p.count > 0
    <2>1. FlushRow(w) = w
      BY <1>4 DEF FlushRow
    <2>2. Apart(InRows(w.rows))
      BY <1>1 DEF Apart
    <2> QED
      BY <1>1, <1>3, <2>1, <2>2
  <1>5. CASE \E p \in w.cur : p.count > 0
    <2> DEFINE row == [ts |-> w.beg, pieces |-> w.cur]
               rows == Append(w.rows, row)
    <2>1. row \in Row /\ row.ts = w.beg /\ row.pieces = w.cur /\ InGroup(q, row)
      BY <1>1 DEF Row
    <2>2. \A r \in 1 .. Len(w.rows) : w.beg < w.rows[r].ts
      BY <1>1, <1>5 DEF Newer
    <2>3. FlushRow(w) = [w EXCEPT !.rows = rows]
      BY <1>5 DEF FlushRow
    <2> HIDE DEF row
    <2>4. /\ rows \in Seq(Row) /\ Descends(rows)
          /\ \A r \in 1 .. Len(rows) :
               rows[r] = row \/ (r \in 1 .. Len(w.rows) /\ rows[r] = w.rows[r])
      BY <1>1, <2>1, <2>2, RowAppended
    <2> HIDE DEF rows
    <2>5. /\ FlushRow(w) \in Walkers
          /\ FlushRow(w).ts = w.ts /\ FlushRow(w).beg = w.beg /\ FlushRow(w).rows = rows
      BY <1>1, <2>3, <2>4 DEF Walkers
    <2>6. Reaches(rows, w.beg)
      BY <1>1, <1>2, <2>1, <2>2, <2>4 DEF Reaches
    <2>7. AllInGroup(q, rows)
      BY <1>1, <2>1, <2>4 DEF AllInGroup
    <2>8. Apart(InRows(rows))
      <3>1. \A p \in InRows(rows) : p \in w.cur \cup InRows(w.rows)
        <4> SUFFICES ASSUME NEW r \in 1 .. Len(rows), NEW p \in rows[r].pieces
                     PROVE  p \in w.cur \cup InRows(w.rows)
          BY DEF InRows
        <4> QED
          BY <2>1, <2>4 DEF InRows
      <3> QED
        BY <1>1, <3>1 DEF Apart
    <2> QED
      BY <2>4, <2>5, <2>6, <2>7, <2>8, Zenon
  <1> QED
    BY <1>4, <1>5

(* reset_cur_tuple, at the walker's beginning and after a flush.             *)
LEMMA ResetHolds ==
  ASSUME NEW q, Grouping(q), NEW w \in Walkers, NEW end \in Int, q.from <= end,
         Descends(w.rows), Reaches(w.rows, end), AllInGroup(q, w.rows), Apart(InRows(w.rows))
  PROVE  Reset(q, w, end) \in GroupWalkers(q)
  <1> DEFINE beg == Later(end - q.group, q.from)
             v == [w EXCEPT !.ts = end, !.beg = beg, !.cur = {}]
  <1>1. Reset(q, w, end) = v
    BY DEF Reset
  <1>2. /\ beg \in Int /\ q.from <= beg /\ beg <= end /\ end <= beg + q.group
        /\ beg < end \/ end <= q.from
    BY QueryTypes DEF Later
  <1> HIDE DEF beg
  <1>3. v \in Walkers /\ v.ts = end /\ v.beg = beg /\ v.cur = {} /\ v.rows = w.rows
    BY <1>2 DEF Walkers
  <1> HIDE DEF v
  <1>4. w.rows \in Seq(Row)
    BY WalkerTypes
  <1>5. Newer(q, v)
    <2> SUFFICES ASSUME NEW r \in 1 .. Len(w.rows)
                 PROVE  beg < w.rows[r].ts \/ end <= q.from
      BY <1>3 DEF Newer
    <2>1. w.rows[r].ts \in Int /\ end <= w.rows[r].ts
      BY <1>4, RowTypes DEF Reaches
    <2> QED
      BY <1>2, <2>1, QueryTypes
  <1>6. InGroup(q, [ts |-> v.beg, pieces |-> v.cur]) /\ After(v)
    BY <1>3 DEF InGroup, After
  <1>7. v.cur \cup InRows(v.rows) = InRows(w.rows)
    BY <1>3
  <1>8. Taking(q, v)
    BY <1>2, <1>3, <1>5, <1>6, <1>7 DEF Taking
  <1> QED
    BY <1>1, <1>3, <1>6, <1>8 DEF GroupWalkers

(* On to the group before.                                                   *)
LEMMA NextGroupHolds ==
  ASSUME NEW q, Grouping(q), NEW w, Taking(q, w)
  PROVE  NextGroup(q, w) \in GroupWalkers(q)
  <1>1. w \in Walkers /\ w.beg \in Int /\ q.from <= w.beg
    BY WalkerTypes DEF Taking
  <1> QED
    BY <1>1, FlushRowHolds, ResetHolds DEF NextGroup

(* The piece of a tuple that the group takes is before all it has.           *)
LEMMA TookHolds ==
  ASSUME NEW q, Grouping(q), NEW w \in GroupWalkers(q), NEW t \in Spans,
         t.from < w.ts, q.from < w.ts
  PROVE  /\ Taking(q, Took(w, Piece(w, t)))
         /\ Took(w, Piece(w, t)).ts = w.ts /\ Took(w, Piece(w, t)).beg = w.beg
         /\ w.beg <= t.from => \A p \in Took(w, Piece(w, t)).cur : t.from <= p.from
  <1>1. /\ w \in Walkers /\ w.ts \in Int /\ w.beg \in Int /\ w.cur \in SUBSET Spans
        /\ w.rows \in Seq(Row) /\ w.done \in BOOLEAN
        /\ q.from <= w.beg /\ w.beg <= w.ts /\ w.ts <= w.beg + q.group
        /\ Descends(w.rows) /\ Reaches(w.rows, w.ts) /\ AllInGroup(q, w.rows)
        /\ Newer(q, w) /\ Apart(w.cur \cup InRows(w.rows))
        /\ InGroup(q, [ts |-> w.beg, pieces |-> w.cur])
        /\ Taking(q, w) /\ \A p \in w.cur : w.ts <= p.from
    BY WalkerTypes DEF GroupWalkers, Taking, After
  <1> DEFINE from == Later(t.from, w.beg)
             to == Earlier(t.to, w.ts)
             p == [t EXCEPT !.from = from, !.to = to]
             v == Took(w, p)
  <1>2. Piece(w, t) = p
    BY DEF Piece
  <1>3. /\ t.from \in Int /\ t.to \in Int /\ from \in Int /\ to \in Int
        /\ w.beg <= from /\ to <= w.ts /\ t.from <= from
    BY <1>1, SpanTypes DEF Later, Earlier
  <1> HIDE DEF from, to
  <1>4. p.from = from /\ p.to = to /\ (from < to => p \in Spans)
    BY <1>3 DEF Spans
  <1> HIDE DEF p
  <1>5. \A o \in w.cur : t.from <= o.from
    BY <1>1, <1>3, SpanTypes
  <1>6. CASE ~ (from < to)
    <2>1. v = w
      BY <1>4, <1>6 DEF Took
    <2> QED
      BY <1>1, <1>2, <1>5, <2>1
  <1>7. CASE from < to
    <2>1. v = [w EXCEPT !.cur = w.cur \cup {p}]
      BY <1>4, <1>7 DEF Took
    <2>2. /\ v \in Walkers /\ v.ts = w.ts /\ v.beg = w.beg /\ v.rows = w.rows
          /\ v.cur = w.cur \cup {p}
      BY <1>1, <1>4, <1>7, <2>1 DEF Walkers
    <2> HIDE DEF v
    <2>3. Newer(q, v)
      BY <1>1, <2>2, QueryTypes DEF Newer
    <2>4. InGroup(q, [ts |-> v.beg, pieces |-> v.cur])
      <3>1. p.to <= w.beg + q.group
        BY <1>1, <1>3, <1>4, QueryTypes
      <3>2. \A o \in w.cur \cup {p} : w.beg <= o.from /\ o.to <= w.beg + q.group
        BY <1>1, <1>3, <1>4, <3>1 DEF InGroup
      <3> QED
        BY <2>2, <3>2 DEF InGroup
    <2>5. \A o \in InRows(w.rows) : p.to <= o.from
      <3> SUFFICES ASSUME NEW r \in 1 .. Len(w.rows), NEW o \in w.rows[r].pieces
                   PROVE  p.to <= o.from
        BY DEF InRows
      <3>1. w.rows[r].ts \in Int /\ o \in Spans /\ o.from \in Int
        BY <1>1, RowTypes, SpanTypes
      <3>2. w.ts <= w.rows[r].ts /\ w.rows[r].ts <= o.from
        BY <1>1 DEF Reaches, AllInGroup, InGroup
      <3> QED
        BY <1>1, <1>3, <1>4, <3>1, <3>2
    <2>6. \A o \in w.cur : p.to <= o.from
      BY <1>1, <1>3, <1>4, SpanTypes
    <2>7. Apart(v.cur \cup InRows(v.rows))
      BY <1>1, <2>2, <2>5, <2>6 DEF Apart
    <2>8. Taking(q, v)
      BY <1>1, <2>2, <2>3, <2>4, <2>7 DEF Taking
    <2>9. \A o \in v.cur : t.from <= o.from
      BY <1>3, <1>4, <1>5, <2>2
    <2> QED
      BY <1>2, <2>2, <2>8, <2>9 DEF v
  <1> QED
    BY <1>6, <1>7

(* One round of the second loop.                                             *)
LEMMA ShareHolds ==
  ASSUME NEW q, Grouping(q), NEW w \in GroupWalkers(q), NEW t \in Spans
  PROVE  Share(q, w, t) \in GroupWalkers(q)
  <1>1. /\ w.ts \in Int /\ w.beg \in Int /\ q.from \in Int /\ q.group \in Int /\ t.from \in Int
        /\ Taking(q, w)
    BY WalkerTypes, QueryTypes, SpanTypes DEF GroupWalkers
  <1>2. CASE w.done \/ t.from >= w.ts \/ w.ts <= q.from
    BY <1>2 DEF Share
  <1>3. CASE ~ (w.done \/ t.from >= w.ts \/ w.ts <= q.from)
    <2> DEFINE v == Took(w, Piece(w, t))
               u == [v EXCEPT !.ts = t.from, !.done = TRUE]
    <2>1. t.from < w.ts /\ q.from < w.ts
      BY <1>1, <1>3
    <2>2. /\ Taking(q, v) /\ v.ts = w.ts /\ v.beg = w.beg
          /\ w.beg <= t.from => \A p \in v.cur : t.from <= p.from
      BY <2>1, TookHolds
    <2>3. Share(q, w, t) = IF w.beg <= t.from THEN u ELSE NextGroup(q, v)
      BY <1>3 DEF Share
    <2> HIDE DEF v
    <2>4. CASE ~ (w.beg <= t.from)
      BY <2>2, <2>3, <2>4, NextGroupHolds
    <2>5. CASE w.beg <= t.from
      <3>1. /\ v \in Walkers /\ v.rows \in Seq(Row) /\ w.ts <= w.beg + q.group /\ q.from <= w.beg
            /\ Descends(v.rows) /\ Reaches(v.rows, w.ts) /\ AllInGroup(q, v.rows)
            /\ Newer(q, v) /\ Apart(v.cur \cup InRows(v.rows))
            /\ InGroup(q, [ts |-> w.beg, pieces |-> v.cur])
        BY <2>2, WalkerTypes DEF Taking
      <3>2. u \in Walkers /\ u.ts = t.from /\ u.beg = w.beg /\ u.rows = v.rows /\ u.cur = v.cur
        BY <1>1, <2>2, <3>1 DEF Walkers
      <3> HIDE DEF u
      <3>3. Reaches(v.rows, t.from)
        <4>1. \A r \in 1 .. Len(v.rows) : v.rows[r].ts \in Int
          BY <3>1, RowTypes
        <4> QED
          BY <1>1, <2>1, <3>1, <4>1 DEF Reaches
      <3>4. Newer(q, u)
        BY <1>1, <2>1, <2>2, <3>1, <3>2 DEF Newer
      <3>5. t.from <= w.beg + q.group
        BY <1>1, <2>1, <3>1
      <3>6. Taking(q, u)
        BY <2>5, <3>1, <3>2, <3>3, <3>4, <3>5 DEF Taking
      <3>7. After(u)
        BY <2>2, <2>5, <3>2 DEF After
      <3> QED
        BY <2>3, <2>5, <3>2, <3>6, <3>7 DEF GroupWalkers
    <2> QED
      BY <2>4, <2>5
  <1> QED
    BY <1>2, <1>3

(* One round of the first loop.                                              *)
LEMMA SkipHolds ==
  ASSUME NEW q, Grouping(q), NEW w \in GroupWalkers(q), NEW t
  PROVE  (IF t.to <= w.beg THEN NextGroup(q, w) ELSE w) \in GroupWalkers(q)
  BY NextGroupHolds DEF GroupWalkers

(* The first group ends where or after the statement does.                   *)
LEMMA FirstEndFacts ==
  ASSUME NEW q, Grouping(q)
  PROVE  /\ FirstEnd(q) \in Int /\ q.to <= FirstEnd(q)
         /\ (FirstEnd(q) - q.from) \div q.group + 1 \in Nat
  <1>1. q.from \in Nat /\ q.to \in Nat /\ q.group \in Nat \ {0} /\ q.from < q.to
    BY DEF Grouping
  <1>2. (q.to - q.from) % q.group \in 0 .. q.group - 1
    BY <1>1
  <1>3. FirstEnd(q) \in Int /\ q.to <= FirstEnd(q)
    BY <1>1, <1>2 DEF FirstEnd
  <1>4. FirstEnd(q) - q.from \in Nat
    BY <1>1, <1>3
  <1>5. \A n \in Nat, g \in Nat \ {0} : n \div g + 1 \in Nat
    OBVIOUS
  <1> QED
    BY <1>1, <1>3, <1>4, <1>5

(* The rounds of a loop.                                                     *)
LoopLength(q) == (FirstEnd(q) - q.from) \div q.group + 1

(* The first loop: the groups that begin after the tuple's end.              *)
LEMMA SkipGroupsHolds ==
  ASSUME NEW q, Grouping(q), NEW w \in GroupWalkers(q), NEW t
  PROVE  SkipGroups(q, w, t) \in GroupWalkers(q)
  <1> DEFINE hand(v, i) == IF t.to <= v.beg THEN NextGroup(q, v) ELSE v
             places == [i \in 1 .. LoopLength(q) |-> i]
             start == w
             Goes(g) == g = [s \in SUBSET (DOMAIN places) |->
                               IF s = {} THEN start ELSE hand(g[s \ {Max(s)}], places[Max(s)])]
             h == [x \in GroupWalkers(q) \X (1 .. LoopLength(q)) |-> hand(x[1], places[x[2]])]
             c == CHOOSE g : Goes(g)
  <1>1. SkipGroups(q, w, t) = c[DOMAIN places]
    BY Zenon DEF SkipGroups, Loop, LoopLength, FoldLeft, MapThenFoldSet
  <1>2. DOMAIN places = 1 .. LoopLength(q) /\ LoopLength(q) \in Nat /\ start \in GroupWalkers(q)
    BY FirstEndFacts DEF LoopLength
  <1>3. 1 .. LoopLength(q) \in SUBSET Int /\ IsFiniteSet(1 .. LoopLength(q))
    BY <1>2, Places
  <1>4. \A v \in GroupWalkers(q), a \in 1 .. LoopLength(q) : hand(v, places[a]) \in GroupWalkers(q)
    BY SkipHolds
  <1>5. /\ StepsIn(h, GroupWalkers(q), 1 .. LoopLength(q))
        /\ \A x \in GroupWalkers(q), a \in 1 .. LoopLength(q) : h[<<x, a>>] = hand(x, places[a])
    BY <1>4 DEF StepsIn
  <1> HIDE DEF h, hand, places, start
  <1>6. PICK g : /\ Walks(g, h, start, SUBSET (1 .. LoopLength(q)))
                 /\ Inside(g, GroupWalkers(q), 1 .. LoopLength(q))
    BY <1>2, <1>3, <1>5, WalkWithin
  <1>7. Goes(g)
    <2>1. \A s \in SUBSET (1 .. LoopLength(q)) :
            s # {} => h[<<g[s \ {Max(s)}], Max(s)>>] = hand(g[s \ {Max(s)}], places[Max(s)])
      BY <1>5, <1>6 DEF Inside
    <2>2. g = [s \in SUBSET (1 .. LoopLength(q)) |->
                 IF s = {} THEN start ELSE hand(g[s \ {Max(s)}], places[Max(s)])]
      BY <1>6, <2>1 DEF Walks
    <2> QED
      BY <1>2, <2>2, Zenon
  <1>8. Goes(c)
    BY <1>7, Zenon
  <1> HIDE DEF c
  <1>9. Follows(c, h, start, GroupWalkers(q), 1 .. LoopLength(q))
    <2>1. \A s \in SUBSET (1 .. LoopLength(q)) :
            c[s] = IF s = {} THEN start ELSE hand(c[s \ {Max(s)}], places[Max(s)])
      BY <1>2, <1>8
    <2>2. \A s \in SUBSET (1 .. LoopLength(q)) :
            s # {} /\ Max(s) \in 1 .. LoopLength(q) /\ c[s \ {Max(s)}] \in GroupWalkers(q)
            => hand(c[s \ {Max(s)}], places[Max(s)]) = h[<<c[s \ {Max(s)}], Max(s)>>]
      BY <1>5
    <2> QED
      BY <2>1, <2>2 DEF Follows
  <1>10. c[1 .. LoopLength(q)] \in GroupWalkers(q)
    BY <1>2, <1>3, <1>5, <1>9, FollowingStays
  <1> QED
    BY <1>1, <1>2, <1>10, Zenon

(* The second loop: the tuple's pieces.                                      *)
LEMMA GroupAppendHolds ==
  ASSUME NEW q, Grouping(q), NEW w \in GroupWalkers(q), NEW t \in Spans
  PROVE  GroupAppend(q, w, t) \in GroupWalkers(q)
  <1>0. SkipGroups(q, [w EXCEPT !.done = FALSE], t) \in GroupWalkers(q)
    <2> DEFINE v == [w EXCEPT !.done = FALSE]
    <2>1. w \in Walkers /\ Taking(q, w) /\ After(w)
      BY DEF GroupWalkers
    <2>2. v \in Walkers /\ v.ts = w.ts /\ v.beg = w.beg /\ v.cur = w.cur /\ v.rows = w.rows
      BY <2>1 DEF Walkers
    <2> HIDE DEF v
    <2>3. Taking(q, v) /\ After(v)
      BY <2>1, <2>2 DEF Taking, After, Newer
    <2>4. v \in GroupWalkers(q)
      BY <2>2, <2>3 DEF GroupWalkers
    <2> QED
      BY <2>4, SkipGroupsHolds DEF v
  <1> DEFINE hand(v, i) == Share(q, v, t)
             places == [i \in 1 .. LoopLength(q) |-> i]
             start == SkipGroups(q, [w EXCEPT !.done = FALSE], t)
             Goes(g) == g = [s \in SUBSET (DOMAIN places) |->
                               IF s = {} THEN start ELSE hand(g[s \ {Max(s)}], places[Max(s)])]
             h == [x \in GroupWalkers(q) \X (1 .. LoopLength(q)) |-> hand(x[1], places[x[2]])]
             c == CHOOSE g : Goes(g)
  <1>1. GroupAppend(q, w, t) = c[DOMAIN places]
    BY Zenon DEF GroupAppend, Loop, LoopLength, FoldLeft, MapThenFoldSet
  <1>2. DOMAIN places = 1 .. LoopLength(q) /\ LoopLength(q) \in Nat /\ start \in GroupWalkers(q)
    BY <1>0, FirstEndFacts DEF LoopLength
  <1>3. 1 .. LoopLength(q) \in SUBSET Int /\ IsFiniteSet(1 .. LoopLength(q))
    BY <1>2, Places
  <1>4. \A v \in GroupWalkers(q), a \in 1 .. LoopLength(q) : hand(v, places[a]) \in GroupWalkers(q)
    BY ShareHolds
  <1>5. /\ StepsIn(h, GroupWalkers(q), 1 .. LoopLength(q))
        /\ \A x \in GroupWalkers(q), a \in 1 .. LoopLength(q) : h[<<x, a>>] = hand(x, places[a])
    BY <1>4 DEF StepsIn
  <1> HIDE DEF h, hand, places, start
  <1>6. PICK g : /\ Walks(g, h, start, SUBSET (1 .. LoopLength(q)))
                 /\ Inside(g, GroupWalkers(q), 1 .. LoopLength(q))
    BY <1>2, <1>3, <1>5, WalkWithin
  <1>7. Goes(g)
    <2>1. \A s \in SUBSET (1 .. LoopLength(q)) :
            s # {} => h[<<g[s \ {Max(s)}], Max(s)>>] = hand(g[s \ {Max(s)}], places[Max(s)])
      BY <1>5, <1>6 DEF Inside
    <2>2. g = [s \in SUBSET (1 .. LoopLength(q)) |->
                 IF s = {} THEN start ELSE hand(g[s \ {Max(s)}], places[Max(s)])]
      BY <1>6, <2>1 DEF Walks
    <2> QED
      BY <1>2, <2>2, Zenon
  <1>8. Goes(c)
    BY <1>7, Zenon
  <1> HIDE DEF c
  <1>9. Follows(c, h, start, GroupWalkers(q), 1 .. LoopLength(q))
    <2>1. \A s \in SUBSET (1 .. LoopLength(q)) :
            c[s] = IF s = {} THEN start ELSE hand(c[s \ {Max(s)}], places[Max(s)])
      BY <1>2, <1>8
    <2>2. \A s \in SUBSET (1 .. LoopLength(q)) :
            s # {} /\ Max(s) \in 1 .. LoopLength(q) /\ c[s \ {Max(s)}] \in GroupWalkers(q)
            => hand(c[s \ {Max(s)}], places[Max(s)]) = h[<<c[s \ {Max(s)}], Max(s)>>]
      BY <1>5
    <2> QED
      BY <2>1, <2>2 DEF Follows
  <1>10. c[1 .. LoopLength(q)] \in GroupWalkers(q)
    BY <1>2, <1>3, <1>5, <1>9, FollowingStays
  <1> QED
    BY <1>1, <1>2, <1>10, Zenon

(* The constructor's walker, before anything is appended.                    *)
LEMMA NewWalkerHolds ==
  ASSUME NEW q, Grouping(q)
  PROVE  Reset(q, [ts |-> 0, beg |-> 0, cur |-> {}, rows |-> <<>>, done |-> FALSE], FirstEnd(q))
           \in GroupWalkers(q)
  <1> DEFINE new == [ts |-> 0, beg |-> 0, cur |-> {}, rows |-> <<>>, done |-> FALSE]
  <1>1. new \in Walkers /\ new.rows = <<>>
    BY DEF Walkers
  <1>2. Descends(<<>>) /\ Reaches(<<>>, FirstEnd(q)) /\ AllInGroup(q, <<>>) /\ Apart(InRows(<<>>))
    BY DEF Descends, Reaches, AllInGroup, InRows, Apart
  <1>3. FirstEnd(q) \in Int /\ q.from <= FirstEnd(q)
    BY FirstEndFacts, QueryTypes
  <1> HIDE DEF new
  <1>4. Reset(q, new, FirstEnd(q)) \in GroupWalkers(q)
    BY <1>1, <1>2, <1>3, ResetHolds
  <1> QED
    BY <1>4 DEF new

(* With GROUP BY rows come most recent first, and no instant counts twice.   *)
LEMMA GroupRowsHold ==
  ASSUME TypeOK, NEW q, Grouping(q)
  PROVE  /\ GroupRows(q) \in Seq(Row) /\ Descends(GroupRows(q))
         /\ AllInGroup(q, GroupRows(q)) /\ Apart(InRows(GroupRows(q)))
  <1> DEFINE hand(w, t) == GroupAppend(q, w, t)
             places == Appended(q)
             start == Reset(q, [ts |-> 0, beg |-> 0, cur |-> {}, rows |-> <<>>, done |-> FALSE],
                            FirstEnd(q))
             Goes(g) == g = [s \in SUBSET (DOMAIN places) |->
                               IF s = {} THEN start ELSE hand(g[s \ {Max(s)}], places[Max(s)])]
             h == [x \in GroupWalkers(q) \X (1 .. Len(Appended(q))) |-> hand(x[1], places[x[2]])]
             c == CHOOSE g : Goes(g)
  <1>1. GroupRows(q) = FlushRow(c[DOMAIN places]).rows
    BY Zenon DEF GroupRows, FoldLeft, MapThenFoldSet
  <1>2. /\ DOMAIN places = 1 .. Len(Appended(q)) /\ Len(Appended(q)) \in Nat
        /\ places \in Seq(Spans) /\ start \in GroupWalkers(q)
    BY AppendedHolds, NewWalkerHolds
  <1>3. 1 .. Len(Appended(q)) \in SUBSET Int /\ IsFiniteSet(1 .. Len(Appended(q)))
    BY <1>2, Places
  <1>4. \A w \in GroupWalkers(q), a \in 1 .. Len(Appended(q)) :
          hand(w, places[a]) \in GroupWalkers(q)
    <2>1. \A a \in 1 .. Len(Appended(q)) : places[a] \in Spans
      BY <1>2
    <2> QED
      BY <2>1, GroupAppendHolds
  <1>5. /\ StepsIn(h, GroupWalkers(q), 1 .. Len(Appended(q)))
        /\ \A x \in GroupWalkers(q), a \in 1 .. Len(Appended(q)) : h[<<x, a>>] = hand(x, places[a])
    BY <1>4 DEF StepsIn
  <1> HIDE DEF h, hand, places, start
  <1>6. PICK g : /\ Walks(g, h, start, SUBSET (1 .. Len(Appended(q))))
                 /\ Inside(g, GroupWalkers(q), 1 .. Len(Appended(q)))
    BY <1>2, <1>3, <1>5, WalkWithin
  <1>7. Goes(g)
    <2>1. \A s \in SUBSET (1 .. Len(Appended(q))) :
            s # {} => h[<<g[s \ {Max(s)}], Max(s)>>] = hand(g[s \ {Max(s)}], places[Max(s)])
      BY <1>5, <1>6 DEF Inside
    <2>2. g = [s \in SUBSET (1 .. Len(Appended(q))) |->
                 IF s = {} THEN start ELSE hand(g[s \ {Max(s)}], places[Max(s)])]
      BY <1>6, <2>1 DEF Walks
    <2> QED
      BY <1>2, <2>2, Zenon
  <1>8. Goes(c)
    BY <1>7, Zenon
  <1> HIDE DEF c
  <1>9. Follows(c, h, start, GroupWalkers(q), 1 .. Len(Appended(q)))
    <2>1. \A s \in SUBSET (1 .. Len(Appended(q))) :
            c[s] = IF s = {} THEN start ELSE hand(c[s \ {Max(s)}], places[Max(s)])
      BY <1>2, <1>8
    <2>2. \A s \in SUBSET (1 .. Len(Appended(q))) :
            s # {} /\ Max(s) \in 1 .. Len(Appended(q)) /\ c[s \ {Max(s)}] \in GroupWalkers(q)
            => hand(c[s \ {Max(s)}], places[Max(s)]) = h[<<c[s \ {Max(s)}], Max(s)>>]
      BY <1>5
    <2> QED
      BY <2>1, <2>2 DEF Follows
  <1>10. c[1 .. Len(Appended(q))] \in GroupWalkers(q)
    BY <1>2, <1>3, <1>5, <1>9, FollowingStays
  <1> QED
    <2>1. GroupRows(q) = FlushRow(c[1 .. Len(Appended(q))]).rows
      BY <1>1, <1>2, Zenon
    <2>2. Taking(q, c[1 .. Len(Appended(q))])
      BY <1>10 DEF GroupWalkers
    <2>3. FlushRow(c[1 .. Len(Appended(q))]) \in Walkers
      BY <2>2, FlushRowHolds
    <2> QED
      BY <2>1, <2>2, <2>3, FlushRowHolds, WalkerTypes

(* SelectCountsOnce: rrdb_metric::select with either walker returns rows,    *)
(* most recent first, and with GROUP BY no instant of a row's pieces counts  *)
(* twice, in this row or another, and none is outside the row's group.       *)
THEOREM InstantsCountOnce == Spec => []SelectCountsOnce
  <1>1. TypeOK => SelectCountsOnce
    <2> SUFFICES ASSUME TypeOK, NEW q \in Queries
                 PROVE  LET rows == Rows(q)
                            R == 1 .. Len(rows)
                        IN  /\ \A r, s \in R : r < s => rows[s].ts < rows[r].ts
                            /\ q.group > 0 =>
                                 /\ \A r \in R : \A p \in rows[r].pieces :
                                      /\ rows[r].ts <= p.from /\ p.from < p.to
                                      /\ p.to <= rows[r].ts + q.group
                                 /\ \A r, s \in R : \A p \in rows[r].pieces, o \in rows[s].pieces :
                                      p = o \/ p.to <= o.from \/ o.to <= p.from
      BY DEF SelectCountsOnce
    <2>1. q \in [from : Nat, to : Nat, group : Nat] /\ q.from < q.to
      BY QueryAssumption
    <2>2. CASE ~ (q.group > 0)
      <3>1. Rows(q) = PlainRows(q)
        BY <2>2 DEF Rows
      <3>2. Descends(Rows(q))
        BY <2>1, <3>1, PlainRowsHold
      <3> QED
        BY <2>2, <3>2 DEF Descends
    <2>3. CASE q.group > 0
      <3>1. Grouping(q) /\ Rows(q) = GroupRows(q)
        BY <2>1, <2>3 DEF Grouping, Rows
      <3>2. /\ Rows(q) \in Seq(Row) /\ Descends(Rows(q))
            /\ AllInGroup(q, Rows(q)) /\ Apart(InRows(Rows(q)))
        BY <3>1, GroupRowsHold
      <3>3. \A r \in 1 .. Len(Rows(q)) : \A p \in Rows(q)[r].pieces :
              Rows(q)[r].ts <= p.from /\ p.from < p.to /\ p.to <= Rows(q)[r].ts + q.group
        BY <3>2, RowTypes, SpanTypes DEF AllInGroup, InGroup
      <3>4. \A r, s \in 1 .. Len(Rows(q)) :
              \A p \in Rows(q)[r].pieces, o \in Rows(q)[s].pieces :
                p = o \/ p.to <= o.from \/ o.to <= p.from
        BY <3>2 DEF Apart, InRows
      <3> QED
        BY <3>2, <3>3, <3>4 DEF Descends
    <2> QED
      BY <2>2, <2>3
  <1> QED
    BY <1>1, TypeCorrect, PTL
=============================================================================
