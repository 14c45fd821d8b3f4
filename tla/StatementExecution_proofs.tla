--------------------- MODULE StatementExecution_proofs ---------------------
(***************************************************************************)
(* For every width of intervals, every set of units and every statement:   *)
(* intervals and policies are shown as they were read, an accepted policy  *)
(* gives blocks the algorithms can work with, and a metric is without a    *)
(* file only if its name is empty or its last element keeps nothing.       *)
(***************************************************************************)
EXTENDS StatementExecution, TLAPS

-----------------------------------------------------------------------------
(* Division.                                                                 *)

LEMMA DivisionFacts ==
  ASSUME NEW a \in Nat, NEW b \in Nat \ {0}
  PROVE  /\ a \div b \in Nat /\ a \div b <= a
         /\ a % b \in Nat /\ a % b < b
         /\ a = b * (a \div b) + (a % b)
  OBVIOUS

LEMMA ExactDivision ==
  ASSUME NEW a \in Nat, NEW b \in Nat \ {0}, a % b = 0
  PROVE  b * (a \div b) = a /\ (a \div b) * b = a /\ ((a \div b) = 0 <=> a = 0)
  OBVIOUS

LEMMA SmallRemainder ==
  ASSUME NEW a \in Nat, NEW m \in Nat \ {0}, a < m
  PROVE  a % m = a
  OBVIOUS

-----------------------------------------------------------------------------
(* Intervals.                                                                *)

(* Some unit divides an interval, a sec at least, and there is a coarsest.   *)
LEMMA UnitForFacts ==
  ASSUME NEW i \in Interval
  PROVE  UnitFor(i) \in UnitIds /\ i % Units[UnitFor(i)] = 0
  <1> DEFINE P == [u \in UnitIds |-> Fits(i, u)]
  <1>1. P[1]
    <2>1. i \in Nat /\ Units[1] = 1 /\ 1 \in UnitIds
      BY UnitsAssumption DEF UnitIds, Interval
    <2>2. i % 1 = 0
      BY <2>1
    <2>3. Fits(i, 1)
      BY <2>1, <2>2 DEF Fits
    <2> QED
      BY <2>1, <2>3, Zenon
  <1>2. \E u \in UnitIds : P[u] /\ \A v \in UnitIds : v > u => ~P[v]
    <2> HIDE DEF P
    <2> QED
      BY <1>1 DEF UnitIds
  <1>3. \E u \in UnitIds : Fits(i, u) /\ \A v \in UnitIds : v > u => ~Fits(i, v)
    BY <1>2
  <1>4. UnitFor(i) \in UnitIds /\ Fits(i, UnitFor(i))
    BY <1>3 DEF UnitFor
  <1> QED
    BY <1>4 DEF Fits

(* What interval_write writes, interval_grammar reads.                       *)
LEMMA IntervalRoundTrip ==
  ASSUME NEW i \in Interval
  PROVE  WriteInterval(i) \in Written /\ ReadInterval(WriteInterval(i)) = i
  <1>1. /\ Modulus \in Nat \ {0} /\ i \in Nat /\ i < Modulus
        /\ UnitFor(i) \in UnitIds /\ i % Units[UnitFor(i)] = 0
        /\ Units[UnitFor(i)] \in Nat \ {0}
    BY UnitsAssumption, UnitForFacts DEF Interval
  <1> DEFINE unit == Units[UnitFor(i)]
  <1>2. /\ i \div unit \in Nat /\ i \div unit <= i
        /\ (i \div unit) * unit = i
    BY <1>1, DivisionFacts, ExactDivision
  <1>3. i \div unit \in Interval
    BY <1>1, <1>2 DEF Interval
  <1>4. WriteInterval(i) = [number |-> i \div unit, unit |-> UnitFor(i), plural |-> i \div unit > 1]
    BY DEF WriteInterval
  <1>5. WriteInterval(i) \in Written
    BY <1>1, <1>3, <1>4 DEF Written
  <1>6. ReadInterval(WriteInterval(i)) = i % Modulus
    BY <1>2, <1>4 DEF ReadInterval
  <1> QED
    BY <1>1, <1>5, <1>6, SmallRemainder

-----------------------------------------------------------------------------
(* Policies.                                                                 *)

(* An element, and what it has to do with the one before it.                 *)
LEMMA ElementFacts ==
  ASSUME NEW p \in Policy, Accepted(p), NEW k \in DOMAIN p
  PROVE  /\ p[k] \in [freq : Interval, duration : Interval]
         /\ p[k].freq \in Interval \ {0} /\ p[k].duration \in Interval
         /\ p[k].freq \in Nat \ {0} /\ p[k].duration \in Nat
         /\ p[k].duration < Modulus /\ Modulus \in Nat \ {0}
         /\ p[k].duration % p[k].freq = 0
         /\ k > 1 => /\ k - 1 \in DOMAIN p
                     /\ p[k].freq % p[k - 1].freq = 0
                     /\ p[k].freq <= p[k - 1].duration
  <1>1. Sound(p, k)
    BY DEF Accepted
  <1>2. p[k] \in [freq : Interval, duration : Interval]
    <2> DEFINE E == [freq : Interval, duration : Interval]
    <2>1. p \in Seq(E)
      BY DEF Policy
    <2> HIDE DEF E
    <2>2. p[k] \in E
      BY <2>1
    <2> QED
      BY <2>2 DEF E
  <1>3. k > 1 => k - 1 \in DOMAIN p
    BY DEF Policy
  <1>4. p[k].freq \in Interval /\ p[k].duration \in Interval
    BY <1>2
  <1> QED
    BY <1>1, <1>2, <1>3, <1>4, UnitsAssumption DEF Sound, Interval

(* A block keeps exactly the duration of its element.                        *)
LEMMA BlockFacts ==
  ASSUME NEW p \in Policy, Accepted(p), NEW k \in DOMAIN p
  PROVE  /\ DOMAIN BlocksOf(p) = DOMAIN p
         /\ BlocksOf(p)[k] \in [freq : Nat, count : Nat]
         /\ BlocksOf(p)[k].freq = p[k].freq
         /\ BlocksOf(p)[k].freq * BlocksOf(p)[k].count = p[k].duration
         /\ BlocksOf(p)[k].count = 0 <=> p[k].duration = 0
  <1>1. BlocksOf(p)[k] = [freq |-> p[k].freq, count |-> p[k].duration \div p[k].freq]
    BY DEF BlocksOf
  <1>2. /\ p[k].freq \in Nat \ {0} /\ p[k].duration \in Nat
        /\ p[k].duration % p[k].freq = 0
    BY ElementFacts
  <1>3. /\ p[k].duration \div p[k].freq \in Nat
        /\ p[k].freq * (p[k].duration \div p[k].freq) = p[k].duration
        /\ (p[k].duration \div p[k].freq) = 0 <=> p[k].duration = 0
    BY <1>2, DivisionFacts, ExactDivision
  <1>4. DOMAIN BlocksOf(p) = DOMAIN p
    BY DEF BlocksOf
  <1> QED
    BY <1>1, <1>2, <1>3, <1>4

(* The blocks form a sequence of blocks.                                     *)
LEMMA BlocksType ==
  ASSUME NEW p \in Policy, Accepted(p)
  PROVE  BlocksOf(p) \in Seq([freq : Nat, count : Nat]) /\ Len(BlocksOf(p)) = Len(p)
  <1>1. Len(p) \in Nat /\ DOMAIN p = 1 .. Len(p)
    BY DEF Policy
  <1>2. \A k \in DOMAIN p :
          [freq |-> p[k].freq, count |-> p[k].duration \div p[k].freq] \in [freq : Nat, count : Nat]
    BY BlockFacts DEF BlocksOf
  <1> QED
    BY <1>1, <1>2 DEF BlocksOf

(* Only the last element may have duration zero: the next one's frequency is *)
(* positive and does not exceed it.                                          *)
LEMMA OnlyLastEmpty ==
  ASSUME NEW p \in Policy, Accepted(p), p # <<>>
  PROVE  /\ Len(p) \in DOMAIN p
         /\ (\A k \in DOMAIN BlocksOf(p) : BlocksOf(p)[k].count > 0)
              <=> p[Len(p)].duration # 0
  <1>1. Len(p) \in DOMAIN p /\ DOMAIN p = 1 .. Len(p)
    BY DEF Policy
  <1>2. ASSUME NEW k \in DOMAIN p, k # Len(p)
        PROVE  p[k].duration # 0
    <2>1. k + 1 \in DOMAIN p /\ (k + 1) - 1 = k /\ k + 1 > 1
      BY <1>1, <1>2
    <2>2. p[k + 1].freq \in Nat \ {0} /\ p[k + 1].freq <= p[(k + 1) - 1].duration
      BY <2>1, ElementFacts
    <2>3. p[k].duration \in Nat
      BY ElementFacts
    <2> QED
      BY <2>1, <2>2, <2>3
  <1>3. DOMAIN BlocksOf(p) = DOMAIN p
    BY <1>1, BlockFacts
  <1>4. \A k \in DOMAIN p : BlocksOf(p)[k].count > 0 <=> p[k].duration # 0
    <2> TAKE k \in DOMAIN p
    <2>1. /\ BlocksOf(p)[k].count \in Nat
          /\ BlocksOf(p)[k].count = 0 <=> p[k].duration = 0
      BY BlockFacts
    <2>2. BlocksOf(p)[k].count > 0 <=> BlocksOf(p)[k].count # 0
      BY <2>1
    <2> QED
      BY <2>1, <2>2, Zenon
  <1>5. (\A k \in DOMAIN p : p[k].duration # 0) <=> p[Len(p)].duration # 0
    BY <1>1, <1>2
  <1> QED
    BY <1>1, <1>3, <1>4, <1>5

(* If it has not, the algorithms of MetricBlocks can work with the blocks.   *)
LEMMA AcceptedUsable ==
  ASSUME NEW p \in Policy, Accepted(p), p # <<>>,
         \A k \in DOMAIN BlocksOf(p) : BlocksOf(p)[k].count > 0
  PROVE  Usable(BlocksOf(p))
  <1> DEFINE b == BlocksOf(p)
  <1>1. Len(p) \in DOMAIN p
    BY OnlyLastEmpty
  <1>2. DOMAIN b = DOMAIN p /\ b # <<>>
    BY <1>1, BlockFacts
  <1>3. \A k \in DOMAIN b : b[k].freq > 0 /\ b[k].count > 0 /\ b[k].freq * b[k].count < Modulus
    <2> TAKE k \in DOMAIN b
    <2>1. k \in DOMAIN p
      BY <1>2
    <2> QED
      BY <2>1, ElementFacts, BlockFacts
  <1>4. \A k \in DOMAIN b \ {1} : /\ b[k].freq % b[k - 1].freq = 0
                                 /\ b[k].freq <= b[k - 1].freq * b[k - 1].count
    <2> TAKE k \in DOMAIN b \ {1}
    <2>1. k \in DOMAIN p /\ k > 1
      BY <1>2 DEF Policy
    <2>2. k - 1 \in DOMAIN p
      BY <2>1, ElementFacts
    <2>3. b[k].freq = p[k].freq /\ b[k - 1].freq = p[k - 1].freq
      BY <2>1, <2>2, BlockFacts
    <2>4. b[k - 1].freq * b[k - 1].count = p[k - 1].duration
      BY <2>2, BlockFacts
    <2>5. p[k].freq % p[k - 1].freq = 0 /\ p[k].freq <= p[k - 1].duration
      BY <2>1, ElementFacts
    <2> HIDE DEF b
    <2> QED
      BY <2>3, <2>4, <2>5
  <1> HIDE DEF b
  <1>5. Usable(b)
    BY <1>2, <1>3, <1>4 DEF Usable
  <1> QED
    BY <1>5 DEF b

(* get_policy gives the policy back, and it reads as it was written.         *)
LEMMA PolicyRoundTrip ==
  ASSUME NEW p \in Policy, Accepted(p)
  PROVE  /\ WritePolicy(PolicyOf(BlocksOf(p))) \in WrittenPolicy
         /\ ReadPolicy(WritePolicy(PolicyOf(BlocksOf(p)))) = p
  <1> DEFINE q == PolicyOf(BlocksOf(p))
  <1>1. Len(p) \in Nat /\ DOMAIN p = 1 .. Len(p)
    BY DEF Policy
  <1>2. DOMAIN q = DOMAIN p
    BY <1>1, BlockFacts DEF PolicyOf, BlocksOf
  <1>3. ASSUME NEW k \in DOMAIN p
        PROVE  q[k].freq = p[k].freq /\ q[k].duration = p[k].duration
    <2>1. q[k] = [freq |-> BlocksOf(p)[k].freq,
                  duration |-> (BlocksOf(p)[k].freq * BlocksOf(p)[k].count) % Modulus]
      BY BlockFacts DEF PolicyOf
    <2>2. q[k].freq = p[k].freq /\ q[k].duration = p[k].duration % Modulus
      BY <2>1, BlockFacts
    <2> QED
      BY <2>2, ElementFacts, SmallRemainder
  <1> HIDE DEF q
  <1> DEFINE w == WritePolicy(q)
  <1>4. /\ DOMAIN w = DOMAIN p
        /\ \A k \in DOMAIN p : w[k] = [freq |-> WriteInterval(p[k].freq),
                                       duration |-> WriteInterval(p[k].duration)]
    BY <1>2, <1>3 DEF WritePolicy
  <1>5. \A k \in DOMAIN p :
          /\ w[k] \in [freq : Written, duration : Written]
          /\ ReadInterval(w[k].freq) = p[k].freq
          /\ ReadInterval(w[k].duration) = p[k].duration
    <2> TAKE k \in DOMAIN p
    <2>1. p[k].freq \in Interval /\ p[k].duration \in Interval
      BY ElementFacts
    <2>2. /\ WriteInterval(p[k].freq) \in Written
          /\ ReadInterval(WriteInterval(p[k].freq)) = p[k].freq
          /\ WriteInterval(p[k].duration) \in Written
          /\ ReadInterval(WriteInterval(p[k].duration)) = p[k].duration
      BY <2>1, IntervalRoundTrip
    <2>3. w[k] = [freq |-> WriteInterval(p[k].freq), duration |-> WriteInterval(p[k].duration)]
      BY <1>4
    <2> HIDE DEF w
    <2> QED
      BY <2>2, <2>3
  <1>6. w \in WrittenPolicy
    <2>1. w = [k \in 1 .. Len(p) |-> w[k]]
      BY <1>1, <1>2 DEF WritePolicy
    <2> HIDE DEF w
    <2> QED
      BY <1>1, <1>5, <2>1 DEF WrittenPolicy
  <1> HIDE DEF w
  <1>7. ReadPolicy(w) = [k \in DOMAIN p |-> [freq |-> p[k].freq, duration |-> p[k].duration]]
    BY <1>4, <1>5 DEF ReadPolicy
  <1>8. \A k \in DOMAIN p : p[k] = [freq |-> p[k].freq, duration |-> p[k].duration]
    BY ElementFacts
  <1>9. p = [k \in DOMAIN p |-> p[k]]
    BY DEF Policy
  <1>10. ReadPolicy(w) = p
    BY <1>7, <1>8, <1>9
  <1> QED
    BY <1>6, <1>10 DEF w, q

-----------------------------------------------------------------------------
(* The inductive invariant: every metric has the blocks of the policy it was *)
(* asked to have, which was accepted, and a file if it could be saved.       *)
Metric(n, m) ==
  /\ m = [asked |-> m.asked, blocks |-> m.blocks, saved |-> m.saved]
  /\ m.asked \in Policy /\ m.asked # <<>> /\ Accepted(m.asked)
  /\ m.blocks = BlocksOf(m.asked)
  /\ m.saved = Savable(n, m.blocks)

MapInv ==
  /\ metrics = [n \in DOMAIN metrics |-> metrics[n]]
  /\ \A n \in DOMAIN metrics : Metric(n, metrics[n])

(* A policy that was read is a policy.                                       *)
LEMMA ReadPolicyType ==
  ASSUME NEW wp \in WrittenPolicy, wp # <<>>
  PROVE  ReadPolicy(wp) \in Policy /\ ReadPolicy(wp) # <<>>
  <1>1. Len(wp) \in Nat \ {0} /\ DOMAIN wp = 1 .. Len(wp)
    BY DEF WrittenPolicy
  <1>2. \A w \in Written : ReadInterval(w) \in Interval
    <2> TAKE w \in Written
    <2>1. w.number \in Nat /\ Units[w.unit] \in Nat /\ Modulus \in Nat \ {0}
      BY UnitsAssumption DEF Written, Interval
    <2>2. w.number * Units[w.unit] \in Nat
      BY <2>1
    <2> HIDE <2>1
    <2> QED
      BY <2>1, <2>2, DivisionFacts DEF ReadInterval, Interval
  <1>3. \A k \in DOMAIN wp : wp[k].freq \in Written /\ wp[k].duration \in Written
    <2> DEFINE E == [freq : Written, duration : Written]
    <2>1. \A k \in DOMAIN wp : wp[k] \in E
      <3> wp \in Seq(E)
        BY DEF WrittenPolicy
      <3> HIDE DEF E
      <3> QED
        BY <1>1
    <2> QED
      BY <2>1
  <1>4. \A k \in 1 .. Len(wp) :
          [freq |-> ReadInterval(wp[k].freq), duration |-> ReadInterval(wp[k].duration)]
            \in [freq : Interval, duration : Interval]
    BY <1>1, <1>2, <1>3
  <1> DEFINE E == [freq : Interval, duration : Interval]
             read(k) == [freq |-> ReadInterval(wp[k].freq),
                         duration |-> ReadInterval(wp[k].duration)]
  <1>5. ReadPolicy(wp) = [k \in 1 .. Len(wp) |-> read(k)]
    BY <1>1, Zenon DEF ReadPolicy
  <1>6. \A k \in 1 .. Len(wp) : read(k) \in E
    BY <1>4, Zenon
  <1> HIDE DEF E, read
  <1>7. ReadPolicy(wp) \in Seq(E) /\ Len(ReadPolicy(wp)) = Len(wp)
    BY <1>1, <1>5, <1>6
  <1>8. ReadPolicy(wp) # <<>>
    BY <1>1, <1>7
  <1> QED
    BY <1>7, <1>8 DEF Policy, E

(* Inserting a metric of an accepted policy keeps the invariant.             *)
LEMMA InsertKeeps ==
  ASSUME MapInv, NEW n, NEW p \in Policy, p # <<>>, Accepted(p), Insert(n, p)
  PROVE  MapInv'
  <1> DEFINE m == [asked |-> p, blocks |-> BlocksOf(p), saved |-> Savable(n, BlocksOf(p))]
  <1>1. metrics' = [x \in DOMAIN metrics \union {n} |-> IF x = n THEN m ELSE metrics[x]]
    BY DEF Insert
  <1>2. Metric(n, m)
    BY DEF Metric
  <1> HIDE DEF m
  <1>3. /\ DOMAIN metrics' = DOMAIN metrics \union {n}
        /\ \A x \in DOMAIN metrics' : metrics'[x] = IF x = n THEN m ELSE metrics[x]
    BY <1>1
  <1>4. \A x \in DOMAIN metrics' : Metric(x, metrics'[x])
    BY <1>2, <1>3 DEF MapInv
  <1>5. metrics' = [x \in DOMAIN metrics' |-> metrics'[x]]
    BY <1>1
  <1> QED
    BY <1>4, <1>5 DEF MapInv

(* And so does taking metrics out.                                           *)
LEMMA RestrictKeeps ==
  ASSUME MapInv, NEW S \in SUBSET DOMAIN metrics, metrics' = [n \in S |-> metrics[n]]
  PROVE  MapInv'
  BY DEF MapInv

LEMMA MapInvHolds == ExecutionSpec => []MapInv
  <1>1. ExecutionInit => MapInv
    BY DEF ExecutionInit, MapInv
  <1>2. MapInv /\ [ExecutionNext]_vars => MapInv'
    <2> SUFFICES ASSUME MapInv, [ExecutionNext]_vars PROVE MapInv'
      OBVIOUS
    <2>1. ASSUME UNCHANGED metrics PROVE MapInv'
      BY <2>1 DEF MapInv
    <2>2. ASSUME NEW st \in Statements, Execute(st) PROVE MapInv'
      <3>1. CASE Create(st)
        <4> DEFINE n == Normalize(st.name)
                   p == IF st.policy = <<>> THEN DefaultPolicy ELSE ReadPolicy(st.policy[1])
        <4>1. p \in Policy /\ p # <<>>
          <5>1. CASE st.policy = <<>>
            BY <5>1, ExecutionAssumption
          <5>2. CASE st.policy # <<>>
            <6>1. Statement(st) /\ st.kind = "create"
              BY <3>1, ExecutionAssumption DEF Create
            <6>2. st.policy \in Seq(WrittenPolicy \ {<<>>})
              BY <6>1 DEF Statement
            <6>3. st.policy[1] \in WrittenPolicy \ {<<>>}
              <7> DEFINE W == WrittenPolicy \ {<<>>}
              <7> HIDE DEF W
              <7>1. st.policy \in Seq(W)
                BY <6>2 DEF W
              <7>2. st.policy[1] \in W
                BY <5>2, <7>1
              <7> QED
                BY <7>2 DEF W
            <6> QED
              BY <5>2, <6>3, ReadPolicyType
          <5> QED
            BY <5>1, <5>2
        <4>2. CASE Creatable(n, p) /\ Insert(n, p)
          <5> HIDE DEF n, p
          <5> QED
            BY <4>1, <4>2, InsertKeeps DEF Creatable
        <4>3. CASE UNCHANGED metrics
          BY <2>1, <4>3
        <4> QED
          BY <3>1, <4>2, <4>3 DEF Create, Reply
      <3>2. CASE Drop(st)
        <4>1. CASE UNCHANGED metrics
          BY <2>1, <4>1
        <4>2. CASE \E n : metrics' = [x \in DOMAIN metrics \ {n} |-> metrics[x]]
          BY <4>2, RestrictKeeps
        <4> QED
          BY <3>2, <4>1, <4>2 DEF Drop, Reply
      <3>3. CASE Update(st)
        <4>1. CASE UNCHANGED metrics
          BY <2>1, <4>1
        <4>2. CASE Insert(Normalize(st.name), DefaultPolicy)
          BY <4>2, InsertKeeps, ExecutionAssumption
        <4> QED
          BY <3>3, <4>1, <4>2 DEF Update, Reply
      <3>4. CASE Select(st) \/ ShowPolicy(st) \/ Show(st)
        BY <2>1, <3>4 DEF Select, ShowPolicy, Show, Reply
      <3> QED
        BY <2>2, <3>1, <3>2, <3>3, <3>4 DEF Execute
    <2>3. CASE Restart
      BY <2>3, RestrictKeeps DEF Restart
    <2>4. CASE UNCHANGED vars
      BY <2>1, <2>4 DEF vars
    <2> QED
      BY <2>2, <2>3, <2>4 DEF ExecutionNext
  <1> QED
    BY <1>1, <1>2, PTL DEF ExecutionSpec

-----------------------------------------------------------------------------
(* A metric has no file only if its name is empty or its last element keeps  *)
(* nothing (retention_policy_validate, rrdb::create_metric).                 *)
THEOREM FilesBehindMetricsAlways == ExecutionSpec => []FilesBehindMetrics
  <1>1. MapInv => FilesBehindMetrics
    <2> SUFFICES ASSUME MapInv, NEW n \in DOMAIN metrics
                 PROVE  metrics[n].saved <=>
                          n # <<>> /\ metrics[n].asked[Len(metrics[n].asked)].duration # 0
      BY DEF FilesBehindMetrics
    <2> DEFINE p == metrics[n].asked
    <2>1. /\ p \in Policy /\ p # <<>> /\ Accepted(p)
          /\ metrics[n].saved = Savable(n, BlocksOf(p))
      BY DEF MapInv, Metric
    <2> HIDE DEF p
    <2>2. (\A k \in DOMAIN BlocksOf(p) : BlocksOf(p)[k].count > 0) <=> p[Len(p)].duration # 0
      BY <2>1, OnlyLastEmpty
    <2>3. metrics[n].saved <=> n # <<>> /\ p[Len(p)].duration # 0
      BY <2>1, <2>2, Zenon DEF Savable
    <2> QED
      BY <2>3 DEF p
  <1> QED
    BY <1>1, MapInvHolds, PTL

(* The algorithms on blocks can work with every metric that has a file       *)
(* (rrdb_metric::create, the assumption of MetricBlocks).                    *)
THEOREM PoliciesUsableAlways == ExecutionSpec => []PoliciesUsable
  <1>1. MapInv => PoliciesUsable
    <2> SUFFICES ASSUME MapInv, NEW n \in DOMAIN metrics, metrics[n].saved
                 PROVE  Usable(metrics[n].blocks)
      BY DEF PoliciesUsable
    <2> DEFINE p == metrics[n].asked
    <2>1. /\ p \in Policy /\ p # <<>> /\ Accepted(p)
          /\ metrics[n].blocks = BlocksOf(p)
          /\ Savable(n, BlocksOf(p))
      BY DEF MapInv, Metric
    <2> HIDE DEF p
    <2>2. \A k \in DOMAIN BlocksOf(p) : BlocksOf(p)[k].count > 0
      BY <2>1, Zenon DEF Savable
    <2> QED
      BY <2>1, <2>2, AcceptedUsable
  <1> QED
    BY <1>1, MapInvHolds, PTL

(* SHOW POLICY shows a policy that CREATE reads as the metric's own          *)
(* (rrdb_metric::get_policy, interval_write, interval_grammar).              *)
THEOREM ShownPolicyRecreatesAlways == ExecutionSpec => []ShownPolicyRecreates
  <1>1. MapInv => ShownPolicyRecreates
    <2> SUFFICES ASSUME MapInv, NEW n \in DOMAIN metrics
                 PROVE  ReadPolicy(ShownPolicy(n)) = metrics[n].asked
      BY DEF ShownPolicyRecreates
    <2> DEFINE p == metrics[n].asked
    <2>1. p \in Policy /\ Accepted(p) /\ metrics[n].blocks = BlocksOf(p)
      BY DEF MapInv, Metric
    <2>2. ShownPolicy(n) = WritePolicy(PolicyOf(BlocksOf(p)))
      BY <2>1 DEF ShownPolicy
    <2> HIDE DEF p
    <2>3. ReadPolicy(ShownPolicy(n)) = p
      BY <2>1, <2>2, PolicyRoundTrip
    <2> QED
      BY <2>3 DEF p
  <1> QED
    BY <1>1, MapInvHolds, PTL

(* A statement that is answered with an error changes nothing; a metric that *)
(* could not be saved is the exception (rrdb::create_metric).                *)
THEOREM ErrorsChangeNothingAlways == ExecutionSpec => ErrorsChangeNothing
  <1> DEFINE A == answer'.error =>
                    \/ metrics' = metrics
                    \/ \E n \in DOMAIN metrics' :
                         /\ ~metrics'[n].saved
                         /\ metrics = [x \in DOMAIN metrics' \ {n} |-> metrics'[x]]
  <1>1. MapInv /\ [ExecutionNext]_vars => [A]_vars
    <2> SUFFICES ASSUME MapInv, ExecutionNext, answer'.error, metrics' # metrics
                 PROVE  \E n \in DOMAIN metrics' :
                          /\ ~metrics'[n].saved
                          /\ metrics = [x \in DOMAIN metrics' \ {n} |-> metrics'[x]]
      OBVIOUS
    <2>1. Done.error = FALSE
      BY DEF Done
    <2>2. ASSUME NEW n, NEW p, Insert(n, p), ~Exists(n)
          PROVE  /\ n \in DOMAIN metrics' /\ ~metrics'[n].saved
                 /\ metrics = [x \in DOMAIN metrics' \ {n} |-> metrics'[x]]
      <3> DEFINE m == [asked |-> p, blocks |-> BlocksOf(p), saved |-> Savable(n, BlocksOf(p))]
      <3>1. /\ metrics' = [x \in DOMAIN metrics \union {n} |-> IF x = n THEN m ELSE metrics[x]]
            /\ answer' = IF m.saved THEN Done ELSE Failed
        BY <2>2 DEF Insert
      <3>2. ~m.saved
        BY <2>1, <3>1
      <3>3. n \notin DOMAIN metrics
        BY <2>2 DEF Exists
      <3> HIDE DEF m
      <3>4. DOMAIN metrics' \ {n} = DOMAIN metrics
        BY <3>1, <3>3
      <3> QED
        BY <3>1, <3>2, <3>3, <3>4 DEF MapInv
    <2>3. ASSUME NEW st \in Statements, Execute(st)
          PROVE  \E n, p : Insert(n, p) /\ ~Exists(n)
      <3>1. ~Drop(st)
        BY <2>1 DEF Drop, Reply
      <3>2. ~Select(st) /\ ~ShowPolicy(st) /\ ~Show(st)
        BY DEF Select, ShowPolicy, Show, Reply
      <3>3. CASE Create(st)
        BY <3>3 DEF Create, Creatable, Reply
      <3>4. CASE Update(st)
        BY <3>4 DEF Update, Reply
      <3> QED
        BY <2>3, <3>1, <3>2, <3>3, <3>4 DEF Execute
    <2>4. ~Restart
      BY <2>1 DEF Restart
    <2> QED
      BY <2>2, <2>3, <2>4 DEF ExecutionNext
  <1> QED
    BY <1>1, MapInvHolds, PTL DEF ExecutionSpec, ErrorsChangeNothing
=============================================================================
