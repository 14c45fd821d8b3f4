------------------------- MODULE RetentionPolicies -------------------------
(***************************************************************************)
(* What intervals and retention policies mean: the seconds a written       *)
(* interval stands for, how seconds are written, which policies are        *)
(* accepted, the blocks a metric gets from one and the policy it shows.    *)
(* Intervals are unsigned and wrap around.                                 *)
(***************************************************************************)
EXTENDS Integers, Sequences

CONSTANTS
  Modulus,    (* Intervals are below it: 2^32.                               *)
  Units       (* Seconds in a sec, min, hour, day, week, month and year.     *)

UnitIds == 1 .. 7

ASSUME UnitsAssumption ==
  /\ Modulus \in Nat \ {0}
  /\ Units \in [UnitIds -> 1 .. Modulus - 1]
  /\ Units[1] = 1

(* interval_t, and an interval as it is written, "2 hours": the unit's place *)
(* in Units and whether its name has an s.  Policies are read and written    *)
(* element by element, freq for duration.                                    *)
Interval == 0 .. Modulus - 1
Written == [number : Interval, unit : UnitIds, plural : BOOLEAN]
Policy == Seq([freq : Interval, duration : Interval])
WrittenPolicy == Seq([freq : Written, duration : Written])

-----------------------------------------------------------------------------
(* interval_grammar: the number times the unit, in 32 bits.                  *)
ReadInterval(w) == (w.number * Units[w.unit]) % Modulus

(* interval_write: the coarsest unit that divides the interval.              *)
Fits(i, u) == i % Units[u] = 0
(* Mutant of UnitFor: the coarsest unit that is not longer than the interval. *)
UnitForLength(i) ==
  CHOOSE u \in UnitIds :
    (Units[u] <= i \/ u = 1) /\ \A v \in UnitIds : v > u => Units[v] > i
UnitFor(i) == CHOOSE u \in UnitIds : Fits(i, u) /\ \A v \in UnitIds : v > u => ~Fits(i, v)
WriteInterval(i) ==
  LET v == i \div Units[UnitFor(i)]
  IN  [number |-> v, unit |-> UnitFor(i), plural |-> v > 1]

ReadPolicy(wp) ==
  [k \in DOMAIN wp |-> [freq |-> ReadInterval(wp[k].freq),
                        duration |-> ReadInterval(wp[k].duration)]]
WritePolicy(p) ==
  [k \in DOMAIN p |-> [freq |-> WriteInterval(p[k].freq),
                       duration |-> WriteInterval(p[k].duration)]]

-----------------------------------------------------------------------------
(* retention_policy_validate, element by element.  It divides by a frequency *)
(* before it looks at anything else: if that is 0 the process is killed.     *)
(* Mutant of Sound: looks at the previous frequency only.                    *)
SoundMultiple(p, k) ==
  /\ p[k].freq # 0
  /\ p[k].duration % p[k].freq = 0
  /\ k > 1 => p[k].freq % p[k - 1].freq = 0
(* Mutant of Sound: looks at the previous duration only.                     *)
SoundReach(p, k) ==
  /\ p[k].freq # 0
  /\ p[k].duration % p[k].freq = 0
  /\ k > 1 => p[k].freq <= p[k - 1].duration
Sound(p, k) ==
  /\ p[k].freq # 0
  /\ p[k].duration % p[k].freq = 0
  /\ k > 1 => /\ p[k].freq % p[k - 1].freq = 0
              /\ p[k].freq <= p[k - 1].duration
Accepted(p) == \A k \in DOMAIN p : Sound(p, k)
DividesByZero(p) == \E k \in DOMAIN p : p[k].freq = 0 /\ \A j \in 1 .. k - 1 : Sound(p, j)

(* rrdb_metric::create: one block per element; and get_policy, from blocks.  *)
BlocksOf(p) ==
  [k \in DOMAIN p |-> [freq |-> p[k].freq, count |-> p[k].duration \div p[k].freq]]
PolicyOf(blocks) ==
  [k \in DOMAIN blocks |-> [freq |-> blocks[k].freq,
                            duration |-> (blocks[k].freq * blocks[k].count) % Modulus]]

(* What the algorithms of MetricBlocks assume of a metric's blocks (its      *)
(* PolicyAssumption), and that a block's length fits 32 bits.                *)
Usable(blocks) ==
  /\ blocks # <<>>
  /\ \A k \in DOMAIN blocks : /\ blocks[k].freq > 0 /\ blocks[k].count > 0
                              /\ blocks[k].freq * blocks[k].count < Modulus
  /\ \A k \in DOMAIN blocks \ {1} :
        /\ blocks[k].freq % blocks[k - 1].freq = 0
        /\ blocks[k].freq <= blocks[k - 1].freq * blocks[k - 1].count
=============================================================================
