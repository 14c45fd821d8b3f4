--------------------------- MODULE SnapshotStore ---------------------------
(***************************************************************************)
(* What the journal promises.  From time to time a snapshot of a metric's  *)
(* modified blocks is taken; the metric's file changes only by the latest  *)
(* snapshot of that metric being written to it as a whole.  A snapshot may *)
(* also never be written.  Crashes and restarts are not visible here,      *)
(* except that a metric's file may be damaged: then nothing is promised    *)
(* of it until the next snapshot of that metric is taken.                  *)
(***************************************************************************)
CONSTANTS Metrics, Blocks, Absent

VARIABLES
  stored,    (* stored[m][b]: what the file of metric m holds for block b.   *)
  snap,      (* snap[m][b]: block b in m's latest snapshot, or Absent.       *)
  damaged    (* Metrics whose files are damaged.                             *)

Overlay(file, s) == [b \in Blocks |-> IF s[b] = Absent THEN file[b] ELSE s[b]]

StoreInit ==
  /\ snap = [m \in Metrics |-> [b \in Blocks |-> Absent]]
  /\ damaged = {}

TakeSnapshot(m) ==
  /\ snap' = [snap EXCEPT ![m] = snap'[m]]
  /\ damaged' = damaged \ {m}
  /\ UNCHANGED stored

Commit(m) ==
  /\ stored' = [stored EXCEPT ![m] = Overlay(stored[m], snap[m])]
  /\ UNCHANGED <<snap, damaged>>

Damage(m) ==
  /\ damaged' = damaged \cup {m}
  /\ UNCHANGED <<stored, snap>>

(* What is in damaged files may change; the others are as they were.         *)
Decay ==
  /\ stored' = [m \in Metrics |-> IF m \in damaged THEN stored'[m] ELSE stored[m]]
  /\ UNCHANGED <<snap, damaged>>

StoreNext ==
  \/ \E m \in Metrics : TakeSnapshot(m) \/ Commit(m) \/ Damage(m)
  \/ Decay

StoreSpec == StoreInit /\ [][StoreNext]_<<stored, snap, damaged>>
=============================================================================
