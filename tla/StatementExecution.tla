------------------------ MODULE StatementExecution ------------------------
(***************************************************************************)
(* What rrdb does with a parsed statement: the names it is looked up by,   *)
(* the policies that are accepted, the metrics in the map and those with a *)
(* file, and the answers.  One statement at a time: MetricRegistry has the *)
(* interleavings of several.  What an update does to a metric's tuples is  *)
(* in MetricBlocks, what a select shows in SelectWalker.                   *)
(***************************************************************************)
EXTENDS RetentionPolicies, FiniteSets

CONSTANTS
  Atoms,           (* What texts and names are made of.                      *)
  NameAtoms,       (* Those that match [a-z0-9._-].                          *)
  Lower,           (* Lower[a]: a in lower case.                             *)
  DefaultPolicy,   (* rrdb.default_policy, checked when it is read.          *)
  Statements       (* The statements clients send.                           *)

Space == " "
SelfPrefix == "self."

Name == Seq(Atoms)

(* t_statement; an optional member is a sequence of at most one element.     *)
Statement(st) ==
  \/ st \in [kind : {"create"}, name : Name, policy : Seq(WrittenPolicy \ {<<>>})]
  \/ st \in [kind : {"drop", "show_policy"}, name : Name]
  \/ st \in [kind : {"update"}, name : Name, value : Atoms, ts : Seq(Nat)]
  \/ st \in [kind : {"select"}, fields : Seq(Atoms), name : Name,
             ts_begin : Nat, ts_end : Nat, group_by : Seq(Written)]
  \/ st \in [kind : {"show_metrics", "show_status"}, like : Seq(Name)]

ASSUME ExecutionAssumption ==
  /\ NameAtoms \subseteq Atoms /\ Space \in Atoms \ NameAtoms
  /\ Lower \in [Atoms -> Atoms]
  /\ \A a \in Atoms : Lower[Lower[a]] = Lower[a]
  /\ \A a \in NameAtoms \union {Space} : Lower[a] = a
  /\ DefaultPolicy \in Policy /\ DefaultPolicy # <<>> /\ Accepted(DefaultPolicy)
  /\ \A st \in Statements : Statement(st)

VARIABLES
  running,   (* The process is there to execute statements.                  *)
  metrics,   (* rrdb::_metrics: a metric's blocks, whether it has a file,    *)
             (* and (history) the policy it was asked to have.               *)
  answer     (* What the last statement was answered.                        *)

vars == <<running, metrics, answer>>

Answer == [error : BOOLEAN, names : SUBSET Name, policy : WrittenPolicy]
Done == [error |-> FALSE, names |-> {}, policy |-> <<>>]
Failed == [Done EXCEPT !.error = TRUE]

ExecutionInit ==
  /\ running = TRUE
  /\ metrics = [n \in {} |-> {}]
  /\ answer = Done

-----------------------------------------------------------------------------
(* normalize_name: trimmed and in lower case; and the check of create, whose *)
(* grammar skips spaces, so that an empty name and inner spaces pass.        *)
Ink(n) == {k \in DOMAIN n : n[k] # Space}
FirstInk(n) == CHOOSE k \in Ink(n) : \A l \in Ink(n) : k <= l
(* Mutant of LastInk: the end of the text (trim_left).                       *)
LastAtom(n) == Len(n)
LastInk(n) == CHOOSE k \in Ink(n) : \A l \in Ink(n) : l <= k
Normalize(n) ==
  IF Ink(n) = {} THEN <<>>
  ELSE [k \in 1 .. LastInk(n) - FirstInk(n) + 1 |-> Lower[n[FirstInk(n) + k - 1]]]
(* Mutant of NameAccepted: not called.                                       *)
NameAcceptedAlways(n) == TRUE
NameAccepted(n) == \A k \in DOMAIN n : n[k] \in NameAtoms \union {Space}

Exists(n) == n \in DOMAIN metrics
Reply(a) == answer' = a /\ UNCHANGED <<running, metrics>>

(* save_file needs a name, and tuples in every block.                        *)
Savable(n, blocks) == n # <<>> /\ \A k \in DOMAIN blocks : blocks[k].count > 0

(* create_metric inserts the metric before it writes the file: if that fails *)
(* the client is told, and the metric stays.                                 *)
Insert(n, p) ==
  LET m == [asked |-> p, blocks |-> BlocksOf(p), saved |-> Savable(n, BlocksOf(p))]
  IN  /\ metrics' = [x \in DOMAIN metrics \union {n} |-> IF x = n THEN m ELSE metrics[x]]
      /\ answer' = IF m.saved THEN Done ELSE Failed
      /\ UNCHANGED running

-----------------------------------------------------------------------------
(* CREATE: an exception of any check leaves everything as it was; a division *)
(* by zero ends the process.                                                 *)
(* Mutant of Creatable: does not look whether someone inserted it meanwhile. *)
CreatableAgain(n, p) == Accepted(p) /\ NameAccepted(n)
Creatable(n, p) == Accepted(p) /\ NameAccepted(n) /\ ~Exists(n)
Create(st) ==
  LET n == Normalize(st.name)
      p == IF st.policy = <<>> THEN DefaultPolicy ELSE ReadPolicy(st.policy[1])
  IN  /\ st.kind = "create"
      /\ \/ Creatable(n, p) /\ Insert(n, p)
         \/ ~Creatable(n, p) /\ ~DividesByZero(p) /\ Reply(Failed)
         \/ DividesByZero(p) /\ running' = FALSE /\ UNCHANGED <<metrics, answer>>

Drop(st) ==
  LET n == Normalize(st.name)
  IN  /\ st.kind = "drop"
      /\ \/ Exists(n) /\ metrics' = [x \in DOMAIN metrics \ {n} |-> metrics[x]]
            /\ answer' = Done /\ UNCHANGED running
         \/ ~Exists(n) /\ Reply(Failed)

(* UPDATE creates the metric if need be.  A metric without a name reports an *)
(* error, and so may one with an empty block: it depends on its tuples.      *)
Update(st) ==
  LET n == Normalize(st.name)
  IN  /\ st.kind = "update"
      /\ \/ ~Exists(n) /\ NameAccepted(n) /\ Insert(n, DefaultPolicy)
         \/ ~Exists(n) /\ ~NameAccepted(n) /\ Reply(Failed)
         \/ Exists(n) /\ n # <<>> /\ Reply(Done)
         \/ Exists(n) /\ ~metrics[n].saved /\ Reply(Failed)

(* SELECT looks for the metric only if there is something to select.         *)
Select(st) ==
  LET n == Normalize(st.name)
      some == st.ts_begin < st.ts_end
  IN  /\ st.kind = "select"
      /\ \/ (some => Exists(n) /\ n # <<>>) /\ Reply(Done)
         \/ some /\ (Exists(n) => ~metrics[n].saved) /\ Reply(Failed)

ShownPolicy(n) == WritePolicy(PolicyOf(metrics[n].blocks))
ShowPolicy(st) ==
  LET n == Normalize(st.name)
  IN  /\ st.kind = "show_policy"
      /\ \/ Exists(n) /\ Reply([Done EXCEPT !.policy = ShownPolicy(n)])
         \/ ~Exists(n) /\ Reply(Failed)

(* SHOW METRICS and SHOW STATUS list the names that have LIKE's in them, the *)
(* latter those that start with "self.".                                     *)
Within(sub, n) == \E k \in 0 .. Len(n) - Len(sub) : SubSeq(n, k + 1, k + Len(sub)) = sub
Show(st) ==
  /\ st.kind \in {"show_metrics", "show_status"}
  /\ Reply([Done EXCEPT !.names =
       {n \in DOMAIN metrics :
          /\ st.kind = "show_status" => n # <<>> /\ n[1] = SelfPrefix
          /\ st.like # <<>> => Within(Normalize(st.like[1]), n)}])

Execute(st) ==
  /\ running
  /\ Create(st) \/ Drop(st) \/ Update(st) \/ Select(st) \/ ShowPolicy(st) \/ Show(st)

(* The process ends and is started again: load_metrics finds the files.      *)
Restart ==
  /\ running' = TRUE
  /\ metrics' = [n \in {x \in DOMAIN metrics : metrics[x].saved} |-> metrics[n]]
  /\ answer' = Done

ExecutionNext == (\E st \in Statements : Execute(st)) \/ Restart
ExecutionSpec == ExecutionInit /\ [][ExecutionNext]_vars

-----------------------------------------------------------------------------
(* Metrics are kept under names that are trimmed and in lower case, so that  *)
(* a name always finds the metric it created (normalize_name).               *)
MetricType == [asked : Policy, blocks : Seq([freq : Nat, count : Nat]), saved : BOOLEAN]
ExecutionTypeOK ==
  /\ running \in BOOLEAN /\ answer \in Answer
  /\ \A n \in DOMAIN metrics :
       /\ n \in Name /\ metrics[n] \in MetricType
       /\ \A k \in DOMAIN n : Lower[n[k]] = n[k] /\ (k \in {1, Len(n)} => n[k] # Space)

(* A metric has no file, and will be gone after a restart, only if its name  *)
(* is empty or its last element keeps nothing: no earlier element can be     *)
(* without tuples (retention_policy_validate, rrdb_metric::save_file).       *)
FilesBehindMetrics ==
  \A n \in DOMAIN metrics :
    metrics[n].saved <=>
      n # <<>> /\ metrics[n].asked[Len(metrics[n].asked)].duration # 0

(* The blocks of every metric with a file are such that the algorithms on    *)
(* blocks work: positive frequencies and counts, each frequency a multiple   *)
(* of the one before and within reach of its buffer, and no length wraps.    *)
PoliciesUsable == \A n \in DOMAIN metrics : metrics[n].saved => Usable(metrics[n].blocks)

(* What SHOW POLICY shows is the policy the metric was created with: written *)
(* in other units perhaps, but it reads as the same frequencies and          *)
(* durations (rrdb_metric::get_policy, interval_write, interval_grammar).    *)
ShownPolicyRecreates ==
  \A n \in DOMAIN metrics : ReadPolicy(ShownPolicy(n)) = metrics[n].asked

(* A statement that is answered with an error has changed nothing, except    *)
(* that a metric whose first save failed is left in the map without a file   *)
(* (rrdb::create_metric).                                                    *)
ErrorsChangeNothing ==
  [][answer'.error =>
       \/ metrics' = metrics
       \/ \E n \in DOMAIN metrics' : /\ ~metrics'[n].saved
                                     /\ metrics = [x \in DOMAIN metrics' \ {n} |-> metrics'[x]]]_vars
=============================================================================
