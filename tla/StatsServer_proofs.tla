------------------------- MODULE StatsServer_proofs -------------------------
(***************************************************************************)
(* server::stop ends every other thread before the last flush, in an order *)
(* in which nobody is left who could write after it: for any number of     *)
(* requests and any pools.  What the main thread has joined stays ended    *)
(* (Joined), and what was taken or applied is known to be in good hands    *)
(* (InGoodHands); together they are inductive.  So are the stages a pool   *)
(* goes through with its threads (PoolStages, Quiet) and the ledger of the *)
(* status thread's counters (Counters).                                    *)
(***************************************************************************)
EXTENDS StatsServer, FiniteSetTheorems, TLAPS

(* Where the main thread is behind one of its joins.                         *)
AfterFlush == {"last_flush", "saving", "stopped"}
AfterTcp == {"stop_rrdb", "join_flush"} \cup AfterFlush
AfterUdp == {"stop_tcp", "join_tcp"} \cup AfterTcp
AfterStatus == {"stop_udp", "join_udp"} \cup AfterUdp

Shape ==
  /\ worker \in [Workers -> [pc : {"off", "idle", "running", "ran", "unused"},
                             r : Requests \cup {None}]]
  /\ dirty \in BOOLEAN /\ saving \in [{"flush", "main"} -> BOOLEAN]
  /\ queue \in [Servers -> Seq(Requests)]
  /\ pool \in [Servers -> {"none", "up", "stopping"}]
  /\ handed \in Requests \cup {None}
  /\ main \in {"run_used", "run_started", "run_post"} => handed \in Requests

Joined ==
  /\ main \in AfterStatus => status = "ended"
  /\ main \in AfterUdp => \A w \in Workers : PoolOf[w] = Udp => worker[w] = Off
  /\ main \in AfterTcp => \A w \in Workers : PoolOf[w] = Tcp => worker[w] = Off
  /\ main \in AfterFlush => flush = "ended"

InGoodHands ==
  /\ main = "start_rrdb" => flush = "off"
  /\ saving["flush"] => flush = "flushing"
  /\ saving["main"] => main = "saving"
  /\ main \in {"saving", "stopped"} => ~dirty

IInv == Shape /\ Joined /\ InGoodHands

USE DEF net, pools, data, others, AfterFlush, AfterTcp, AfterUdp, AfterStatus

LEMMA QueuedIsRequest == ASSUME NEW s \in Servers, Shape, queue[s] # <<>>
                         PROVE  Head(queue[s]) \in Requests /\ Tail(queue[s]) \in Seq(Requests)
  BY DEF Shape

LEMMA InitIInv == Init => IInv
<1> SUFFICES ASSUME Init PROVE IInv
  OBVIOUS
<1>1. Off \in [pc : {"off", "idle", "running", "ran", "unused"}, r : Requests \cup {None}]
  BY DEF Off
<1>2. worker \in [Workers -> [pc : {"off", "idle", "running", "ran", "unused"},
                             r : Requests \cup {None}]]
  BY <1>1 DEF Init
<1>3. queue \in [Servers -> Seq(Requests)] /\ pool \in [Servers -> {"none", "up", "stopping"}]
  BY DEF Init
<1>4. Shape
  BY <1>2, <1>3 DEF Init, Shape
<1>5. Joined /\ InGoodHands
  BY DEF Init, Joined, InGoodHands
<1> QED
  BY <1>4, <1>5 DEF IInv

(* Starting happens before anything was joined.                              *)
LEMMA StartingStep == IInv /\ Starting => IInv'
<1> SUFFICES ASSUME IInv, Starting PROVE IInv'
  OBVIOUS
<1> USE ServerAssumption DEF IInv
<1>1. CASE StartRrdb
  <2>1. main = "start_rrdb" /\ main' \in {"start_udp", "terminated"}
    BY <1>1 DEF StartRrdb, At, Goto, Terminate
  <2>2. ~saving["flush"]
    BY <2>1 DEF InGoodHands
  <2> QED
    BY <1>1, <2>1, <2>2 DEF StartRrdb, Shape, Joined, InGoodHands
<1>2. ASSUME NEW s \in Servers, NEW here, NEW next, StartServer(s, here, next),
             here \in {"start_udp", "start_tcp"}, next \in {"start_tcp", "start_status"}
      PROVE  IInv'
  <2>1. worker' \in [Workers -> [pc : {"off", "idle", "running", "ran", "unused"},
                                 r : Requests \cup {None}]]
    BY <1>2 DEF StartServer, Shape, Idle
  <2>2. Shape'
    BY <1>2, <2>1 DEF StartServer, At, Goto, Shape
  <2>3. Joined' /\ InGoodHands'
    BY <1>2 DEF StartServer, At, Goto, Joined, InGoodHands
  <2> QED
    BY <2>2, <2>3
<1>3. CASE StartUdp
  BY <1>2, <1>3 DEF StartUdp, Servers
<1>4. CASE StartTcp
  BY <1>2, <1>4 DEF StartTcp, Servers
<1>5. CASE StartStatus
  BY <1>5 DEF StartStatus, At, Goto, Shape, Joined, InGoodHands
<1> QED
  BY <1>1, <1>3, <1>4, <1>5 DEF Starting

(* So does serving.                                                          *)
LEMMA ServingStep ==
  IInv /\ (Running \/ Handling \/ HandleSignal \/ \E r \in Requests : HandleRead(r)) => IInv'
<1> SUFFICES ASSUME IInv,
                    Running \/ Handling \/ HandleSignal \/ \E r \in Requests : HandleRead(r)
             PROVE  IInv'
  OBVIOUS
<1> USE ServerAssumption DEF IInv, At, Goto
<1>1. CASE RunUsed
  BY <1>1 DEF RunUsed, Shape, Joined, InGoodHands
<1>2. CASE RunStarted
  BY <1>2 DEF RunStarted, Shape, Joined, InGoodHands
<1>3. CASE RunPost
  <2> DEFINE s == Via[handed]
  <2>1. handed \in Requests /\ s \in Servers
    BY <1>3 DEF RunPost, Shape
  <2>2. queue' \in [Servers -> Seq(Requests)]
    BY <1>3, <2>1 DEF RunPost, Shape
  <2> QED
    BY <1>3, <2>2 DEF RunPost, Shape, Joined, InGoodHands
<1>4. ASSUME NEW r \in Requests, HandleAccept(r) PROVE IInv'
  BY <1>4 DEF HandleAccept, Shape, Joined, InGoodHands
<1>5. ASSUME NEW r \in Requests, HandleReceive(r) PROVE IInv'
  BY <1>5 DEF HandleReceive, Shape, Joined, InGoodHands
<1>6. ASSUME NEW r \in Requests, HandleRead(r) PROVE IInv'
  BY <1>6 DEF HandleRead, Shape, Joined, InGoodHands
<1>7. CASE HandleSignal
  BY <1>7 DEF HandleSignal, Shape, Joined, InGoodHands
<1> QED
  BY <1>1, <1>2, <1>3, <1>4, <1>5, <1>6, <1>7 DEF Running, Handling

(* A worker that acts is not Off, so its pool has not been joined.           *)
LEMMA WorkingStep == ASSUME IInv, NEW w \in Workers, Working(w) PROVE IInv'
<1> USE ServerAssumption DEF IInv
<1> DEFINE States == [pc : {"off", "idle", "running", "ran", "unused"}, r : Requests \cup {None}]
<1>1. worker[w] # Off
  <2>1. worker[w].pc \in {"idle", "running", "ran", "unused"}
    BY Zenon DEF Working, TakeTask, ExecuteUpdate, ExecuteQuery, Execute, TaskUnused,
                 TaskFinished, LeavePool, WorkerAt
  <2> QED
    BY <2>1 DEF Off
<1>2. PoolOf[w] \in Servers /\ worker[w] \in States
  BY DEF Shape
<1>3. main \notin AfterTcp /\ (PoolOf[w] = Udp => main \notin AfterUdp)
  BY <1>1, <1>2 DEF Joined, Servers
<1>4. UNCHANGED <<main, pool, status, flush, handed, saving>>
      /\ dirty' \in BOOLEAN
      /\ queue' \in [Servers -> Seq(Requests)]
      /\ \E x \in States : worker' = [worker EXCEPT ![w] = x]
  <2>1. CASE TakeTask(w)
    <3>1. Head(queue[PoolOf[w]]) \in Requests /\ Tail(queue[PoolOf[w]]) \in Seq(Requests)
      BY <1>2, <2>1, QueuedIsRequest DEF TakeTask
    <3> QED
      BY <1>2, <2>1, <3>1 DEF TakeTask, Shape
  <2>2. CASE ExecuteUpdate(w) \/ ExecuteQuery(w)
    <3>1. [worker[w] EXCEPT !.pc = "ran"] \in States
      BY <1>2
    <3> QED
      BY <1>2, <2>2, <3>1 DEF ExecuteUpdate, ExecuteQuery, Execute, Move, Shape
  <2>3. CASE TaskUnused(w)
    <3>1. [worker[w] EXCEPT !.pc = "unused"] \in States
      BY <1>2
    <3> QED
      BY <1>2, <2>3, <3>1 DEF TaskUnused, Move, Shape
  <2>4. CASE TaskFinished(w)
    BY <2>4 DEF TaskFinished, Idle, Shape
  <2>5. CASE LeavePool(w)
    BY <2>5 DEF LeavePool, Off, Shape
  <2> QED
    BY <2>1, <2>2, <2>3, <2>4, <2>5 DEF Working
<1>5. Shape'
  BY <1>4 DEF Shape
<1>6. \A v \in Workers : v # w => worker'[v] = worker[v]
  BY <1>4 DEF Shape
<1>7. Joined'
  BY <1>3, <1>4, <1>6 DEF Joined, Servers
<1>8. InGoodHands'
  BY <1>3, <1>4 DEF InGoodHands
<1> QED
  BY <1>5, <1>7, <1>8

(* The status and the flush thread act only until they have ended.           *)
LEMMA LoopStep == IInv /\ (StatusThread \/ FlushThread) => IInv'
<1> SUFFICES ASSUME IInv, StatusThread \/ FlushThread PROVE IInv'
  OBVIOUS
<1> USE DEF IInv
<1>1. ASSUME NEW here \in {"udp", "tcp"}, NEW next, StatusStep(here, next) PROVE IInv'
  BY <1>1 DEF StatusStep, Terminate, Shape, Joined, InGoodHands
<1>2. CASE StatusUdp \/ StatusTcp
  BY <1>1, <1>2 DEF StatusUdp, StatusTcp
<1>3. CASE StatusWake
  BY <1>3 DEF StatusWake, Shape, Joined, InGoodHands
<1>4. CASE FlushBegin
  BY <1>4 DEF FlushBegin, FlushBegins, Shape, Joined, InGoodHands
<1>5. CASE FlushEnd
  BY <1>5 DEF FlushEnd, FlushEnds, Terminate, Shape, Joined, InGoodHands
<1>6. CASE FlushInterrupted
  BY <1>6 DEF FlushInterrupted, Shape, Joined, InGoodHands
<1> QED
  BY <1>2, <1>3, <1>4, <1>5, <1>6 DEF StatusThread, FlushThread

(* The stop itself, one join after the other.                                *)
LEMMA StoppingStep == IInv /\ Stopping => IInv'
<1> SUFFICES ASSUME IInv, Stopping PROVE IInv'
  OBVIOUS
<1> USE ServerAssumption DEF IInv, At, Goto
<1>1. CASE JoinStatus
  BY <1>1 DEF JoinStatus, Shape, Joined, InGoodHands
<1>2. CASE StopUdp \/ StopTcp
  BY <1>2 DEF StopUdp, StopTcp, StopServer, Shape, Joined, InGoodHands
<1>3. CASE JoinUdp
  BY <1>3 DEF JoinUdp, JoinPool, PoolThreads, Shape, Joined, InGoodHands, Servers
<1>4. CASE JoinTcp
  BY <1>4 DEF JoinTcp, JoinPool, PoolThreads, Shape, Joined, InGoodHands, Servers
<1>5. CASE StopRrdb
  BY <1>5 DEF StopRrdb, Shape, Joined, InGoodHands
<1>6. CASE JoinFlush
  BY <1>6 DEF JoinFlush, Shape, Joined, InGoodHands
<1>7. CASE LastFlush
  BY <1>7 DEF LastFlush, FlushBegins, Shape, Joined, InGoodHands
<1>8. CASE LastSave
  BY <1>8 DEF LastSave, FlushEnds, Shape, Joined, InGoodHands
<1> QED
  BY <1>1, <1>2, <1>3, <1>4, <1>5, <1>6, <1>7, <1>8 DEF Stopping

LEMMA NextIInv == IInv /\ [Next]_vars => IInv'
<1> SUFFICES ASSUME IInv, [Next]_vars PROVE IInv'
  OBVIOUS
<1>1. CASE MainThread \/ HandleSignal \/ \E r \in Requests : HandleRead(r)
  BY <1>1, StartingStep, ServingStep, StoppingStep DEF MainThread
<1>2. ASSUME NEW s \in Servers, ListenFails(s) PROVE IInv'
  BY <1>2 DEF ListenFails, IInv, Shape, Joined, InGoodHands
<1>3. ASSUME NEW w \in Workers, Working(w) PROVE IInv'
  BY <1>3, WorkingStep
<1>4. CASE StatusThread \/ FlushThread
  BY <1>4, LoopStep
<1>5. CASE Over \/ UNCHANGED vars
  BY <1>5 DEF Over, vars, IInv, Shape, Joined, InGoodHands
<1> QED
  BY <1>1, <1>2, <1>3, <1>4, <1>5 DEF Next

(* The last flush of rrdb::stop runs when every other thread has ended.      *)
THEOREM StopJoinsAll == Spec => []LastFlushAlone
<1>1. IInv => LastFlushAlone
  BY ServerAssumption DEF IInv, Joined, LastFlushAlone, Servers
<1> QED
  BY <1>1, InitIInv, NextIInv, PTL DEF Spec

(* So what any thread applied is saved when the process has stopped.         *)
THEOREM StopSavesAll == Spec => []StoppedIsSaved
<1>1. IInv => StoppedIsSaved
  BY DEF IInv, Shape, Joined, InGoodHands, StoppedIsSaved
<1> QED
  BY <1>1, InitIInv, NextIInv, PTL DEF Spec

-----------------------------------------------------------------------------
(***************************************************************************)
(* The pools while the main thread starts, serves and stops, and the       *)
(* counters of a pool from before its start until it is gone.              *)
(***************************************************************************)
Begun == {"run_used", "run_started", "run_post"}
NotYet(s) == {"start_rrdb", "start_udp"} \cup (IF s = Tcp THEN {"start_tcp"} ELSE {})
Gone(s) == IF s = Udp THEN AfterUdp ELSE AfterTcp

PoolStages == Alive =>
  \A s \in Servers :
    /\ pool[s] = IF main \in NotYet(s) \cup Gone(s) THEN "none"
                 ELSE IF main = (IF s = Udp THEN "join_udp" ELSE "join_tcp") THEN "stopping"
                 ELSE "up"
    /\ pool[s] = "none" => \A w \in Workers : PoolOf[w] = s => worker[w] = Off

(* The status thread runs from "serving" on, and only a handler has a        *)
(* request in its hands.                                                     *)
Quiet == Alive =>
  /\ main \in NotYet(Tcp) \cup {"start_status"} => status = "off"
  /\ handed # None => main \in Begun

Counted(s) ==
  LET pending == Len(queue[s]) + Count(s, {"running", "ran"})
  IN  /\ used[s] = pending + In(s, {"run_started", "run_post"})
      /\ started[s] - finished[s] = pending + Count(s, {"unused"}) + In(s, {"run_post"})
Counters == Alive => \A s \in Servers : main \notin Gone(s) => Counted(s)
CounterTypes ==
  used \in [Servers -> Int] /\ started \in [Servers -> Int] /\ finished \in [Servers -> Int]

CInv == IInv /\ PoolStages /\ Quiet /\ CounterTypes /\ Counters

USE DEF Begun, NotYet, Gone

(* Servers and the places of a pool's life are distinct.                     *)
LEMMA ServerFacts ==
  /\ Udp # Tcp /\ Udp \in Servers /\ Tcp \in Servers
  /\ \A s \in Servers : s = Udp \/ s = Tcp
  BY ServerAssumption DEF Servers

LEMMA CountType ==
  ASSUME NEW s, NEW pcs
  PROVE  /\ Count(s, pcs) \in Nat
         /\ IsFiniteSet({w \in PoolThreads(s) : worker[w].pc \in pcs})
<1>1. {w \in PoolThreads(s) : worker[w].pc \in pcs} \in SUBSET Workers
  BY DEF PoolThreads
<1>2. IsFiniteSet({w \in PoolThreads(s) : worker[w].pc \in pcs})
  BY <1>1, ServerAssumption, FS_Subset
<1> QED
  BY <1>2, FS_CardinalityType DEF Count

(* What the move of one worker does to a count of workers.                   *)
LEMMA CountMoves ==
  ASSUME Shape, NEW s \in Servers, NEW pcs, NEW w \in Workers, NEW x,
         worker' = [worker EXCEPT ![w] = x]
  PROVE  Count(s, pcs)' =
           IF PoolOf[w] # s \/ (worker[w].pc \in pcs <=> x.pc \in pcs) THEN Count(s, pcs)
           ELSE IF x.pc \in pcs THEN Count(s, pcs) + 1 ELSE Count(s, pcs) - 1
<1> DEFINE S == {v \in PoolThreads(s) : worker[v].pc \in pcs}
           T == {v \in PoolThreads(s) : worker'[v].pc \in pcs}
<1>1. /\ \A v \in Workers : v # w => worker'[v] = worker[v]
      /\ worker'[w] = x
  BY DEF Shape
<1>2. IsFiniteSet(S) /\ Count(s, pcs) = Cardinality(S) /\ Count(s, pcs)' = Cardinality(T)
  BY CountType DEF Count, PoolThreads
<1>3. CASE PoolOf[w] # s \/ (worker[w].pc \in pcs <=> x.pc \in pcs)
  <2>1. S = T
    BY <1>1, <1>3 DEF PoolThreads
  <2> QED
    BY <1>2, <1>3, <2>1
<1>4. CASE PoolOf[w] = s /\ worker[w].pc \notin pcs /\ x.pc \in pcs
  <2>1. T = S \cup {w} /\ w \notin S
    BY <1>1, <1>4 DEF PoolThreads
  <2>2. Cardinality(T) = Cardinality(S) + 1
    BY <1>2, <2>1, FS_AddElement
  <2> QED
    BY <1>2, <1>4, <2>2
<1>5. CASE PoolOf[w] = s /\ worker[w].pc \in pcs /\ x.pc \notin pcs
  <2>1. T = S \ {w} /\ w \in S
    BY <1>1, <1>5 DEF PoolThreads
  <2>2. Cardinality(T) = Cardinality(S) - 1
    BY <1>2, <2>1, FS_RemoveElement
  <2> QED
    BY <1>2, <1>5, <2>2
<1> QED
  BY <1>3, <1>4, <1>5

(* Steps that touch neither queues, workers nor counters, nor a request that *)
(* a handler has begun to hand over, keep the counters.                      *)
LEMMA CountersUntouched ==
  ASSUME Counters, CounterTypes,
         UNCHANGED <<queue, worker, used, started, finished>>,
         \/ UNCHANGED <<main, handed>>
         \/ main \notin {"run_started", "run_post"} /\ main' \notin {"run_started", "run_post"}
         \/ main' = "terminated",
         main # "terminated" \/ main' = "terminated",
         \A s \in Servers : main' \notin Gone(s) \cup {"terminated"} => main \notin Gone(s)
  PROVE  Counters' /\ CounterTypes'
<1>1. CounterTypes'
  BY DEF CounterTypes
<1>2. ASSUME NEW s \in Servers, main' # "terminated", main' \notin Gone(s) PROVE Counted(s)'
  <2>1. Counted(s)
    BY <1>2 DEF Counters, Alive
  <2>2. \A pcs : Count(s, pcs)' = Count(s, pcs)
    BY DEF Count, PoolThreads
  <2>3. /\ In(s, {"run_started", "run_post"})' = In(s, {"run_started", "run_post"})
        /\ In(s, {"run_post"})' = In(s, {"run_post"})
    BY <1>2 DEF In
  <2> QED
    BY <2>1, <2>2, <2>3 DEF Counted
<1> QED
  BY <1>1, <1>2 DEF Counters, Alive

LEMMA InitCInv == Init => CInv
<1> SUFFICES ASSUME Init PROVE CInv
  OBVIOUS
<1>1. IInv
  BY InitIInv
<1>2. PoolStages /\ Quiet
  BY ServerFacts DEF Init, PoolStages, Quiet
<1>3. CounterTypes
  BY DEF Init, CounterTypes
<1>4. ASSUME NEW s \in Servers PROVE Counted(s)
  <2>1. Count(s, {"running", "ran"}) = 0 /\ Count(s, {"unused"}) = 0
    <3>1. /\ {w \in PoolThreads(s) : worker[w].pc \in {"running", "ran"}} = {}
          /\ {w \in PoolThreads(s) : worker[w].pc \in {"unused"}} = {}
      BY DEF Init, Off, PoolThreads
    <3> QED
      BY <3>1, FS_EmptySet DEF Count
  <2>2. Len(queue[s]) = 0 /\ used[s] = 0 /\ started[s] = 0 /\ finished[s] = 0
    BY DEF Init
  <2> QED
    BY <2>1, <2>2 DEF Init, Counted, In
<1> QED
  BY <1>1, <1>2, <1>3, <1>4 DEF CInv, Counters

(* A pool is created with empty hands: nothing was queued, nobody works.     *)
LEMMA StartingPools == CInv /\ Starting => CInv'
<1> SUFFICES ASSUME CInv, Starting PROVE CInv'
  OBVIOUS
<1> USE ServerFacts DEF At, Goto
<1>1. IInv'
  BY StartingStep DEF CInv
<1>2. ASSUME NEW s \in Servers, NEW here, NEW next, StartServer(s, here, next),
             s = Udp => here = "start_udp" /\ next = "start_tcp",
             s = Tcp => here = "start_tcp" /\ next = "start_status"
      PROVE  CInv'
  <2>1. Shape /\ main = here /\ main' = next /\ main # "terminated"
    BY <1>2 DEF StartServer, CInv, IInv
  <2>2. \A w \in Workers : PoolOf[w] = s => worker[w] = Off
    BY <1>2, <2>1 DEF CInv, PoolStages, Alive
  <2>3. PoolStages' /\ Quiet'
    BY <1>2, <2>1 DEF StartServer, CInv, IInv, Shape, PoolStages, Quiet, Alive
  <2>4. CounterTypes'
    BY <1>2 DEF StartServer, CInv, CounterTypes
  <2>5. ASSUME NEW r \in Servers PROVE Counted(r)'
    <3>1. Counted(r)
      BY <1>2, <2>1 DEF CInv, Counters, Alive
    <3>2. ASSUME NEW pcs \in SUBSET {"running", "ran", "unused"} PROVE Count(r, pcs)' = Count(r, pcs)
      <4>1. \A w \in Workers : worker'[w].pc \in pcs <=> worker[w].pc \in pcs
        BY <1>2, <2>1, <2>2 DEF StartServer, Shape, Off, Idle
      <4> QED
        BY <4>1 DEF Count, PoolThreads
    <3>3. /\ Count(r, {"running", "ran"})' = Count(r, {"running", "ran"})
          /\ Count(r, {"unused"})' = Count(r, {"unused"})
      BY <3>2
    <3> QED
      BY <1>2, <2>1, <3>1, <3>3 DEF StartServer, Counted, In
  <2> QED
    BY <1>1, <2>3, <2>4, <2>5 DEF CInv, Counters
<1>3. CASE StartUdp \/ StartTcp
  BY <1>2, <1>3 DEF StartUdp, StartTcp
<1>4. CASE StartRrdb \/ StartStatus
  <2>1. PoolStages' /\ Quiet'
    BY <1>4 DEF StartRrdb, StartStatus, Terminate, CInv, PoolStages, Quiet, Alive
  <2>2. Counters' /\ CounterTypes'
    BY <1>4, CountersUntouched DEF StartRrdb, StartStatus, Terminate, CInv
  <2> QED
    BY <1>1, <2>1, <2>2 DEF CInv
<1> QED
  BY <1>3, <1>4 DEF Starting

(* thread_pool::run counts up before it posts.                               *)
LEMMA RunningPools == CInv /\ Running => CInv'
<1> SUFFICES ASSUME CInv, Running PROVE CInv'
  OBVIOUS
<1> USE ServerFacts DEF At, Goto
<1>1. IInv'
  BY ServingStep DEF CInv
<1>2. /\ Shape /\ CounterTypes /\ main \in Begun /\ handed \in Requests
      /\ handed # None /\ Via[handed] \in Servers
  <2>1. Shape /\ CounterTypes /\ main \in Begun
    BY DEF CInv, IInv, Running, RunUsed, RunStarted, RunPost
  <2> QED
    BY <2>1, ServerAssumption DEF Shape
<1>3. UNCHANGED <<pool, worker, status>> /\ main' # "terminated"
  BY DEF Running, RunUsed, RunStarted, RunPost
<1>4. PoolStages' /\ Quiet'
  BY <1>2, <1>3 DEF Running, RunUsed, RunStarted, RunPost, CInv, PoolStages, Quiet, Alive
<1>5. CounterTypes'
  BY <1>2 DEF Running, RunUsed, RunStarted, RunPost, CounterTypes
<1>6. ASSUME NEW s \in Servers PROVE Counted(s)'
  <2>1. Counted(s)
    BY <1>2 DEF CInv, Counters, Alive
  <2>2. /\ Count(s, {"running", "ran"})' = Count(s, {"running", "ran"})
        /\ Count(s, {"unused"})' = Count(s, {"unused"})
        /\ Count(s, {"running", "ran"}) \in Nat /\ Count(s, {"unused"}) \in Nat
    <3>1. /\ Count(s, {"running", "ran"})' = Count(s, {"running", "ran"})
          /\ Count(s, {"unused"})' = Count(s, {"unused"})
      BY <1>3 DEF Count, PoolThreads
    <3> QED
      BY <3>1, CountType
  <2>3. Len(queue[s]) \in Nat /\ used[s] \in Int /\ started[s] \in Int /\ finished[s] \in Int
    BY <1>2 DEF Shape, CounterTypes
  <2> DEFINE mine == IF s = Via[handed] THEN 1 ELSE 0
  <2>4. CASE RunUsed
    <3>1. /\ used'[s] = used[s] + mine
          /\ started'[s] = started[s] /\ finished'[s] = finished[s] /\ queue'[s] = queue[s]
      BY <1>2, <2>4 DEF RunUsed, CounterTypes
    <3>2. /\ In(s, {"run_started", "run_post"}) = 0 /\ In(s, {"run_started", "run_post"})' = mine
          /\ In(s, {"run_post"}) = 0 /\ In(s, {"run_post"})' = 0
      BY <1>2, <2>4 DEF RunUsed, In
    <3> HIDE DEF mine
    <3> QED
      BY <2>1, <2>2, <2>3, <3>1, <3>2 DEF Counted
  <2>5. CASE RunStarted
    <3>1. /\ started'[s] = started[s] + mine
          /\ used'[s] = used[s] /\ finished'[s] = finished[s] /\ queue'[s] = queue[s]
      BY <1>2, <2>5 DEF RunStarted, CounterTypes
    <3>2. /\ In(s, {"run_started", "run_post"}) = mine
          /\ In(s, {"run_started", "run_post"})' = mine
          /\ In(s, {"run_post"}) = 0 /\ In(s, {"run_post"})' = mine
      BY <1>2, <2>5 DEF RunStarted, In
    <3>3. mine \in Int
      OBVIOUS
    <3> HIDE DEF mine
    <3> QED
      BY <2>1, <2>2, <2>3, <3>1, <3>2, <3>3 DEF Counted
  <2>6. CASE RunPost
    <3>1. /\ Len(queue'[s]) = Len(queue[s]) + mine
          /\ used'[s] = used[s] /\ started'[s] = started[s] /\ finished'[s] = finished[s]
      BY <1>2, <2>6 DEF RunPost, Shape
    <3>2. /\ In(s, {"run_started", "run_post"}) = mine
          /\ In(s, {"run_started", "run_post"})' = 0
          /\ In(s, {"run_post"}) = mine /\ In(s, {"run_post"})' = 0
      BY <1>2, <2>6 DEF RunPost, In
    <3>3. mine \in Int
      OBVIOUS
    <3> HIDE DEF mine
    <3> QED
      BY <2>1, <2>2, <2>3, <3>1, <3>2, <3>3 DEF Counted
  <2> QED
    BY <2>4, <2>5, <2>6 DEF Running
<1> QED
  BY <1>1, <1>4, <1>5, <1>6 DEF CInv, Counters

(* The other handlers, errors, and the two threads that have no pool.        *)
LEMMA OtherPools ==
  ASSUME CInv,
         \/ Handling \/ HandleSignal \/ \E r \in Requests : HandleRead(r)
         \/ \E s \in Servers : ListenFails(s)
         \/ StatusThread \/ FlushThread \/ Over \/ UNCHANGED vars
  PROVE  PoolStages' /\ Quiet' /\ CounterTypes' /\ Counters'
<1> USE ServerFacts DEF At, Goto
<1>1. UNCHANGED <<queue, worker, used, started, finished, pool>>
  BY DEF Handling, HandleAccept, HandleReceive, HandleSignal, HandleRead, ListenFails,
         StatusThread, StatusUdp, StatusTcp, StatusStep, StatusWake, FlushThread, FlushBegin,
         FlushEnd, FlushInterrupted, Over, vars
<1>2. \/ UNCHANGED <<main, handed, status>> /\ main = "serving"
      \/ main = "serving" /\ UNCHANGED status /\ handed' \in Requests /\ main' = "run_used"
      \/ main = "serving" /\ UNCHANGED <<handed, status>> /\ main' = "join_status"
      \/ /\ main # "terminated" /\ UNCHANGED handed
         /\ UNCHANGED main \/ main' = "terminated"
         /\ status = "off" => status' = "off"
      \/ UNCHANGED <<main, handed, status>>
  <2>1. CASE Handling \/ HandleSignal \/ \E r \in Requests : HandleRead(r)
    BY <2>1 DEF Handling, HandleAccept, HandleReceive, HandleSignal, HandleRead
  <2>2. CASE \E s \in Servers : ListenFails(s)
    BY <2>2 DEF ListenFails
  <2>3. CASE StatusThread
    BY <2>3 DEF StatusThread, StatusUdp, StatusTcp, StatusStep, StatusWake, Alive, Terminate
  <2>4. CASE FlushThread
    BY <2>4 DEF FlushThread, FlushBegin, FlushEnd, FlushInterrupted, Alive, Terminate
  <2>5. CASE Over \/ UNCHANGED vars
    BY <2>5 DEF Over, vars
  <2> QED
    BY <2>1, <2>2, <2>3, <2>4, <2>5
<1>3. PoolStages /\ Quiet /\ Counters /\ CounterTypes
  BY DEF CInv
<1>4. PoolStages'
  BY <1>1, <1>2, <1>3 DEF PoolStages, Alive
<1>5. Quiet'
  BY <1>2, <1>3 DEF Quiet, Alive
<1>6. /\ \/ UNCHANGED <<main, handed>>
         \/ main \notin {"run_started", "run_post"} /\ main' \notin {"run_started", "run_post"}
         \/ main' = "terminated"
      /\ main # "terminated" \/ main' = "terminated"
      /\ \A s \in Servers : main' \notin Gone(s) \cup {"terminated"} => main \notin Gone(s)
  BY <1>2
<1>7. Counters' /\ CounterTypes'
  BY <1>1, <1>3, <1>6, CountersUntouched
<1> QED
  BY <1>4, <1>5, <1>7

(* A worker counts a task down after it has run it, and its pool is there.   *)
LEMMA WorkingPools == ASSUME CInv, NEW w \in Workers, Working(w) PROVE CInv'
<1> USE ServerFacts
<1> DEFINE p == PoolOf[w]
<1>1. IInv' /\ Shape /\ CounterTypes
  BY WorkingStep DEF CInv, IInv
<1>2. p \in Servers
  BY ServerAssumption
<1>3. /\ UNCHANGED <<main, pool, status, handed, started>>
      /\ main # "terminated" /\ worker[w] # Off
  <2>1. UNCHANGED <<main, pool, status, handed, started>> /\ Alive
    BY DEF Working, TakeTask, ExecuteUpdate, ExecuteQuery, Execute, TaskUnused, TaskFinished,
           LeavePool, WorkerAt
  <2>2. worker[w].pc \in {"idle", "running", "ran", "unused"}
    BY Zenon DEF Working, TakeTask, ExecuteUpdate, ExecuteQuery, Execute, TaskUnused,
                 TaskFinished, LeavePool, WorkerAt
  <2> QED
    BY <2>1, <2>2 DEF Off, Alive
<1>4. pool[p] # "none" /\ main \notin Gone(p)
  BY <1>2, <1>3 DEF CInv, PoolStages, Alive
<1>5. Quiet'
  BY <1>3 DEF CInv, Quiet, Alive
(* The five moves of a worker, to the record x.                              *)
<1> DEFINE Moves(x) ==
             /\ worker' = [worker EXCEPT ![w] = x]
             /\ <<worker[w].pc, x.pc>> \in
                  {<<"idle", "running">>, <<"running", "ran">>, <<"ran", "unused">>,
                   <<"unused", "idle">>, <<"idle", "off">>}
             /\ \A s \in Servers :
                  /\ used'[s] = used[s] - (IF s = p /\ x.pc = "unused" THEN 1 ELSE 0)
                  /\ finished'[s] =
                       finished[s] + (IF s = p /\ worker[w].pc = "unused" THEN 1 ELSE 0)
                  /\ Len(queue'[s]) =
                       Len(queue[s]) - (IF s = p /\ x.pc = "running" THEN 1 ELSE 0)
<1>6. (\E x : Moves(x)) /\ CounterTypes'
  <2>0. \A s \in Servers :
          Len(queue[s]) \in Nat /\ used[s] \in Int /\ finished[s] \in Int
    BY <1>1 DEF Shape, CounterTypes
  <2>1. CASE TakeTask(w)
    <3> DEFINE x == [pc |-> "running", r |-> Head(queue[p])]
    <3>1. /\ worker' = [worker EXCEPT ![w] = x] /\ worker[w].pc = "idle" /\ x.pc = "running"
          /\ UNCHANGED <<used, finished, started>>
      BY <2>1 DEF TakeTask, WorkerAt
    <3>2. queue' = [queue EXCEPT ![p] = Tail(queue[p])] /\ queue[p] # <<>>
      BY <2>1 DEF TakeTask
    <3>3. Len(Tail(queue[p])) = Len(queue[p]) - 1
      BY <1>1, <1>2, <3>2 DEF Shape
    <3>4. \A s \in Servers : Len(queue'[s]) = Len(queue[s]) - (IF s = p THEN 1 ELSE 0)
      BY <1>1, <1>2, <2>0, <3>2, <3>3 DEF Shape
    <3> HIDE DEF x
    <3>6. \A s \in Servers :
            /\ used'[s] = used[s] - (IF s = p /\ x.pc = "unused" THEN 1 ELSE 0)
            /\ finished'[s] = finished[s] + (IF s = p /\ worker[w].pc = "unused" THEN 1 ELSE 0)
      BY <2>0, <3>1
    <3>7. \A s \in Servers :
            Len(queue'[s]) = Len(queue[s]) - (IF s = p /\ x.pc = "running" THEN 1 ELSE 0)
      BY <3>1, <3>4
    <3> HIDE DEF p
    <3>5. Moves(x)
      BY <3>1, <3>6, <3>7
    <3> HIDE DEF Moves
    <3> QED
      BY <1>1, <3>1, <3>5 DEF CounterTypes
  <2>2. CASE ExecuteUpdate(w) \/ ExecuteQuery(w)
    <3> DEFINE x == [worker[w] EXCEPT !.pc = "ran"]
    <3>1. /\ worker' = [worker EXCEPT ![w] = x] /\ worker[w].pc = "running"
          /\ UNCHANGED <<used, finished, started, queue>>
      BY <2>2, Zenon DEF ExecuteUpdate, ExecuteQuery, Execute, Move, WorkerAt
    <3>2. x.pc = "ran"
      BY <1>1 DEF Shape
    <3> HIDE DEF x
    <3>3. Moves(x)
      BY <2>0, <3>1, <3>2
    <3> HIDE DEF Moves
    <3> QED
      BY <1>1, <3>1, <3>3 DEF CounterTypes
  <2>3. CASE TaskUnused(w)
    <3> DEFINE x == [worker[w] EXCEPT !.pc = "unused"]
    <3>1. /\ worker' = [worker EXCEPT ![w] = x] /\ worker[w].pc = "ran"
          /\ used' = [used EXCEPT ![p] = used[p] - 1]
          /\ UNCHANGED <<finished, started, queue>>
      BY <2>3, Zenon DEF TaskUnused, Move, WorkerAt
    <3>2. x.pc = "unused"
      BY <1>1 DEF Shape
    <3>3. \A s \in Servers : used'[s] = used[s] - (IF s = p THEN 1 ELSE 0)
      BY <1>1, <2>0, <3>1 DEF CounterTypes
    <3> HIDE DEF x
    <3>4. Moves(x)
      BY <2>0, <3>1, <3>2, <3>3
    <3>5. CounterTypes'
      BY <1>1, <1>2, <3>1 DEF CounterTypes
    <3> HIDE DEF Moves
    <3> QED
      BY <3>4, <3>5
  <2>4. CASE TaskFinished(w)
    <3>1. /\ worker' = [worker EXCEPT ![w] = Idle] /\ worker[w].pc = "unused" /\ Idle.pc = "idle"
          /\ finished' = [finished EXCEPT ![p] = finished[p] + 1]
          /\ UNCHANGED <<used, started, queue>>
      BY <2>4 DEF TaskFinished, WorkerAt, Idle
    <3>2. \A s \in Servers : finished'[s] = finished[s] + (IF s = p THEN 1 ELSE 0)
      BY <1>1, <2>0, <3>1 DEF CounterTypes
    <3>3. Moves(Idle)
      BY <2>0, <3>1, <3>2
    <3>4. CounterTypes'
      BY <1>1, <1>2, <3>1 DEF CounterTypes
    <3> HIDE DEF Moves
    <3> QED
      BY <3>3, <3>4
  <2>5. CASE LeavePool(w)
    <3>1. /\ worker' = [worker EXCEPT ![w] = Off] /\ worker[w].pc = "idle" /\ Off.pc = "off"
          /\ UNCHANGED <<used, started, finished, queue>>
      BY <2>5 DEF LeavePool, WorkerAt, Off
    <3>2. Moves(Off)
      BY <2>0, <3>1
    <3> HIDE DEF Moves
    <3> QED
      BY <1>1, <3>1, <3>2 DEF CounterTypes
  <2> QED
    BY <2>1, <2>2, <2>3, <2>4, <2>5 DEF Working
<1>7. PICK x : Moves(x)
  BY <1>6
<1>8. PoolStages'
  <2>1. \A v \in Workers : v # w => worker'[v] = worker[v]
    BY <1>1, <1>7 DEF Shape
  <2>2. PoolStages
    BY DEF CInv
  <2> HIDE DEF p, Moves
  <2>3. \A s \in Servers, v \in Workers : pool[s] = "none" /\ PoolOf[v] = s => worker'[v] = Off
    BY <1>3, <1>4, <2>1, <2>2 DEF PoolStages, Alive, p
  <2> QED
    BY <1>3, <2>2, <2>3 DEF PoolStages, Alive
<1>9. ASSUME NEW s \in Servers, main \notin Gone(s) PROVE Counted(s)'
  <2>1. Counted(s)
    BY <1>3, <1>9 DEF CInv, Counters, Alive
  <2>2. /\ Len(queue[s]) \in Nat /\ used[s] \in Int /\ started[s] \in Int /\ finished[s] \in Int
        /\ Count(s, {"running", "ran"}) \in Nat /\ Count(s, {"unused"}) \in Nat
    <3>1. Count(s, {"running", "ran"}) \in Nat /\ Count(s, {"unused"}) \in Nat
      BY CountType
    <3>2. queue[s] \in Seq(Requests) /\ used[s] \in Int /\ started[s] \in Int /\ finished[s] \in Int
      BY <1>1 DEF Shape, CounterTypes
    <3> QED
      BY <3>1, <3>2
  <2>3. /\ In(s, {"run_started", "run_post"})' = In(s, {"run_started", "run_post"})
        /\ In(s, {"run_post"})' = In(s, {"run_post"})
        /\ In(s, {"run_started", "run_post"}) \in Int /\ In(s, {"run_post"}) \in Int
    BY <1>3 DEF In
  <2> DEFINE takes == IF s = p /\ x.pc = "running" THEN 1 ELSE 0
             runs == IF s = p /\ x.pc = "unused" THEN 1 ELSE 0
             ends == IF s = p /\ worker[w].pc = "unused" THEN 1 ELSE 0
             busy == Count(s, {"running", "ran"})
             counting == Count(s, {"unused"})
  <2>4. busy' = busy + takes - runs
    <3>1. busy' = IF p # s \/ (worker[w].pc \in {"running", "ran"} <=> x.pc \in {"running", "ran"})
                  THEN busy ELSE IF x.pc \in {"running", "ran"} THEN busy + 1 ELSE busy - 1
      BY <1>1, <1>7, CountMoves
    <3> HIDE DEF busy
    <3> QED
      BY <1>7, <2>2, <3>1 DEF busy
  <2>5. counting' = counting + runs - ends
    <3>1. counting' = IF p # s \/ (worker[w].pc \in {"unused"} <=> x.pc \in {"unused"})
                      THEN counting ELSE IF x.pc \in {"unused"} THEN counting + 1 ELSE counting - 1
      BY <1>1, <1>7, CountMoves
    <3> HIDE DEF counting
    <3> QED
      BY <1>7, <2>2, <3>1 DEF counting
  <2>6. /\ started'[s] = started[s] /\ used'[s] = used[s] - runs
        /\ finished'[s] = finished[s] + ends /\ Len(queue'[s]) = Len(queue[s]) - takes
    BY <1>3, <1>7
  <2>7. takes \in Int /\ runs \in Int /\ ends \in Int
    OBVIOUS
  <2> HIDE DEF p, Moves, takes, runs, ends, busy, counting
  <2>8. busy \in Int /\ counting \in Int
    BY <2>2 DEF busy, counting
  <2>9. ASSUME NEW before \in Int, NEW within \in Int,
               used[s] = Len(queue[s]) + busy + before,
               started[s] - finished[s] = Len(queue[s]) + busy + counting + within
        PROVE  /\ used'[s] = Len(queue'[s]) + busy' + before
               /\ started'[s] - finished'[s] = Len(queue'[s]) + busy' + counting' + within
    <3>1. PICK l \in Int, b \in Int, c \in Int, t \in Int, r \in Int, e \in Int :
            /\ l = Len(queue[s]) /\ b = busy /\ c = counting
            /\ t = takes /\ r = runs /\ e = ends
      BY <2>2, <2>7, <2>8
    <3>2. /\ (l + b + before) - r = (l - t) + (b + t - r) + before
          /\ (l + b + c + within) - e = (l - t) + (b + t - r) + (c + r - e) + within
      OBVIOUS
    <3>3. used'[s] = Len(queue'[s]) + busy' + before
      BY <2>4, <2>6, <2>9, <3>1, <3>2, Zenon
    <3>4. started'[s] - finished'[s] = (started[s] - finished[s]) - ends
      BY <2>2, <2>6, <2>7
    <3>5. started'[s] - finished'[s] = Len(queue'[s]) + busy' + counting' + within
      BY <2>4, <2>5, <2>6, <2>9, <3>1, <3>2, <3>4, Zenon
    <3> QED
      BY <3>3, <3>5
  <2>10. /\ used[s] = Len(queue[s]) + busy + In(s, {"run_started", "run_post"})
         /\ started[s] - finished[s] = Len(queue[s]) + busy + counting + In(s, {"run_post"})
    BY <2>1, Zenon DEF Counted, busy, counting
  <2>11. /\ used'[s] = Len(queue'[s]) + busy' + In(s, {"run_started", "run_post"})
         /\ started'[s] - finished'[s] =
              Len(queue'[s]) + busy' + counting' + In(s, {"run_post"})
    BY <2>3, <2>9, <2>10
  <2> QED
    BY <2>3, <2>11, Zenon DEF Counted, busy, counting
<1> QED
  BY <1>1, <1>3, <1>5, <1>6, <1>8, <1>9 DEF CInv, Counters

(* Nothing is counted any more once the threads of a pool have been joined.  *)
LEMMA StoppingPools == CInv /\ Stopping => CInv'
<1> SUFFICES ASSUME CInv, Stopping PROVE CInv'
  OBVIOUS
<1> USE ServerFacts DEF At, Goto
<1>1. IInv' /\ Shape
  BY StoppingStep DEF CInv, IInv
<1>2. ASSUME NEW s \in Servers, NEW here, NEW next, JoinPool(s, here, next),
             s = Udp => here = "join_udp" /\ next = "stop_tcp",
             s = Tcp => here = "join_tcp" /\ next = "stop_rrdb"
      PROVE  PoolStages' /\ Quiet' /\ CounterTypes' /\ Counters'
  <2>1. /\ main = here /\ main' = next /\ UNCHANGED <<worker, used, started, finished, status, handed>>
        /\ queue' = [queue EXCEPT ![s] = <<>>] /\ pool' = [pool EXCEPT ![s] = "none"]
        /\ \A w \in Workers : PoolOf[w] = s => worker[w] = Off
    BY <1>2 DEF JoinPool, PoolThreads
  <2>2. PoolStages' /\ Quiet' /\ CounterTypes'
    BY <1>1, <1>2, <2>1 DEF Shape, CInv, PoolStages, Quiet, CounterTypes, Alive
  <2>3. ASSUME NEW r \in Servers, main' \notin Gone(r) PROVE Counted(r)'
    <3>1. Counted(r) /\ queue'[r] = queue[r]
      BY <1>1, <1>2, <2>1, <2>3 DEF CInv, Counters, Alive, Shape
    <3>2. \A pcs : Count(r, pcs)' = Count(r, pcs)
      BY <2>1 DEF Count, PoolThreads
    <3>3. /\ In(r, {"run_started", "run_post"})' = In(r, {"run_started", "run_post"})
          /\ In(r, {"run_post"})' = In(r, {"run_post"})
      BY <1>2, <2>1 DEF In
    <3> QED
      BY <2>1, <3>1, <3>2, <3>3 DEF Counted
  <2> QED
    BY <2>2, <2>3 DEF Counters
<1>3. CASE JoinUdp \/ JoinTcp
  BY <1>1, <1>2, <1>3 DEF JoinUdp, JoinTcp, CInv
<1>4. CASE StopUdp \/ StopTcp
  <2>1. PoolStages' /\ Quiet'
    BY <1>1, <1>4 DEF StopUdp, StopTcp, StopServer, Shape, CInv, PoolStages, Quiet, Alive
  <2>2. Counters' /\ CounterTypes'
    BY <1>4, CountersUntouched DEF StopUdp, StopTcp, StopServer, CInv
  <2> QED
    BY <1>1, <2>1, <2>2 DEF CInv
<1>5. CASE JoinStatus \/ StopRrdb \/ JoinFlush \/ LastFlush \/ LastSave
  <2> USE DEF JoinStatus, StopRrdb, JoinFlush, LastFlush, LastSave
  <2>1. PoolStages' /\ Quiet'
    BY <1>5 DEF CInv, PoolStages, Quiet, Alive
  <2>2. Counters' /\ CounterTypes'
    BY <1>5, CountersUntouched DEF CInv
  <2> QED
    BY <1>1, <2>1, <2>2 DEF CInv
<1> QED
  BY <1>3, <1>4, <1>5 DEF Stopping

LEMMA NextCInv == CInv /\ [Next]_vars => CInv'
<1> SUFFICES ASSUME CInv, [Next]_vars PROVE CInv'
  OBVIOUS
<1>1. IInv'
  BY NextIInv DEF CInv
<1>2. CASE MainThread /\ ~Handling
  BY <1>2, StartingPools, RunningPools, StoppingPools DEF MainThread
<1>3. ASSUME NEW w \in Workers, Working(w) PROVE CInv'
  BY <1>3, WorkingPools
<1>4. CASE \/ Handling \/ HandleSignal \/ \E r \in Requests : HandleRead(r)
           \/ \E s \in Servers : ListenFails(s)
           \/ StatusThread \/ FlushThread \/ Over \/ UNCHANGED vars
  BY <1>1, <1>4, OtherPools DEF CInv
<1> QED
  BY <1>2, <1>3, <1>4 DEF Next

(* The status thread, a handler and the workers find the pool they use.      *)
THEOREM PoolsThere == Spec => []PoolsInUse
<1>1. CInv => PoolsInUse
  <2> SUFFICES ASSUME CInv, NEW s \in Servers, Alive, pool[s] = "none"
               PROVE  /\ status # (IF s = Udp THEN "udp" ELSE "tcp")
                      /\ handed # None => Via[handed] # s
                      /\ \A w \in PoolThreads(s) : worker[w] = Off
    BY DEF PoolsInUse
  <2>1. \A w \in PoolThreads(s) : worker[w] = Off
    BY DEF CInv, PoolStages, PoolThreads
  <2>2. main \in NotYet(s) \cup Gone(s)
    BY DEF CInv, PoolStages
  <2>3. handed = None
    BY <2>2 DEF CInv, Quiet
  <2>4. status \in {"off", "ended"}
    BY <2>2 DEF CInv, IInv, Quiet, Joined
  <2> QED
    BY <2>1, <2>3, <2>4
<1> QED
  BY <1>1, InitCInv, NextCInv, PTL DEF Spec

(* The counters of thread_pool are exact, so that none ever wraps around.    *)
THEOREM CountersAreExact == Spec => []CountersExact
<1>1. CInv => CountersExact
  <2> SUFFICES ASSUME CInv, NEW s \in Servers, Alive, pool[s] # "none"
               PROVE  Counted(s)
    BY DEF CountersExact, Counted
  <2>1. main \notin Gone(s)
    BY DEF CInv, PoolStages
  <2> QED
    BY <2>1 DEF CInv, Counters
<1> QED
  BY <1>1, InitCInv, NextCInv, PTL DEF Spec
=============================================================================
