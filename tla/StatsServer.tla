---------------------------- MODULE StatsServer -----------------------------
(***************************************************************************)
(* The server process and its threads.  The main thread starts everything  *)
(* and then serves one io_service: the handlers of the UDP socket and of   *)
(* the TCP acceptor, which hand requests to two pools of workers, and the  *)
(* signal that stops the process.  A status thread and the flush thread of *)
(* rrdb loop beside it.  server::stop runs inside the signal's handler, on *)
(* the main thread, and must leave nothing applied and not saved.          *)
(*                                                                         *)
(* A request stands for one statement.  What a flush does is the subject   *)
(* of FlushJournal: here it takes what is dirty, and later it is saved.    *)
(***************************************************************************)
EXTENDS Integers, Sequences, FiniteSets

CONSTANTS
  Udp, Tcp,           (* The two servers.                                    *)
  Requests, Via,      (* Via[r]: the server request r comes to.              *)
  Workers, PoolOf     (* PoolOf[w]: the server whose pool w is a thread of.  *)

Servers == {Udp, Tcp}

None == "none"

ASSUME ServerAssumption ==
  /\ Udp # Tcp /\ None \notin Requests
  /\ Via \in [Requests -> Servers] /\ PoolOf \in [Workers -> Servers]
  /\ IsFiniteSet(Workers) /\ \A s \in Servers : \E w \in Workers : PoolOf[w] = s

VARIABLES
  main,        (* Where the main thread is.                                  *)
  handed,      (* The request its handler passes to thread_pool::run.        *)
  listening,   (* listening[s]: a receive or an accept is pending.           *)
  broken,      (* History: servers whose receive or accept failed.           *)
  request,     (* request[r]: how far it got.                                *)
  pool,        (* pool[s]: does the pool exist, is it being destroyed.       *)
  queue,       (* queue[s]: what was posted to its io_service.               *)
  worker,      (* worker[w]: what it does, and for which request.            *)
  used, started, finished, (* The counters of thread_pool.                   *)
  status,      (* Where the status update thread is.                         *)
  flush,       (* Where the flush thread of rrdb is.                         *)
  interrupted, (* The threads that were asked to end.                        *)
  dirty,       (* Something was applied that no flush has taken.             *)
  saving       (* saving[f]: the flush of thread f has taken something.      *)

vars == <<main, handed, listening, broken, request, pool, queue, worker,
          used, started, finished, status, flush, interrupted, dirty, saving>>
net == <<handed, listening, broken, request>>
pools == <<pool, queue, worker, used, started, finished>>
data == <<dirty, saving>>

Idle == [pc |-> "idle", r |-> None]
Off == [pc |-> "off", r |-> None]

Init ==
  /\ main = "start_rrdb" /\ handed = None
  /\ listening = [s \in Servers |-> FALSE] /\ broken = {}
  /\ request = [r \in Requests |-> "arrived"]
  /\ pool = [s \in Servers |-> "none"] /\ queue = [s \in Servers |-> <<>>]
  /\ worker = [w \in Workers |-> Off]
  /\ used = [s \in Servers |-> 0] /\ started = used /\ finished = used
  /\ status = "off" /\ flush = "off" /\ interrupted = {}
  /\ dirty = FALSE /\ saving = [f \in {"flush", "main"} |-> FALSE]

Alive == main # "terminated"
Terminate == main' = "terminated"
At(here) == main = here
Goto(there) == main' = there
PoolThreads(s) == {w \in Workers : PoolOf[w] = s}

-----------------------------------------------------------------------------
(* server::run.                                                              *)

StartRrdb ==
  /\ At("start_rrdb")
  /\ \/ Goto("start_udp") /\ flush' = "ready"
     \/ Terminate /\ UNCHANGED flush   (* The recovery or the loading throws. *)
  /\ UNCHANGED <<net, pools, status, interrupted, data>>

StartServer(s, here, next) ==
  /\ At(here) /\ Goto(next)
  /\ pool' = [pool EXCEPT ![s] = "up"]
  /\ worker' = [w \in Workers |-> IF PoolOf[w] = s THEN Idle ELSE worker[w]]
  /\ listening' = [listening EXCEPT ![s] = TRUE]
  /\ UNCHANGED <<handed, broken, request, queue, used, started, finished,
                 status, flush, interrupted, data>>
StartUdp == StartServer(Udp, "start_udp", "start_tcp")
StartTcp == StartServer(Tcp, "start_tcp", "start_status")

StartStatus ==
  /\ At("start_status") /\ Goto("serving")
  /\ status' = "udp"
  /\ UNCHANGED <<net, pools, flush, interrupted, data>>

-----------------------------------------------------------------------------
(* Handlers of the main io_service, and thread_pool::run inside them.  A     *)
(* request that has not come yet is one the main thread has not got to.      *)

HandleAccept(r) ==
  /\ At("serving") /\ listening[Tcp]
  /\ Via[r] = Tcp /\ request[r] = "arrived"
  /\ request' = [request EXCEPT ![r] = "reading"]
  /\ UNCHANGED <<main, handed, listening, broken, pools, status, flush,
                 interrupted, data>>

(* A read error, a request that fills the buffer; or the end of the stream.  *)
HandleRead(r) ==
  /\ At("serving") /\ request[r] = "reading"
  /\ \/ request' = [request EXCEPT ![r] = "over"] /\ UNCHANGED <<main, handed>>
     \/ /\ request' = [request EXCEPT ![r] = "handed"]
        /\ handed' = r /\ Goto("run_used")
  /\ UNCHANGED <<listening, broken, pools, status, flush, interrupted, data>>

HandleReceive(r) ==
  /\ At("serving") /\ listening[Udp]
  /\ Via[r] = Udp /\ request[r] = "arrived"
  /\ request' = [request EXCEPT ![r] = "handed"]
  /\ listening' = [listening EXCEPT ![Udp] = FALSE]
  /\ handed' = r /\ Goto("run_used")
  /\ UNCHANGED <<broken, pools, status, flush, interrupted, data>>

(* After an error neither handler asks for the next one.                     *)
ListenFails(s) ==
  /\ At("serving") /\ listening[s]
  /\ listening' = [listening EXCEPT ![s] = FALSE]
  /\ broken' = broken \cup {s}
  /\ UNCHANGED <<main, handed, request, pools, status, flush, interrupted, data>>

RunUsed ==
  /\ At("run_used") /\ Goto("run_started")
  /\ used' = [used EXCEPT ![Via[handed]] = @ + 1]
  /\ UNCHANGED <<net, pool, queue, worker, started, finished, status, flush,
                 interrupted, data>>

RunStarted ==
  /\ At("run_started") /\ Goto("run_post")
  /\ started' = [started EXCEPT ![Via[handed]] = @ + 1]
  /\ UNCHANGED <<net, pool, queue, worker, used, finished, status, flush,
                 interrupted, data>>

(* Mutant of RunPost: handle_receive does not call receive.                  *)
RunPostDeaf ==
  LET s == Via[handed]
  IN  /\ At("run_post") /\ Goto("serving")
      /\ queue' = [queue EXCEPT ![s] = Append(@, handed)]
      /\ request' = [request EXCEPT ![handed] = "queued"]
      /\ UNCHANGED listening
      /\ handed' = None
      /\ UNCHANGED <<broken, pool, worker, used, started, finished, status,
                     flush, interrupted, data>>

(* The task is posted; the UDP server then receives the next one.            *)
RunPost ==
  LET s == Via[handed]
  IN  /\ At("run_post") /\ Goto("serving")
      /\ queue' = [queue EXCEPT ![s] = Append(@, handed)]
      /\ request' = [request EXCEPT ![handed] = "queued"]
      /\ listening' = [listening EXCEPT ![Udp] = @ \/ s = Udp]
      /\ handed' = None
      /\ UNCHANGED <<broken, pool, worker, used, started, finished, status,
                     flush, interrupted, data>>

-----------------------------------------------------------------------------
(* thread_pool: the loop of io_service::run and wrap_task_run.               *)

WorkerAt(w, here) == Alive /\ worker[w].pc = here
Move(w, there) == worker' = [worker EXCEPT ![w].pc = there]
others == <<main, pool, status, flush, interrupted>>

TakeTask(w) ==
  LET s == PoolOf[w]
  IN  /\ WorkerAt(w, "idle") /\ pool[s] = "up" /\ queue[s] # <<>>
      /\ queue' = [queue EXCEPT ![s] = Tail(@)]
      /\ worker' = [worker EXCEPT ![w] = [pc |-> "running", r |-> Head(queue[s])]]
      /\ request' = [request EXCEPT ![Head(queue[s])] = "running"]
      /\ UNCHANGED <<others, handed, listening, broken, used, started, finished, data>>

(* connection::run.  The answer, if there is one, is left to the socket:     *)
(* nothing in the server waits for it, handle_write and handle_send only log.*)
Execute(w) ==
  /\ WorkerAt(w, "running") /\ Move(w, "ran")
  /\ dirty' \in {dirty, TRUE}
  /\ request' = [request EXCEPT ![worker[w].r] = "over"]
  /\ UNCHANGED <<others, handed, listening, broken, queue, used, started, finished, saving>>

(* An UPDATE, or an error.                                                   *)
ExecuteUpdate(w) == PoolOf[w] = Udp /\ Execute(w)

(* Any statement: some update, some only create, drop or read.               *)
ExecuteQuery(w) == PoolOf[w] = Tcp /\ Execute(w)

(* Mutant of TaskUnused: the last task of a pool is not counted.             *)
TaskUnusedUntilStop(w) ==
  /\ WorkerAt(w, "ran") /\ Move(w, "unused")
  /\ used' = [used EXCEPT ![PoolOf[w]] = IF pool[PoolOf[w]] = "up" THEN @ - 1 ELSE @]
  /\ UNCHANGED <<others, net, queue, started, finished, data>>

TaskUnused(w) ==
  /\ WorkerAt(w, "ran") /\ Move(w, "unused")
  /\ used' = [used EXCEPT ![PoolOf[w]] = @ - 1]
  /\ UNCHANGED <<others, net, queue, started, finished, data>>

TaskFinished(w) ==
  /\ WorkerAt(w, "unused") /\ worker' = [worker EXCEPT ![w] = Idle]
  /\ finished' = [finished EXCEPT ![PoolOf[w]] = @ + 1]
  /\ UNCHANGED <<others, net, queue, used, started, data>>

(* io_service::run returns once the pool's io_service is stopped.            *)
LeavePool(w) ==
  /\ WorkerAt(w, "idle") /\ pool[PoolOf[w]] = "stopping"
  /\ worker' = [worker EXCEPT ![w] = Off]
  /\ UNCHANGED <<others, net, queue, used, started, finished, data>>

-----------------------------------------------------------------------------
(* server::status_update_thread.  An exception in it ends the process.       *)

StatusStep(here, next) ==
  /\ Alive /\ status = here
  /\ \/ status' = next /\ dirty' = TRUE /\ UNCHANGED main
     \/ Terminate /\ UNCHANGED <<status, dirty>>
  /\ UNCHANGED <<net, pools, flush, interrupted, saving>>
StatusUdp == StatusStep("udp", "tcp")
StatusTcp == StatusStep("tcp", "sleeping")

(* Interruption is disabled during an update: the sleep or the loop sees it. *)
StatusWake ==
  /\ Alive /\ status = "sleeping"
  /\ status' = IF "status" \in interrupted THEN "ended" ELSE "udp"
  /\ UNCHANGED <<main, net, pools, flush, interrupted, data>>

-----------------------------------------------------------------------------
(* rrdb::flush_to_disk_thread, and flush_to_disk as the rest sees it.        *)

FlushBegins(f) ==
  /\ saving' = [saving EXCEPT ![f] = @ \/ dirty]
  /\ dirty' = FALSE
FlushEnds(f) == saving' = [saving EXCEPT ![f] = FALSE]

FlushBegin ==
  /\ Alive /\ flush = "ready" /\ "flush" \notin interrupted
  /\ flush' = "flushing" /\ FlushBegins("flush")
  /\ UNCHANGED <<main, net, pools, status, interrupted>>

(* Then update_metric of the duration: an exception there ends the process.  *)
FlushEnd ==
  /\ Alive /\ flush = "flushing"
  /\ FlushEnds("flush")
  /\ \/ flush' = "ready" /\ dirty' = TRUE /\ UNCHANGED main
     \/ Terminate /\ UNCHANGED <<flush, dirty>>
  /\ UNCHANGED <<net, pools, status, interrupted>>

FlushInterrupted ==
  /\ Alive /\ flush = "ready" /\ "flush" \in interrupted
  /\ flush' = "ended"
  /\ UNCHANGED <<main, net, pools, status, interrupted, data>>

-----------------------------------------------------------------------------
(* server::stop, in the handler of the signal.                               *)

Interrupt(t) == interrupted' = interrupted \cup {t}

(* Mutant of HandleSignal: the status thread is joined and not interrupted.  *)
HandleSignalQuietly ==
  /\ At("serving") /\ Goto("join_status")
  /\ UNCHANGED interrupted
  /\ UNCHANGED <<net, pools, status, flush, data>>

HandleSignal ==
  /\ At("serving") /\ Goto("join_status")
  /\ Interrupt("status")
  /\ UNCHANGED <<net, pools, status, flush, data>>

(* Mutant of JoinStatus: the status thread is not joined.                    *)
JoinStatusDetached ==
  /\ At("join_status") /\ Goto("stop_udp")
  /\ UNCHANGED <<net, pools, status, flush, interrupted, data>>

JoinStatus ==
  /\ At("join_status") /\ status = "ended" /\ Goto("stop_udp")
  /\ UNCHANGED <<net, pools, status, flush, interrupted, data>>

(* Close the socket, stop the pool's io_service, join its threads; what is   *)
(* still queued goes with it.                                                *)
StopServer(s, here, next) ==
  /\ At(here) /\ Goto(next)
  /\ listening' = [listening EXCEPT ![s] = FALSE]
  /\ pool' = [pool EXCEPT ![s] = "stopping"]
  /\ UNCHANGED <<handed, broken, request, queue, worker, used, started, finished,
                 status, flush, interrupted, data>>
(* Mutant of JoinPool: the threads of the pool are not joined.               *)
JoinPoolDetached(s, here, next) ==
  /\ At(here) /\ Goto(next)
  /\ pool' = [pool EXCEPT ![s] = "none"]
  /\ queue' = [queue EXCEPT ![s] = <<>>]
  /\ request' = [r \in Requests |-> IF \E i \in DOMAIN queue[s] : queue[s][i] = r
                                     THEN "dropped" ELSE request[r]]
  /\ UNCHANGED <<handed, listening, broken, worker, used, started, finished,
                 status, flush, interrupted, data>>

JoinPool(s, here, next) ==
  /\ At(here) /\ Goto(next)
  /\ \A w \in PoolThreads(s) : worker[w] = Off
  /\ pool' = [pool EXCEPT ![s] = "none"]
  /\ queue' = [queue EXCEPT ![s] = <<>>]
  /\ request' = [r \in Requests |-> IF \E i \in DOMAIN queue[s] : queue[s][i] = r
                                     THEN "dropped" ELSE request[r]]
  /\ UNCHANGED <<handed, listening, broken, worker, used, started, finished,
                 status, flush, interrupted, data>>
StopUdp == StopServer(Udp, "stop_udp", "join_udp")
JoinUdp == JoinPool(Udp, "join_udp", "stop_tcp")
StopTcp == StopServer(Tcp, "stop_tcp", "join_tcp")
JoinTcp == JoinPool(Tcp, "join_tcp", "stop_rrdb")

StopRrdb ==
  /\ At("stop_rrdb") /\ Goto("join_flush")
  /\ Interrupt("flush")
  /\ UNCHANGED <<net, pools, status, flush, data>>

(* Mutant of JoinFlush: the flush thread is not joined.                      *)
JoinFlushDetached ==
  /\ At("join_flush") /\ Goto("last_flush")
  /\ UNCHANGED <<net, pools, status, flush, interrupted, data>>

JoinFlush ==
  /\ At("join_flush") /\ flush = "ended" /\ Goto("last_flush")
  /\ UNCHANGED <<net, pools, status, flush, interrupted, data>>

LastFlush ==
  /\ At("last_flush") /\ Goto("saving") /\ FlushBegins("main")
  /\ UNCHANGED <<net, pools, status, flush, interrupted>>

LastSave ==
  /\ At("saving") /\ Goto("stopped") /\ FlushEnds("main")
  /\ UNCHANGED <<net, pools, status, flush, interrupted, dirty>>

Over == main \in {"stopped", "terminated"} /\ UNCHANGED vars

-----------------------------------------------------------------------------
Starting == StartRrdb \/ StartUdp \/ StartTcp \/ StartStatus
Handling ==
  \E r \in Requests : HandleAccept(r) \/ HandleReceive(r)
Running == RunUsed \/ RunStarted \/ RunPost
Stopping ==
  JoinStatus \/ StopUdp \/ JoinUdp \/ StopTcp \/ JoinTcp \/ StopRrdb \/ JoinFlush
    \/ LastFlush \/ LastSave
MainThread == Starting \/ Handling \/ Running \/ Stopping
Working(w) ==
  TakeTask(w) \/ ExecuteUpdate(w) \/ ExecuteQuery(w) \/ TaskUnused(w) \/ TaskFinished(w)
    \/ LeavePool(w)
StatusThread == StatusUdp \/ StatusTcp \/ StatusWake
FlushThread == FlushBegin \/ FlushEnd \/ FlushInterrupted

Next ==
  \/ MainThread \/ HandleSignal
  \/ \E r \in Requests : HandleRead(r)
  \/ \E s \in Servers : ListenFails(s)
  \/ \E w \in Workers : Working(w)
  \/ StatusThread \/ FlushThread \/ Over

(* Every thread runs when it can.  A signal need not come, and a client that *)
(* has connected need not send its request: the read has no timeout.         *)
Spec ==
  /\ Init /\ [][Next]_vars
  /\ WF_vars(MainThread) /\ WF_vars(StatusThread) /\ WF_vars(FlushThread)
  /\ \A w \in Workers : WF_vars(Working(w))

-----------------------------------------------------------------------------
(***************************************************************************)
(* "should be last - we flush data" (server::stop): once the process has   *)
(* stopped, every write any of its threads applied is saved, those of      *)
(* requests still running when the signal came and of the threads' own     *)
(* metrics included.                                                       *)
(***************************************************************************)
StoppedIsSaved ==
  main = "stopped" => ~dirty /\ ~saving["flush"] /\ ~saving["main"]

(***************************************************************************)
(* The last flush has the journal, and the caches it clears, for itself:   *)
(* the other flush is over (begin_file would throw on the shared journal,  *)
(* see FlushJournal) and no thread can apply, read or flush anything.      *)
(***************************************************************************)
LastFlushAlone ==
  main \in {"last_flush", "saving", "stopped"} =>
    /\ flush = "ended" /\ status = "ended"
    /\ \A w \in Workers : worker[w] = Off

(***************************************************************************)
(* _thread_pool is reset by stop and set by start: whoever goes through    *)
(* that pointer, the status update, a handler or a worker, finds it.       *)
(***************************************************************************)
PoolsInUse ==
  \A s \in Servers : Alive /\ pool[s] = "none" =>
    /\ status # (IF s = Udp THEN "udp" ELSE "tcp")
    /\ handed # None => Via[handed] # s
    /\ \A w \in PoolThreads(s) : worker[w] = Off

(***************************************************************************)
(* The counters of a pool are exact between any two of their steps: used   *)
(* is what is queued or runs, started less finished is that and what is    *)
(* being counted.  So no fetch_sub overtakes its fetch_add and wraps.      *)
(***************************************************************************)
Count(s, pcs) == Cardinality({w \in PoolThreads(s) : worker[w].pc \in pcs})
In(s, pcs) == IF handed # None /\ main \in pcs THEN IF Via[handed] = s THEN 1 ELSE 0 ELSE 0
CountersExact ==
  \A s \in Servers : Alive /\ pool[s] # "none" =>
    LET pending == Len(queue[s]) + Count(s, {"running", "ran"})
    IN  /\ used[s] = pending + In(s, {"run_started", "run_post"})
        /\ started[s] - finished[s] = pending + Count(s, {"unused"}) + In(s, {"run_post"})

(***************************************************************************)
(* A datagram that has come, or a TCP request that was read to its end, is *)
(* executed, unless its listener broke or the server is told to stop.      *)
(***************************************************************************)
Waiting(r) == request[r] = IF Via[r] = Udp THEN "arrived" ELSE "handed"
EventuallyServed ==
  \A r \in Requests :
    Waiting(r) ~> request[r] = "over" \/ Via[r] \in broken \/ interrupted # {} \/ ~Alive

(***************************************************************************)
(* A stop ends: none of the joins waits forever, and none of the threads   *)
(* joined waits for the main thread.                                       *)
(***************************************************************************)
StopEnds == main = "join_status" ~> main \in {"stopped", "terminated"}
=============================================================================
