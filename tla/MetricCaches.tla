---------------------------- MODULE MetricCaches ----------------------------
(***************************************************************************)
(* The two caches between the metrics and their files.  The tuples cache   *)
(* is keyed by the address of a block, the files cache by the name of a    *)
(* file.  A block's tuples are loaded under its metric's lock, through a   *)
(* cached stream; the flush thread uses the same streams without that      *)
(* lock; a drop removes the metric's tuples, its stream and its file; and  *)
(* the metric of that name that comes next may get a block at an address   *)
(* that was in use before.  Each cache has a lock of its own, but opening  *)
(* a file is broken in three to do the I/O without it.                     *)
(*                                                                         *)
(* A metric has one block here, and metric o writes file (inode) o.        *)
(***************************************************************************)
EXTENDS LruCache

CONSTANTS
  Names, Addresses,
  Clients, Flush,  (* The threads.                                           *)
  Size,            (* Size[n]: memory of the tuples of n's block.            *)
  MaxMemory, MaxOpen, PurgePercent,    (* The configuration.                 *)
  MaxMetrics,      (* Bound: metrics created.                                *)
  MaxStreams,      (* Bound: streams opened.                                 *)
  MaxTime          (* Bound: seconds.                                        *)

None == 0
Threads == Clients \cup {Flush}
Metrics == 1 .. MaxMetrics
Streams == 1 .. MaxStreams

(* What initialize requires of the configuration, and a name to ask for.     *)
ASSUME CachesAssumption ==
  /\ Flush \notin Clients /\ Names # {} /\ None \notin Names \cup Threads
  /\ Size \in [Names -> Nat \ {0}]
  /\ MaxMemory \in Nat /\ MaxOpen \in Nat \ {0} /\ PurgePercent \in 0 .. 100
  /\ MaxMetrics \in Nat /\ MaxStreams \in Nat /\ MaxTime \in Nat

VARIABLES
  now,       (* time(NULL).                                                  *)
  map,       (* map[n]: the metric of that name.                             *)
  metric,    (* metric[o]: name, address of its block, flags.                *)
  lock,      (* lock[o]: the thread that holds the metric's lock.            *)
  dir,       (* dir[n]: the file of that name.                               *)
  stream,    (* stream[s]: the file it reads and writes; is it open.         *)
  files,     (* The files cache: names to streams.                           *)
  tuples,    (* The tuples cache: addresses to [owner, file, size].          *)
  used,      (* _used_memory.                                                *)
  thread,    (* thread[c]: what the thread is doing.                         *)
  overtaken, (* History: names whose file was deleted while being opened, or *)
             (* replaced by a metric older than its own.                     *)
  ghosts     (* History: deleted metrics that still loaded tuples.           *)

vars == <<now, map, metric, lock, dir, stream, files, tuples, used, thread, overtaken, ghosts>>

Nobody == [name |-> None, addr |-> None, modified |-> FALSE, deleted |-> FALSE]
IdleThread == [pc |-> "idle", o |-> None, s |-> None, t |-> 0]

Init ==
  /\ now = 0
  /\ map = [n \in Names |-> None] /\ dir = [n \in Names |-> None]
  /\ metric = [o \in Metrics |-> Nobody]
  /\ lock = [o \in Metrics |-> None]
  /\ stream = [s \in Streams |-> [file |-> None, open |-> FALSE]]
  /\ files = Empty /\ tuples = Empty /\ used = 0
  /\ thread = [c \in Threads |-> IdleThread]
  /\ overtaken = {} /\ ghosts = {}

(* A metric lives as long as the map or a thread refers to it.               *)
Live(o) == (\E n \in Names : map[n] = o) \/ (\E c \in Threads : thread[c].o = o)

At(c, pc) == thread[c].pc = pc
NameOf(c) == metric[thread[c].o].name
Goto(c, pc) == thread' = [thread EXCEPT ![c].pc = pc]
Return(c) == thread' = [thread EXCEPT ![c] = IdleThread]
Acquire(c) == /\ lock[thread[c].o] = None
              /\ lock' = [lock EXCEPT ![thread[c].o] = c]
Release(c) == lock' = [lock EXCEPT ![thread[c].o] = IF @ = c THEN None ELSE @]

Tick ==
  /\ now < MaxTime /\ now' = now + 1
  /\ UNCHANGED <<map, metric, lock, dir, stream, files, tuples, used, thread, overtaken, ghosts>>

-----------------------------------------------------------------------------
(* An update or a select of n: find the metric, then take its lock.          *)
Find(c, n) ==
  /\ At(c, "idle") /\ c \in Clients /\ map[n] # None
  /\ thread' = [thread EXCEPT ![c].pc = "tuples", ![c].o = map[n]]
  /\ UNCHANGED <<now, map, metric, lock, dir, stream, files, tuples, used, overtaken, ghosts>>

(* get_tuples: modified tuples are the block's own, the cache is only told.  *)
UseModified(c) ==
  LET m == metric[thread[c].o]
  IN  /\ At(c, "tuples") /\ lock[thread[c].o] = None /\ m.modified
      /\ tuples' = Used(tuples, m.addr, now)
      /\ Return(c)
      /\ UNCHANGED <<now, map, metric, lock, dir, stream, files, used, overtaken, ghosts>>

(* The cache has the tuples; an update makes them the block's own.           *)
HitTuples(c) ==
  LET m == metric[thread[c].o]
  IN  /\ At(c, "tuples") /\ lock[thread[c].o] = None /\ ~m.modified
      /\ m.addr \in DOMAIN tuples
      /\ tuples' = Used(tuples, m.addr, now)
      /\ \E update \in BOOLEAN : metric' = [metric EXCEPT ![thread[c].o].modified = update]
      /\ Return(c)
      /\ UNCHANGED <<now, map, lock, dir, stream, files, used, overtaken, ghosts>>

(* It has not: open the file, under the metric's lock.                       *)
MissTuples(c) ==
  LET m == metric[thread[c].o]
  IN  /\ At(c, "tuples") /\ ~m.modified /\ m.addr \notin DOMAIN tuples
      /\ Acquire(c)
      /\ thread' = [thread EXCEPT ![c].pc = "find", ![c].t = now]
      /\ UNCHANGED <<now, map, metric, dir, stream, files, tuples, used, overtaken, ghosts>>

(***************************************************************************)
(* rrdb_files_cache::open_file: find (under the cache's lock), open (no    *)
(* lock), insert (under the lock).                                         *)
(***************************************************************************)
FindStream(c) ==
  LET n == NameOf(c)
  IN  /\ At(c, "find")
      /\ files' = Used(files, n, thread[c].t)
      /\ thread' = [thread EXCEPT ![c].pc = IF n \in DOMAIN files THEN "io" ELSE "open",
                                  ![c].s = IF n \in DOMAIN files THEN files[n].v ELSE None]
      /\ UNCHANGED <<now, map, metric, lock, dir, stream, tuples, used, overtaken, ghosts>>

OpenStream(c) ==
  /\ At(c, "open") /\ dir[NameOf(c)] # None
  /\ \E s \in Streams :
       /\ stream[s].file = None /\ \A r \in Streams : r < s => stream[r].file # None
       /\ stream' = [stream EXCEPT ![s] = [file |-> dir[NameOf(c)], open |-> TRUE]]
       /\ thread' = [thread EXCEPT ![c].pc = "insert", ![c].s = s]
  /\ UNCHANGED <<now, map, metric, lock, dir, files, tuples, used, overtaken, ghosts>>

(* There is no such file: the exception ends the operation.                  *)
OpenFails(c) ==
  /\ At(c, "open") /\ dir[NameOf(c)] = None
  /\ Release(c) /\ Return(c)
  /\ UNCHANGED <<now, map, metric, dir, stream, files, tuples, used, overtaken, ghosts>>

PurgedFiles ==
  Purged(files, [n \in DOMAIN files |-> 1], Cardinality(DOMAIN files),
         (MaxOpen * PurgePercent) \div 100)
InsertStream(c) ==
  /\ At(c, "insert")
  /\ \E kept \in IF Cardinality(DOMAIN files) >= MaxOpen THEN PurgedFiles ELSE {files} :
       files' = Inserted(kept, NameOf(c), thread[c].s, thread[c].t)
  /\ Goto(c, "io")
  /\ UNCHANGED <<now, map, metric, lock, dir, stream, tuples, used, overtaken, ghosts>>

-----------------------------------------------------------------------------
(* rrdb_metric_tuples_cache::insert, after the block's data has been read.   *)
Sizes == [a \in DOMAIN tuples |-> tuples[a].v.size]
MemoryLimit == (MaxMemory * PurgePercent) \div 100

(* Mutant of InsertTuples: never purges.                                     *)
InsertTuplesUnpurged(addr, v, t) ==
  /\ tuples' = Inserted(tuples, addr, v, t)
  /\ used' = IF addr \in DOMAIN tuples THEN used ELSE used + v.size

InsertTuples(addr, v, t) ==
  \E kept \in IF used + v.size >= MaxMemory THEN Purged(tuples, Sizes, used, MemoryLimit)
                                            ELSE {tuples} :
    LET left == used - SumFunctionOnSet(Sizes, DOMAIN tuples \ DOMAIN kept)
    IN  /\ tuples' = Inserted(kept, addr, v, t)
        /\ used' = IF addr \in DOMAIN kept THEN left ELSE left + v.size

Load(c) ==
  LET o == thread[c].o
      s == stream[thread[c].s]
  IN  /\ At(c, "io") /\ c \in Clients /\ s.open
      /\ InsertTuples(metric[o].addr,
                      [owner |-> o, file |-> s.file, size |-> Size[NameOf(c)]], thread[c].t)
      /\ \E update \in BOOLEAN : metric' = [metric EXCEPT ![o].modified = update]
      /\ ghosts' = IF metric[o].deleted THEN ghosts \cup {o} ELSE ghosts
      /\ Release(c) /\ Return(c)
      /\ UNCHANGED <<now, map, dir, stream, files, overtaken>>

(* Somebody closed the stream: an I/O failure.                               *)
IoFails(c) ==
  /\ At(c, "io") /\ ~stream[thread[c].s].open
  /\ Release(c) /\ Return(c)
  /\ UNCHANGED <<now, map, metric, dir, stream, files, tuples, used, overtaken, ghosts>>

(* The flush: the modified tuples go to the journal, the block lets go of    *)
(* them, and then, without the metric's lock, they are written to its file.  *)
FlushBlock(o) ==
  /\ At(Flush, "idle") /\ metric[o].modified /\ lock[o] = None
  /\ \E n \in Names : map[n] = o
  /\ metric' = [metric EXCEPT ![o].modified = FALSE]
  /\ thread' = [thread EXCEPT ![Flush] = [pc |-> "find", o |-> o, s |-> None, t |-> now]]
  /\ UNCHANGED <<now, map, lock, dir, stream, files, tuples, used, overtaken, ghosts>>

(* ... and if the metric was dropped meanwhile, it is deleted again.         *)
FlushWrite ==
  /\ At(Flush, "io") /\ stream[thread[Flush].s].open /\ lock[thread[Flush].o] = None
  /\ IF metric[thread[Flush].o].deleted THEN Goto(Flush, "delete") ELSE Return(Flush)
  /\ UNCHANGED <<now, map, metric, lock, dir, stream, files, tuples, used, overtaken, ghosts>>

-----------------------------------------------------------------------------
(* drop_metric: out of the map, then delete_file.                            *)
Drop(c, n) ==
  /\ At(c, "idle") /\ c \in Clients /\ map[n] # None
  /\ map' = [map EXCEPT ![n] = None]
  /\ thread' = [thread EXCEPT ![c].pc = "delete", ![c].o = map[n]]
  /\ UNCHANGED <<now, metric, lock, dir, stream, files, tuples, used, overtaken, ghosts>>

(* Mutant of EraseTuples: forgets the memory of what it erases.              *)
EraseTuplesOnly(addr) ==
  tuples' = Erased(tuples, addr) /\ UNCHANGED used

(* Mutant of EraseTuples: forgets about the cache.                           *)
EraseTuplesNever(addr) == UNCHANGED <<tuples, used>>

(* rrdb_metric_tuples_cache::erase.                                          *)
EraseTuples(addr) ==
  /\ tuples' = Erased(tuples, addr)
  /\ used' = IF addr \in DOMAIN tuples THEN used - tuples[addr].v.size ELSE used

Delete(c) ==
  /\ At(c, "delete") /\ Acquire(c)
  /\ metric' = [metric EXCEPT ![thread[c].o].deleted = TRUE]
  /\ EraseTuples(metric[thread[c].o].addr)
  /\ Goto(c, "erase")
  /\ UNCHANGED <<now, map, dir, stream, files, overtaken, ghosts>>

(* Mutant of EraseStream: closes the stream, but it stays in the cache.      *)
EraseStreamLater(n) ==
  /\ stream' = [s \in Streams |->
       IF n \in DOMAIN files /\ files[n].v = s THEN [stream[s] EXCEPT !.open = FALSE] ELSE stream[s]]
  /\ UNCHANGED files

(* rrdb_files_cache::delete_file: the cached stream is erased and closed ... *)
EraseStream(n) ==
  /\ stream' = [s \in Streams |->
       IF n \in DOMAIN files /\ files[n].v = s THEN [stream[s] EXCEPT !.open = FALSE] ELSE stream[s]]
  /\ files' = Erased(files, n)

Erase(c) ==
  /\ At(c, "erase") \/ At(c, "save")
  /\ EraseStream(NameOf(c))
  /\ Goto(c, IF At(c, "erase") THEN "remove" ELSE "replace")
  /\ UNCHANGED <<now, map, metric, lock, dir, tuples, used, overtaken, ghosts>>

(* ... and the file is removed.  Who has opened it has not yet inserted it.  *)
Opening(c, n) ==
  At(c, "insert") /\ NameOf(c) = n
RemoveFile(n) ==
  /\ dir' = [dir EXCEPT ![n] = None]
  /\ overtaken' = IF n \in DOMAIN files \/ (\E c \in Threads : Opening(c, n))
                  THEN overtaken \cup {n} ELSE overtaken

Remove(c) ==
  /\ At(c, "remove")
  /\ RemoveFile(NameOf(c))
  /\ Release(c) /\ Return(c)
  /\ UNCHANGED <<now, map, metric, stream, files, tuples, used, ghosts>>

(***************************************************************************)
(* create_metric.  The block gets the address of any block that is gone.   *)
(* save_file writes a temporary file and, under the metric's lock, deletes *)
(* the old file and renames the new one.  (Between the insertion and the   *)
(* lock others may be faster; MetricRegistry is about that.)               *)
(***************************************************************************)
Create(c, n) ==
  /\ At(c, "idle") /\ c \in Clients /\ map[n] = None
  /\ \E o \in Metrics, a \in Addresses :
       /\ metric[o] = Nobody /\ \A p \in Metrics : p < o => metric[p] # Nobody
       /\ \A p \in Metrics : Live(p) => metric[p].addr # a
       /\ metric' = [metric EXCEPT ![o] = [name |-> n, addr |-> a,
                                           modified |-> FALSE, deleted |-> FALSE]]
       /\ map' = [map EXCEPT ![n] = o]
       /\ lock' = [lock EXCEPT ![o] = c]
       /\ thread' = [thread EXCEPT ![c].pc = "save", ![c].o = o]
  /\ UNCHANGED <<now, dir, stream, files, tuples, used, overtaken, ghosts>>

Replace(c) ==
  /\ At(c, "replace")
  /\ RemoveFile(NameOf(c))
  /\ Goto(c, "rename")
  /\ UNCHANGED <<now, map, metric, lock, stream, files, tuples, used, ghosts>>

(* A metric that was dropped while it was being saved may be the last to     *)
(* rename, although another one of that name has been created.               *)
Succeeded(o) == \E p \in Metrics : p > o /\ metric[p].name = metric[o].name
Rename(c) ==
  /\ At(c, "rename")
  /\ dir' = [dir EXCEPT ![NameOf(c)] = thread[c].o]
  /\ overtaken' = IF Succeeded(thread[c].o) THEN overtaken \cup {NameOf(c)} ELSE overtaken
  /\ Release(c) /\ Return(c)
  /\ UNCHANGED <<now, map, metric, stream, files, tuples, used, ghosts>>

(* Every bound is reached and nothing is left to do.                         *)
Finished ==
  /\ now = MaxTime
  /\ UNCHANGED vars

Next ==
  \/ Tick
  \/ \E c \in Threads :
       \/ \E n \in Names : Find(c, n) \/ Drop(c, n) \/ Create(c, n)
       \/ UseModified(c) \/ HitTuples(c) \/ MissTuples(c)
       \/ FindStream(c) \/ OpenStream(c) \/ OpenFails(c) \/ InsertStream(c)
       \/ Load(c) \/ IoFails(c)
       \/ Delete(c) \/ Erase(c) \/ Remove(c) \/ Replace(c) \/ Rename(c)
  \/ \E o \in Metrics : FlushBlock(o)
  \/ FlushWrite
  \/ Finished

Spec == Init /\ [][Next]_vars

-----------------------------------------------------------------------------
(***************************************************************************)
(* _used_memory is the memory of the entries, whatever was inserted twice, *)
(* erased or purged (CHECK_AND_THROW(_used_memory >= tuples_size) in purge *)
(* relies on it), and stays bounded: below the maximum, or below what a    *)
(* purge leaves plus the block it made room for.                           *)
(***************************************************************************)
UsedMemoryKept ==
  /\ used = SumFunction(Sizes)
  /\ \/ used < MaxMemory
     \/ \E n \in Names : used < MemoryLimit + Size[n] \/ used = Size[n]

(***************************************************************************)
(* A cached stream is open and is the stream of the file that has the name *)
(* now.  Deleting a file purges its stream from the cache; only an open of *)
(* it in progress, between the three pieces of open_file, escapes.         *)
(***************************************************************************)
CachedStreamsCurrent ==
  \A n \in DOMAIN files \ overtaken :
    LET s == stream[files[n].v]
    IN  s.open /\ s.file = dir[n]

(***************************************************************************)
(* Tuples in the cache belong to a living block at that address, and come  *)
(* from its own file: a block that gets the address of a dropped one never *)
(* finds that one's tuples.  The exceptions: a dropped metric that loads   *)
(* tuples, of its own file or its successor's, after it has been deleted   *)
(* (until then only its successor's file counts as its own), and a stale   *)
(* stream.                                                                 *)
(***************************************************************************)
CachedTuplesBelong ==
  \A a \in DOMAIN tuples :
    LET e == tuples[a].v
    IN  \/ e.owner \in ghosts
        \/ /\ Live(e.owner) /\ metric[e.owner].addr = a
           /\ \/ e.file = e.owner
              \/ e.file > e.owner /\ map[metric[e.owner].name] # e.owner
              \/ metric[e.owner].name \in overtaken
=============================================================================
