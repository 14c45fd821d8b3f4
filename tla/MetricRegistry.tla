--------------------------- MODULE MetricRegistry ---------------------------
(***************************************************************************)
(* The map of metrics and the files behind it: create, drop and update by  *)
(* concurrent clients, the flush thread, crashes and restarts.  Locks are  *)
(* short: the map's is held for a lookup, an insertion or a removal, a     *)
(* metric's for one operation on its data, and the file system is used     *)
(* between and across them.  So a create is an insertion, a look at the    *)
(* metric's status, the opening of a temporary file, the writing of it,    *)
(* and a rename; a drop is a removal and a deletion; and to open a file,   *)
(* for the flush of a metric and for a select or an update of one whose    *)
(* blocks are not in memory, is to look for its stream in the cache of     *)
(* open files, to open it, and to put the stream into the cache.           *)
(*                                                                         *)
(* A file is an inode: a path may be deleted, and linked to another inode, *)
(* while somebody, or the cache, has it open.  A metric's data is the set  *)
(* of updates it got.  Blocks and their cache are the subject of           *)
(* FlushJournal and MetricCaches; here a metric that was not dropped gets  *)
(* its own data back from a file that it can open.                         *)
(***************************************************************************)
EXTENDS Integers, FiniteSets, Functions

CONSTANTS
  Names,
  Clients,       (* Threads of the two servers' pools.                       *)
  Nobody,        (* No client.                                               *)
  MaxMetrics,    (* Bound: rrdb_metric objects per behaviour.                *)
  MaxUpdates,    (* Bound: updates and selects per behaviour.                *)
  MaxCrashes     (* Bound: crashes per behaviour.                            *)

None == 0

ASSUME RegistryAssumption ==
  /\ IsFiniteSet(Names) /\ None \notin Names /\ Nobody \notin Clients
  /\ MaxMetrics \in Nat /\ MaxUpdates \in Nat /\ MaxCrashes \in Nat

(* Metrics and inodes are numbered; save_file of metric o makes inode o.     *)
Ids == 1 .. MaxMetrics

VARIABLES
  mode,       (* "running", "crashed", or "failed" to start.                 *)
  made,       (* Metrics allocated so far.                                   *)
  metric,     (* metric[o]: the object.                                      *)
  lock,       (* lock[o]: the client that holds o's lock from step to step.  *)
  map,        (* map[n]: rrdb::_metrics.                                     *)
  dir, tmp,   (* dir[n], tmp[n]: the inodes at n's path and at path + .tmp.  *)
  image,      (* image[i]: what inode i holds.                               *)
  cached,     (* cached[n]: the inode whose stream the cache has under n.    *)
  journal,    (* The journal file.                                           *)
  client,     (* client[c]: the operation c is executing.                    *)
  flush,      (* Where flush_to_disk is.                                     *)
  updates, crashes,
  raced       (* History: see Races.                                         *)

files == <<dir, tmp, image, cached, journal>>
vars == <<mode, made, metric, lock, map, files, client, flush, updates, crashes, raced>>

Unborn == [name |-> None, ups |-> {}, held |-> FALSE, dirty |-> FALSE, deleted |-> FALSE]
Blank == [whole |-> FALSE, ups |-> {}, deleted |-> FALSE]
NoJournal == [name |-> None, data |-> FALSE, ups |-> {}, deleted |-> FALSE]
IdleClient == [pc |-> "idle", name |-> None, o |-> None, u |-> 0, file |-> None]
IdleFlush == [pc |-> "idle", todo |-> {}, o |-> None, file |-> None, buffer |-> NoJournal]

Init ==
  /\ mode = "running" /\ made = 0
  /\ metric = [o \in Ids |-> Unborn]
  /\ lock = [o \in Ids |-> Nobody]
  /\ map = [n \in Names |-> None]
  /\ dir = [n \in Names |-> None] /\ tmp = [n \in Names |-> None]
  /\ image = [o \in Ids |-> Blank]
  /\ cached = [n \in Names |-> None]
  /\ journal = NoJournal
  /\ client = [c \in Clients |-> IdleClient]
  /\ flush = IdleFlush
  /\ updates = 0 /\ crashes = 0
  /\ raced = [n \in Names |-> FALSE]

Unlocked(o) == lock[o] = Nobody
At(c, pc) == mode = "running" /\ client[c].pc = pc
Done(c) == client' = [client EXCEPT ![c] = IdleClient]
Goto(c, pc) == client' = [client EXCEPT ![c].pc = pc]

-----------------------------------------------------------------------------
(* create_metric: a new object, unless someone inserted one in the meantime. *)
(* `create' reports an existing metric, which changes nothing; an update     *)
(* that did not find one (u > 0) goes on with it.                            *)
NewMetric(n) == [name |-> n, ups |-> {}, held |-> TRUE, dirty |-> FALSE, deleted |-> FALSE]
InsertNew(c, n, u) ==
  /\ made < MaxMetrics
  /\ made' = made + 1
  /\ metric' = [metric EXCEPT ![made + 1] = NewMetric(n)]
  /\ map' = [map EXCEPT ![n] = made + 1]
  /\ client' = [client EXCEPT ![c] = [pc |-> "save", name |-> n, o |-> made + 1,
                                      u |-> u, file |-> None]]
  /\ UNCHANGED <<mode, lock, files, flush, updates, crashes>>

(* Mutant of Insert: trusts the earlier search.                              *)
InsertBlindly(c, n, u) == InsertNew(c, n, u)

Insert(c, n, u) ==
  \/ map[n] = None /\ InsertNew(c, n, u)
  \/ /\ map[n] # None /\ u > 0
     /\ client' = [client EXCEPT ![c].pc = "update", ![c].o = map[n]]
     /\ UNCHANGED <<mode, made, metric, lock, map, files, flush, updates, crashes>>

Create(c, n) == At(c, "idle") /\ Insert(c, n, 0)
AutoCreate(c) == At(c, "insert") /\ Insert(c, client[c].name, client[c].u)

(* save_file: not if the metric is deleted ...                               *)
SaveCheck(c) ==
  LET o == client[c].o
  IN  /\ At(c, "save") /\ Unlocked(o)
      /\ IF metric[o].deleted THEN Done(c) ELSE Goto(c, "opentmp")
      /\ UNCHANGED <<mode, made, metric, lock, map, files, flush, updates, crashes>>

(* Mutant of SaveOpen: opens the file itself, no temporary one.              *)
SaveOpenInPlace(c) ==
  LET o == client[c].o
  IN  /\ At(c, "opentmp")
      /\ dir' = [dir EXCEPT ![client[c].name] = o]
      /\ image' = [image EXCEPT ![o] = Blank]
      /\ client' = [client EXCEPT ![c].pc = "write", ![c].file = o]
      /\ UNCHANGED <<mode, made, metric, lock, map, tmp, cached, journal, flush, updates, crashes>>

(* ... open the temporary file and empty it, before it has the lock ...      *)
SaveOpen(c) ==
  LET n == client[c].name
      i == IF tmp[n] = None THEN client[c].o ELSE tmp[n]
  IN  /\ At(c, "opentmp")
      /\ tmp' = [tmp EXCEPT ![n] = i]
      /\ image' = [image EXCEPT ![i] = Blank]
      /\ client' = [client EXCEPT ![c].pc = "write", ![c].file = i]
      /\ UNCHANGED <<mode, made, metric, lock, map, dir, cached, journal, flush, updates, crashes>>

(* ... and under the lock write everything, then delete the old file, which  *)
(* takes its stream out of the cache,                                        *)
SaveWrite(c) ==
  LET o == client[c].o
  IN  /\ At(c, "write") /\ Unlocked(o) /\ metric[o].held
      /\ image' = [image EXCEPT ![client[c].file] =
           [whole |-> TRUE, ups |-> metric[o].ups, deleted |-> metric[o].deleted]]
      /\ metric' = [metric EXCEPT ![o].dirty = FALSE, ![o].held = FALSE]
      /\ dir' = [dir EXCEPT ![client[c].name] = None]
      /\ cached' = [cached EXCEPT ![client[c].name] = None]
      /\ lock' = [lock EXCEPT ![o] = c]
      /\ Goto(c, "rename")
      /\ UNCHANGED <<mode, made, map, tmp, journal, flush, updates, crashes>>

(* unless the flush thread took the blocks first: write_block throws.        *)
SaveFails(c) ==
  LET o == client[c].o
  IN  /\ At(c, "write") /\ Unlocked(o) /\ ~metric[o].held
      /\ metric' = [metric EXCEPT ![o].dirty = TRUE]
      /\ Done(c)
      /\ UNCHANGED <<mode, made, lock, map, files, flush, updates, crashes>>

(* then rename the temporary file, if nobody else did, and release the lock. *)
SaveRename(c) ==
  LET n == client[c].name
  IN  /\ At(c, "rename")
      /\ lock' = [lock EXCEPT ![client[c].o] = Nobody]
      /\ IF tmp[n] # None
         THEN /\ dir' = [dir EXCEPT ![n] = tmp[n]]
              /\ tmp' = [tmp EXCEPT ![n] = None]
              /\ IF client[c].u > 0 THEN Goto(c, "update") ELSE Done(c)
              /\ UNCHANGED metric
         ELSE /\ metric' = [metric EXCEPT ![client[c].o].dirty = TRUE]
              /\ Done(c)
              /\ UNCHANGED <<dir, tmp>>
      /\ UNCHANGED <<mode, made, map, image, cached, journal, flush, updates, crashes>>

(* Mutant of Find: goes on with the null pointer of a metric not found.      *)
FindUnchecked(c, n) ==
  /\ At(c, "idle") /\ updates < MaxUpdates
  /\ updates' = updates + 1
  /\ client' = [client EXCEPT ![c] =
       [pc |-> "update", name |-> n, o |-> map[n], u |-> updates + 1, file |-> None]]
  /\ UNCHANGED <<mode, made, metric, lock, map, files, flush, crashes>>

(* update_metric: find the metric, or be about to create it.                 *)
Find(c, n) ==
  /\ At(c, "idle") /\ updates < MaxUpdates
  /\ updates' = updates + 1
  /\ client' = [client EXCEPT ![c] =
       [pc |-> IF map[n] = None THEN "insert" ELSE "update",
        name |-> n, o |-> map[n], u |-> updates + 1, file |-> None]]
  /\ UNCHANGED <<mode, made, metric, lock, map, files, flush, crashes>>

(* select_from_metric: find the metric.  A select is an operation with u = 0. *)
Select(c, n) ==
  /\ At(c, "idle") /\ map[n] # None /\ updates < MaxUpdates
  /\ updates' = updates + 1
  /\ client' = [client EXCEPT ![c] =
       [pc |-> "update", name |-> n, o |-> map[n], u |-> 0, file |-> None]]
  /\ UNCHANGED <<mode, made, metric, lock, map, files, flush, crashes>>

(* rrdb_metric::update and select do not look at Status_Deleted.  An update  *)
(* marks the metric dirty, whether it gets the tuples then or not.  Modified *)
(* tuples are in memory, and cached ones perhaps, unless a drop erased them. *)
Marked(c, m) == IF client[c].u = 0 THEN m ELSE [m EXCEPT !.dirty = TRUE]
Applied(c, m, ups) ==
  IF client[c].u = 0 THEN m
  ELSE [m EXCEPT !.ups = ups \cup {client[c].u}, !.held = TRUE, !.dirty = TRUE]
Update(c) ==
  LET o == client[c].o
  IN  /\ At(c, "update") /\ Unlocked(o)
      /\ metric[o].held \/ ~metric[o].deleted
      /\ metric' = [metric EXCEPT ![o] = Applied(c, @, @.ups)]
      /\ Done(c)
      /\ UNCHANGED <<mode, made, lock, map, files, flush, updates, crashes>>

(* The others are read under the metric's lock: open_file looks for a stream *)
(* in the cache, opens the file if there is none, and puts the stream into   *)
(* the cache if there is none yet.                                           *)
UpdateFind(c) ==
  LET o == client[c].o
      stream == cached[client[c].name]
  IN  /\ At(c, "update") /\ Unlocked(o) /\ ~metric[o].held
      /\ metric' = [metric EXCEPT ![o] = Marked(c, @)]
      /\ lock' = [lock EXCEPT ![o] = c]
      /\ client' = [client EXCEPT ![c].pc = IF stream = None THEN "open" ELSE "read",
                                  ![c].file = stream]
      /\ UNCHANGED <<mode, made, map, files, flush, updates, crashes>>

UpdateOpen(c) ==
  LET file == dir[client[c].name]
  IN  /\ At(c, "open")
      /\ IF file = None THEN Done(c) /\ lock' = [lock EXCEPT ![client[c].o] = Nobody]
         ELSE /\ client' = [client EXCEPT ![c].pc = "cache", ![c].file = file]
              /\ UNCHANGED lock
      /\ UNCHANGED <<mode, made, metric, map, files, flush, updates, crashes>>

InCache(n, file) == cached' = [cached EXCEPT ![n] = IF @ = None THEN file ELSE @]
UpdateInsert(c) ==
  /\ At(c, "cache")
  /\ InCache(client[c].name, client[c].file)
  /\ Goto(c, "read")
  /\ UNCHANGED <<mode, made, metric, lock, map, dir, tmp, image, journal, flush, updates, crashes>>

(* A metric that was dropped is read from what had its path, which may fail; *)
(* so may any other one if its stream is not that of its file.               *)
UpdateRead(c) ==
  LET o == client[c].o
      file == client[c].file
  IN  /\ At(c, "read")
      /\ \/ /\ metric[o].deleted \/ file # dir[client[c].name]
            /\ UNCHANGED metric
         \/ /\ ~metric[o].deleted
            /\ metric' = [metric EXCEPT ![o] = Applied(c, @, @.ups)]
         \/ /\ metric[o].deleted /\ image[file].whole
            /\ metric' = [metric EXCEPT ![o] = Applied(c, @, image[file].ups)]
      /\ lock' = [lock EXCEPT ![o] = Nobody]
      /\ Done(c)
      /\ UNCHANGED <<mode, made, map, files, flush, updates, crashes>>

(* Another file's stream needs the room.                                     *)
Purge(n) ==
  /\ mode = "running" /\ cached[n] # None
  /\ cached' = [cached EXCEPT ![n] = None]
  /\ UNCHANGED <<mode, made, metric, lock, map, dir, tmp, image, journal, client, flush, updates,
                 crashes>>

(* drop_metric: out of the map, then the file.                               *)
Drop(c, n) ==
  /\ At(c, "idle") /\ map[n] # None
  /\ map' = [map EXCEPT ![n] = None]
  /\ client' = [client EXCEPT ![c] = [pc |-> "delete", name |-> n, o |-> map[n],
                                      u |-> 0, file |-> None]]
  /\ UNCHANGED <<mode, made, metric, lock, files, flush, updates, crashes>>

(* Mutant of DeleteFile: only marks the metric.                              *)
DeleteFileLater(o) ==
  /\ metric' = [metric EXCEPT ![o].deleted = TRUE]
  /\ UNCHANGED <<dir, cached>>

(* rrdb_metric::delete_file, under the metric's lock, whatever the path has; *)
(* a stream the cache has of it is closed.                                   *)
DeleteFile(o) ==
  /\ metric' = [metric EXCEPT ![o].deleted = TRUE]
  /\ dir' = [dir EXCEPT ![metric[o].name] = None]
  /\ cached' = [cached EXCEPT ![metric[o].name] = None]

Delete(c) ==
  /\ At(c, "delete") /\ Unlocked(client[c].o)
  /\ DeleteFile(client[c].o)
  /\ Done(c)
  /\ UNCHANGED <<mode, made, lock, map, tmp, image, journal, flush, updates, crashes>>

-----------------------------------------------------------------------------
(* flush_to_disk.                                                            *)
Flushing(pc) == mode = "running" /\ flush.pc = pc
NextMetric == flush' = [flush EXCEPT !.pc = "next", !.o = None, !.file = None]

FlushBegin ==
  /\ Flushing("idle")
  /\ \A n \in Names : map[n] # None => Unlocked(map[n])
  /\ flush' = [flush EXCEPT !.pc = "next",
               !.todo = {o \in Range(map) \ {None} : metric[o].dirty}]
  /\ UNCHANGED <<mode, made, metric, lock, map, files, client, updates, crashes>>

(* save_dirty_blocks refuses a deleted metric, before it has the lock ...    *)
FlushCheck(o) ==
  /\ Flushing("next") /\ o \in flush.todo /\ Unlocked(o)
  /\ flush' = [flush EXCEPT !.todo = @ \ {o},
                            !.pc = IF metric[o].deleted THEN "next" ELSE "take",
                            !.o = IF metric[o].deleted THEN None ELSE o]
  /\ UNCHANGED <<mode, made, metric, lock, map, files, client, updates, crashes>>

(* ... and takes header and modified blocks under it.                        *)
FlushTake ==
  LET m == metric[flush.o]
  IN  /\ Flushing("take") /\ Unlocked(flush.o)
      /\ metric' = [metric EXCEPT ![flush.o].dirty = FALSE, ![flush.o].held = FALSE]
      /\ flush' = [flush EXCEPT !.pc = "journal",
           !.buffer = [name |-> m.name, data |-> m.held, ups |-> m.ups, deleted |-> m.deleted]]
      /\ UNCHANGED <<mode, made, lock, map, files, client, updates, crashes>>

FlushJournal ==
  /\ Flushing("journal")
  /\ journal' = flush.buffer
  /\ flush' = [flush EXCEPT !.pc = "find"]
  /\ UNCHANGED <<mode, made, metric, lock, map, dir, tmp, image, cached, client, updates, crashes>>

(* apply_journal, through open_file: it has no lock meanwhile.  The file     *)
(* must exist to be opened; otherwise the flush is given up.                 *)
FlushFind ==
  LET stream == cached[flush.buffer.name]
  IN  /\ Flushing("find")
      /\ flush' = [flush EXCEPT !.pc = IF stream = None THEN "open" ELSE "apply",
                                !.file = stream]
      /\ UNCHANGED <<mode, made, metric, lock, map, files, client, updates, crashes>>

FlushOpen ==
  LET file == dir[flush.buffer.name]
  IN  /\ Flushing("open")
      /\ IF file = None THEN NextMetric
                        ELSE flush' = [flush EXCEPT !.pc = "cache", !.file = file]
      /\ UNCHANGED <<mode, made, metric, lock, map, files, client, updates, crashes>>

FlushInsert ==
  /\ Flushing("cache")
  /\ InCache(flush.buffer.name, flush.file)
  /\ flush' = [flush EXCEPT !.pc = "apply"]
  /\ UNCHANGED <<mode, made, metric, lock, map, dir, tmp, image, journal, client, updates, crashes>>

Overwritten(img, jnl) ==
  [whole |-> img.whole \/ jnl.data, ups |-> IF jnl.data THEN jnl.ups ELSE img.ups,
   deleted |-> jnl.deleted]

(* Writing to a file deleted meanwhile fails if its stream was the cached    *)
(* one, which delete_file closes, and goes nowhere otherwise.                *)
FlushApply ==
  /\ Flushing("apply")
  /\ IF dir[flush.buffer.name] = flush.file
     THEN /\ image' = [image EXCEPT ![flush.file] = Overwritten(@, flush.buffer)]
          /\ flush' = [flush EXCEPT !.pc = "check"]
     ELSE /\ NextMetric \/ flush' = [flush EXCEPT !.pc = "check"]
          /\ UNCHANGED image
  /\ UNCHANGED <<mode, made, metric, lock, map, dir, tmp, cached, journal, client, updates,
                 crashes>>

(* Dropped meanwhile: delete the file again.                                 *)
FlushCheckDeleted ==
  /\ Flushing("check") /\ Unlocked(flush.o)
  /\ IF metric[flush.o].deleted THEN DeleteFile(flush.o)
     ELSE UNCHANGED <<metric, dir, cached>>
  /\ NextMetric
  /\ UNCHANGED <<mode, made, lock, map, tmp, image, journal, client, updates, crashes>>

FlushEnd ==
  /\ Flushing("next") /\ flush.todo = {}
  /\ journal' = NoJournal
  /\ flush' = IdleFlush
  /\ UNCHANGED <<mode, made, metric, lock, map, dir, tmp, image, cached, client, updates, crashes>>

-----------------------------------------------------------------------------
Crash ==
  /\ mode = "running" /\ crashes < MaxCrashes
  /\ mode' = "crashed" /\ crashes' = crashes + 1
  /\ map' = [n \in Names |-> None]
  /\ lock' = [o \in Ids |-> Nobody]
  /\ client' = [c \in Clients |-> IdleClient]
  /\ flush' = IdleFlush
  /\ cached' = [n \in Names |-> None]
  /\ UNCHANGED <<made, metric, dir, tmp, image, journal, updates>>

(* The journal is applied to the file it names, which must exist.            *)
Recovered ==
  IF journal = NoJournal THEN image
  ELSE [image EXCEPT ![dir[journal.name]] = Overwritten(@, journal)]

(* Every file becomes a metric, and its stream is cached; the order of the   *)
(* directory is arbitrary.                                                   *)
OnDisk == {n \in Names : dir[n] # None}
CanStart ==
  /\ journal # NoJournal => journal.name \in OnDisk
  /\ \A n \in OnDisk : Recovered[dir[n]].whole
Loaded(n) ==
  [name |-> n, ups |-> Recovered[dir[n]].ups, held |-> FALSE, dirty |-> FALSE,
   deleted |-> Recovered[dir[n]].deleted]

Start ==
  /\ mode = "crashed" /\ CanStart
  /\ mode' = "running"
  /\ made + Cardinality(OnDisk) <= MaxMetrics
  /\ made' = made + Cardinality(OnDisk)
  /\ image' = Recovered /\ cached' = dir
  /\ \E ids \in [OnDisk -> made + 1 .. made + Cardinality(OnDisk)] :
       /\ IsInjective(ids)
       /\ map' = [n \in Names |-> IF n \in OnDisk THEN ids[n] ELSE None]
       /\ metric' = [o \in Ids |-> IF o \in Range(ids) THEN Loaded(Inverse(ids, OnDisk, Range(ids))[o])
                                                       ELSE metric[o]]
  /\ UNCHANGED <<lock, dir, tmp, journal, client, flush, updates, crashes>>

StartFails ==
  /\ mode = "crashed" /\ ~CanStart
  /\ mode' = "failed"
  /\ UNCHANGED <<made, metric, lock, map, files, client, flush, updates, crashes>>

(* Nothing is left to do: the bounds are reached, or an operator must help.  *)
Halted ==
  /\ \/ mode = "failed"
     \/ mode = "crashed" /\ CanStart /\ made + Cardinality(OnDisk) > MaxMetrics
     \/ \E c \in Clients : At(c, "insert") /\ made = MaxMetrics
  /\ UNCHANGED <<mode, made, metric, lock, map, files, client, flush, updates, crashes>>

(***************************************************************************)
(* Three ways of using one name at the same time lead to a metric without  *)
(* a file, a file without a metric, or a flush that writes to a file that  *)
(* is no more: to reach a metric, by a drop or a flush, before its first   *)
(* save is through; to create a metric again before the drop of its        *)
(* predecessor is through, a flush of it included; and to have the name's  *)
(* new file in place while a select or an update of a dropped metric of    *)
(* that name has opened an older one, and not put it into the cache yet.   *)
(***************************************************************************)
Saving(o) ==
  \E c \in Clients : client[c].o = o /\ client[c].pc \in {"save", "opentmp", "write", "rename"}
Dropping(n) == \E c \in Clients : client[c].name = n /\ client[c].pc = "delete"
FlushingAt(o) == flush.o = o /\ flush.pc # "next"
Renaming(n) == \E c \in Clients : client[c].name = n /\ client[c].pc = "rename"
Overtaken(n) == \E c \in Clients : /\ client[c].name = n /\ client[c].pc = "cache"
                                  /\ client[c].file # dir[n]
Races(n) ==
  \/ \E o \in Ids : metric[o].name = n /\ Saving(o) /\ (map[n] # o \/ FlushingAt(o))
  \/ /\ map[n] # None
     /\ \/ Dropping(n)
        \/ journal.name = n /\ Saving(map[n])
        \/ \E o \in Ids \ {map[n]} : metric[o].name = n /\ FlushingAt(o)
  \/ Overtaken(n) /\ (dir[n] # None \/ Renaming(n))

Watched == raced' = [n \in Names |-> raced[n] \/ Races(n)']

Client(c) ==
  \/ \E n \in Names : Create(c, n) /\ Watched
  \/ \E n \in Names : Find(c, n) /\ Watched
  \/ \E n \in Names : Drop(c, n) /\ Watched
  \/ \E n \in Names : Select(c, n) /\ Watched
  \/ AutoCreate(c) /\ Watched
  \/ SaveCheck(c) /\ Watched
  \/ SaveOpen(c) /\ Watched
  \/ SaveWrite(c) /\ Watched
  \/ SaveFails(c) /\ Watched
  \/ SaveRename(c) /\ Watched
  \/ Update(c) /\ Watched
  \/ UpdateFind(c) /\ Watched
  \/ UpdateOpen(c) /\ Watched
  \/ UpdateInsert(c) /\ Watched
  \/ UpdateRead(c) /\ Watched
  \/ Delete(c) /\ Watched

Flush ==
  \/ FlushBegin /\ Watched
  \/ \E o \in Ids : FlushCheck(o) /\ Watched
  \/ FlushTake /\ Watched
  \/ FlushJournal /\ Watched
  \/ FlushFind /\ Watched
  \/ FlushOpen /\ Watched
  \/ FlushInsert /\ Watched
  \/ FlushApply /\ Watched
  \/ FlushCheckDeleted /\ Watched
  \/ FlushEnd /\ Watched

Next ==
  \/ \E c \in Clients : Client(c)
  \/ Flush
  \/ \E n \in Names : Purge(n) /\ Watched
  \/ Crash /\ Watched
  \/ Start /\ Watched
  \/ StartFails /\ Watched
  \/ Halted /\ Watched

Spec == Init /\ [][Next]_vars
-----------------------------------------------------------------------------
(* Every variable has its type, and who works on a metric has one.           *)
TypeOK ==
  /\ \A c \in Clients : client[c].o = None <=> client[c].pc \in {"idle", "insert"}
  /\ mode \in {"running", "crashed", "failed"} /\ made \in 0 .. MaxMetrics
  /\ metric \in [Ids -> [name : Names \cup {None}, ups : SUBSET (1 .. MaxUpdates),
                         held : BOOLEAN, dirty : BOOLEAN, deleted : BOOLEAN]]
  /\ lock \in [Ids -> Clients \cup {Nobody}]
  /\ map \in [Names -> Ids \cup {None}]
  /\ dir \in [Names -> Ids \cup {None}] /\ tmp \in [Names -> Ids \cup {None}]
  /\ cached \in [Names -> Ids \cup {None}]
  /\ image \in [Ids -> [whole : BOOLEAN, ups : SUBSET (1 .. MaxUpdates), deleted : BOOLEAN]]
  /\ journal \in [name : Names \cup {None}, data : BOOLEAN, ups : SUBSET (1 .. MaxUpdates),
                  deleted : BOOLEAN]
  /\ client \in [Clients -> [pc : {"idle", "insert", "save", "opentmp", "write", "rename", "update",
                                   "open", "cache", "read", "delete"},
                             name : Names \cup {None}, o : Ids \cup {None},
                             u : 0 .. MaxUpdates, file : Ids \cup {None}]]
  /\ flush \in [pc : {"idle", "next", "take", "journal", "find", "open", "cache", "apply", "check"},
                todo : SUBSET Ids, o : Ids \cup {None}, file : Ids \cup {None},
                buffer : [name : Names \cup {None}, data : BOOLEAN,
                          ups : SUBSET (1 .. MaxUpdates), deleted : BOOLEAN]]
  /\ updates \in 0 .. MaxUpdates /\ crashes \in 0 .. MaxCrashes
  /\ raced \in [Names -> BOOLEAN]

(***************************************************************************)
(* Map and files agree on every name that is not being worked on: a metric *)
(* in the map has a complete file, not marked deleted, with all its data   *)
(* unless it is still marked dirty; a name not in the map has no file.     *)
(* Drops may overtake the flush, the flush may overtake drops, and the     *)
(* cache may have a stream of a file that was deleted; only the three      *)
(* races named above break it.                                             *)
(***************************************************************************)
Quiet(n) ==
  /\ mode = "running"
  /\ \A o \in Ids : metric[o].name = n => ~Saving(o) /\ ~FlushingAt(o)
  /\ ~Dropping(n)
MapMatchesFiles ==
  \A n \in Names : Quiet(n) /\ ~raced[n] =>
    IF map[n] = None THEN dir[n] = None
    ELSE /\ dir[n] # None
         /\ LET img == image[dir[n]]
                m == metric[map[n]]
            IN  /\ img.whole /\ ~img.deleted /\ ~m.deleted
                /\ img.ups \subseteq m.ups
                /\ ~m.dirty => img.ups = m.ups

(***************************************************************************)
(* A start after a crash, at whatever step of a save, a drop or a flush,   *)
(* fails for two reasons only: the journal is of a metric whose file a     *)
(* drop has deleted since, or two savers shared a temporary file (a race). *)
(* No crash alone leaves a file that cannot be read.                       *)
(***************************************************************************)
Dropped(n) == \E o \in Ids : metric[o].name = n /\ metric[o].deleted
StartFailsOnlyAfterDrop ==
  mode = "failed" =>
    \/ \E n \in OnDisk : raced[n] /\ ~image[dir[n]].whole
    \/ /\ journal # NoJournal /\ journal.name \notin OnDisk
       /\ Dropped(journal.name) \/ raced[journal.name]

(***************************************************************************)
(* Updates that find no metric create it, at the same time perhaps; what   *)
(* one of them stored is never replaced by another one's new metric.       *)
(***************************************************************************)
CreationReplacesNothing ==
  [][\A n \in Names : map[n] # None /\ map'[n] # None =>
       map'[n] = map[n] /\ metric[map[n]].ups \subseteq metric'[map[n]].ups]_vars

(***************************************************************************)
(* LANGUAGE.md: "The DROP METRIC statement deletes the given metric        *)
(* (including all the data files)".                                        *)
(***************************************************************************)
DropDeletesFiles ==
  \A n \in Names : Quiet(n) /\ map[n] = None => dir[n] = None
=============================================================================
