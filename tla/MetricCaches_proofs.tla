------------------------ MODULE MetricCaches_proofs ------------------------
(***************************************************************************)
(* What the two caches hand out belongs to the key it was asked for: for   *)
(* any number of names, addresses, threads, metrics and streams, and any   *)
(* limits of the caches.                                                   *)
(*                                                                         *)
(* The argument goes by age.  Metrics are numbered as they are created, a  *)
(* file has the number of the metric that wrote it, and unless a name was  *)
(* overtaken its file is never older than a metric that has been saved     *)
(* (FileNotOlder): so a stream that a metric finds or opens under its lock *)
(* is that of its own file, or of its successor's.                         *)
(***************************************************************************)
EXTENDS MetricCaches, FoldFacts, TLAPS

-----------------------------------------------------------------------------
(* The caches: what the operations of the container do to keys and values.   *)
Entries(cache) == \A k \in DOMAIN cache : cache[k] = [v |-> cache[k].v, t |-> cache[k].t]

(* Nothing came in, or at most v under the key k.                            *)
Less(new, old) == \A j \in DOMAIN new : j \in DOMAIN old /\ new[j].v = old[j].v
OneMore(new, old, k, v) ==
  \A j \in DOMAIN new : (j \in DOMAIN old /\ new[j].v = old[j].v) \/ (j = k /\ new[j].v = v)

LEMMA UsedFacts ==
  ASSUME NEW cache, Entries(cache), NEW k, NEW t
  PROVE  Entries(Used(cache, k, t)) /\ Less(Used(cache, k, t), cache)
  BY DEF Entries, Less, Used

LEMMA ErasedFacts ==
  ASSUME NEW cache, Entries(cache), NEW k
  PROVE  Entries(Erased(cache, k)) /\ Less(Erased(cache, k), cache) /\ k \notin DOMAIN Erased(cache, k)
  BY DEF Entries, Less, Erased, Restrict

LEMMA PurgedFacts ==
  ASSUME NEW cache, Entries(cache), NEW size, NEW total, NEW limit,
         NEW kept \in Purged(cache, size, total, limit)
  PROVE  Entries(kept) /\ Less(kept, cache)
  <1>1. PICK gone \in SUBSET DOMAIN cache : kept = Restrict(cache, DOMAIN cache \ gone)
    BY DEF Purged
  <1> QED
    BY <1>1 DEF Entries, Less, Restrict

LEMMA InsertedFacts ==
  ASSUME NEW cache, NEW kept, Entries(kept), Less(kept, cache), NEW k, NEW v, NEW t
  PROVE  Entries(Inserted(kept, k, v, t)) /\ OneMore(Inserted(kept, k, v, t), cache, k, v)
  <1>1. CASE k \in DOMAIN kept
    BY <1>1 DEF Inserted, OneMore, Less
  <1>2. CASE k \notin DOMAIN kept
    BY <1>2 DEF Inserted, Entries, OneMore, Less
  <1> QED
    BY <1>1, <1>2

-----------------------------------------------------------------------------
(* Types.                                                                    *)
Places == {"idle", "tuples", "find", "open", "insert", "io", "delete", "erase", "remove",
           "save", "replace", "rename"}
MetricType == [name : Names \cup {None}, addr : Addresses \cup {None},
               modified : BOOLEAN, deleted : BOOLEAN]
StreamType == [file : Metrics \cup {None}, open : BOOLEAN]
ThreadType == [pc : Places, o : Metrics \cup {None}, s : Streams \cup {None}, t : Nat]

Types ==
  /\ now \in Nat /\ map \in [Names -> Metrics \cup {None}]
  /\ metric \in [Metrics -> MetricType] /\ lock \in [Metrics -> Threads \cup {None}]
  /\ dir \in [Names -> Metrics \cup {None}] /\ stream \in [Streams -> StreamType]
  /\ thread \in [Threads -> ThreadType]
  /\ overtaken \in SUBSET Names /\ ghosts \in SUBSET Metrics
  /\ Entries(files) /\ DOMAIN files \subseteq Names
  /\ \A n \in DOMAIN files : files[n].v \in Streams
  /\ Entries(tuples)
  /\ \A a \in DOMAIN tuples : tuples[a].v.owner \in Metrics /\ tuples[a].v.file \in Metrics

(* Whoever works on a metric has one, and a stream from its lookup on; what  *)
(* a name, a file or a stream refers to belongs to that name.                *)
Born(o) == o \in Metrics /\ metric[o].name # None
AtOneOf(c, pcs) == thread[c].pc \in pcs
Numbered ==
  /\ \A o \in Metrics : metric[o].name = None => metric[o] = Nobody
  /\ \A o, p \in Metrics : p < o /\ Born(o) => Born(p)
Working(c) ==
  /\ ~At(c, "idle") => Born(thread[c].o)
  /\ AtOneOf(c, {"insert", "io"}) => thread[c].s \in Streams
  /\ At(c, "delete") => map[NameOf(c)] # thread[c].o
Named(n) ==
  /\ map[n] # None => /\ metric[map[n]].name = n /\ ~metric[map[n]].deleted
                      /\ \A p \in Metrics : metric[p].name = n => p <= map[n]
  /\ dir[n] # None => metric[dir[n]].name = n
Known == Numbered /\ (\A c \in Threads : Working(c)) /\ \A n \in Names : Named(n)

(* A metric that is not in the map will be deleted by who took it out.       *)
Undeleted(o) ==
  Born(o) /\ ~metric[o].deleted =>
    map[metric[o].name] = o \/ \E c \in Threads : At(c, "delete") /\ thread[c].o = o

Locked(c) ==
  AtOneOf(c, {"erase", "remove", "save", "replace", "rename"})
    \/ (c \in Clients /\ AtOneOf(c, {"find", "open", "insert", "io"}))
  => lock[thread[c].o] = c

(* Streams: who has one, has one of its name's files.                        *)
StreamOf(s, n) == s \in Streams /\ stream[s].file # None /\ metric[stream[s].file].name = n
Streamed(c) ==
  /\ AtOneOf(c, {"insert", "io"}) => StreamOf(thread[c].s, NameOf(c))
  /\ At(c, "insert") =>
       /\ \A n \in DOMAIN files : files[n].v # thread[c].s
       /\ \A d \in Threads : At(d, "insert") /\ d # c => thread[d].s # thread[c].s
StreamsKnown ==
  (\A n \in DOMAIN files : StreamOf(files[n].v, n)) /\ \A c \in Threads : Streamed(c)

-----------------------------------------------------------------------------
(* What holds of a name that was not overtaken.                              *)
Current(s, n) == stream[s].open /\ stream[s].file = dir[n]
CachedCurrent(n) == n \in DOMAIN files /\ n \notin overtaken => Current(files[n].v, n)
OpenedCurrent(c) == At(c, "insert") /\ NameOf(c) \notin overtaken => Current(thread[c].s, NameOf(c))

Unsaved(o) == \E c \in Threads : AtOneOf(c, {"save", "replace"}) /\ thread[c].o = o
FileNotOlder(o) ==
  Born(o) /\ metric[o].name \notin overtaken =>
    dir[metric[o].name] = None \/ dir[metric[o].name] >= o \/ Unsaved(o)
Renamer(c) ==
  At(c, "rename") /\ ~Succeeded(thread[c].o) /\ NameOf(c) \notin overtaken => dir[NameOf(c)] = None

Loader(c) ==
  c \in Clients /\ AtOneOf(c, {"insert", "io"}) /\ NameOf(c) \notin overtaken =>
    stream[thread[c].s].file >= thread[c].o

Belongs(e, a) ==
  e.owner \in ghosts \/
    /\ Born(e.owner) /\ ~metric[e.owner].deleted /\ metric[e.owner].addr = a
    /\ metric[e.file].name = metric[e.owner].name
    /\ e.file >= e.owner \/ metric[e.owner].name \in overtaken
TuplesBelong == \A a \in DOMAIN tuples : Belongs(tuples[a].v, a)

CInv ==
  /\ Types /\ Known /\ StreamsKnown /\ TuplesBelong
  /\ \A o \in Metrics : Undeleted(o) /\ FileNotOlder(o)
  /\ \A c \in Threads : Locked(c) /\ OpenedCurrent(c) /\ Renamer(c) /\ Loader(c)
  /\ \A n \in Names : CachedCurrent(n)

USE DEF At, AtOneOf, NameOf, Goto, Return, Acquire, Release, IdleThread, Nobody, Born

LEMMA NumberFacts ==
  /\ None = 0 /\ None \notin Names /\ None \notin Threads /\ None \notin Metrics /\ None \notin Streams
  /\ Metrics \in SUBSET Nat /\ Streams \in SUBSET Nat /\ Clients \in SUBSET Threads /\ Flush \in Threads
  /\ Flush \notin Clients
  BY CachesAssumption DEF None, Metrics, Streams, Threads

LEMMA InitCInv == Init => CInv
  <1> SUFFICES ASSUME Init PROVE CInv
    OBVIOUS
  <1>1. Types
    BY NumberFacts DEF Init, Types, MetricType, StreamType, ThreadType, Places, Entries, Empty
  <1>2. Known /\ StreamsKnown /\ TuplesBelong
    BY NumberFacts DEF Init, Known, Numbered, Working, Named, StreamsKnown, Streamed, TuplesBelong, Empty
  <1>3. /\ \A o \in Metrics : Undeleted(o) /\ FileNotOlder(o)
        /\ \A c \in Threads : Locked(c) /\ OpenedCurrent(c) /\ Renamer(c) /\ Loader(c)
        /\ \A n \in Names : CachedCurrent(n)
    BY NumberFacts DEF Init, Undeleted, FileNotOlder, Locked, OpenedCurrent, Renamer, Loader,
                       CachedCurrent, Empty
  <1> QED
    BY <1>1, <1>2, <1>3 DEF CInv

-----------------------------------------------------------------------------
(* What a step does to the caches.                                           *)
LEMMA FilesStep ==
  ASSUME Types, Next
  PROVE  /\ Entries(files')
         /\ \/ Less(files', files)
            \/ \E c \in Threads : /\ InsertStream(c)
                                  /\ OneMore(files', files, NameOf(c), thread[c].s)
  <1>0. Entries(files)
    BY DEF Types
  <1>1. CASE UNCHANGED files
    BY <1>0, <1>1 DEF Less, Entries
  <1>2. CASE \E c \in Threads : FindStream(c)
    BY <1>0, <1>2, UsedFacts DEF FindStream
  <1>3. CASE \E c \in Threads : Erase(c)
    BY <1>0, <1>3, ErasedFacts DEF Erase, EraseStream
  <1>4. ASSUME NEW c \in Threads, InsertStream(c)
        PROVE  Entries(files') /\ OneMore(files', files, NameOf(c), thread[c].s)
    <2>1. PICK kept : /\ kept = files \/ kept \in PurgedFiles
                      /\ files' = Inserted(kept, NameOf(c), thread[c].s, thread[c].t)
      BY <1>4 DEF InsertStream
    <2>2. Entries(kept) /\ Less(kept, files)
      BY <1>0, <2>1, PurgedFacts DEF PurgedFiles, Less
    <2> QED
      BY <2>1, <2>2, InsertedFacts
  <1> QED
    BY <1>1, <1>2, <1>3, <1>4, ZenonT(30)
       DEF Next, Tick, Find, Drop, Create, UseModified, HitTuples, MissTuples, OpenStream, OpenFails,
           Load, IoFails, Delete, Remove, Replace, Rename, FlushBlock, FlushWrite, Finished, vars

LEMMA TuplesStep ==
  ASSUME Types, Next
  PROVE  /\ Entries(tuples')
         /\ \/ Less(tuples', tuples)
            \/ \E c \in Threads :
                 /\ Load(c)
                 /\ OneMore(tuples', tuples, metric[thread[c].o].addr,
                            [owner |-> thread[c].o, file |-> stream[thread[c].s].file,
                             size |-> Size[NameOf(c)]])
  <1>0. Entries(tuples)
    BY DEF Types
  <1>1. CASE UNCHANGED tuples
    BY <1>0, <1>1 DEF Less, Entries
  <1>2. CASE \E c \in Threads : UseModified(c) \/ HitTuples(c)
    <2>1. PICK k : tuples' = Used(tuples, k, now)
      BY <1>2 DEF UseModified, HitTuples
    <2> QED
      BY <1>0, <2>1, UsedFacts
  <1>3. CASE \E c \in Threads : Delete(c)
    <2>1. PICK k : tuples' = Erased(tuples, k)
      BY <1>3 DEF Delete, EraseTuples
    <2> QED
      BY <1>0, <2>1, ErasedFacts
  <1>4. ASSUME NEW c \in Threads, Load(c)
        PROVE  /\ Entries(tuples')
               /\ OneMore(tuples', tuples, metric[thread[c].o].addr,
                          [owner |-> thread[c].o, file |-> stream[thread[c].s].file,
                           size |-> Size[NameOf(c)]])
    <2> DEFINE v == [owner |-> thread[c].o, file |-> stream[thread[c].s].file, size |-> Size[NameOf(c)]]
    <2> HIDE DEF v
    <2>1. InsertTuples(metric[thread[c].o].addr, v, thread[c].t)
      BY <1>4 DEF Load, v
    <2>2. PICK kept : /\ kept = tuples \/ kept \in Purged(tuples, Sizes, used, MemoryLimit)
                      /\ tuples' = Inserted(kept, metric[thread[c].o].addr, v, thread[c].t)
      BY <2>1 DEF InsertTuples
    <2>3. Entries(kept) /\ Less(kept, tuples)
      BY <1>0, <2>2, PurgedFacts DEF Less
    <2>4. Entries(tuples') /\ OneMore(tuples', tuples, metric[thread[c].o].addr, v)
      BY <2>2, <2>3, InsertedFacts
    <2> QED
      BY <2>4 DEF v
  <1> QED
    BY <1>1, <1>2, <1>3, <1>4, ZenonT(30)
       DEF Next, Tick, Find, Drop, Create, MissTuples, FindStream, OpenStream, OpenFails, InsertStream,
           IoFails, Erase, Remove, Replace, Rename, FlushBlock, FlushWrite, Finished, vars

-----------------------------------------------------------------------------
(* The type of every variable, action by action.                             *)
Scalars ==
  /\ now \in Nat /\ map \in [Names -> Metrics \cup {None}]
  /\ metric \in [Metrics -> MetricType] /\ lock \in [Metrics -> Threads \cup {None}]
  /\ dir \in [Names -> Metrics \cup {None}] /\ stream \in [Streams -> StreamType]
  /\ thread \in [Threads -> ThreadType]
  /\ overtaken \in SUBSET Names /\ ghosts \in SUBSET Metrics

LEMMA TypesParts ==
  Types <=>
    /\ Scalars
    /\ Entries(files) /\ DOMAIN files \subseteq Names
    /\ \A n \in DOMAIN files : files[n].v \in Streams
    /\ Entries(tuples)
    /\ \A a \in DOMAIN tuples : tuples[a].v.owner \in Metrics /\ tuples[a].v.file \in Metrics
  BY DEF Types, Scalars

(* Who is at work has a metric with a name.                                  *)
LEMMA AtWork ==
  ASSUME Types, Known, NEW c \in Threads, ~At(c, "idle")
  PROVE  /\ thread[c].o \in Metrics /\ metric[thread[c].o] \in MetricType /\ NameOf(c) \in Names
         /\ thread[c] \in ThreadType
         /\ AtOneOf(c, {"insert", "io"}) => thread[c].s \in Streams
  BY DEF Types, Known, Working, MetricType

LEMMA ThreadTypes ==
  ASSUME Scalars, NEW c \in Threads
  PROVE  /\ Return(c) => thread' \in [Threads -> ThreadType]
         /\ \A pc \in Places :
              /\ Goto(c, pc) => thread' \in [Threads -> ThreadType]
              /\ \A o \in Metrics :
                   thread' = [thread EXCEPT ![c].pc = pc, ![c].o = o] => thread' \in [Threads -> ThreadType]
              /\ \A s \in Streams \cup {None} :
                   thread' = [thread EXCEPT ![c].pc = pc, ![c].s = s] => thread' \in [Threads -> ThreadType]
              /\ thread' = [thread EXCEPT ![c].pc = pc, ![c].t = now] => thread' \in [Threads -> ThreadType]
  <1>1. thread[c] \in ThreadType /\ now \in Nat /\ thread \in [Threads -> ThreadType]
    BY DEF Scalars
  <1>2. IdleThread \in ThreadType
    BY DEF ThreadType, Places, None
  <1>3. \A pc \in Places :
          /\ [thread[c] EXCEPT !.pc = pc] \in ThreadType
          /\ \A o \in Metrics : [thread[c] EXCEPT !.pc = pc, !.o = o] \in ThreadType
          /\ \A s \in Streams \cup {None} : [thread[c] EXCEPT !.pc = pc, !.s = s] \in ThreadType
          /\ [thread[c] EXCEPT !.pc = pc, !.t = now] \in ThreadType
    BY <1>1 DEF ThreadType
  <1> QED
    BY <1>1, <1>2, <1>3, ZenonT(30)

LEMMA MetricTypes ==
  ASSUME Scalars, NEW o \in Metrics, NEW b \in BOOLEAN
  PROVE  /\ [metric EXCEPT ![o].modified = b] \in [Metrics -> MetricType]
         /\ [metric EXCEPT ![o].deleted = b] \in [Metrics -> MetricType]
  <1>1. metric[o] \in MetricType /\ metric \in [Metrics -> MetricType]
    BY DEF Scalars
  <1>2. [metric[o] EXCEPT !.modified = b] \in MetricType /\ [metric[o] EXCEPT !.deleted = b] \in MetricType
    BY <1>1 DEF MetricType
  <1> QED
    BY <1>1, <1>2

LEMMA ClosedTypes ==
  ASSUME Scalars, NEW n, EraseStream(n)
  PROVE  stream' \in [Streams -> StreamType]
  <1>1. \A s \in Streams : stream[s] \in StreamType /\ [stream[s] EXCEPT !.open = FALSE] \in StreamType
    BY DEF Scalars, StreamType
  <1> QED
    BY <1>1 DEF EraseStream

LEMMA ScalarsStep ==
  ASSUME Types, Known, Next
  PROVE  Scalars'
  <1>0. Scalars
    BY TypesParts
  <1> USE <1>0, ThreadTypes, MetricTypes, AtWork, NumberFacts DEF Scalars
  <1>1. CASE Tick \/ Finished
    BY <1>1 DEF Tick, Finished, vars
  <1>2. ASSUME NEW c \in Threads, NEW n \in Names, Find(c, n) \/ Drop(c, n) \/ Create(c, n)
        PROVE  Scalars'
    <2>1. CASE Find(c, n)
      BY <2>1 DEF Find, Places
    <2>2. CASE Drop(c, n)
      BY <2>2 DEF Drop, Places
    <2>3. CASE Create(c, n)
      <3>1. PICK o \in Metrics, a \in Addresses :
              /\ metric' = [metric EXCEPT ![o] = [name |-> n, addr |-> a,
                                                  modified |-> FALSE, deleted |-> FALSE]]
              /\ map' = [map EXCEPT ![n] = o] /\ lock' = [lock EXCEPT ![o] = c]
              /\ thread' = [thread EXCEPT ![c].pc = "save", ![c].o = o]
        BY <2>3 DEF Create
      <3>2. [name |-> n, addr |-> a, modified |-> FALSE, deleted |-> FALSE] \in MetricType
        BY DEF MetricType
      <3> QED
        BY <2>3, <3>1, <3>2 DEF Create, Places
    <2> QED
      BY <1>2, <2>1, <2>2, <2>3
  <1>3. ASSUME NEW c \in Threads, UseModified(c) \/ HitTuples(c) \/ MissTuples(c)
        PROVE  Scalars'
    <2>1. CASE UseModified(c)
      BY <2>1 DEF UseModified
    <2>2. CASE HitTuples(c)
      <3>1. PICK b \in BOOLEAN : metric' = [metric EXCEPT ![thread[c].o].modified = b]
        BY <2>2 DEF HitTuples
      <3>2. metric' \in [Metrics -> MetricType]
        BY <2>2, <3>1 DEF HitTuples
      <3> QED
        BY <2>2, <3>2 DEF HitTuples
    <2>3. CASE MissTuples(c)
      <3>1. thread' \in [Threads -> ThreadType]
        BY <2>3 DEF MissTuples, Places
      <3> QED
        BY <2>3, <3>1 DEF MissTuples
    <2> QED
      BY <1>3, <2>1, <2>2, <2>3
  <1>4. ASSUME NEW c \in Threads, FindStream(c) \/ OpenStream(c) \/ OpenFails(c) \/ InsertStream(c)
        PROVE  Scalars'
    <2>1. CASE FindStream(c)
      <3>1. NameOf(c) \in DOMAIN files => files[NameOf(c)].v \in Streams
        BY TypesParts
      <3>2. PICK pc \in Places, s \in Streams \cup {None} :
              thread' = [thread EXCEPT ![c].pc = pc, ![c].s = s]
        BY <2>1, <3>1 DEF FindStream, Places
      <3>3. thread' \in [Threads -> ThreadType]
        BY <3>2
      <3> QED
        BY <2>1, <3>3 DEF FindStream
    <2>2. CASE OpenStream(c)
      <3>1. PICK s \in Streams :
              /\ stream' = [stream EXCEPT ![s] = [file |-> dir[NameOf(c)], open |-> TRUE]]
              /\ thread' = [thread EXCEPT ![c].pc = "insert", ![c].s = s]
        BY <2>2 DEF OpenStream
      <3>2. [file |-> dir[NameOf(c)], open |-> TRUE] \in StreamType
        BY <2>2 DEF OpenStream, StreamType
      <3> QED
        BY <2>2, <3>1, <3>2 DEF OpenStream, Places
    <2>3. CASE OpenFails(c)
      BY <2>3 DEF OpenFails
    <2>4. CASE InsertStream(c)
      BY <2>4 DEF InsertStream, Places
    <2> QED
      BY <1>4, <2>1, <2>2, <2>3, <2>4
  <1>5. ASSUME NEW c \in Threads, Load(c) \/ IoFails(c)
        PROVE  Scalars'
    <2>1. CASE Load(c)
      <3>1. PICK b \in BOOLEAN : metric' = [metric EXCEPT ![thread[c].o].modified = b]
        BY <2>1 DEF Load
      <3>2. thread[c].o \in Metrics
        BY <2>1 DEF Load
      <3>3. metric' \in [Metrics -> MetricType] /\ ghosts' \in SUBSET Metrics
        BY <2>1, <3>1, <3>2 DEF Load
      <3> QED
        BY <2>1, <3>3 DEF Load
    <2>2. CASE IoFails(c)
      BY <2>2 DEF IoFails
    <2> QED
      BY <1>5, <2>1, <2>2
  <1>6. ASSUME NEW c \in Threads, Delete(c) \/ Erase(c) \/ Remove(c) \/ Replace(c) \/ Rename(c)
        PROVE  Scalars'
    <2>1. CASE Delete(c)
      BY <2>1 DEF Delete, Places
    <2>2. CASE Erase(c)
      BY <2>2, ClosedTypes DEF Erase, Places
    <2>3. CASE Remove(c)
      <3>1. /\ thread' \in [Threads -> ThreadType] /\ NameOf(c) \in Names
            /\ lock' \in [Metrics -> Threads \cup {None}]
        BY <2>3 DEF Remove
      <3>2. dir' \in [Names -> Metrics \cup {None}] /\ overtaken' \in SUBSET Names
        BY <2>3, <3>1 DEF Remove, RemoveFile
      <3> QED
        BY <2>3, <3>1, <3>2 DEF Remove
    <2>4. CASE Replace(c)
      <3>1. thread' \in [Threads -> ThreadType] /\ NameOf(c) \in Names
        BY <2>4 DEF Replace, Places
      <3>2. dir' \in [Names -> Metrics \cup {None}] /\ overtaken' \in SUBSET Names
        BY <2>4, <3>1 DEF Replace, RemoveFile
      <3> QED
        BY <2>4, <3>1, <3>2 DEF Replace
    <2>5. CASE Rename(c)
      <3>1. /\ thread' \in [Threads -> ThreadType] /\ NameOf(c) \in Names
            /\ lock' \in [Metrics -> Threads \cup {None}] /\ thread[c].o \in Metrics
        BY <2>5 DEF Rename
      <3>2. dir' \in [Names -> Metrics \cup {None}] /\ overtaken' \in SUBSET Names
        BY <2>5, <3>1 DEF Rename
      <3> QED
        BY <2>5, <3>1, <3>2 DEF Rename
    <2> QED
      BY <1>6, <2>1, <2>2, <2>3, <2>4, <2>5
  <1>7. ASSUME NEW o \in Metrics, FlushBlock(o) PROVE Scalars'
    <2>1. [pc |-> "find", o |-> o, s |-> None, t |-> now] \in ThreadType
      BY DEF ThreadType, Places
    <2> QED
      BY <1>7, <2>1 DEF FlushBlock
  <1>8. CASE FlushWrite
    BY <1>8 DEF FlushWrite, Places
  <1> QED
    BY <1>1, <1>2, <1>3, <1>4, <1>5, <1>6, <1>7, <1>8 DEF Next

LEMMA TypesStep ==
  ASSUME Types, Known, StreamsKnown, Next
  PROVE  Types'
  <1>1. Scalars'
    BY ScalarsStep
  <1>2. DOMAIN files' \subseteq Names /\ \A n \in DOMAIN files' : files'[n].v \in Streams
    <2>1. CASE Less(files', files)
      BY <2>1 DEF Less, Types
    <2>2. ASSUME NEW c \in Threads, InsertStream(c), OneMore(files', files, NameOf(c), thread[c].s)
          PROVE  DOMAIN files' \subseteq Names /\ \A n \in DOMAIN files' : files'[n].v \in Streams
      <3>1. NameOf(c) \in Names /\ thread[c].s \in Streams
        BY <2>2, AtWork DEF InsertStream
      <3> QED
        BY <2>2, <3>1 DEF OneMore, Types
    <2> QED
      BY <2>1, <2>2, FilesStep
  <1>3. \A a \in DOMAIN tuples' : tuples'[a].v.owner \in Metrics /\ tuples'[a].v.file \in Metrics
    <2>1. CASE Less(tuples', tuples)
      BY <2>1 DEF Less, Types
    <2>2. ASSUME NEW c \in Threads, Load(c),
                 OneMore(tuples', tuples, metric[thread[c].o].addr,
                         [owner |-> thread[c].o, file |-> stream[thread[c].s].file,
                          size |-> Size[NameOf(c)]])
          PROVE  \A a \in DOMAIN tuples' : tuples'[a].v.owner \in Metrics /\ tuples'[a].v.file \in Metrics
      <3>1. thread[c].o \in Metrics /\ stream[thread[c].s].file \in Metrics
        BY <2>2, AtWork DEF Load, StreamsKnown, Streamed, StreamOf, Types, StreamType
      <3> QED
        BY <2>2, <3>1 DEF OneMore, Types
    <2> QED
      BY <2>1, <2>2, TuplesStep
  <1>4. Entries(files') /\ Entries(tuples')
    BY FilesStep, TuplesStep
  <1> QED
    BY <1>1, <1>2, <1>3, <1>4 DEF Types, Scalars

-----------------------------------------------------------------------------
(* What no step changes: names, addresses and files stay what they are, and  *)
(* the histories only grow.                                                  *)
Stays ==
  /\ \A o \in Metrics : Born(o) => Born(o)' /\ metric'[o].name = metric[o].name /\ metric'[o].addr = metric[o].addr
  /\ \A o \in Metrics : metric[o].deleted => metric'[o].deleted
  /\ \A s \in Streams : stream[s].file # None => stream'[s].file = stream[s].file
  /\ overtaken \subseteq overtaken' /\ ghosts \subseteq ghosts'

LEMMA StaysStep ==
  ASSUME Types, Known, Next
  PROVE  Stays
  <1>0. Scalars
    BY TypesParts
  <1>1. /\ \A o \in Metrics : Born(o) => Born(o)' /\ metric'[o].name = metric[o].name
                                           /\ metric'[o].addr = metric[o].addr
        /\ \A o \in Metrics : metric[o].deleted => metric'[o].deleted
    <2>1. CASE UNCHANGED metric
      BY <2>1
    <2>2. CASE \E o \in Metrics, b \in BOOLEAN : metric' = [metric EXCEPT ![o].modified = b]
      BY <1>0, <2>2 DEF Scalars, MetricType
    <2>3. CASE \E o \in Metrics : metric' = [metric EXCEPT ![o].deleted = TRUE]
      BY <1>0, <2>3 DEF Scalars, MetricType
    <2>4. CASE \E o \in Metrics : \E r : metric[o] = Nobody /\ metric' = [metric EXCEPT ![o] = r]
      BY <1>0, <2>4 DEF Scalars, MetricType
    <2>5. ASSUME NEW c \in Threads, NEW n \in Names, Create(c, n)
          PROVE  \E o \in Metrics : \E r : metric[o] = Nobody /\ metric' = [metric EXCEPT ![o] = r]
      BY <2>5 DEF Create
    <2>6. ASSUME NEW c \in Threads, HitTuples(c) \/ Load(c)
          PROVE  \E o \in Metrics, b \in BOOLEAN : metric' = [metric EXCEPT ![o].modified = b]
      BY <2>6, AtWork DEF HitTuples, Load
    <2>7. ASSUME NEW c \in Threads, Delete(c)
          PROVE  \E o \in Metrics : metric' = [metric EXCEPT ![o].deleted = TRUE]
      BY <2>7, AtWork DEF Delete
    <2> QED
      BY <2>1, <2>2, <2>3, <2>4, <2>5, <2>6, <2>7, ZenonT(30)
         DEF Next, Tick, Find, Drop, UseModified, MissTuples, FindStream, OpenStream, OpenFails,
             InsertStream, IoFails, Erase, Remove, Replace, Rename, FlushBlock, FlushWrite, Finished, vars
  <1>2. \A s \in Streams : stream[s].file # None => stream'[s].file = stream[s].file
    <2>1. CASE UNCHANGED stream
      BY <2>1
    <2>2. CASE \E s \in Streams : \E r : stream[s].file = None /\ stream' = [stream EXCEPT ![s] = r]
      BY <1>0, <2>2 DEF Scalars, StreamType
    <2>3. CASE \E n : EraseStream(n)
      BY <1>0, <2>3 DEF Scalars, StreamType, EraseStream
    <2>4. ASSUME NEW c \in Threads, OpenStream(c)
          PROVE  \E s \in Streams : \E r : stream[s].file = None /\ stream' = [stream EXCEPT ![s] = r]
      BY <2>4 DEF OpenStream
    <2>5. ASSUME NEW c \in Threads, Erase(c) PROVE \E n : EraseStream(n)
      BY <2>5 DEF Erase
    <2> QED
      BY <2>1, <2>2, <2>3, <2>4, <2>5, ZenonT(30)
         DEF Next, Tick, Find, Drop, Create, UseModified, HitTuples, MissTuples, FindStream, OpenFails,
             InsertStream, Load, IoFails, Delete, Remove, Replace, Rename, FlushBlock, FlushWrite, Finished, vars
  <1>3. overtaken \subseteq overtaken'
    <2>1. CASE \E c \in Threads : Remove(c) \/ Replace(c) \/ Rename(c)
      BY <2>1 DEF Remove, Replace, Rename, RemoveFile
    <2> QED
      BY <2>1, ZenonT(30)
         DEF Next, Tick, Find, Drop, Create, UseModified, HitTuples, MissTuples, FindStream, OpenStream, OpenFails,
             InsertStream, Load, IoFails, Delete, Erase, FlushBlock, FlushWrite, Finished, vars
  <1>4. ghosts \subseteq ghosts'
    BY ZenonT(30) DEF Next, Tick, Find, Drop, Create, UseModified, HitTuples, MissTuples, FindStream, OpenStream, OpenFails,
           InsertStream, Load, IoFails, Delete, Erase, Remove, Replace, Rename, FlushBlock, FlushWrite, Finished, vars
  <1> QED
    BY <1>1, <1>2, <1>3, <1>4 DEF Stays

-----------------------------------------------------------------------------
(* What each action does to the thread that takes it, its metric and files.  *)
Turns(c, pc, o, s) ==
  /\ \A d \in Threads \ {c} : thread'[d] = thread[d]
  /\ thread'[c].pc = pc /\ thread'[c].o = o /\ thread'[c].s = s
LockOf(o, c) == lock'[o] = c /\ \A p \in Metrics \ {o} : lock'[p] = lock[p]
Released(c) ==
  /\ lock'[thread[c].o] = (IF lock[thread[c].o] = c THEN None ELSE lock[thread[c].o])
  /\ \A p \in Metrics \ {thread[c].o} : lock'[p] = lock[p]
MetricsSame ==
  \A o \in Metrics : /\ metric'[o].name = metric[o].name /\ metric'[o].addr = metric[o].addr
                     /\ metric'[o].deleted = metric[o].deleted
                     /\ metric[o] = Nobody => metric'[o] = Nobody
DirOf(n, o) == dir'[n] = o /\ \A m \in Names \ {n} : dir'[m] = dir[m]
MapOf(n, o) == map'[n] = o /\ \A m \in Names \ {n} : map'[m] = map[m]

USE DEF Turns

Leaves(c) ==
  /\ AtOneOf(c, {"tuples", "open", "io"}) /\ Turns(c, "idle", None, None)
  /\ UNCHANGED lock \/ Released(c)
  /\ MetricsSame /\ UNCHANGED <<map, dir, stream, files, overtaken>>
LEMMA LeaveEffect ==
  ASSUME Types, Known, NEW c \in Threads,
         UseModified(c) \/ HitTuples(c) \/ OpenFails(c) \/ IoFails(c) \/ Load(c)
  PROVE  Leaves(c)
  <1>1. AtOneOf(c, {"tuples", "open", "io"}) /\ Return(c)
    BY DEF UseModified, HitTuples, OpenFails, IoFails, Load
  <1>0. Scalars /\ thread[c].o \in Metrics /\ NameOf(c) \in Names /\ metric[thread[c].o] # Nobody
    BY <1>1, TypesParts, AtWork, NumberFacts
  <1>2. Turns(c, "idle", None, None)
    BY <1>0, <1>1 DEF Scalars
  <1>3. UNCHANGED lock \/ Released(c)
    <2>1. UNCHANGED lock \/ Release(c)
      BY DEF UseModified, HitTuples, OpenFails, IoFails, Load
    <2> QED
      BY <1>0, <2>1 DEF Scalars, Released
  <1>4. UNCHANGED metric \/ \E b \in BOOLEAN : metric' = [metric EXCEPT ![thread[c].o].modified = b]
    <2>1. CASE HitTuples(c)
      BY <2>1, Zenon DEF HitTuples
    <2>2. CASE Load(c)
      BY <2>2, Zenon DEF Load
    <2>3. CASE UseModified(c) \/ OpenFails(c) \/ IoFails(c)
      BY <2>3, Zenon DEF UseModified, OpenFails, IoFails
    <2> QED
      BY <2>1, <2>2, <2>3, Zenon
  <1>5. MetricsSame
    <2>1. CASE UNCHANGED metric
      BY <2>1 DEF MetricsSame
    <2>2. ASSUME NEW b \in BOOLEAN, metric' = [metric EXCEPT ![thread[c].o].modified = b] PROVE MetricsSame
      BY <1>0, <2>2 DEF Scalars, MetricType, MetricsSame
    <2> QED
      BY <1>4, <2>1, <2>2
  <1> QED
    BY <1>1, <1>2, <1>3, <1>5 DEF UseModified, HitTuples, OpenFails, IoFails, Load, Leaves

Finds(c, n) ==
  /\ At(c, "idle") /\ c \in Clients /\ map[n] \in Metrics /\ Turns(c, "tuples", map[n], thread[c].s)
  /\ UNCHANGED <<map, metric, lock, dir, stream, files, tuples, overtaken, ghosts>>
LEMMA FindEffect ==
  ASSUME Types, Known, NEW c \in Threads, NEW n \in Names, Find(c, n)
  PROVE  Finds(c, n)
  BY TypesParts DEF Find, Scalars, ThreadType, Finds

Misses(c) ==
  /\ At(c, "tuples") /\ thread[c].o \in Metrics /\ Turns(c, "find", thread[c].o, thread[c].s)
  /\ lock[thread[c].o] = None /\ LockOf(thread[c].o, c)
  /\ UNCHANGED <<map, metric, dir, stream, files, tuples, overtaken, ghosts>>
LEMMA MissEffect ==
  ASSUME Types, Known, NEW c \in Threads, MissTuples(c)
  PROVE  Misses(c)
  BY TypesParts, AtWork DEF MissTuples, Scalars, ThreadType, LockOf, Misses

Looks(c) ==
  /\ At(c, "find")
  /\ \/ NameOf(c) \in DOMAIN files /\ Turns(c, "io", thread[c].o, files[NameOf(c)].v)
     \/ NameOf(c) \notin DOMAIN files /\ Turns(c, "open", thread[c].o, None)
  /\ UNCHANGED <<map, metric, lock, dir, stream, tuples, overtaken, ghosts>>
LEMMA FindStreamEffect ==
  ASSUME Types, Known, NEW c \in Threads, FindStream(c)
  PROVE  Looks(c)
  BY TypesParts DEF FindStream, Scalars, ThreadType, Looks

Opens(c) ==
  /\ At(c, "open") /\ dir[NameOf(c)] # None
  /\ \E s \in Streams :
       /\ stream[s].file = None /\ Turns(c, "insert", thread[c].o, s)
       /\ stream'[s].open /\ stream'[s].file = dir[NameOf(c)]
       /\ \A r \in Streams \ {s} : stream'[r] = stream[r]
  /\ UNCHANGED <<map, metric, lock, dir, files, tuples, overtaken, ghosts>>
LEMMA OpenEffect ==
  ASSUME Types, Known, NEW c \in Threads, OpenStream(c)
  PROVE  Opens(c)
  <1>1. PICK s \in Streams :
          /\ stream[s].file = None
          /\ stream' = [stream EXCEPT ![s] = [file |-> dir[NameOf(c)], open |-> TRUE]]
          /\ thread' = [thread EXCEPT ![c].pc = "insert", ![c].s = s]
    BY DEF OpenStream
  <1>2. /\ Turns(c, "insert", thread[c].o, s) /\ stream'[s].open /\ stream'[s].file = dir[NameOf(c)]
        /\ \A r \in Streams \ {s} : stream'[r] = stream[r]
    BY <1>1, TypesParts DEF Scalars, ThreadType
  <1> QED
    BY <1>1, <1>2 DEF OpenStream, Opens

Inserts(c) ==
  /\ At(c, "insert") /\ Turns(c, "io", thread[c].o, thread[c].s)
  /\ UNCHANGED <<map, metric, lock, dir, stream, tuples, overtaken, ghosts>>
LEMMA InsertEffect ==
  ASSUME Types, Known, NEW c \in Threads, InsertStream(c)
  PROVE  Inserts(c)
  BY TypesParts DEF InsertStream, Scalars, ThreadType, Inserts

Flushes(o) ==
  /\ At(Flush, "idle") /\ Born(o) /\ map[metric[o].name] = o /\ Turns(Flush, "find", o, None)
  /\ MetricsSame /\ UNCHANGED <<map, lock, dir, stream, files, tuples, overtaken, ghosts>>
LEMMA FlushEffect ==
  ASSUME Types, Known, NEW o \in Metrics, FlushBlock(o)
  PROVE  Flushes(o)
  <1>1. metric[o].modified /\ Scalars
    BY TypesParts DEF FlushBlock
  <1>2. metric[o] # Nobody /\ Born(o) /\ map[metric[o].name] = o
    BY <1>1, NumberFacts DEF Known, Named, Numbered, FlushBlock
  <1>3. MetricsSame
    BY <1>1, <1>2 DEF FlushBlock, MetricsSame, Scalars, MetricType
  <1> QED
    BY <1>1, <1>2, <1>3, NumberFacts DEF FlushBlock, Scalars, ThreadType, Flushes

Writes ==
  /\ At(Flush, "io") /\ thread[Flush].o \in Metrics
  /\ \/ metric[thread[Flush].o].deleted /\ Turns(Flush, "delete", thread[Flush].o, thread[Flush].s)
     \/ Turns(Flush, "idle", None, None)
  /\ UNCHANGED <<map, metric, lock, dir, stream, files, tuples, overtaken, ghosts>>
LEMMA FlushWriteEffect ==
  ASSUME Types, Known, FlushWrite
  PROVE  Writes
  BY TypesParts, AtWork, NumberFacts DEF FlushWrite, Scalars, ThreadType, Writes

Drops(c, n) ==
  /\ At(c, "idle") /\ c \in Clients /\ map[n] \in Metrics /\ Turns(c, "delete", map[n], thread[c].s)
  /\ MapOf(n, None)
  /\ UNCHANGED <<metric, lock, dir, stream, files, tuples, overtaken, ghosts>>
LEMMA DropEffect ==
  ASSUME Types, Known, NEW c \in Threads, NEW n \in Names, Drop(c, n)
  PROVE  Drops(c, n)
  BY TypesParts DEF Drop, Scalars, ThreadType, MapOf, Drops

Deletes(c) ==
  /\ At(c, "delete") /\ thread[c].o \in Metrics /\ Turns(c, "erase", thread[c].o, thread[c].s)
  /\ lock[thread[c].o] = None /\ LockOf(thread[c].o, c)
  /\ \A o \in Metrics : /\ metric'[o].name = metric[o].name /\ metric'[o].addr = metric[o].addr
                        /\ metric'[o].deleted = (metric[o].deleted \/ o = thread[c].o)
                        /\ metric[o] = Nobody => metric'[o] = Nobody
  /\ metric[thread[c].o].addr \notin DOMAIN tuples'
  /\ UNCHANGED <<map, dir, stream, files, overtaken, ghosts>>
LEMMA DeleteEffect ==
  ASSUME Types, Known, NEW c \in Threads, Delete(c)
  PROVE  Deletes(c)
  <1>0. Scalars /\ thread[c].o \in Metrics /\ metric[thread[c].o] # Nobody
    BY TypesParts, AtWork, NumberFacts DEF Delete
  <1>1. metric[thread[c].o].addr \notin DOMAIN tuples'
    BY ErasedFacts, TypesParts DEF Delete, EraseTuples
  <1>2. \A o \in Metrics : /\ metric'[o].name = metric[o].name /\ metric'[o].addr = metric[o].addr
                           /\ metric'[o].deleted = (metric[o].deleted \/ o = thread[c].o)
                           /\ metric[o] = Nobody => metric'[o] = Nobody
    BY <1>0 DEF Delete, Scalars, MetricType
  <1>3. At(c, "delete") /\ Turns(c, "erase", thread[c].o, thread[c].s)
    BY <1>0 DEF Delete, Scalars, ThreadType
  <1> QED
    BY <1>0, <1>1, <1>2, <1>3 DEF Delete, Scalars, LockOf, Deletes

Erases(c) ==
  /\ \/ At(c, "erase") /\ Turns(c, "remove", thread[c].o, thread[c].s)
     \/ At(c, "save") /\ Turns(c, "replace", thread[c].o, thread[c].s)
  /\ NameOf(c) \notin DOMAIN files'
  /\ \A s \in Streams : stream'[s] = stream[s]
                        \/ (NameOf(c) \in DOMAIN files /\ files[NameOf(c)].v = s)
  /\ UNCHANGED <<map, metric, lock, dir, tuples, overtaken, ghosts>>
LEMMA EraseEffect ==
  ASSUME Types, Known, NEW c \in Threads, Erase(c)
  PROVE  Erases(c)
  <1>1. NameOf(c) \notin DOMAIN files'
    BY ErasedFacts, TypesParts DEF Erase, EraseStream
  <1>2. \A s \in Streams : stream'[s] = stream[s]
                           \/ (NameOf(c) \in DOMAIN files /\ files[NameOf(c)].v = s)
    BY DEF Erase, EraseStream
  <1>3. \/ At(c, "erase") /\ Turns(c, "remove", thread[c].o, thread[c].s)
        \/ At(c, "save") /\ Turns(c, "replace", thread[c].o, thread[c].s)
    BY TypesParts DEF Erase, Scalars, ThreadType
  <1> QED
    BY <1>1, <1>2, <1>3 DEF Erase, Erases

Overtakes(n) == \E d \in Threads : Opening(d, n)
Removes(c) ==
  /\ \/ At(c, "remove") /\ Turns(c, "idle", None, None) /\ Released(c)
     \/ At(c, "replace") /\ Turns(c, "rename", thread[c].o, thread[c].s) /\ UNCHANGED lock
  /\ DirOf(NameOf(c), None) /\ NameOf(c) \in Names /\ thread[c].o \in Metrics
  /\ NameOf(c) \in DOMAIN files \/ Overtakes(NameOf(c)) => NameOf(c) \in overtaken'
  /\ UNCHANGED <<map, metric, stream, files, tuples, ghosts>>
LEMMA RemoveEffect ==
  ASSUME Types, Known, NEW c \in Threads, Remove(c) \/ Replace(c)
  PROVE  Removes(c)
  <1>0. Scalars /\ NameOf(c) \in Names /\ thread[c].o \in Metrics
    BY TypesParts, AtWork DEF Remove, Replace
  <1>1. DirOf(NameOf(c), None)
    BY <1>0 DEF Remove, Replace, RemoveFile, DirOf, Scalars
  <1>2. NameOf(c) \in DOMAIN files \/ Overtakes(NameOf(c)) => NameOf(c) \in overtaken'
    BY DEF Remove, Replace, RemoveFile, Overtakes
  <1>3. CASE Remove(c)
    <2>1. At(c, "remove") /\ Turns(c, "idle", None, None) /\ Released(c)
      BY <1>0, <1>3 DEF Remove, Scalars, Released
    <2> QED
      BY <1>0, <1>1, <1>2, <1>3, <2>1 DEF Remove, Removes
  <1>4. CASE Replace(c)
    <2>1. At(c, "replace") /\ Turns(c, "rename", thread[c].o, thread[c].s) /\ UNCHANGED lock
      BY <1>0, <1>4 DEF Replace, Scalars, ThreadType
    <2> QED
      BY <1>0, <1>1, <1>2, <1>4, <2>1 DEF Replace, Removes
  <1> QED
    BY <1>3, <1>4

Renames(c) ==
  /\ At(c, "rename") /\ Turns(c, "idle", None, None) /\ Released(c)
  /\ DirOf(NameOf(c), thread[c].o) /\ NameOf(c) \in Names /\ thread[c].o \in Metrics
  /\ Succeeded(thread[c].o) => NameOf(c) \in overtaken'
  /\ UNCHANGED <<map, metric, stream, files, tuples, ghosts>>
LEMMA RenameEffect ==
  ASSUME Types, Known, NEW c \in Threads, Rename(c)
  PROVE  Renames(c)
  <1>0. Scalars /\ NameOf(c) \in Names /\ thread[c].o \in Metrics
    BY TypesParts, AtWork DEF Rename
  <1>1. At(c, "rename") /\ Turns(c, "idle", None, None)
    BY <1>0 DEF Rename, Scalars
  <1>2. Released(c) /\ DirOf(NameOf(c), thread[c].o)
    BY <1>0 DEF Rename, Scalars, Released, DirOf
  <1> QED
    BY <1>0, <1>1, <1>2 DEF Rename, Renames

Creates(c, n, o) ==
  /\ At(c, "idle") /\ c \in Clients /\ map[n] = None /\ MapOf(n, o)
  /\ metric[o] = Nobody /\ \A p \in Metrics : p < o => metric[p] # Nobody
  /\ metric'[o].name = n /\ ~metric'[o].deleted
  /\ \A p \in Metrics \ {o} : metric'[p] = metric[p]
  /\ LockOf(o, c) /\ Turns(c, "save", o, thread[c].s)
  /\ UNCHANGED <<dir, stream, files, tuples, overtaken, ghosts>>
LEMMA CreateEffect ==
  ASSUME Types, Known, NEW c \in Threads, NEW n \in Names, Create(c, n)
  PROVE  \E o \in Metrics : Creates(c, n, o)
  <1>1. PICK o \in Metrics, a \in Addresses :
          /\ metric[o] = Nobody /\ \A p \in Metrics : p < o => metric[p] # Nobody
          /\ metric' = [metric EXCEPT ![o] = [name |-> n, addr |-> a,
                                              modified |-> FALSE, deleted |-> FALSE]]
          /\ map' = [map EXCEPT ![n] = o] /\ lock' = [lock EXCEPT ![o] = c]
          /\ thread' = [thread EXCEPT ![c].pc = "save", ![c].o = o]
    BY DEF Create
  <1>2. Turns(c, "save", o, thread[c].s)
    BY <1>1, TypesParts DEF Scalars, ThreadType
  <1>3. /\ MapOf(n, o) /\ LockOf(o, c) /\ metric'[o].name = n /\ ~metric'[o].deleted
        /\ \A p \in Metrics \ {o} : metric'[p] = metric[p]
    BY <1>1, TypesParts DEF Scalars, MapOf, LockOf
  <1> QED
    BY <1>1, <1>2, <1>3 DEF Create, Creates

Unseen == UNCHANGED <<map, metric, lock, dir, stream, files, tuples, thread, overtaken, ghosts>>

LEMMA Steps ==
  ASSUME Types, Known, Next
  PROVE  \/ Unseen \/ Writes
         \/ \E c \in Threads :
              \/ Leaves(c) \/ Misses(c) \/ Looks(c) \/ Opens(c) \/ Inserts(c)
              \/ Deletes(c) \/ Erases(c) \/ Removes(c) \/ Renames(c)
              \/ \E n \in Names : Finds(c, n) \/ Drops(c, n) \/ \E o \in Metrics : Creates(c, n, o)
         \/ \E o \in Metrics : Flushes(o)
  BY LeaveEffect, FindEffect, MissEffect, FindStreamEffect, OpenEffect, InsertEffect, FlushEffect,
     FlushWriteEffect, DropEffect, DeleteEffect, EraseEffect, RemoveEffect, RenameEffect, CreateEffect
     DEF Next, Unseen, Tick, Finished, vars

-----------------------------------------------------------------------------
(* Each part of the invariant, action by action.                             *)
LEMMA Ranges ==
  ASSUME Types
  PROVE  /\ \A c \in Threads : thread[c].o \in Metrics \cup {None} /\ thread[c].s \in Streams \cup {None}
         /\ \A n \in Names : map[n] \in Metrics \cup {None} /\ dir[n] \in Metrics \cup {None}
         /\ \A o \in Metrics : metric[o].name \in Names \cup {None} /\ metric[o].deleted \in BOOLEAN
         /\ \A s \in Streams : stream[s].file \in Metrics \cup {None} /\ stream[s].open \in BOOLEAN
  BY DEF Types, MetricType, StreamType, ThreadType

(* Who goes on with a metric as before, while map is not given that metric.   *)
LEMMA WorkingKept ==
  ASSUME Types, Known, Next, NEW d \in Threads, thread'[d] = thread[d],
         At(d, "delete") => map'[NameOf(d)] \in {map[NameOf(d)], None} \/ map'[NameOf(d)] # thread[d].o
  PROVE  Working(d)'
  <1>1. CASE At(d, "idle")
    BY <1>1 DEF Working
  <1>2. CASE ~At(d, "idle")
    <2>1. Born(thread[d].o) /\ Born(thread[d].o)' /\ NameOf(d)' = NameOf(d)
      BY <1>2, StaysStep DEF Stays, Known, Working
    <2> QED
      BY <1>2, <2>1, NumberFacts DEF Known, Working
  <1> QED
    BY <1>1, <1>2

LEMMA WorkingStep ==
  ASSUME Types, Known, NEW d \in Threads, Next
  PROVE  Working(d)'
  <1>1. CASE Unseen
    BY <1>1, NumberFacts, Ranges DEF Unseen, Known, Working, Named
  <1>2. ASSUME NEW c \in Threads, Leaves(c) PROVE Working(d)'
    <2>1. CASE d = c
      BY <1>2, <2>1, NumberFacts DEF Leaves, Working, Released, MetricsSame
    <2>2. CASE d # c
      BY <1>2, <2>2, WorkingKept DEF Leaves, Released, MetricsSame
    <2> QED
      BY <2>1, <2>2
  <1>3. ASSUME NEW c \in Threads, Misses(c) PROVE Working(d)'
    BY <1>3, NumberFacts, Ranges DEF Misses, Known, Working, Named, LockOf
  <1>4. ASSUME NEW c \in Threads, Looks(c) PROVE Working(d)'
    <2>1. CASE d = c
      <3>1. Born(thread[d].o) /\ (NameOf(d) \in DOMAIN files => files[NameOf(d)].v \in Streams)
        BY <1>4, <2>1 DEF Looks, Known, Working, Types
      <3> QED
        BY <1>4, <2>1, <3>1 DEF Looks, Working
    <2>2. CASE d # c
      BY <1>4, <2>2, WorkingKept DEF Looks
    <2> QED
      BY <2>1, <2>2
  <1>5. ASSUME NEW c \in Threads, Opens(c) PROVE Working(d)'
    BY <1>5, NumberFacts, Ranges DEF Opens, Known, Working, Named
  <1>6. ASSUME NEW c \in Threads, Inserts(c) PROVE Working(d)'
    BY <1>6, NumberFacts, Ranges DEF Inserts, Known, Working, Named
  <1>7. ASSUME NEW c \in Threads, Deletes(c) PROVE Working(d)'
    <2>1. CASE d = c
      <3>1. Born(thread[d].o) /\ Born(thread[d].o)'
        BY <1>7, <2>1, StaysStep DEF Deletes, Known, Working, Stays
      <3> QED
        BY <1>7, <2>1, <3>1 DEF Deletes, Working
    <2>2. CASE d # c
      <3>1. thread'[d] = thread[d] /\ map' = map
        BY <1>7, <2>2 DEF Deletes
      <3> QED
        BY <3>1, WorkingKept
    <2> QED
      BY <2>1, <2>2
  <1>8. ASSUME NEW c \in Threads, Erases(c) PROVE Working(d)'
    BY <1>8, NumberFacts, Ranges DEF Erases, Known, Working, Named
  <1>9. ASSUME NEW c \in Threads, Removes(c) PROVE Working(d)'
    BY <1>9, NumberFacts, Ranges DEF Removes, Known, Working, Named, DirOf, Released, Overtakes, Opening
  <1>10. ASSUME NEW c \in Threads, Renames(c) PROVE Working(d)'
    BY <1>10, NumberFacts, Ranges DEF Renames, Known, Working, Named, DirOf, Released
  <1>11. ASSUME NEW c \in Threads, NEW n \in Names, Finds(c, n) PROVE Working(d)'
    BY <1>11, NumberFacts, Ranges DEF Finds, Known, Working, Named
  <1>12. ASSUME NEW c \in Threads, NEW n \in Names, Drops(c, n) PROVE Working(d)'
    <2>1. CASE d = c
      BY <1>12, <2>1, NumberFacts, AtWork, Ranges, StaysStep DEF Drops, Known, Working, Named, Stays, MapOf
    <2>2. CASE d # c
      <3>1. thread'[d] = thread[d] /\ (At(d, "delete") => NameOf(d) \in Names)
        BY <1>12, <2>2, AtWork DEF Drops
      <3>2. At(d, "delete") => map'[NameOf(d)] \in {map[NameOf(d)], None}
        BY <1>12, <3>1 DEF Drops, MapOf
      <3> QED
        BY <3>1, <3>2, WorkingKept
    <2> QED
      BY <2>1, <2>2
  <1>13. ASSUME NEW c \in Threads, NEW n \in Names, NEW o \in Metrics, Creates(c, n, o) PROVE Working(d)'
    <2>1. CASE d = c
      BY <1>13, <2>1, NumberFacts, AtWork, Ranges, StaysStep DEF Creates, Known, Working, Named, Stays, MapOf, LockOf
    <2>2. CASE d # c
      <3>1. At(d, "delete") => thread[d].o # o
        BY <1>13, NumberFacts DEF Creates, Known, Working
      <3> QED
        <4>1. thread'[d] = thread[d] /\ (At(d, "delete") => NameOf(d) \in Names)
          BY <1>13, <2>2, AtWork DEF Creates
        <4>2. At(d, "delete") => map'[NameOf(d)] = map[NameOf(d)] \/ map'[NameOf(d)] = o
          BY <1>13, <4>1 DEF Creates, MapOf
        <4> QED
          BY <3>1, <4>1, <4>2, WorkingKept
    <2> QED
      BY <2>1, <2>2
  <1>14. ASSUME NEW o \in Metrics, Flushes(o) PROVE Working(d)'
    <2>1. CASE d = Flush
      BY <1>14, <2>1, NumberFacts, AtWork, Ranges, StaysStep DEF Flushes, Known, Working, Named, Stays, MetricsSame
    <2>2. CASE d # Flush
      BY <1>14, <2>2, WorkingKept DEF Flushes, MetricsSame
    <2> QED
      BY <2>1, <2>2
  <1>15. CASE Writes
    <2>1. CASE d = Flush
      <3>1. Born(thread[d].o) /\ NameOf(d) \in Names
        BY <1>15, <2>1, AtWork DEF Writes, Known, Working
      <3>2. metric[thread[d].o].deleted => map[NameOf(d)] # thread[d].o
        BY <3>1, NumberFacts DEF Known, Named
      <3> QED
        BY <1>15, <2>1, <3>1, <3>2 DEF Writes, Working
    <2>2. CASE d # Flush
      BY <1>15, <2>2, WorkingKept DEF Writes
    <2> QED
      BY <2>1, <2>2
  <1> QED
    BY <1>1, <1>2, <1>3, <1>4, <1>5, <1>6, <1>7, <1>8, <1>9, <1>10, <1>11, <1>12, <1>13, <1>14, <1>15, Steps

LEMMA LockedKept ==
  ASSUME Types, Known, NEW d \in Threads, thread'[d] = thread[d], Locked(d),
         ~At(d, "idle") /\ lock[thread[d].o] = d => lock'[thread[d].o] = d
  PROVE  Locked(d)'
  BY AtWork DEF Locked

LEMMA LockedStep ==
  ASSUME Types, Known, NEW d \in Threads, Locked(d), Next
  PROVE  Locked(d)'
  <1>1. CASE Unseen
    BY <1>1, NumberFacts, Ranges DEF Unseen, Known, Named, Working, Locked
  <1>2. ASSUME NEW c \in Threads, Leaves(c) PROVE Locked(d)'
    <2>1. CASE d = c
      BY <1>2, <2>1, NumberFacts, AtWork DEF Leaves, Locked, Released, MetricsSame
    <2>2. CASE d # c
      <3>1. thread'[d] = thread[d] /\ (~At(d, "idle") => thread[d].o \in Metrics)
        BY <1>2, <2>2, AtWork DEF Leaves
      <3>2. ~At(d, "idle") /\ lock[thread[d].o] = d => lock'[thread[d].o] = d
        BY <1>2, <2>2, <3>1, NumberFacts DEF Leaves, Released
      <3> QED
        BY <3>1, <3>2, LockedKept
    <2> QED
      BY <2>1, <2>2
  <1>3. ASSUME NEW c \in Threads, Misses(c) PROVE Locked(d)'
    <2>1. CASE d = c
      BY <1>3, <2>1 DEF Misses, LockOf, Locked
    <2>2. CASE d # c
      <3>1. thread'[d] = thread[d] /\ (~At(d, "idle") => thread[d].o \in Metrics)
        BY <1>3, <2>2, AtWork DEF Misses
      <3>2. ~At(d, "idle") /\ lock[thread[d].o] = d => lock'[thread[d].o] = d
        <4>1. lock[thread[c].o] = None /\ LockOf(thread[c].o, c)
          BY <1>3 DEF Misses
        <4> QED
          BY <3>1, <4>1, NumberFacts DEF LockOf
      <3> QED
        BY <3>1, <3>2, LockedKept
    <2> QED
      BY <2>1, <2>2
  <1>4. ASSUME NEW c \in Threads, Looks(c) PROVE Locked(d)'
    BY <1>4, NumberFacts, Ranges DEF Looks, Known, Named, Working, Locked
  <1>5. ASSUME NEW c \in Threads, Opens(c) PROVE Locked(d)'
    BY <1>5, NumberFacts, Ranges DEF Opens, Known, Named, Working, Locked
  <1>6. ASSUME NEW c \in Threads, Inserts(c) PROVE Locked(d)'
    BY <1>6, NumberFacts, Ranges DEF Inserts, Known, Named, Working, Locked
  <1>7. ASSUME NEW c \in Threads, Deletes(c) PROVE Locked(d)'
    <2>1. CASE d = c
      BY <1>7, <2>1, NumberFacts, AtWork DEF Deletes, Locked, LockOf
    <2>2. CASE d # c
      <3>1. thread'[d] = thread[d] /\ (~At(d, "idle") => thread[d].o \in Metrics)
        BY <1>7, <2>2, AtWork DEF Deletes
      <3>2. ~At(d, "idle") /\ lock[thread[d].o] = d => lock'[thread[d].o] = d
        <4>1. lock[thread[c].o] = None /\ LockOf(thread[c].o, c)
          BY <1>7 DEF Deletes
        <4> QED
          BY <3>1, <4>1, NumberFacts DEF LockOf
      <3> QED
        BY <3>1, <3>2, LockedKept
    <2> QED
      BY <2>1, <2>2
  <1>8. ASSUME NEW c \in Threads, Erases(c) PROVE Locked(d)'
    BY <1>8, NumberFacts, Ranges DEF Erases, Known, Named, Working, Locked
  <1>9. ASSUME NEW c \in Threads, Removes(c) PROVE Locked(d)'
    <2>1. CASE d = c
      BY <1>9, <2>1, NumberFacts, AtWork DEF Removes, Locked, DirOf, Released, Overtakes, Opening
    <2>2. CASE d # c
      <3>1. thread'[d] = thread[d] /\ (~At(d, "idle") => thread[d].o \in Metrics)
        BY <1>9, <2>2, AtWork DEF Removes
      <3>2. ~At(d, "idle") /\ lock[thread[d].o] = d => lock'[thread[d].o] = d
        <4>1. UNCHANGED lock \/ Released(c)
          BY <1>9 DEF Removes
        <4> QED
          BY <2>2, <3>1, <4>1, NumberFacts DEF Released
      <3> QED
        BY <3>1, <3>2, LockedKept
    <2> QED
      BY <2>1, <2>2
  <1>10. ASSUME NEW c \in Threads, Renames(c) PROVE Locked(d)'
    <2>1. CASE d = c
      BY <1>10, <2>1, NumberFacts, AtWork DEF Renames, Locked, DirOf, Released
    <2>2. CASE d # c
      <3>1. thread'[d] = thread[d] /\ (~At(d, "idle") => thread[d].o \in Metrics)
        BY <1>10, <2>2, AtWork DEF Renames
      <3>2. ~At(d, "idle") /\ lock[thread[d].o] = d => lock'[thread[d].o] = d
        BY <1>10, <2>2, <3>1, NumberFacts DEF Renames, Released
      <3> QED
        BY <3>1, <3>2, LockedKept
    <2> QED
      BY <2>1, <2>2
  <1>11. ASSUME NEW c \in Threads, NEW n \in Names, Finds(c, n) PROVE Locked(d)'
    BY <1>11, NumberFacts, Ranges DEF Finds, Known, Named, Working, Locked
  <1>12. ASSUME NEW c \in Threads, NEW n \in Names, Drops(c, n) PROVE Locked(d)'
    BY <1>12, NumberFacts, Ranges DEF Drops, Known, Named, Working, Locked, MapOf
  <1>13. ASSUME NEW c \in Threads, NEW n \in Names, NEW o \in Metrics, Creates(c, n, o) PROVE Locked(d)'
    <2>1. CASE d = c
      BY <1>13, <2>1 DEF Creates, LockOf, Locked
    <2>2. CASE d # c
      <3>1. ~At(d, "idle") => thread[d].o \in Metrics \ {o}
        BY <1>13, NumberFacts DEF Creates, Known, Working
      <3>2. thread'[d] = thread[d] /\ (~At(d, "idle") => lock'[thread[d].o] = lock[thread[d].o])
        BY <1>13, <2>2, <3>1 DEF Creates, LockOf
      <3> QED
        BY <3>2, LockedKept
    <2> QED
      BY <2>1, <2>2
  <1>14. ASSUME NEW o \in Metrics, Flushes(o) PROVE Locked(d)'
    BY <1>14, NumberFacts, Ranges DEF Flushes, Known, Named, Working, Locked, MetricsSame
  <1>15. CASE Writes
    BY <1>15, NumberFacts, Ranges DEF Writes, Known, Named, Working, Locked
  <1> QED
    BY <1>1, <1>2, <1>3, <1>4, <1>5, <1>6, <1>7, <1>8, <1>9, <1>10, <1>11, <1>12, <1>13, <1>14, <1>15, Steps

-----------------------------------------------------------------------------
(* Which steps change what.                                                  *)
MapBy(m) ==
  \/ map'[m] = map[m]
  \/ \E c \in Threads : Drops(c, m)
  \/ \E c \in Threads : \E o \in Metrics : Creates(c, m, o)
DirBy(m) ==
  \/ dir'[m] = dir[m]
  \/ \E c \in Threads : Removes(c) /\ NameOf(c) = m
  \/ \E c \in Threads : Renames(c) /\ NameOf(c) = m
NameBy(o) ==
  \/ metric'[o].name = metric[o].name /\ (metric[o] = Nobody => metric'[o] = Nobody)
  \/ \E c \in Threads : \E n \in Names : Creates(c, n, o)
DeletedBy(o) ==
  \/ metric'[o].deleted = metric[o].deleted
  \/ \E c \in Threads : Deletes(c) /\ thread[c].o = o
  \/ \E c \in Threads : \E n \in Names : Creates(c, n, o)
StreamBy(s) ==
  \/ stream'[s] = stream[s]
  \/ \E c \in Threads : Opens(c) /\ stream[s].file = None
  \/ \E c \in Threads : Erases(c) /\ NameOf(c) \in DOMAIN files /\ files[NameOf(c)].v = s
ThreadBy(d) ==
  \/ thread'[d] = thread[d]
  \/ Leaves(d) \/ Misses(d) \/ Looks(d) \/ Opens(d) \/ Inserts(d)
  \/ Deletes(d) \/ Erases(d) \/ Removes(d) \/ Renames(d)
  \/ \E n \in Names : Finds(d, n) \/ Drops(d, n) \/ \E o \in Metrics : Creates(d, n, o)
  \/ d = Flush /\ (Writes \/ \E o \in Metrics : Flushes(o))

LEMMA ChangedBy ==
  ASSUME Types, Known, Next
  PROVE  /\ \A m \in Names : MapBy(m) /\ DirBy(m)
         /\ \A o \in Metrics : NameBy(o) /\ DeletedBy(o)
         /\ \A s \in Streams : StreamBy(s)
         /\ \A d \in Threads : ThreadBy(d)
  <1>1. ASSUME NEW m \in Names PROVE MapBy(m) /\ DirBy(m)
    <2>1. ASSUME NEW c \in Threads, Leaves(c) PROVE MapBy(m) /\ DirBy(m)
      BY <2>1 DEF Leaves, MapBy, DirBy
    <2>2. ASSUME NEW c \in Threads, Misses(c) PROVE MapBy(m) /\ DirBy(m)
      BY <2>2 DEF Misses, MapBy, DirBy
    <2>3. ASSUME NEW c \in Threads, Looks(c) PROVE MapBy(m) /\ DirBy(m)
      BY <2>3 DEF Looks, MapBy, DirBy
    <2>4. ASSUME NEW c \in Threads, Opens(c) PROVE MapBy(m) /\ DirBy(m)
      BY <2>4 DEF Opens, MapBy, DirBy
    <2>5. ASSUME NEW c \in Threads, Inserts(c) PROVE MapBy(m) /\ DirBy(m)
      BY <2>5 DEF Inserts, MapBy, DirBy
    <2>6. ASSUME NEW c \in Threads, Deletes(c) PROVE MapBy(m) /\ DirBy(m)
      BY <2>6 DEF Deletes, MapBy, DirBy
    <2>7. ASSUME NEW c \in Threads, Erases(c) PROVE MapBy(m) /\ DirBy(m)
      BY <2>7 DEF Erases, MapBy, DirBy
    <2>8. ASSUME NEW c \in Threads, Removes(c) PROVE MapBy(m) /\ DirBy(m)
      BY <2>8 DEF Removes, DirOf, MapBy, DirBy
    <2>9. ASSUME NEW c \in Threads, Renames(c) PROVE MapBy(m) /\ DirBy(m)
      BY <2>9 DEF Renames, DirOf, MapBy, DirBy
    <2>10. ASSUME NEW c \in Threads, NEW n \in Names, Finds(c, n) PROVE MapBy(m) /\ DirBy(m)
      BY <2>10 DEF Finds, MapBy, DirBy
    <2>11. ASSUME NEW c \in Threads, NEW n \in Names, Drops(c, n) PROVE MapBy(m) /\ DirBy(m)
      BY <2>11 DEF Drops, MapOf, MapBy, DirBy
    <2>12. ASSUME NEW c \in Threads, NEW n \in Names, NEW p \in Metrics, Creates(c, n, p) PROVE MapBy(m) /\ DirBy(m)
      BY <2>12 DEF Creates, MapOf, MapBy, DirBy
    <2>13. ASSUME NEW p \in Metrics, Flushes(p) PROVE MapBy(m) /\ DirBy(m)
      BY <2>13 DEF Flushes, MapBy, DirBy
    <2>14. CASE Unseen \/ Writes
      BY <2>14 DEF Unseen, Writes, MapBy, DirBy
    <2> QED
      BY <2>1, <2>2, <2>3, <2>4, <2>5, <2>6, <2>7, <2>8, <2>9, <2>10, <2>11, <2>12, <2>13, <2>14, Steps
  <1>2. ASSUME NEW o \in Metrics PROVE NameBy(o) /\ DeletedBy(o)
    <2>1. ASSUME NEW c \in Threads, Misses(c) PROVE NameBy(o) /\ DeletedBy(o)
      BY <2>1 DEF Misses, NameBy, DeletedBy
    <2>2. ASSUME NEW c \in Threads, Looks(c) PROVE NameBy(o) /\ DeletedBy(o)
      BY <2>2 DEF Looks, NameBy, DeletedBy
    <2>3. ASSUME NEW c \in Threads, Opens(c) PROVE NameBy(o) /\ DeletedBy(o)
      BY <2>3 DEF Opens, NameBy, DeletedBy
    <2>4. ASSUME NEW c \in Threads, Inserts(c) PROVE NameBy(o) /\ DeletedBy(o)
      BY <2>4 DEF Inserts, NameBy, DeletedBy
    <2>5. ASSUME NEW c \in Threads, Erases(c) PROVE NameBy(o) /\ DeletedBy(o)
      BY <2>5 DEF Erases, NameBy, DeletedBy
    <2>6. ASSUME NEW c \in Threads, Removes(c) PROVE NameBy(o) /\ DeletedBy(o)
      BY <2>6 DEF Removes, NameBy, DeletedBy
    <2>7. ASSUME NEW c \in Threads, Renames(c) PROVE NameBy(o) /\ DeletedBy(o)
      BY <2>7 DEF Renames, NameBy, DeletedBy
    <2>8. ASSUME NEW c \in Threads, Leaves(c) PROVE NameBy(o) /\ DeletedBy(o)
      BY <2>8 DEF Leaves, MetricsSame, NameBy, DeletedBy
    <2>9. ASSUME NEW c \in Threads, Deletes(c) PROVE NameBy(o) /\ DeletedBy(o)
      BY <2>9, Ranges, ZenonT(30) DEF Deletes, NameBy, DeletedBy
    <2>10. ASSUME NEW c \in Threads, NEW n \in Names, Finds(c, n) PROVE NameBy(o) /\ DeletedBy(o)
      BY <2>10 DEF Finds, NameBy, DeletedBy
    <2>11. ASSUME NEW c \in Threads, NEW n \in Names, Drops(c, n) PROVE NameBy(o) /\ DeletedBy(o)
      BY <2>11 DEF Drops, NameBy, DeletedBy
    <2>12. ASSUME NEW c \in Threads, NEW n \in Names, NEW p \in Metrics, Creates(c, n, p) PROVE NameBy(o) /\ DeletedBy(o)
      BY <2>12 DEF Creates, NameBy, DeletedBy
    <2>13. ASSUME NEW p \in Metrics, Flushes(p) PROVE NameBy(o) /\ DeletedBy(o)
      BY <2>13 DEF Flushes, MetricsSame, NameBy, DeletedBy
    <2>14. CASE Unseen \/ Writes
      BY <2>14 DEF Unseen, Writes, NameBy, DeletedBy
    <2> QED
      BY <2>1, <2>2, <2>3, <2>4, <2>5, <2>6, <2>7, <2>8, <2>9, <2>10, <2>11, <2>12, <2>13, <2>14, Steps
  <1>3. ASSUME NEW s \in Streams PROVE StreamBy(s)
    <2>1. ASSUME NEW c \in Threads, Leaves(c) PROVE StreamBy(s)
      BY <2>1 DEF Leaves, StreamBy
    <2>2. ASSUME NEW c \in Threads, Misses(c) PROVE StreamBy(s)
      BY <2>2 DEF Misses, StreamBy
    <2>3. ASSUME NEW c \in Threads, Looks(c) PROVE StreamBy(s)
      BY <2>3 DEF Looks, StreamBy
    <2>4. ASSUME NEW c \in Threads, Opens(c) PROVE StreamBy(s)
      BY <2>4 DEF Opens, StreamBy
    <2>5. ASSUME NEW c \in Threads, Inserts(c) PROVE StreamBy(s)
      BY <2>5 DEF Inserts, StreamBy
    <2>6. ASSUME NEW c \in Threads, Deletes(c) PROVE StreamBy(s)
      BY <2>6 DEF Deletes, StreamBy
    <2>7. ASSUME NEW c \in Threads, Erases(c) PROVE StreamBy(s)
      BY <2>7 DEF Erases, StreamBy
    <2>8. ASSUME NEW c \in Threads, Removes(c) PROVE StreamBy(s)
      BY <2>8 DEF Removes, StreamBy
    <2>9. ASSUME NEW c \in Threads, Renames(c) PROVE StreamBy(s)
      BY <2>9 DEF Renames, StreamBy
    <2>10. ASSUME NEW c \in Threads, NEW n \in Names, Finds(c, n) PROVE StreamBy(s)
      BY <2>10 DEF Finds, StreamBy
    <2>11. ASSUME NEW c \in Threads, NEW n \in Names, Drops(c, n) PROVE StreamBy(s)
      BY <2>11 DEF Drops, StreamBy
    <2>12. ASSUME NEW c \in Threads, NEW n \in Names, NEW p \in Metrics, Creates(c, n, p) PROVE StreamBy(s)
      BY <2>12 DEF Creates, StreamBy
    <2>13. ASSUME NEW p \in Metrics, Flushes(p) PROVE StreamBy(s)
      BY <2>13 DEF Flushes, StreamBy
    <2>14. CASE Unseen \/ Writes
      BY <2>14 DEF Unseen, Writes, StreamBy
    <2> QED
      BY <2>1, <2>2, <2>3, <2>4, <2>5, <2>6, <2>7, <2>8, <2>9, <2>10, <2>11, <2>12, <2>13, <2>14, Steps
  <1>4. ASSUME NEW d \in Threads PROVE ThreadBy(d)
    <2>1. ASSUME NEW c \in Threads, Leaves(c) PROVE ThreadBy(d)
      BY <2>1 DEF Leaves, ThreadBy
    <2>2. ASSUME NEW c \in Threads, Misses(c) PROVE ThreadBy(d)
      BY <2>2 DEF Misses, ThreadBy
    <2>3. ASSUME NEW c \in Threads, Looks(c) PROVE ThreadBy(d)
      BY <2>3 DEF Looks, ThreadBy
    <2>4. ASSUME NEW c \in Threads, Opens(c) PROVE ThreadBy(d)
      BY <2>4 DEF Opens, ThreadBy
    <2>5. ASSUME NEW c \in Threads, Inserts(c) PROVE ThreadBy(d)
      BY <2>5 DEF Inserts, ThreadBy
    <2>6. ASSUME NEW c \in Threads, Deletes(c) PROVE ThreadBy(d)
      BY <2>6, ZenonT(30) DEF Deletes, ThreadBy
    <2>7. ASSUME NEW c \in Threads, Erases(c) PROVE ThreadBy(d)
      BY <2>7 DEF Erases, ThreadBy
    <2>8. ASSUME NEW c \in Threads, Removes(c) PROVE ThreadBy(d)
      BY <2>8 DEF Removes, ThreadBy
    <2>9. ASSUME NEW c \in Threads, Renames(c) PROVE ThreadBy(d)
      BY <2>9 DEF Renames, ThreadBy
    <2>10. ASSUME NEW c \in Threads, NEW n \in Names, Finds(c, n) PROVE ThreadBy(d)
      BY <2>10 DEF Finds, ThreadBy
    <2>11. ASSUME NEW c \in Threads, NEW n \in Names, Drops(c, n) PROVE ThreadBy(d)
      BY <2>11 DEF Drops, ThreadBy
    <2>12. ASSUME NEW c \in Threads, NEW n \in Names, NEW p \in Metrics, Creates(c, n, p) PROVE ThreadBy(d)
      BY <2>12, ZenonT(30) DEF Creates, ThreadBy
    <2>13. ASSUME NEW p \in Metrics, Flushes(p) PROVE ThreadBy(d)
      BY <2>13 DEF Flushes, ThreadBy
    <2>14. CASE Unseen \/ Writes
      BY <2>14 DEF Unseen, Writes, ThreadBy
    <2> QED
      BY <2>1, <2>2, <2>3, <2>4, <2>5, <2>6, <2>7, <2>8, <2>9, <2>10, <2>11, <2>12, <2>13, <2>14, Steps
  <1> QED
    BY <1>1, <1>2, <1>3, <1>4

LEMMA NumberedStep ==
  ASSUME Types, Known, Next
  PROVE  Numbered'
  <1>1. ASSUME NEW o \in Metrics, metric'[o].name = None PROVE metric'[o] = Nobody
    <2>1. metric[o] = Nobody
      BY <1>1, StaysStep, NumberFacts DEF Stays, Known, Numbered
    <2> QED
      BY <1>1, <2>1, ChangedBy, NumberFacts DEF NameBy, Creates
  <1>2. ASSUME NEW o \in Metrics, NEW p \in Metrics, p < o, Born(o)' PROVE Born(p)'
    <2>1. CASE Born(o)
      BY <1>2, <2>1, StaysStep DEF Stays, Known, Numbered
    <2>2. CASE \E c \in Threads : \E n \in Names : Creates(c, n, o)
      <3>1. Born(p)
        BY <1>2, <2>2 DEF Creates, Known, Numbered
      <3> QED
        BY <3>1, StaysStep DEF Stays
    <2> QED
      BY <1>2, <2>1, <2>2, ChangedBy DEF NameBy
  <1> QED
    BY <1>1, <1>2 DEF Numbered

LEMMA NamedStep ==
  ASSUME Types, Known, Next, NEW m \in Names
  PROVE  Named(m)'
  <1>0. Named(m) /\ Stays /\ MapBy(m) /\ DirBy(m) /\ map[m] \in Metrics \cup {None} /\ dir[m] \in Metrics \cup {None}
    BY StaysStep, ChangedBy, Ranges DEF Known
  <1>1. ASSUME dir'[m] # None PROVE metric'[dir'[m]].name = m
    <2>1. CASE dir'[m] = dir[m]
      BY <1>0, <1>1, <2>1, NumberFacts DEF Named, Stays
    <2>2. ASSUME NEW c \in Threads, Removes(c), NameOf(c) = m PROVE FALSE
      BY <1>1, <2>2 DEF Removes, DirOf
    <2>3. ASSUME NEW c \in Threads, Renames(c), NameOf(c) = m PROVE metric'[dir'[m]].name = m
      BY <2>3 DEF Renames, DirOf
    <2> QED
      BY <1>0, <2>1, <2>2, <2>3 DEF DirBy
  <1>2. CASE map'[m] = None
    BY <1>1, <1>2 DEF Named
  <1>3. CASE map'[m] = map[m] /\ map[m] # None
    <2>1. map[m] \in Metrics /\ Born(map[m]) /\ metric[map[m]].name = m /\ ~metric[map[m]].deleted
      BY <1>0, <1>3, NumberFacts DEF Named
    <2>2. metric'[map[m]].name = m
      BY <1>0, <2>1 DEF Stays
    <2>3. ~metric'[map[m]].deleted
      <3>1. ASSUME NEW c \in Threads, Deletes(c), thread[c].o = map[m] PROVE FALSE
        BY <2>1, <3>1 DEF Deletes, Known, Working
      <3>2. ASSUME NEW c \in Threads, NEW n \in Names, Creates(c, n, map[m]) PROVE FALSE
        BY <2>1, <3>2 DEF Creates
      <3> QED
        BY <2>1, <3>1, <3>2, ChangedBy DEF DeletedBy
    <2>4. ASSUME NEW p \in Metrics, metric'[p].name = m PROVE p <= map[m]
      <3>1. CASE metric'[p].name = metric[p].name
        BY <1>0, <1>3, <2>4, <3>1 DEF Named
      <3>2. ASSUME NEW c \in Threads, NEW n \in Names, Creates(c, n, p) PROVE FALSE
        <4>1. n = m /\ map[n] = None
          BY <2>4, <3>2 DEF Creates
        <4> QED
          BY <1>3, <4>1
      <3> QED
        BY <3>1, <3>2, ChangedBy DEF NameBy
    <2> QED
      BY <1>1, <1>3, <2>2, <2>3, <2>4 DEF Named
  <1>4. ASSUME NEW c \in Threads, NEW o \in Metrics, Creates(c, m, o) PROVE Named(m)'
    <2>1. metric'[o].name = m /\ ~metric'[o].deleted /\ map'[m] = o /\ metric[o].name = None
      BY <1>4 DEF Creates, MapOf
    <2>2. ASSUME NEW p \in Metrics, metric'[p].name = m PROVE p <= o
      <3>1. CASE p = o
        BY <3>1, NumberFacts
      <3>2. CASE p # o
        <4>1. Born(p)
          BY <1>4, <2>2, <3>2, NumberFacts DEF Creates
        <4>2. ~(o < p)
          BY <2>1, <4>1 DEF Known, Numbered
        <4> QED
          BY <4>2, NumberFacts
      <3> QED
        BY <3>1, <3>2
    <2> QED
      BY <1>1, <2>1, <2>2 DEF Named
  <1>5. ASSUME NEW c \in Threads, Drops(c, m) PROVE map'[m] = None
    BY <1>5 DEF Drops, MapOf
  <1> QED
    BY <1>0, <1>2, <1>3, <1>4, <1>5 DEF MapBy

LEMMA KnownStep ==
  ASSUME Types, Known, Next
  PROVE  Known'
  BY NumberedStep, WorkingStep, NamedStep DEF Known

LEMMA UndeletedStep ==
  ASSUME Types, Known, Next, NEW p \in Metrics, Undeleted(p)
  PROVE  Undeleted(p)'
  <1> SUFFICES ASSUME Born(p)', ~metric'[p].deleted
               PROVE  map'[metric'[p].name] = p \/ \E c \in Threads : thread'[c].pc = "delete" /\ thread'[c].o = p
    BY DEF Undeleted
  <1>1. CASE \E c \in Threads : \E n \in Names : Creates(c, n, p)
    BY <1>1 DEF Creates, MapOf
  <1>2. CASE Born(p) /\ metric'[p].name = metric[p].name
    <2>1. ~metric[p].deleted /\ metric[p].name \in Names
      BY <1>2, StaysStep, Ranges DEF Stays
    <2>2. CASE map[metric[p].name] = p
      <3>1. ASSUME NEW c \in Threads, Drops(c, metric[p].name)
            PROVE  thread'[c].pc = "delete" /\ thread'[c].o = p
        BY <2>2, <3>1 DEF Drops
      <3>2. ASSUME NEW c \in Threads, NEW o \in Metrics, Creates(c, metric[p].name, o) PROVE FALSE
        BY <2>2, <3>2, NumberFacts DEF Creates
      <3> QED
        BY <1>2, <2>1, <2>2, <3>1, <3>2, ChangedBy DEF MapBy
    <2>3. ASSUME NEW c \in Threads, At(c, "delete"), thread[c].o = p
          PROVE  thread'[c].pc = "delete" /\ thread'[c].o = p
      <3>1. ~Deletes(c)
        BY <2>3 DEF Deletes
      <3>2. thread'[c] = thread[c]
        BY <2>3, <3>1, ChangedBy
           DEF ThreadBy, Leaves, Misses, Looks, Opens, Inserts, Erases, Removes, Renames, Finds, Drops, Creates,
               Writes, Flushes
      <3> QED
        BY <2>3, <3>2
    <2> QED
      BY <1>2, <2>1, <2>2, <2>3 DEF Undeleted
  <1> QED
    BY <1>1, <1>2, ChangedBy, StaysStep DEF NameBy, Stays

-----------------------------------------------------------------------------
(* Streams.                                                                  *)
LEMMA StreamOfKept ==
  ASSUME Types, Known, Next, NEW s, NEW n \in Names, StreamOf(s, n)
  PROVE  StreamOf(s, n)' /\ stream'[s].file = stream[s].file
  <1>1. s \in Streams /\ stream[s].file \in Metrics /\ Born(stream[s].file) /\ metric[stream[s].file].name = n
    BY Ranges, NumberFacts DEF StreamOf
  <1>2. stream'[s].file = stream[s].file /\ metric'[stream[s].file].name = n
    BY <1>1, StaysStep, NumberFacts DEF Stays
  <1> QED
    BY <1>1, <1>2, NumberFacts DEF StreamOf

LEMMA CachedStreamOf ==
  ASSUME Types, Known, StreamsKnown, Next, NEW n \in DOMAIN files'
  PROVE  StreamOf(files'[n].v, n) /\ n \in Names
  <1>1. CASE Less(files', files)
    BY <1>1 DEF Less, StreamsKnown, Types
  <1>2. ASSUME NEW c \in Threads, InsertStream(c), OneMore(files', files, NameOf(c), thread[c].s)
        PROVE  StreamOf(files'[n].v, n) /\ n \in Names
    <2>1. At(c, "insert") /\ NameOf(c) \in Names /\ StreamOf(thread[c].s, NameOf(c))
      BY <1>2, AtWork DEF InsertStream, StreamsKnown, Streamed
    <2> QED
      BY <1>2, <2>1 DEF OneMore, StreamsKnown, Types
  <1> QED
    BY <1>1, <1>2, FilesStep

(* Who opened a stream or found it in the cache.                             *)
LEMMA HeldStreamOf ==
  ASSUME Types, Known, StreamsKnown, Next, NEW d \in Threads, thread'[d].pc \in {"insert", "io"},
         NEW s, NEW n, thread'[d].s = s, NameOf(d)' = n
  PROVE  StreamOf(s, n)'
  <1>1. CASE thread'[d] = thread[d]
    <2>1. NameOf(d) \in Names /\ StreamOf(thread[d].s, NameOf(d)) /\ NameOf(d)' = NameOf(d)
      BY <1>1, AtWork, StaysStep, NumberFacts DEF StreamsKnown, Streamed, Stays
    <2> QED
      BY <1>1, <2>1, StreamOfKept
  <1>2. CASE Looks(d)
    <2>1. NameOf(d) \in DOMAIN files /\ thread'[d].s = files[NameOf(d)].v /\ NameOf(d)' = NameOf(d)
      BY <1>2 DEF Looks
    <2>2. StreamOf(thread'[d].s, NameOf(d)) /\ NameOf(d) \in Names
      BY <2>1 DEF StreamsKnown, Types
    <2> QED
      BY <2>1, <2>2, StreamOfKept
  <1>3. CASE Opens(d)
    <2>1. NameOf(d) \in Names /\ NameOf(d)' = NameOf(d) /\ dir[NameOf(d)] # None
      BY <1>3, AtWork DEF Opens
    <2>2. metric'[dir[NameOf(d)]].name = NameOf(d)
      BY <1>3, <2>1 DEF Opens, Known, Named
    <2>3. thread'[d].s \in Streams /\ stream'[thread'[d].s].file = dir[NameOf(d)]
      BY <1>3 DEF Opens
    <2> QED
      BY <2>1, <2>2, <2>3 DEF StreamOf
  <1>4. CASE Inserts(d)
    <2>1. NameOf(d) \in Names /\ StreamOf(thread[d].s, NameOf(d)) /\ NameOf(d)' = NameOf(d)
          /\ thread'[d].s = thread[d].s
      BY <1>4, AtWork DEF Inserts, StreamsKnown, Streamed
    <2> QED
      BY <2>1, StreamOfKept
  <1> QED
    BY <1>1, <1>2, <1>3, <1>4, ChangedBy
       DEF ThreadBy, Leaves, Misses, Deletes, Erases, Removes, Renames, Finds, Drops, Creates, Writes, Flushes

LEMMA StreamedStep ==
  ASSUME Types, Known, StreamsKnown, Next, NEW d \in Threads
  PROVE  Streamed(d)'
  <1>1. ASSUME NEW c \in Threads, At(c, "insert")
        PROVE  thread[c].s \in Streams /\ stream[thread[c].s].file # None
    BY <1>1 DEF StreamsKnown, Streamed, StreamOf
  <1>2. ASSUME NEW c \in Threads, thread'[c].pc = "insert"
        PROVE  (At(c, "insert") /\ thread'[c] = thread[c]) \/ Opens(c)
    BY <1>2, ChangedBy
       DEF ThreadBy, Leaves, Misses, Looks, Inserts, Deletes, Erases, Removes, Renames, Finds, Drops, Creates,
           Writes, Flushes
  <1>3. ASSUME thread'[d].pc = "insert", thread'[d] = thread[d]
        PROVE  /\ \A n \in DOMAIN files' : files'[n].v # thread'[d].s
               /\ \A c \in Threads : thread'[c].pc = "insert" /\ c # d => thread'[c].s # thread'[d].s
    <2>1. /\ \A n \in DOMAIN files : files[n].v # thread[d].s
          /\ \A c \in Threads : At(c, "insert") /\ c # d => thread[c].s # thread[d].s
      BY <1>3 DEF StreamsKnown, Streamed
    <2>2. ASSUME NEW n \in DOMAIN files' PROVE files'[n].v # thread'[d].s
      <3>1. CASE Less(files', files)
        BY <1>3, <2>1, <3>1 DEF Less
      <3>2. ASSUME NEW c \in Threads, InsertStream(c), OneMore(files', files, NameOf(c), thread[c].s)
            PROVE  files'[n].v # thread[d].s
        <4>1. At(c, "insert") /\ thread'[c].pc = "io"
          BY <3>2, InsertEffect DEF InsertStream, Inserts
        <4> QED
          BY <1>3, <2>1, <3>2, <4>1 DEF OneMore
      <3> QED
        BY <1>3, <3>1, <3>2, FilesStep
    <2>3. ASSUME NEW c \in Threads, thread'[c].pc = "insert", c # d PROVE thread'[c].s # thread'[d].s
      <3>1. CASE At(c, "insert") /\ thread'[c] = thread[c]
        BY <1>3, <2>1, <2>3, <3>1
      <3>2. CASE Opens(c)
        BY <1>1, <1>3, <3>2 DEF Opens
      <3> QED
        BY <1>2, <2>3, <3>1, <3>2
    <2> QED
      BY <2>2, <2>3
  <1>4. CASE Opens(d)
    <2>1. stream[thread'[d].s].file = None /\ files' = files /\ \A c \in Threads \ {d} : thread'[c] = thread[c]
      BY <1>4 DEF Opens
    <2>2. \A n \in DOMAIN files' : files'[n].v # thread'[d].s
      BY <2>1 DEF StreamsKnown, StreamOf
    <2>3. \A c \in Threads : thread'[c].pc = "insert" /\ c # d => thread'[c].s # thread'[d].s
      BY <1>1, <2>1
    <2> QED
      BY <2>2, <2>3, HeldStreamOf DEF Streamed
  <1> QED
    BY <1>2, <1>3, <1>4, HeldStreamOf DEF Streamed

LEMMA StreamsKnownStep ==
  ASSUME Types, Known, StreamsKnown, Next
  PROVE  StreamsKnown'
  <1>1. ASSUME NEW n \in DOMAIN files', NEW s, s = files'[n].v PROVE StreamOf(s, n)'
    BY <1>1, CachedStreamOf, StreamOfKept
  <1>2. ASSUME NEW n \in DOMAIN files' PROVE StreamOf(files[n].v, n)'
    BY <1>1 DEF StreamOf
  <1> QED
    BY <1>2, StreamedStep DEF StreamsKnown

(* A stream that is the current one stays so, unless it is closed.           *)
LEMMA CurrentKept ==
  ASSUME Types, Known, StreamsKnown, Next, \A c \in Threads : Renamer(c),
         NEW s, NEW n \in Names, StreamOf(s, n), Current(s, n), n \notin overtaken',
         n \in DOMAIN files \/ Overtakes(n),
         ~\E c \in Threads : Erases(c) /\ NameOf(c) \in DOMAIN files /\ files[NameOf(c)].v = s
  PROVE  Current(s, n)'
  <1>1. n \notin overtaken /\ s \in Streams /\ stream[s].file # None /\ stream[s].open /\ stream[s].file = dir[n]
    BY StaysStep DEF StreamOf, Current, Stays
  <1>2. stream'[s] = stream[s]
    BY <1>1, ChangedBy DEF StreamBy, Opens
  <1>3. dir'[n] = dir[n]
    <2>1. ASSUME NEW c \in Threads, Removes(c), NameOf(c) = n PROVE FALSE
      BY <2>1 DEF Removes
    <2>2. ASSUME NEW c \in Threads, Renames(c), NameOf(c) = n PROVE FALSE
      BY <1>1, <2>2 DEF Renames, Renamer
    <2> QED
      BY <2>1, <2>2, ChangedBy DEF DirBy
  <1> QED
    BY <1>1, <1>2, <1>3 DEF Current

LEMMA CachedCurrentStep ==
  ASSUME Types, Known, StreamsKnown, Next, \A c \in Threads : Renamer(c) /\ OpenedCurrent(c),
         NEW n \in Names, CachedCurrent(n)
  PROVE  CachedCurrent(n)'
  <1> SUFFICES ASSUME n \in DOMAIN files', n \notin overtaken',
                      NEW s, s = files'[n].v
               PROVE  Current(s, n)'
    BY DEF CachedCurrent, Current
  <1>0. n \notin overtaken /\ StreamOf(s, n)
    BY StaysStep, CachedStreamOf DEF Stays
  <1>1. ASSUME n \in DOMAIN files, s = files[n].v
        PROVE  Current(s, n)'
    <2>1. ASSUME NEW c \in Threads, Erases(c), NameOf(c) \in DOMAIN files, files[NameOf(c)].v = s
          PROVE  FALSE
      <3>1. NameOf(c) = n
        BY <1>0, <2>1 DEF StreamsKnown, StreamOf
      <3> QED
        BY <2>1, <3>1 DEF Erases
    <2>2. Current(s, n)
      BY <1>0, <1>1 DEF CachedCurrent
    <2> QED
      BY <1>0, <1>1, <2>1, <2>2, CurrentKept
  <1>2. ASSUME NEW c \in Threads, InsertStream(c), n = NameOf(c), s = thread[c].s
        PROVE  Current(s, n)'
    <2>1. At(c, "insert") /\ Overtakes(n)
      BY <1>2 DEF InsertStream, Overtakes, Opening
    <2>2. Current(s, n)
      BY <1>0, <1>2, <2>1 DEF OpenedCurrent
    <2>3. stream' = stream /\ dir' = dir
      BY <1>2 DEF InsertStream
    <2> QED
      BY <2>2, <2>3 DEF Current
  <1> QED
    BY <1>1, <1>2, FilesStep DEF Less, OneMore

LEMMA OpenedCurrentStep ==
  ASSUME Types, Known, StreamsKnown, Next, \A c \in Threads : Renamer(c),
         NEW d \in Threads, OpenedCurrent(d)
  PROVE  OpenedCurrent(d)'
  <1> SUFFICES ASSUME thread'[d].pc = "insert", NameOf(d)' \notin overtaken', NEW s, s = thread'[d].s
               PROVE  stream'[s].open /\ stream'[s].file = dir'[NameOf(d)']
    BY DEF OpenedCurrent, Current
  <1>1. CASE thread'[d] = thread[d]
    <2>0. At(d, "insert") /\ thread[d].o \in Metrics /\ NameOf(d) \in Names
      BY <1>1, AtWork
    <2>1. PICK n \in Names : n = NameOf(d) /\ n = NameOf(d)'
      BY <1>1, <2>0, StaysStep, NumberFacts DEF Stays
    <2>2. StreamOf(s, n) /\ Current(s, n) /\ Overtakes(n) /\ n \notin overtaken'
      <3>1. n \notin overtaken' /\ n \notin overtaken
        BY <2>1, StaysStep DEF Stays
      <3> QED
        BY <1>1, <2>0, <2>1, <3>1 DEF StreamsKnown, Streamed, OpenedCurrent, Overtakes, Opening
    <2>3. \A m \in DOMAIN files : files[m].v # s
      BY <1>1, <2>0 DEF StreamsKnown, Streamed
    <2>4. Current(s, n)'
      BY <2>2, <2>3, CurrentKept
    <2> QED
      BY <2>1, <2>4 DEF Current
  <1>2. CASE Opens(d)
    BY <1>2 DEF Opens
  <1> QED
    BY <1>1, <1>2, ChangedBy
       DEF ThreadBy, Leaves, Misses, Looks, Inserts, Deletes, Erases, Removes, Renames, Finds, Drops, Creates,
           Writes, Flushes

-----------------------------------------------------------------------------
(* Files grow younger.                                                       *)
LEMMA SameName ==
  ASSUME Types, Known, Next, NEW o \in Metrics, Born(o)
  PROVE  metric'[o].name = metric[o].name /\ metric[o].name \in Names
  BY StaysStep, Ranges DEF Stays

LEMMA FileNotOlderStep ==
  ASSUME Types, Known, Next, NEW o \in Metrics, FileNotOlder(o)
  PROVE  FileNotOlder(o)'
  <1>1. ASSUME NEW c \in Threads, NEW n \in Names, Creates(c, n, o) PROVE Unsaved(o)'
    BY <1>1 DEF Creates, Unsaved
  <1>2. ASSUME Born(o), NEW n \in Names, n = metric[o].name, n \notin overtaken'
        PROVE  dir'[n] = None \/ dir'[n] >= o \/ Unsaved(o)'
    <2>0. dir[n] = None \/ dir[n] >= o \/ Unsaved(o)
      BY <1>2, StaysStep DEF FileNotOlder, Stays
    <2>1. ASSUME NEW c \in Threads, AtOneOf(c, {"save", "replace"}), thread[c].o = o
          PROVE  dir'[n] = None \/ Unsaved(o)'
      <3>1. CASE thread'[c] = thread[c]
        BY <2>1, <3>1 DEF Unsaved
      <3>2. CASE Erases(c)
        BY <2>1, <3>2 DEF Erases, Unsaved
      <3>3. CASE Removes(c)
        BY <1>2, <2>1, <3>3 DEF Removes, DirOf
      <3> QED
        BY <2>1, <3>1, <3>2, <3>3, ChangedBy
           DEF ThreadBy, Leaves, Misses, Looks, Opens, Inserts, Deletes, Renames, Finds, Drops, Creates,
               Writes, Flushes
    <2>2. ASSUME NEW c \in Threads, Removes(c), NameOf(c) = n PROVE dir'[n] = None
      BY <2>2 DEF Removes, DirOf
    <2>3. ASSUME NEW c \in Threads, Renames(c), NameOf(c) = n PROVE dir'[n] >= o
      <3>1. dir'[n] = thread[c].o /\ thread[c].o \in Metrics /\ ~Succeeded(thread[c].o)
        BY <1>2, <2>3 DEF Renames, DirOf
      <3> QED
        BY <1>2, <2>3, <3>1, NumberFacts DEF Succeeded
    <2>4. CASE dir'[n] = dir[n] /\ ~Unsaved(o)
      BY <2>0, <2>4
    <2> QED
      BY <2>1, <2>2, <2>3, <2>4, ChangedBy DEF DirBy, Unsaved
  <1>3. CASE Born(o)
    BY <1>2, <1>3, SameName DEF FileNotOlder
  <1> QED
    BY <1>1, <1>3, ChangedBy DEF NameBy, FileNotOlder

LEMMA SucceededStays ==
  ASSUME Types, Known, Next, NEW o \in Metrics, Born(o), Succeeded(o)
  PROVE  Succeeded(o)'
  BY StaysStep, Ranges, NumberFacts DEF Succeeded, Stays

LEMMA RenamerStep ==
  ASSUME Types, Known, Next, \A c \in Threads : Locked(c), NEW d \in Threads, Renamer(d)
  PROVE  Renamer(d)'
  <1> SUFFICES ASSUME thread'[d].pc = "rename", NEW o, o = thread'[d].o, ~Succeeded(o)',
                      NameOf(d)' \notin overtaken'
               PROVE  dir'[NameOf(d)'] = None
    BY DEF Renamer, Succeeded
  <1>1. CASE Removes(d)
    BY <1>1 DEF Removes, DirOf
  <1>2. CASE thread'[d] = thread[d]
    <2>1. At(d, "rename") /\ o = thread[d].o /\ o \in Metrics /\ Born(o)
      BY <1>2 DEF Known, Working
    <2>2. PICK n \in Names : n = NameOf(d) /\ n = NameOf(d)'
      BY <1>2, <2>1, SameName
    <2>3. ~Succeeded(o) /\ n \notin overtaken' /\ n \notin overtaken
      BY <2>1, <2>2, SucceededStays, StaysStep DEF Stays
    <2>4. dir[n] = None
      BY <2>1, <2>2, <2>3 DEF Renamer
    <2>5. ASSUME NEW c \in Threads, Renames(c), NameOf(c) = n PROVE FALSE
      <3>1. At(c, "rename") /\ thread[c].o \in Metrics /\ c # d
        BY <1>2, <2>1, <2>5 DEF Renames
      <3>2. thread[c].o # o
        BY <2>1, <3>1 DEF Locked
      <3>3. thread[c].o < o
        BY <2>1, <2>2, <2>3, <2>5, <3>1, <3>2, NumberFacts DEF Succeeded
      <3>4. Succeeded(thread[c].o)
        BY <2>1, <2>2, <2>5, <3>3, NumberFacts DEF Succeeded
      <3> QED
        BY <2>3, <2>5, <3>4 DEF Renames
    <2>6. ASSUME NEW c \in Threads, Removes(c), NameOf(c) = n PROVE dir'[n] = None
      BY <2>6 DEF Removes, DirOf
    <2> QED
      BY <2>2, <2>4, <2>5, <2>6, ChangedBy DEF DirBy
  <1> QED
    BY <1>1, <1>2, ChangedBy
       DEF ThreadBy, Leaves, Misses, Looks, Opens, Inserts, Deletes, Erases, Renames, Finds, Drops, Creates,
           Writes, Flushes

LEMMA LoaderStep ==
  ASSUME Types, Known, StreamsKnown, Next, NEW d \in Threads, Loader(d),
         \A c \in Threads : Locked(c), \A o \in Metrics : FileNotOlder(o), \A n \in Names : CachedCurrent(n)
  PROVE  Loader(d)'
  <1> SUFFICES ASSUME d \in Clients, thread'[d].pc \in {"insert", "io"}, NameOf(d)' \notin overtaken',
                      NEW s, s = thread'[d].s
               PROVE  stream'[s].file >= thread'[d].o
    BY DEF Loader
  <1>1. ASSUME ~At(d, "idle"), thread'[d].o = thread[d].o
        PROVE  /\ thread[d].o \in Metrics /\ Born(thread[d].o) /\ NameOf(d) \in Names
               /\ NameOf(d)' = NameOf(d) /\ NameOf(d) \notin overtaken
    <2>1. thread[d].o \in Metrics /\ Born(thread[d].o)
      BY <1>1 DEF Known, Working
    <2> QED
      BY <1>1, <2>1, SameName, StaysStep DEF Stays
  (* It holds the lock of its metric, which is therefore not being saved.    *)
  <1>2. ASSUME AtOneOf(d, {"find", "open"}), thread'[d].o = thread[d].o, dir[NameOf(d)] # None
        PROVE  dir[NameOf(d)] >= thread[d].o
    <2>1. lock[thread[d].o] = d
      BY <1>2 DEF Locked
    <2>2. ~Unsaved(thread[d].o)
      BY <1>2, <2>1 DEF Unsaved, Locked
    <2> QED
      BY <1>1, <1>2, <2>2 DEF FileNotOlder
  <1>3. CASE AtOneOf(d, {"insert", "io"}) /\ thread'[d].o = thread[d].o /\ thread'[d].s = thread[d].s
    <2>1. StreamOf(s, NameOf(d)) /\ NameOf(d) \in Names /\ stream[s].file >= thread[d].o
      BY <1>1, <1>3 DEF StreamsKnown, Streamed, Loader
    <2> QED
      BY <1>3, <2>1, StreamOfKept
  <1>4. CASE Looks(d)
    <2>1. AtOneOf(d, {"find", "open"}) /\ thread'[d].o = thread[d].o /\ stream' = stream
          /\ NameOf(d) \in DOMAIN files /\ s = files[NameOf(d)].v
      BY <1>4 DEF Looks
    <2>2. stream[s].file = dir[NameOf(d)] /\ dir[NameOf(d)] # None
      BY <1>1, <2>1 DEF CachedCurrent, Current, StreamsKnown, StreamOf
    <2> QED
      BY <1>2, <2>1, <2>2
  <1>5. CASE Opens(d)
    BY <1>2, <1>5 DEF Opens
  <1>6. CASE Inserts(d)
    BY <1>3, <1>6 DEF Inserts
  <1>7. CASE thread'[d] = thread[d]
    BY <1>3, <1>7
  <1> QED
    BY <1>4, <1>5, <1>6, <1>7, ChangedBy, NumberFacts
       DEF ThreadBy, Leaves, Misses, Deletes, Erases, Removes, Renames, Finds, Drops, Creates

-----------------------------------------------------------------------------
(* Tuples.                                                                   *)
LEMMA BelongsKept ==
  ASSUME Types, Known, Next, NEW a \in DOMAIN tuples', NEW e,
         e.owner \in Metrics, e.file \in Metrics, Belongs(e, a)
  PROVE  Belongs(e, a)'
  <1>1. CASE e.owner \in ghosts
    BY <1>1, StaysStep DEF Belongs, Stays
  <1>2. CASE e.owner \notin ghosts
    <2>1. /\ Born(e.owner) /\ ~metric[e.owner].deleted /\ metric[e.owner].addr = a
          /\ metric[e.file].name = metric[e.owner].name
          /\ e.file >= e.owner \/ metric[e.owner].name \in overtaken
      BY <1>2 DEF Belongs
    <2>2. /\ Born(e.owner)' /\ metric'[e.owner].name = metric[e.owner].name /\ metric'[e.owner].addr = a
          /\ metric'[e.file].name = metric[e.file].name /\ overtaken \subseteq overtaken'
      BY <2>1, StaysStep DEF Stays
    <2>3. ~metric'[e.owner].deleted
      <3>1. ASSUME NEW c \in Threads, Deletes(c), thread[c].o = e.owner PROVE FALSE
        BY <2>1, <3>1 DEF Deletes
      <3>2. ASSUME NEW c \in Threads, NEW n \in Names, Creates(c, n, e.owner) PROVE FALSE
        BY <2>1, <3>2 DEF Creates
      <3> QED
        BY <2>1, <3>1, <3>2, ChangedBy DEF DeletedBy
    <2> QED
      BY <2>1, <2>2, <2>3 DEF Belongs
  <1> QED
    BY <1>1, <1>2

LEMMA LoadBelongs ==
  ASSUME Types, Known, StreamsKnown, Next, NEW c \in Threads, Load(c), Loader(c),
         NEW e, e.owner = thread[c].o, e.file = stream[thread[c].s].file
  PROVE  Belongs(e, metric[thread[c].o].addr) \/ e.owner \in ghosts'
  <1>1. At(c, "io") /\ c \in Clients /\ (metric[thread[c].o].deleted => thread[c].o \in ghosts')
    BY DEF Load
  <1>2. Born(thread[c].o) /\ StreamOf(thread[c].s, NameOf(c))
    BY <1>1 DEF Known, Working, StreamsKnown, Streamed
  <1>3. stream[thread[c].s].file >= thread[c].o \/ NameOf(c) \in overtaken
    BY <1>1 DEF Loader
  <1> QED
    BY <1>1, <1>2, <1>3 DEF Belongs, StreamOf

LEMMA TuplesBelongStep ==
  ASSUME Types, Known, StreamsKnown, TuplesBelong, Next, \A c \in Threads : Loader(c)
  PROVE  TuplesBelong'
  <1> SUFFICES ASSUME NEW a \in DOMAIN tuples', NEW e, e = tuples'[a].v
               PROVE  Belongs(e, a)'
    BY DEF TuplesBelong, Belongs
  <1>1. CASE a \in DOMAIN tuples /\ e = tuples[a].v
    BY <1>1, BelongsKept DEF TuplesBelong, Types
  <1>2. ASSUME NEW c \in Threads, Load(c), a = metric[thread[c].o].addr,
               e = [owner |-> thread[c].o, file |-> stream[thread[c].s].file, size |-> Size[NameOf(c)]]
        PROVE  Belongs(e, a)'
    <2>1. CASE e.owner \in ghosts'
      BY <2>1 DEF Belongs
    <2>2. CASE Belongs(e, a)
      <3>1. At(c, "io") /\ e.owner = thread[c].o /\ e.file = stream[thread[c].s].file
        BY <1>2 DEF Load
      <3>2. e.owner \in Metrics /\ e.file \in Metrics
        BY <3>1, AtWork, Ranges, NumberFacts DEF StreamsKnown, Streamed, StreamOf
      <3> QED
        BY <2>2, <3>2, BelongsKept
    <2> QED
      BY <1>2, <2>1, <2>2, LoadBelongs
  <1>3. \/ a \in DOMAIN tuples /\ e = tuples[a].v
        \/ \E c \in Threads :
             /\ Load(c) /\ a = metric[thread[c].o].addr
             /\ e = [owner |-> thread[c].o, file |-> stream[thread[c].s].file, size |-> Size[NameOf(c)]]
    BY TuplesStep DEF Less, OneMore
  <1> QED
    BY <1>1, <1>2, <1>3

-----------------------------------------------------------------------------
LEMMA NextCInv == CInv /\ [Next]_vars => CInv'
  <1>1. ASSUME CInv, UNCHANGED vars PROVE CInv'
    <2>1. (Types => Types') /\ (Known => Known')
      BY <1>1 DEF vars, Types, Entries, Known, Numbered, Working, Named
    <2>2. (StreamsKnown => StreamsKnown') /\ (TuplesBelong => TuplesBelong')
      BY <1>1 DEF vars, StreamsKnown, StreamOf, Streamed, TuplesBelong, Belongs
    <2>3. (\A o \in Metrics : Undeleted(o) /\ FileNotOlder(o))
            => \A o \in Metrics : Undeleted(o)' /\ FileNotOlder(o)'
      BY <1>1 DEF vars, Undeleted, FileNotOlder, Unsaved
    <2>4. (\A c \in Threads : Locked(c) /\ OpenedCurrent(c) /\ Renamer(c) /\ Loader(c))
            => \A c \in Threads : Locked(c)' /\ OpenedCurrent(c)' /\ Renamer(c)' /\ Loader(c)'
      BY <1>1 DEF vars, Locked, OpenedCurrent, Renamer, Succeeded, Loader, Current
    <2>5. (\A n \in Names : CachedCurrent(n)) => \A n \in Names : CachedCurrent(n)'
      BY <1>1 DEF vars, CachedCurrent, Current
    <2> QED
      BY <1>1, <2>1, <2>2, <2>3, <2>4, <2>5 DEF CInv
  <1>2. ASSUME CInv, Next PROVE CInv'
    <2>1. Types /\ Known /\ StreamsKnown /\ TuplesBelong
      BY <1>2 DEF CInv
    <2>2. /\ \A o \in Metrics : Undeleted(o) /\ FileNotOlder(o)
          /\ \A c \in Threads : Locked(c) /\ OpenedCurrent(c) /\ Renamer(c) /\ Loader(c)
          /\ \A n \in Names : CachedCurrent(n)
      BY <1>2 DEF CInv
    <2>3. Types' /\ Known' /\ StreamsKnown' /\ TuplesBelong'
      BY <1>2, <2>1, <2>2, TypesStep, KnownStep, StreamsKnownStep, TuplesBelongStep
    <2>4. \A o \in Metrics : Undeleted(o)' /\ FileNotOlder(o)'
      BY <1>2, <2>1, <2>2, UndeletedStep, FileNotOlderStep
    <2>5. \A c \in Threads : Locked(c)' /\ OpenedCurrent(c)' /\ Renamer(c)' /\ Loader(c)'
      BY <1>2, <2>1, <2>2, LockedStep, OpenedCurrentStep, RenamerStep, LoaderStep
    <2>6. \A n \in Names : CachedCurrent(n)'
      BY <1>2, <2>1, <2>2, CachedCurrentStep
    <2> QED
      BY <2>3, <2>4, <2>5, <2>6 DEF CInv
  <1> QED
    BY <1>1, <1>2

(* Every reachable state is one the argument above describes: types, who     *)
(* works on what, and how old files, streams and tuples are.                 *)
THEOREM CachesInvariant == Spec => []CInv
  BY InitCInv, NextCInv, PTL DEF Spec

(* A stream found in the cache by the name of a metric is open and is that   *)
(* of the file which has the name, however opening, dropping, saving and     *)
(* flushing interleave, unless the file was removed while it was being       *)
(* opened, or replaced by an older metric's.                                 *)
THEOREM CachedStreamsStayCurrent == Spec => []CachedStreamsCurrent
  <1>1. CInv => CachedStreamsCurrent
    BY DEF CInv, Types, CachedCurrent, Current, CachedStreamsCurrent
  <1> QED
    BY <1>1, CachesInvariant, PTL

(* Tuples found in the cache by the address of a block are those of the      *)
(* living metric whose block is there, read from its own file (or, once it   *)
(* is out of the map, from its successor's): an address used again never     *)
(* brings back another metric's tuples.                                      *)
THEOREM CachedTuplesStayOwned == Spec => []CachedTuplesBelong
  <1>1. ASSUME CInv PROVE CachedTuplesBelong
    <2>1. SUFFICES ASSUME NEW a \in DOMAIN tuples, NEW e, e = tuples[a].v, e.owner \notin ghosts
                   PROVE  /\ Live(e.owner) /\ metric[e.owner].addr = a
                          /\ \/ e.file = e.owner
                             \/ e.file > e.owner /\ map[metric[e.owner].name] # e.owner
                             \/ metric[e.owner].name \in overtaken
      BY DEF CachedTuplesBelong
    <2>2. /\ e.owner \in Metrics /\ e.file \in Metrics
          /\ Born(e.owner) /\ ~metric[e.owner].deleted /\ metric[e.owner].addr = a
          /\ metric[e.file].name = metric[e.owner].name /\ metric[e.owner].name \in Names
          /\ e.file >= e.owner \/ metric[e.owner].name \in overtaken
      BY <1>1, <2>1, Ranges DEF CInv, TuplesBelong, Belongs, Types
    <2>3. Live(e.owner)
      BY <1>1, <2>2 DEF CInv, Undeleted, Live
    <2>4. map[metric[e.owner].name] = e.owner => e.file <= e.owner
      BY <1>1, <2>2, NumberFacts DEF CInv, Known, Named
    <2> QED
      BY <2>2, <2>3, <2>4, NumberFacts
  <1> QED
    BY <1>1, CachesInvariant, PTL

-----------------------------------------------------------------------------
(* The memory of a cache of tuples: of each of its entries, and of all.      *)
MemoryOf(cache) == [a \in DOMAIN cache |-> cache[a].v.size]
TotalOf(cache) == SumFunctionOnSet(MemoryOf(cache), DOMAIN cache)

Measured(cache) ==
  IsFiniteSet(DOMAIN cache) /\ \A a \in DOMAIN cache : cache[a].v.size \in Nat

(* A measured cache has a total, and so has every part of it.                *)
LEMMA TotalType ==
  ASSUME NEW cache, Measured(cache), NEW part \in SUBSET DOMAIN cache
  PROVE  TotalOf(cache) \in Nat /\ SumFunctionOnSet(MemoryOf(cache), part) \in Nat
  <1>1. \A a \in DOMAIN cache : MemoryOf(cache)[a] \in Nat
    BY DEF Measured, MemoryOf
  <1>2. IsFiniteSet(DOMAIN cache) /\ IsFiniteSet(part)
    BY FS_Subset DEF Measured
  <1> QED
    BY <1>1, <1>2, SumType DEF TotalOf

(* A use changes the time of an entry, not its memory.                       *)
LEMMA TotalUsed ==
  ASSUME NEW cache, Entries(cache), Measured(cache), NEW k, NEW t
  PROVE  Measured(Used(cache, k, t)) /\ TotalOf(Used(cache, k, t)) = TotalOf(cache)
  <1>1. DOMAIN Used(cache, k, t) = DOMAIN cache
    BY DEF Used
  <1>2. \A a \in DOMAIN cache : Used(cache, k, t)[a].v = cache[a].v
    BY DEF Used, Entries
  <1>3. MemoryOf(Used(cache, k, t)) = MemoryOf(cache)
    BY <1>1, <1>2 DEF MemoryOf
  <1> QED
    BY <1>1, <1>2, <1>3 DEF Measured, TotalOf

(* What goes takes its memory along.                                         *)
LEMMA TotalRestricted ==
  ASSUME NEW cache, Measured(cache), NEW gone \in SUBSET DOMAIN cache
  PROVE  LET kept == Restrict(cache, DOMAIN cache \ gone)
         IN  /\ Measured(kept)
             /\ TotalOf(kept) = TotalOf(cache) - SumFunctionOnSet(MemoryOf(cache), gone)
  <1> DEFINE kept == Restrict(cache, DOMAIN cache \ gone)
             rest == DOMAIN cache \ gone
  <1>1. DOMAIN kept = rest /\ \A a \in rest : kept[a] = cache[a]
    BY DEF Restrict
  <1>2. IsFiniteSet(DOMAIN cache) /\ IsFiniteSet(rest)
    BY FS_Subset DEF Measured
  <1>3. Measured(kept)
    BY <1>1, <1>2 DEF Measured
  <1>4. \A a \in rest : MemoryOf(kept)[a] = MemoryOf(cache)[a]
    BY <1>1 DEF MemoryOf
  <1>5. TotalOf(kept) = SumFunctionOnSet(MemoryOf(cache), rest)
    <2>1. SumFunctionOnSet(MemoryOf(kept), rest) = SumFunctionOnSet(MemoryOf(cache), rest)
      BY <1>2, <1>4, SumAgree
    <2> QED
      BY <1>1, <2>1 DEF TotalOf
  <1>6. TotalOf(cache) = SumFunctionOnSet(MemoryOf(cache), gone)
                           + SumFunctionOnSet(MemoryOf(cache), rest)
    <2>1. \A a \in DOMAIN cache : MemoryOf(cache)[a] \in Int
      BY DEF Measured, MemoryOf
    <2> QED
      BY <1>2, <2>1, SumSplit DEF TotalOf
  <1>7. /\ SumFunctionOnSet(MemoryOf(cache), gone) \in Nat
        /\ SumFunctionOnSet(MemoryOf(cache), rest) \in Nat
    BY TotalType
  <1> QED
    BY <1>3, <1>5, <1>6, <1>7

(* An insertion of a key that is new adds the memory of its value.           *)
LEMMA TotalInserted ==
  ASSUME NEW cache, Measured(cache), NEW k, NEW v, v.size \in Nat, NEW t
  PROVE  /\ Measured(Inserted(cache, k, v, t))
         /\ TotalOf(Inserted(cache, k, v, t)) =
              IF k \in DOMAIN cache THEN TotalOf(cache) ELSE TotalOf(cache) + v.size
  <1>1. CASE k \in DOMAIN cache
    BY <1>1 DEF Inserted
  <1>2. CASE k \notin DOMAIN cache
    <2> DEFINE new == Inserted(cache, k, v, t)
    <2>1. /\ DOMAIN new = DOMAIN cache \cup {k}
          /\ new[k].v = v /\ \A a \in DOMAIN cache : new[a] = cache[a]
      BY <1>2 DEF Inserted
    <2>2. IsFiniteSet(DOMAIN cache) /\ IsFiniteSet(DOMAIN new)
      BY <2>1, FS_AddElement DEF Measured
    <2>3. Measured(new)
      BY <2>1, <2>2 DEF Measured
    <2>4. /\ MemoryOf(new)[k] = v.size
          /\ \A a \in DOMAIN cache : MemoryOf(new)[a] = MemoryOf(cache)[a]
          /\ \A a \in DOMAIN new : MemoryOf(new)[a] \in Int
      BY <2>1, <2>3 DEF MemoryOf, Measured
    <2>5. SumFunctionOnSet(MemoryOf(new), DOMAIN new)
            = v.size + SumFunctionOnSet(MemoryOf(new), DOMAIN new \ {k})
      BY <2>1, <2>2, <2>4, SumRemove
    <2>6. DOMAIN new \ {k} = DOMAIN cache
      BY <1>2, <2>1
    <2>7. SumFunctionOnSet(MemoryOf(new), DOMAIN cache) = TotalOf(cache)
      BY <2>2, <2>4, SumAgree DEF TotalOf
    <2>8. TotalOf(new) = v.size + TotalOf(cache) /\ TotalOf(cache) \in Nat
      BY <2>5, <2>6, <2>7, TotalType DEF TotalOf
    <2> QED
      BY <1>2, <2>3, <2>8
  <1> QED
    BY <1>1, <1>2

(* An erased entry takes its memory along.                                   *)
LEMMA TotalErased ==
  ASSUME NEW cache, Measured(cache), NEW k
  PROVE  /\ Measured(Erased(cache, k))
         /\ TotalOf(Erased(cache, k)) =
              IF k \in DOMAIN cache THEN TotalOf(cache) - cache[k].v.size ELSE TotalOf(cache)
  <1> DEFINE gone == {k} \cap DOMAIN cache
  <1>1. Erased(cache, k) = Restrict(cache, DOMAIN cache \ gone)
    <2>1. DOMAIN cache \ {k} = DOMAIN cache \ gone
      OBVIOUS
    <2> QED
      BY <2>1, Zenon DEF Erased
  <1>2. /\ Measured(Erased(cache, k))
        /\ TotalOf(Erased(cache, k)) = TotalOf(cache) - SumFunctionOnSet(MemoryOf(cache), gone)
    BY <1>1, TotalRestricted, Zenon
  <1>3. TotalOf(cache) \in Nat
    BY TotalType
  <1>4. CASE k \in DOMAIN cache
    <2>1. gone = {k} /\ IsFiniteSet({k})
      BY <1>4, FS_Singleton
    <2>2. {k} \ {k} = {} /\ MemoryOf(cache)[k] = cache[k].v.size /\ cache[k].v.size \in Nat
      BY <1>4 DEF MemoryOf, Measured
    <2>3. SumFunctionOnSet(MemoryOf(cache), {k})
            = MemoryOf(cache)[k] + SumFunctionOnSet(MemoryOf(cache), {k} \ {k})
      BY <2>1, <2>2, SumRemove
    <2>4. SumFunctionOnSet(MemoryOf(cache), gone) = cache[k].v.size
      BY <2>1, <2>2, <2>3, SumEmpty
    <2> QED
      BY <1>2, <1>4, <2>4
  <1>5. CASE k \notin DOMAIN cache
    <2>1. gone = {}
      BY <1>5
    <2>2. SumFunctionOnSet(MemoryOf(cache), gone) = 0
      BY <2>1, SumEmpty, Zenon
    <2> QED
      BY <1>2, <1>3, <1>5, <2>2
  <1> QED
    BY <1>4, <1>5

(* The inductive invariant: UsedMemoryKept, of a finite cache whose entries  *)
(* have a size.                                                              *)
Bounded(memory) ==
  \/ memory < MaxMemory
  \/ \E n \in Names : memory < MemoryLimit + Size[n] \/ memory = Size[n]
MemoryInv == Measured(tuples) /\ used = TotalOf(tuples) /\ Bounded(used)

LEMMA MemoryFacts ==
  /\ MaxMemory \in Nat /\ MemoryLimit \in Nat /\ \A n \in Names : Size[n] \in Nat
  /\ MemoryInv => used \in Nat
  /\ (used = TotalOf(tuples) /\ Bounded(used)) <=> UsedMemoryKept
  <1>1. MaxMemory * PurgePercent \in Nat
    BY CachesAssumption
  <1>2. MemoryLimit \in Nat
    BY <1>1 DEF MemoryLimit
  <1>3. MemoryInv => used \in Nat
    BY TotalType DEF MemoryInv
  <1>4. TotalOf(tuples) = SumFunction(Sizes)
    BY DEF TotalOf, MemoryOf, SumFunction, Sizes
  <1> QED
    BY <1>2, <1>3, <1>4, CachesAssumption DEF Bounded, UsedMemoryKept

LEMMA InitMemory == Init => MemoryInv
  <1> SUFFICES ASSUME Init PROVE MemoryInv
    OBVIOUS
  <1>1. tuples = Empty /\ used = 0 /\ DOMAIN Empty = {}
    BY DEF Init, Empty
  <1>2. Measured(tuples) /\ TotalOf(tuples) = 0
    BY <1>1, FS_EmptySet, SumEmpty DEF Measured, TotalOf
  <1>3. Bounded(0)
    BY CachesAssumption, MemoryFacts DEF Bounded
  <1> QED
    BY <1>1, <1>2, <1>3 DEF MemoryInv

(* Less memory is as bounded.                                                *)
LEMMA LessIsBounded ==
  ASSUME NEW m \in Nat, NEW less \in Nat, less <= m, Bounded(m)
  PROVE  Bounded(less)
  <1>1. CASE less = m
    BY <1>1
  <1>2. CASE less < m /\ m < MaxMemory
    BY <1>2, MemoryFacts DEF Bounded
  <1>3. ASSUME less < m, NEW n \in Names, m < MemoryLimit + Size[n] \/ m = Size[n]
        PROVE  less < MemoryLimit + Size[n]
    BY <1>3, MemoryFacts
  <1> QED
    BY <1>1, <1>2, <1>3 DEF Bounded

(* rrdb_metric_tuples_cache::insert: whatever is purged to make room.        *)
LEMMA InsertMemory ==
  ASSUME MemoryInv, NEW addr, NEW v, NEW n \in Names, v.size = Size[n], NEW t,
         InsertTuples(addr, v, t)
  PROVE  MemoryInv'
  <1>1. v.size \in Nat /\ used \in Nat /\ used = TotalOf(tuples) /\ Measured(tuples)
        /\ MaxMemory \in Nat /\ MemoryLimit \in Nat
    BY MemoryFacts DEF MemoryInv
  <1>2. Sizes = MemoryOf(tuples)
    BY DEF Sizes, MemoryOf
  <1>3. PICK kept \in IF used + v.size >= MaxMemory THEN Purged(tuples, Sizes, used, MemoryLimit)
                                                   ELSE {tuples} :
          LET left == used - SumFunctionOnSet(Sizes, DOMAIN tuples \ DOMAIN kept)
          IN  /\ tuples' = Inserted(kept, addr, v, t)
              /\ used' = IF addr \in DOMAIN kept THEN left ELSE left + v.size
    BY DEF InsertTuples
  <1> DEFINE left == used - SumFunctionOnSet(Sizes, DOMAIN tuples \ DOMAIN kept)
  <1>4. /\ Measured(kept) /\ left = TotalOf(kept)
        /\ \/ left = used /\ used + v.size < MaxMemory
           \/ left = 0 /\ DOMAIN kept = {}
           \/ left < MemoryLimit
    <2>1. CASE ~ (used + v.size >= MaxMemory)
      <3>1. kept = tuples /\ used + v.size < MaxMemory /\ DOMAIN tuples \ DOMAIN kept = {}
        BY <1>1, <1>3, <2>1
      <3>2. SumFunctionOnSet(Sizes, DOMAIN tuples \ DOMAIN kept) = 0
        BY <3>1, SumEmpty, Zenon
      <3> QED
        BY <1>1, <3>1, <3>2
    <2>2. CASE used + v.size >= MaxMemory
      <3>1. PICK gone \in SUBSET DOMAIN tuples :
              /\ kept = Restrict(tuples, DOMAIN tuples \ gone)
              /\ gone = DOMAIN tuples \/ used - SumFunctionOnSet(Sizes, gone) < MemoryLimit
        BY <1>3, <2>2 DEF Purged
      <3>2. DOMAIN kept = DOMAIN tuples \ gone /\ DOMAIN tuples \ DOMAIN kept = gone
        BY <3>1 DEF Restrict
      <3>3. left = used - SumFunctionOnSet(Sizes, gone)
        BY <3>2, Zenon
      <3>4. Measured(kept) /\ left = TotalOf(kept)
        BY <1>1, <1>2, <3>1, <3>3, TotalRestricted
      <3>5. CASE gone = DOMAIN tuples
        <4>1. left = used - used
          BY <1>1, <1>2, <3>3, <3>5 DEF TotalOf
        <4> QED
          BY <1>1, <3>2, <3>4, <3>5, <4>1
      <3> QED
        BY <3>1, <3>3, <3>4, <3>5
    <2> QED
      BY <2>1, <2>2
  <1>7. left \in Nat
    BY <1>4, TotalType
  <1>8. /\ Measured(tuples') /\ TotalOf(tuples') = used'
        /\ used' = IF addr \in DOMAIN kept THEN left ELSE left + v.size
    <2>1. /\ tuples' = Inserted(kept, addr, v, t)
          /\ used' = IF addr \in DOMAIN kept THEN left ELSE left + v.size
      BY <1>3
    <2> QED
      BY <1>1, <1>4, <1>7, <2>1, TotalInserted
  <1>9. Bounded(used')
    <2>1. used' \in Nat /\ used' <= left + v.size
      BY <1>1, <1>7, <1>8
    <2>2. CASE left = used /\ used + v.size < MaxMemory
      BY <1>1, <2>1, <2>2 DEF Bounded
    <2>3. CASE left = 0 /\ DOMAIN kept = {}
      BY <1>1, <1>8, <2>3 DEF Bounded
    <2>4. CASE left < MemoryLimit
      BY <1>1, <1>7, <2>1, <2>4 DEF Bounded
    <2> QED
      BY <1>4, <2>2, <2>3, <2>4
  <1> QED
    BY <1>8, <1>9 DEF MemoryInv, Measured, TotalOf, MemoryOf, Bounded

(* Every step keeps the account.                                             *)
LEMMA MemoryStep ==
  ASSUME CInv, MemoryInv, Next
  PROVE  MemoryInv'
  <1>0. Types /\ Known /\ Entries(tuples) /\ Measured(tuples) /\ used = TotalOf(tuples)
          /\ Bounded(used) /\ used \in Nat
    BY MemoryFacts DEF CInv, Types, MemoryInv
  <1>1. CASE UNCHANGED <<tuples, used>>
    BY <1>0, <1>1 DEF MemoryInv, Measured, TotalOf, MemoryOf, Bounded
  <1>2. CASE (\E c \in Threads : UseModified(c) \/ HitTuples(c))
    <2>1. PICK k : tuples' = Used(tuples, k, now)
      BY <1>2 DEF UseModified, HitTuples
    <2>2. used' = used
      BY <1>2 DEF UseModified, HitTuples
    <2>3. Measured(tuples') /\ TotalOf(tuples') = TotalOf(tuples)
      BY <1>0, <2>1, TotalUsed
    <2> QED
      BY <1>0, <2>2, <2>3 DEF MemoryInv, Measured, TotalOf, MemoryOf, Bounded
  <1>3. CASE \E c \in Threads : Delete(c)
    <2>1. PICK addr : EraseTuples(addr)
      BY <1>3 DEF Delete
    <2>2. /\ tuples' = Erased(tuples, addr)
          /\ used' = IF addr \in DOMAIN tuples THEN used - tuples[addr].v.size ELSE used
      BY <2>1 DEF EraseTuples
    <2>3. Measured(tuples') /\ TotalOf(tuples') = used'
      BY <1>0, <2>2, TotalErased
    <2>4. used' \in Nat
      BY <2>3, TotalType
    <2>5. used' <= used
      BY <1>0, <2>2 DEF Measured
    <2>6. Bounded(used')
      BY <1>0, <2>4, <2>5, LessIsBounded
    <2> QED
      BY <2>3, <2>6 DEF MemoryInv, Measured, TotalOf, MemoryOf, Bounded
  <1>4. ASSUME NEW c \in Threads, Load(c)
        PROVE  MemoryInv'
    <2> DEFINE v == [owner |-> thread[c].o, file |-> stream[thread[c].s].file, size |-> Size[NameOf(c)]]
    <2>1. NameOf(c) \in Names
      BY <1>0, <1>4, AtWork DEF Load
    <2>2. v.size = Size[NameOf(c)]
      OBVIOUS
    <2>3. InsertTuples(metric[thread[c].o].addr, v, thread[c].t)
      BY <1>4 DEF Load
    <2> HIDE DEF v
    <2> QED
      BY <2>1, <2>2, <2>3, InsertMemory
  <1> QED
    BY <1>1, <1>2, <1>3, <1>4, ZenonT(30)
       DEF Next, Tick, Find, Drop, Create, MissTuples, FindStream, OpenStream, OpenFails, InsertStream,
           IoFails, Erase, Remove, Replace, Rename, FlushBlock, FlushWrite, Finished, vars

(* The tuples cache knows how much memory its entries take, however they are *)
(* inserted, erased and purged by threads that interleave, and stays within  *)
(* its limit or what one block needs beyond a purge: _used_memory never      *)
(* falls below the size of an entry that is about to go.                     *)
THEOREM MemoryIsAccountedFor == Spec => []UsedMemoryKept
  <1>1. Init => MemoryInv
    BY InitMemory
  <1>2. CInv /\ MemoryInv /\ [Next]_vars => MemoryInv'
    <2>1. CASE UNCHANGED vars
      BY <2>1 DEF vars, MemoryInv, Measured, TotalOf, MemoryOf, Bounded
    <2> QED
      BY <2>1, MemoryStep
  <1>3. MemoryInv => UsedMemoryKept
    BY MemoryFacts DEF MemoryInv
  <1> QED
    BY <1>1, <1>2, <1>3, CachesInvariant, PTL DEF Spec
=============================================================================
