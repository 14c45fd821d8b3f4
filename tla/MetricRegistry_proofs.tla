----------------------- MODULE MetricRegistry_proofs -----------------------
(***************************************************************************)
(* For any number of names, clients, metrics, updates and crashes: map and *)
(* files agree on every name that nobody works on, a start fails for two   *)
(* reasons only, and no creation replaces what an update stored.           *)
(*                                                                         *)
(* The argument goes name by name.  A step touches what belongs to one     *)
(* name (Local, FlushLocal) and leaves the others alone (AsideKeeps); at   *)
(* its own name it keeps the metric, the file, the journal and whoever     *)
(* works on them in step (Calm), until a race breaks that for good.        *)
(***************************************************************************)
EXTENDS MetricRegistry, FiniteSetTheorems, TLAPS

-----------------------------------------------------------------------------
(* Types.                                                                    *)
MetricType == [name : Names \cup {None}, ups : SUBSET (1 .. MaxUpdates),
               held : BOOLEAN, dirty : BOOLEAN, deleted : BOOLEAN]
ImageType == [whole : BOOLEAN, ups : SUBSET (1 .. MaxUpdates), deleted : BOOLEAN]
JournalType == [name : Names \cup {None}, data : BOOLEAN, ups : SUBSET (1 .. MaxUpdates),
                deleted : BOOLEAN]
ClientType == [pc : {"idle", "insert", "save", "opentmp", "write", "rename", "update", "open",
                     "cache", "read", "delete"},
               name : Names \cup {None}, o : Ids \cup {None},
               u : 0 .. MaxUpdates, file : Ids \cup {None}]
FlushType == [pc : {"idle", "next", "take", "journal", "find", "open", "cache", "apply", "check"},
              todo : SUBSET Ids, o : Ids \cup {None}, file : Ids \cup {None}, buffer : JournalType]

USE DEF files

(* None is nobody's number.                                                  *)
LEMMA IdsFacts ==
  /\ Ids \in SUBSET Nat /\ None \notin Ids /\ None \notin Names
  /\ \A i \in Nat : i + 1 <= MaxMetrics => i + 1 \in Ids
  BY RegistryAssumption DEF Ids, None

LEMMA TypeParts ==
  TypeOK <=>
    /\ \A c \in Clients : client[c].o = None <=> client[c].pc \in {"idle", "insert"}
    /\ mode \in {"running", "crashed", "failed"} /\ made \in 0 .. MaxMetrics
    /\ metric \in [Ids -> MetricType] /\ lock \in [Ids -> Clients \cup {Nobody}]
    /\ map \in [Names -> Ids \cup {None}]
    /\ dir \in [Names -> Ids \cup {None}] /\ tmp \in [Names -> Ids \cup {None}]
    /\ cached \in [Names -> Ids \cup {None}]
    /\ image \in [Ids -> ImageType] /\ journal \in JournalType
    /\ client \in [Clients -> ClientType] /\ flush \in FlushType
    /\ updates \in 0 .. MaxUpdates /\ crashes \in 0 .. MaxCrashes
    /\ raced \in [Names -> BOOLEAN]
  BY DEF TypeOK, MetricType, ImageType, JournalType, ClientType, FlushType

(* What a client does, in terms of the client alone.                         *)
LEMMA Shapes ==
  /\ Unborn \in MetricType /\ Blank \in ImageType /\ NoJournal \in JournalType
  /\ IdleClient \in ClientType /\ IdleFlush \in FlushType
  BY RegistryAssumption DEF Unborn, Blank, NoJournal, IdleClient, IdleFlush, MetricType, ImageType,
     JournalType, ClientType, FlushType, None, Ids

LEMMA InitType == Init => TypeOK
  <1> SUFFICES ASSUME Init PROVE TypeOK
    OBVIOUS
  <1> QED
    BY Shapes, TypeParts, RegistryAssumption DEF Init, IdleClient

(* A client's record after its step.                                         *)
LEMMA ClientTypes ==
  ASSUME TypeOK, NEW c \in Clients, NEW r \in ClientType, client' = [client EXCEPT ![c] = r],
         r.o = None <=> r.pc \in {"idle", "insert"}
  PROVE  /\ client' \in [Clients -> ClientType] /\ client'[c] = r
         /\ \A d \in Clients \ {c} : client'[d] = client[d]
         /\ \A d \in Clients : client'[d].o = None <=> client'[d].pc \in {"idle", "insert"}
  <1>1. client \in [Clients -> ClientType]
    BY TypeParts
  <1>2. /\ client' \in [Clients -> ClientType] /\ client'[c] = r
        /\ \A d \in Clients \ {c} : client'[d] = client[d]
    BY <1>1
  <1> QED
    BY <1>2 DEF TypeOK

-----------------------------------------------------------------------------
(***************************************************************************)
(* The inductive invariant.  First what holds of every name: objects,      *)
(* files and operations are of one name each, and who does what to whom.   *)
(***************************************************************************)
SavingPc == {"save", "opentmp", "write", "rename"}
ReadingPc == {"open", "cache", "read"}

Born ==
  /\ \A o \in Ids : o > made => metric[o].name = None
  /\ \A n \in Names :
       /\ map[n] # None => metric[map[n]].name = n
       /\ dir[n] # None => metric[dir[n]].name = n
       /\ tmp[n] # None => metric[tmp[n]].name = n
BornClient ==
  \A c \in Clients :
    /\ client[c].pc = "idle" <=> client[c].name = None
    /\ client[c].pc = "insert" => client[c].u > 0
    /\ client[c].o # None => metric[client[c].o].name = client[c].name
    /\ client[c].pc \in {"write", "rename"} =>
         client[c].file # None /\ metric[client[c].file].name = client[c].name
    /\ client[c].pc \in {"cache", "read"} => client[c].file # None
WritingPc == {"journal", "find", "open", "cache", "apply"}
BornFlush ==
  /\ \A o \in flush.todo : metric[o].name # None
  /\ flush.pc \in {"idle", "next"} <=> flush.o = None
  /\ flush.o # None => metric[flush.o].name # None
  /\ flush.pc \in WritingPc \cup {"check"} => flush.buffer.name = metric[flush.o].name
  /\ flush.pc \in {"cache", "apply"} => flush.file # None
  /\ journal.name = None => journal = NoJournal

Stopped ==
  mode # "running" =>
    /\ map = [n \in Names |-> None] /\ lock = [o \in Ids |-> Nobody]
    /\ client = [c \in Clients |-> IdleClient] /\ flush = IdleFlush

(* A metric has one saver.  Who renames or reads its file holds its lock.    *)
Holds(c, o) == client[c].pc \in ReadingPc \cup {"rename"} /\ client[c].o = o
Locks ==
  /\ \A o \in Ids, c \in Clients : lock[o] = c <=> Holds(c, o)
  /\ \A c, d \in Clients :
       client[c].pc \in SavingPc /\ client[d].pc \in SavingPc /\ client[c].o = client[d].o => c = d

(* Who is dropped is out of the map, and the flush knows whom it may find.   *)
Deletes(c, o) == client[c].pc = "delete" /\ client[c].o = o
Droppers == \A c \in Clients : client[c].pc = "delete" => map[client[c].name] # client[c].o
Reached ==
  \A o \in Ids : o \in flush.todo \/ o = flush.o =>
    map[metric[o].name] = o \/ metric[o].deleted \/ \E c \in Clients : Deletes(c, o)
BufferDeleted ==
  flush.pc \in WritingPc /\ flush.buffer.deleted => metric[flush.o].deleted

Global ==
  Born /\ BornClient /\ BornFlush /\ Stopped /\ Locks /\ Droppers /\ Reached /\ BufferDeleted

(* A metric loaded from a file that was marked deleted: nobody saves, drops  *)
(* or flushes it, and whoever opens a file of its name opens its own.        *)
At2(n) == flush.o # None /\ metric[flush.o].name = n
Zombie(n) ==
  map[n] # None /\ metric[map[n]].deleted =>
    /\ \A c \in Clients : client[c].name = n =>
         /\ client[c].pc \in {"insert", "update"} \cup ReadingPc
         /\ client[c].pc \in {"cache", "read"} => client[c].file = dir[n]
         /\ client[c].pc \in ReadingPc /\ client[c].o = map[n] => ~metric[map[n]].held
    /\ ~At2(n) /\ dir[n] # None /\ cached[n] \in {None, dir[n]}
    /\ metric[map[n]].held \/ image[dir[n]].ups = metric[map[n]].ups

(***************************************************************************)
(* Then what holds of a name until a race.  While its metric is in the map *)
(* it is either being saved, without a file, or has a complete file, and   *)
(* what the flush is writing is what the metric lacks there (Upcoming).    *)
(***************************************************************************)
Writing(n) == At2(n) /\ flush.pc \in WritingPc
Upcoming(n) == IF Writing(n) /\ flush.buffer.data THEN flush.buffer.ups ELSE image[dir[n]].ups

BeingSaved(n) ==
  \A c \in Clients : client[c].o = map[n] /\ client[c].pc \in SavingPc =>
    /\ dir[n] = None
    /\ client[c].pc \in SavingPc \ {"rename"} => metric[map[n]].held
    /\ client[c].pc \in {"write", "rename"} => tmp[n] = client[c].file
    /\ client[c].pc = "rename" =>
         image[tmp[n]] = [whole |-> TRUE, ups |-> metric[map[n]].ups, deleted |-> FALSE]
InFile(n) ==
  ~Saving(map[n]) =>
    /\ dir[n] # None
    /\ image[dir[n]].ups \subseteq metric[map[n]].ups /\ Upcoming(n) \subseteq metric[map[n]].ups
    /\ ~metric[map[n]].dirty \/ ~metric[map[n]].held => Upcoming(n) = metric[map[n]].ups
Served(n) == map[n] # None => ~metric[map[n]].deleted /\ BeingSaved(n) /\ InFile(n)

(* A drop finds the file; the flush, if it is there, is at the same metric.  *)
Going(n) ==
  /\ \A c \in Clients : client[c].pc = "delete" /\ client[c].name = n =>
       /\ dir[n] # None /\ ~metric[client[c].o].deleted
       /\ At2(n) => flush.o = client[c].o
  /\ \A c, d \in Clients : client[c].pc = "delete" /\ client[d].pc = "delete"
                           /\ client[c].name = n /\ client[d].name = n => c = d

(* While there is a file, or there is about to be one, the cache has no      *)
(* other one under its name, and the flush has no other one open.            *)
Streams(n) ==
  /\ dir[n] # None \/ Renaming(n) => cached[n] \in {None, dir[n]}
  /\ dir[n] # None /\ At2(n) /\ flush.pc \in {"cache", "apply"} => flush.file = dir[n]

Sound(n) ==
  /\ dir[n] = None \/ tmp[n] = None
  /\ dir[n] # None => image[dir[n]].whole /\ ~image[dir[n]].deleted
  /\ journal.name = n => IF dir[n] = None THEN Dropped(n) ELSE ~journal.deleted
Calm(n) ==
  ~raced[n] =>
    /\ ~Races(n) /\ Sound(n) /\ Going(n) /\ Served(n) /\ Streams(n)
    /\ mode = "running" /\ map[n] = None /\ ~Dropping(n) => dir[n] = None

RInv == TypeOK /\ Global /\ \A n \in Names : Zombie(n) /\ Calm(n)

(* The shape of what is there.                                               *)
LEMMA Known ==
  ASSUME TypeOK, Global
  PROVE  /\ \A n \in Names : map[n] # None => map[n] \in Ids /\ metric[map[n]].name = n
         /\ \A n \in Names : dir[n] # None => dir[n] \in Ids /\ metric[dir[n]].name = n
         /\ \A n \in Names : tmp[n] # None => tmp[n] \in Ids /\ metric[tmp[n]].name = n
         /\ \A c \in Clients : client[c].o # None =>
              /\ client[c].o \in Ids /\ metric[client[c].o].name = client[c].name
              /\ client[c].name \in Names
         /\ \A c \in Clients : client[c].pc \in SavingPc \cup ReadingPc \cup {"delete", "update"} =>
              client[c].o # None
         /\ flush.o # None => flush.o \in Ids /\ metric[flush.o].name \in Names
         /\ flush.pc \notin {"idle", "next"} => flush.o # None
  <1>1. \A n \in Names : map[n] \in Ids \cup {None} /\ dir[n] \in Ids \cup {None} /\ tmp[n] \in Ids \cup {None}
    BY DEF TypeOK
  <1>2. \A c \in Clients : client[c] \in ClientType /\ (client[c].o = None <=> client[c].pc \in {"idle", "insert"})
    BY TypeParts
  <1>3. flush \in FlushType /\ \A o \in Ids : metric[o] \in MetricType
    BY TypeParts
  <1>4. \A c \in Clients : client[c].o # None => client[c].pc # "idle" /\ client[c].name # None
    BY <1>2 DEF Global, BornClient
  <1>5. \A c \in Clients : client[c].o # None =>
          /\ client[c].o \in Ids /\ metric[client[c].o].name = client[c].name
          /\ client[c].name \in Names
    BY <1>2, <1>4 DEF Global, BornClient, ClientType
  <1>6. flush.o # None => flush.o \in Ids /\ metric[flush.o].name \in Names
    BY <1>3 DEF Global, BornFlush, FlushType, MetricType
  <1>7. \A c \in Clients : client[c].pc \in SavingPc \cup ReadingPc \cup {"delete", "update"} =>
          client[c].o # None
    BY <1>2 DEF SavingPc, ReadingPc
  <1> QED
    BY <1>1, <1>5, <1>6, <1>7 DEF Global, Born, BornFlush

(* What no race means.                                                       *)
LEMMA NoRace ==
  ASSUME TypeOK, Global, NEW n \in Names, ~Races(n)
  PROVE  /\ \A c \in Clients : client[c].pc \in SavingPc /\ client[c].name = n =>
              map[n] = client[c].o /\ flush.o # client[c].o /\ journal.name # n
         /\ map[n] # None => ~Dropping(n)
         /\ map[n] # None /\ At2(n) => flush.o = map[n] /\ ~Saving(map[n])
  <1>1. ASSUME NEW c \in Clients, client[c].pc \in SavingPc, client[c].name = n
        PROVE  map[n] = client[c].o /\ flush.o # client[c].o /\ journal.name # n
    <2>1. client[c].o \in Ids /\ metric[client[c].o].name = n /\ Saving(client[c].o)
      BY <1>1, Known DEF Saving, SavingPc
    <2>2. map[n] = client[c].o /\ ~FlushingAt(client[c].o)
      BY <2>1 DEF Races
    <2>3. flush.o # client[c].o
      BY <2>1, <2>2, IdsFacts DEF FlushingAt, Global, BornFlush
    <2>4. map[n] # None /\ Saving(map[n])
      BY <2>1, <2>2, IdsFacts
    <2> QED
      BY <2>2, <2>3, <2>4 DEF Races
  <1>2. map[n] # None => ~Dropping(n)
    BY DEF Races
  <1>3. ASSUME map[n] # None, At2(n) PROVE flush.o = map[n] /\ ~Saving(map[n])
    <2>1. flush.o \in Ids /\ FlushingAt(flush.o) /\ metric[flush.o].name = n
      BY <1>3, Known DEF At2, FlushingAt, Global, BornFlush
    <2> QED
      BY <1>3, <2>1, Known DEF Races
  <1> QED
    BY <1>1, <1>2, <1>3

-----------------------------------------------------------------------------
(* Steps that do not concern a name.                                         *)
Aside(n) ==
  /\ mode' = mode /\ map'[n] = map[n] /\ dir'[n] = dir[n] /\ tmp'[n] = tmp[n]
  /\ cached'[n] = cached[n]
  /\ \A o \in Ids : metric'[o].name = n <=> metric[o].name = n
  /\ \A o \in Ids : metric[o].name = n => metric'[o] = metric[o] /\ image'[o] = image[o]
  /\ \A c \in Clients : client'[c].name = n <=> client[c].name = n
  /\ \A c \in Clients : client[c].name = n => client'[c] = client[c]
  /\ At2(n)' <=> At2(n)
  /\ At2(n) => flush'.o = flush.o /\ flush'.pc = flush.pc /\ flush'.file = flush.file
               /\ flush'.buffer = flush.buffer
  /\ journal'.name = n => journal' = journal

LEMMA WatchedFacts ==
  ASSUME TypeOK, Watched, NEW n \in Names
  PROVE  /\ raced' \in [Names -> BOOLEAN]
         /\ raced[n] => raced'[n]
         /\ ~raced'[n] => ~raced[n] /\ ~Races(n)'
  <1>1. \A m \in Names : raced'[m] = (raced[m] \/ Races(m)')
    BY DEF Watched
  <1>2. raced' = [m \in Names |-> raced[m] \/ Races(m)']
    BY DEF Watched
  <1>3. raced' \in [Names -> BOOLEAN]
    BY <1>2, Zenon
  <1> QED
    BY <1>1, <1>3

LEMMA AsideKeeps ==
  ASSUME RInv, TypeOK', Global', Watched, NEW n \in Names, Aside(n)
  PROVE  (Zombie(n) /\ Calm(n))'
  <1>0. TypeOK /\ Global /\ Zombie(n) /\ Calm(n)
    BY DEF RInv
  <1>1. /\ map[n] # None => metric'[map[n]] = metric[map[n]]
        /\ dir[n] # None => image'[dir[n]] = image[dir[n]]
        /\ tmp[n] # None => image'[tmp[n]] = image[tmp[n]]
    BY <1>0, Known DEF Aside
  <1>2. \A c \in Clients : client'[c].o = map[n] /\ map[n] # None => client'[c] = client[c]
    <2> SUFFICES ASSUME NEW c \in Clients, client'[c].o = map[n], map[n] # None
                 PROVE  client'[c].name = n
      BY DEF Aside
    <2>1. metric'[client'[c].o].name = client'[c].name
      BY DEF Global, BornClient
    <2> QED
      BY <1>0, <1>1, <2>1, Known
  <1>3. \A c \in Clients : client[c].o = map[n] /\ map[n] # None => client'[c] = client[c]
    BY <1>0, Known DEF Aside
  <1>4. Zombie(n)'
    BY <1>0, <1>1 DEF Zombie, Aside
  <1>5. Calm(n)'
    <2> SUFFICES ASSUME ~raced'[n]
                 PROVE  /\ Sound(n)' /\ Going(n)' /\ Served(n)' /\ Streams(n)'
                        /\ (mode = "running" /\ map[n] = None /\ ~Dropping(n))' => dir[n]' = None
      BY WatchedFacts, <1>0 DEF Calm
    <2>0. ~raced[n] /\ Sound(n) /\ Going(n) /\ Served(n) /\ Streams(n)
          /\ (mode = "running" /\ map[n] = None /\ ~Dropping(n) => dir[n] = None)
      BY WatchedFacts, <1>0 DEF Calm
    <2>1. Dropped(n)' = Dropped(n)
      BY DEF Aside, Dropped
    <2>2. Sound(n)'
      BY <1>1, <2>0, <2>1 DEF Sound, Aside
    <2>3. Dropping(n)' = Dropping(n)
      BY DEF Aside, Dropping
    <2>4. \A c \in Clients : client'[c].name = n /\ client'[c].pc = "delete" =>
            client'[c] = client[c] /\ metric'[client[c].o] = metric[client[c].o]
      BY <1>0, Known DEF Aside, SavingPc
    <2>5. Going(n)'
      BY <2>0, <2>4 DEF Going, Aside
    <2>6. map[n] # None => Saving(map[n])' = Saving(map[n])
      BY <1>2, <1>3 DEF Saving, Aside
    <2>7. Writing(n)' = Writing(n)
      BY DEF Aside, Writing
    <2>8. dir[n] # None => Upcoming(n)' = Upcoming(n)
      BY <1>1, <2>7 DEF Upcoming, Aside, Writing
    <2>9. ASSUME map[n] # None PROVE BeingSaved(n)'
      <3> SUFFICES ASSUME NEW c \in Clients, client'[c].o = map[n], client'[c].pc \in SavingPc
                   PROVE  /\ dir[n] = None
                          /\ client'[c].pc \in SavingPc \ {"rename"} => metric'[map[n]].held
                          /\ client'[c].pc \in {"write", "rename"} => tmp[n] = client'[c].file
                          /\ client'[c].pc = "rename" =>
                               image'[tmp[n]] = [whole |-> TRUE, ups |-> metric'[map[n]].ups,
                                                 deleted |-> FALSE]
        BY <2>9 DEF BeingSaved, Aside
      <3>1. client'[c] = client[c] /\ BeingSaved(n)
        BY <1>2, <2>0, <2>9 DEF Served
      <3>2. client[c].pc \in {"write", "rename"} => client[c].file # None
        BY <1>0 DEF Global, BornClient
      <3> QED
        BY <1>1, <2>9, <3>1, <3>2 DEF BeingSaved
    <2>10. ASSUME map[n] # None PROVE InFile(n)'
      <3>1. InFile(n)
        BY <2>0, <2>10 DEF Served
      <3>2. CASE Saving(map[n])
        BY <2>6, <2>10, <3>2 DEF InFile, Aside
      <3>3. CASE ~Saving(map[n])
        BY <1>1, <2>6, <2>7, <2>8, <2>10, <3>1, <3>3 DEF InFile, Aside, Writing
      <3> QED
        BY <3>2, <3>3
    <2>11. Served(n)'
      BY <1>1, <2>0, <2>9, <2>10 DEF Served, Aside
    <2>12. Streams(n)'
      <3>1. Renaming(n)' = Renaming(n)
        BY DEF Aside, Renaming
      <3> QED
        BY <2>0, <3>1 DEF Aside, Streams
    <2> QED
      BY <2>0, <2>2, <2>3, <2>5, <2>11, <2>12 DEF Aside
  <1> QED
    BY <1>4, <1>5

-----------------------------------------------------------------------------
(* A client's step concerns one name.                                        *)
Local(c, n) ==
  /\ mode = "running" /\ mode' = "running" /\ flush' = flush /\ journal' = journal
  /\ \A d \in Clients \ {c} : client'[d] = client[d]
  /\ client[c].name \in {None, n} /\ client'[c].name \in {None, n}
  /\ \A m \in Names \ {n} : /\ map'[m] = map[m] /\ dir'[m] = dir[m] /\ tmp'[m] = tmp[m]
                            /\ cached'[m] = cached[m]
  /\ \A o \in Ids : metric[o].name \notin {None, n} => metric'[o] = metric[o] /\ image'[o] = image[o]
  /\ \A o \in Ids : metric[o].name = n =>
       metric'[o].name = n /\ (metric[o].deleted => metric'[o].deleted)
  /\ \A o \in Ids : metric[o].name = None => metric'[o].name \in {None, n}

LEMMA LocalAside ==
  ASSUME TypeOK, Global, NEW c \in Clients, NEW n \in Names, Local(c, n), NEW m \in Names \ {n}
  PROVE  Aside(m)
  <1>1. \A o \in Ids : /\ metric'[o].name = m <=> metric[o].name = m
                       /\ metric[o].name = m => metric'[o] = metric[o] /\ image'[o] = image[o]
    <2> TAKE o \in Ids
    <2>0. m # None /\ m # n
      BY IdsFacts
    <2>1. CASE metric[o].name = None
      BY <2>0, <2>1 DEF Local
    <2>2. CASE metric[o].name = n
      BY <2>0, <2>2 DEF Local
    <2>3. CASE metric[o].name \notin {None, n}
      BY <2>0, <2>3 DEF Local
    <2> QED
      BY <2>1, <2>2, <2>3
  <1>2. \A d \in Clients : /\ client'[d].name = m <=> client[d].name = m
                           /\ client[d].name = m => client'[d] = client[d]
    BY IdsFacts DEF Local
  <1>3. At2(m)' <=> At2(m)
    BY <1>1, Known DEF At2, Local
  <1> QED
    BY <1>1, <1>2, <1>3 DEF Aside, Local

(* What a client has to see to of what holds of every name.                  *)
Proper(c, n) ==
  /\ client'[c].pc = "idle" <=> client'[c].name = None
  /\ client'[c].pc = "insert" => client'[c].u > 0
  /\ client'[c].o # None => metric'[client'[c].o].name = client'[c].name
  /\ client'[c].pc \in {"write", "rename"} =>
       client'[c].file # None /\ metric'[client'[c].file].name = client'[c].name
  /\ client'[c].pc \in {"cache", "read"} => client'[c].file # None
  /\ client'[c].pc = "delete" => map'[n] # client'[c].o
  /\ client[c].pc = "delete" => metric'[client[c].o].deleted
  /\ \A o \in Ids : o = map[n] /\ map'[n] # o => Deletes(c, o)'
  /\ map'[n] \in {None, map[n]} \/ metric[map'[n]].name = None

LEMMA LocalGlobal ==
  ASSUME TypeOK, TypeOK', Global, NEW c \in Clients, NEW n \in Names, Local(c, n), Proper(c, n),
         Born', Locks'
  PROVE  Global'
  <1>1. \A o \in Ids : metric[o].name # None =>
          metric'[o].name = metric[o].name /\ (metric[o].deleted => metric'[o].deleted)
    BY DEF Local
  <1>2. BornClient'
    <2> SUFFICES ASSUME NEW d \in Clients \ {c}
                 PROVE  /\ client'[d].pc = "idle" <=> client'[d].name = None
                        /\ client'[d].pc = "insert" => client'[d].u > 0
                        /\ client'[d].o # None => metric'[client'[d].o].name = client'[d].name
                        /\ client'[d].pc \in {"write", "rename"} =>
                             client'[d].file # None /\ metric'[client'[d].file].name = client'[d].name
                        /\ client'[d].pc \in {"cache", "read"} => client'[d].file # None
      BY DEF BornClient, Proper
    <2>1. client'[d] = client[d] /\ client[d] \in ClientType
      BY TypeParts DEF Local
    <2>2. ASSUME client[d].o # None PROVE metric'[client[d].o].name = client[d].name
      <3>1. client[d].o \in Ids /\ metric[client[d].o].name = client[d].name /\ client[d].name # None
        BY <2>2, Known, IdsFacts
      <3> QED
        BY <1>1, <3>1
    <2>3. client[d].pc \in {"write", "rename"} =>
             client[d].file # None /\ metric'[client[d].file].name = client[d].name
      <3> SUFFICES ASSUME client[d].pc \in {"write", "rename"}
                   PROVE  client[d].file # None /\ metric'[client[d].file].name = client[d].name
        OBVIOUS
      <3>1. client[d].name \in Names
        BY Known DEF SavingPc
      <3>2. client[d].file # None /\ metric[client[d].file].name = client[d].name
        BY DEF Global, BornClient
      <3>3. client[d].file \in Ids
        BY <2>1, <3>2 DEF ClientType
      <3> QED
        BY <1>1, <3>1, <3>2, <3>3, IdsFacts
    <2> QED
      BY <2>1, <2>2, <2>3 DEF Global, BornClient
  <1>3. BornFlush'
    <2>1. \A o \in flush.todo : o \in Ids /\ metric'[o].name # None
      BY <1>1, TypeParts DEF Global, BornFlush, FlushType
    <2>2. flush.o # None => flush.o \in Ids /\ metric'[flush.o].name = metric[flush.o].name
      BY <1>1, Known, IdsFacts
    <2> QED
      BY <2>1, <2>2 DEF Global, BornFlush, WritingPc, Local
  <1>4. Stopped'
    BY DEF Stopped, Local
  <1>5. Droppers'
    <2> SUFFICES ASSUME NEW d \in Clients, client'[d].pc = "delete"
                 PROVE  map'[client'[d].name] # client'[d].o
      BY DEF Droppers
    <2>1. CASE d = c
      <3>1. client'[c].name = n
        BY <2>1 DEF Proper, Local
      <3> QED
        BY <2>1, <3>1 DEF Proper
    <2>2. CASE d # c
      <3>1. client'[d] = client[d] /\ client[d].pc = "delete"
        BY <2>2 DEF Local
      <3>2. /\ map[client[d].name] # client[d].o /\ client[d].o # None
            /\ client[d].name \in Names /\ metric[client[d].o].name = client[d].name
        BY <3>1, Known DEF Global, Droppers
      <3>3. CASE client[d].name # n
        BY <3>1, <3>2, <3>3 DEF Local
      <3>4. CASE client[d].name = n
        BY <3>1, <3>2, <3>4, IdsFacts DEF Proper
      <3> QED
        BY <3>3, <3>4
    <2> QED
      BY <2>1, <2>2
  <1>6. Reached'
    <2> SUFFICES ASSUME NEW o \in Ids, o \in flush.todo \/ o = flush.o
                 PROVE  \/ map'[metric'[o].name] = o \/ metric'[o].deleted
                        \/ \E d \in Clients : Deletes(d, o)'
      BY DEF Reached, Local
    <2>1. metric[o].name \in Names
      <3>1. metric[o].name # None
        BY IdsFacts DEF Global, BornFlush
      <3> QED
        BY <3>1, TypeParts DEF MetricType
    <2>2. metric'[o].name = metric[o].name
      BY <1>1, <2>1, IdsFacts
    <2>3. map[metric[o].name] = o \/ metric[o].deleted \/ \E d \in Clients : Deletes(d, o)
      BY DEF Global, Reached
    <2>4. CASE map[metric[o].name] = o
      <3>1. CASE metric[o].name = n
        <4>1. map[n] = o /\ o # None
          BY <2>4, <3>1, IdsFacts
        <4>2. map'[n] = o \/ Deletes(c, o)'
          BY <4>1 DEF Proper, Deletes
        <4> QED
          BY <2>2, <3>1, <4>2
      <3>2. CASE metric[o].name # n
        BY <2>1, <2>2, <2>4, <3>2 DEF Local
      <3> QED
        BY <3>1, <3>2
    <2>5. CASE metric[o].deleted
      BY <1>1, <2>1, <2>5, IdsFacts
    <2>6. ASSUME NEW d \in Clients, Deletes(d, o)
          PROVE  metric'[o].deleted \/ Deletes(d, o)'
      BY <2>6 DEF Deletes, Local, Proper
    <2> QED
      BY <2>3, <2>4, <2>5, <2>6
  <1>7. BufferDeleted'
    <2>1. flush.o # None => flush.o \in Ids /\ metric[flush.o].name # None
      BY Known, IdsFacts
    <2> QED
      BY <1>1, <2>1 DEF Global, BornFlush, BufferDeleted, WritingPc, Local
  <1> QED
    BY <1>2, <1>3, <1>4, <1>5, <1>6, <1>7 DEF Global

LEMMA LocalStep ==
  ASSUME RInv, TypeOK', NEW c \in Clients, NEW n \in Names, Local(c, n), Proper(c, n), Watched,
         Born', Locks', Zombie(n)',
         ~raced[n] /\ ~raced'[n] => (Sound(n) /\ Going(n) /\ Served(n) /\ Streams(n))'
                                    /\ (map'[n] = None /\ ~Dropping(n)' => dir'[n] = None)
  PROVE  RInv'
  <1>1. Global'
    BY LocalGlobal DEF RInv
  <1>2. \A m \in Names \ {n} : (Zombie(m) /\ Calm(m))'
    BY <1>1, LocalAside, AsideKeeps DEF RInv
  <1>3. Calm(n)'
    BY WatchedFacts DEF Calm, RInv
  <1> QED
    BY <1>1, <1>2, <1>3 DEF RInv

(* What an untouched rest of the state keeps.                                *)
LEMMA ClientTypeOK ==
  ASSUME TypeOK, Watched, NEW c \in Clients, NEW r \in ClientType, client' = [client EXCEPT ![c] = r],
         r.o = None <=> r.pc \in {"idle", "insert"},
         mode' = mode, made' \in 0 .. MaxMetrics, metric' \in [Ids -> MetricType],
         lock' \in [Ids -> Clients \cup {Nobody}], map' \in [Names -> Ids \cup {None}],
         dir' \in [Names -> Ids \cup {None}], tmp' \in [Names -> Ids \cup {None}],
         cached' \in [Names -> Ids \cup {None}],
         image' \in [Ids -> ImageType], journal' = journal, flush' = flush,
         updates' \in 0 .. MaxUpdates, crashes' = crashes
  PROVE  TypeOK'
  <1>1. raced' \in [Names -> BOOLEAN]
    BY Zenon DEF Watched
  <1>2. client' \in [Clients -> ClientType]
        /\ \A d \in Clients : client'[d].o = None <=> client'[d].pc \in {"idle", "insert"}
    BY ClientTypes
  <1>3. /\ mode \in {"running", "crashed", "failed"} /\ journal \in JournalType /\ flush \in FlushType
        /\ crashes \in 0 .. MaxCrashes
    BY TypeParts
  <1> QED
    BY <1>1, <1>2, <1>3 DEF TypeOK, MetricType, ImageType, JournalType, ClientType, FlushType

(* Locks are as they were for a client that neither gets nor gives one.      *)
LEMMA LocksKept ==
  ASSUME TypeOK, Global, NEW c \in Clients, lock' = lock,
         \A d \in Clients \ {c} : client'[d] = client[d],
         client[c].pc \notin ReadingPc \cup {"rename"}, client'[c].pc \notin ReadingPc \cup {"rename"},
         client'[c].pc \in SavingPc =>
           \A d \in Clients \ {c} : client[d].pc \in SavingPc => client[d].o # client'[c].o
  PROVE  Locks'
  <1>1. \A o \in Ids, d \in Clients : Holds(d, o)' = Holds(d, o)
    BY DEF Holds
  <1> QED
    BY <1>1 DEF Global, Locks

(* The file of a name, and the streams of it, are as they were.              *)
LEMMA StreamsKept ==
  ASSUME TypeOK, Global, NEW c \in Clients, NEW n \in Names, Local(c, n), Streams(n),
         cached'[n] \in {None, cached[n]}, dir'[n] = dir[n], client'[c].pc # "rename"
  PROVE  Streams(n)'
  <1>1. Renaming(n)' => Renaming(n)
    BY DEF Renaming, Local
  <1>2. At2(n)' => At2(n)
    <2>1. flush.o # None => flush.o \in Ids /\ metric[flush.o].name \notin {None}
      BY Known, IdsFacts
    <2> QED
      BY <2>1 DEF At2, Local
  <1> QED
    BY <1>1, <1>2 DEF Streams, Local

(* Paths change hands within a name only.                                    *)
LEMMA BornKept ==
  ASSUME TypeOK, Global,
         \A o \in Ids : metric[o].name # None => metric'[o].name = metric[o].name,
         \A o \in Ids : o > made' => metric'[o].name = None,
         \A n \in Names : map'[n] \in {None, map[n]} \/ metric'[map'[n]].name = n,
         \A n \in Names : dir'[n] \in {None, dir[n], tmp[n]},
         \A n \in Names : tmp'[n] \in {None, tmp[n]} \/ metric'[tmp'[n]].name = n
  PROVE  Born'
  <1> SUFFICES ASSUME NEW n \in Names
               PROVE  /\ map'[n] # None => metric'[map'[n]].name = n
                      /\ dir'[n] # None => metric'[dir'[n]].name = n
                      /\ tmp'[n] # None => metric'[tmp'[n]].name = n
    BY DEF Born
  <1>1. /\ map[n] # None => map[n] \in Ids /\ metric[map[n]].name = n
        /\ dir[n] # None => dir[n] \in Ids /\ metric[dir[n]].name = n
        /\ tmp[n] # None => tmp[n] \in Ids /\ metric[tmp[n]].name = n
        /\ n # None
    BY Known, IdsFacts
  <1>2. /\ map[n] # None => metric'[map[n]].name = n
        /\ dir[n] # None => metric'[dir[n]].name = n
        /\ tmp[n] # None => metric'[tmp[n]].name = n
    BY <1>1
  <1> QED
    BY <1>2

LEMMA StepInsertNew ==
  ASSUME RInv, NEW c \in Clients, NEW n \in Names, NEW u \in 0 .. MaxUpdates,
         mode = "running", client[c].pc \in {"idle", "insert"}, client[c].name \in {None, n},
         map[n] = None, InsertNew(c, n, u), Watched
  PROVE  RInv'
  <1> DEFINE o == made + 1
             r == [pc |-> "save", name |-> n, o |-> o, u |-> u, file |-> None]
  <1>0. TypeOK /\ Global /\ Calm(n)
    BY DEF RInv
  <1>1. o \in Ids /\ o # None /\ metric[o].name = None /\ made \in Nat
    <2>1. made \in Nat /\ made < MaxMetrics
      BY <1>0 DEF TypeOK, InsertNew
    <2>2. o \in Ids
      BY <2>1, RegistryAssumption DEF Ids
    <2>3. o > made
      BY <2>1
    <2> QED
      BY <1>0, <2>1, <2>2, <2>3, IdsFacts DEF Global, Born
  <1>2. NewMetric(n) \in MetricType /\ r \in ClientType
    BY <1>1, RegistryAssumption DEF NewMetric, MetricType, ClientType, None
  <1>3. /\ client' = [client EXCEPT ![c] = r] /\ metric' = [metric EXCEPT ![o] = NewMetric(n)]
        /\ map' = [map EXCEPT ![n] = o] /\ made' = o
        /\ mode' = mode /\ lock' = lock /\ dir' = dir /\ tmp' = tmp /\ cached' = cached
        /\ image' = image
        /\ journal' = journal /\ flush' = flush /\ updates' = updates /\ crashes' = crashes
    BY DEF InsertNew
  <1>4. /\ client'[c] = r /\ \A d \in Clients \ {c} : client'[d] = client[d]
    BY <1>0, <1>3, TypeParts
  <1>5. /\ metric'[o] = NewMetric(n) /\ \A p \in Ids \ {o} : metric'[p] = metric[p]
        /\ map'[n] = o /\ \A m \in Names \ {n} : map'[m] = map[m]
    BY <1>0, <1>1, <1>3, TypeParts
  <1>6. NewMetric(n).name = n /\ ~NewMetric(n).deleted /\ NewMetric(n).held
    BY DEF NewMetric
  <1>7. TypeOK'
    <2>1. /\ metric' \in [Ids -> MetricType] /\ lock' \in [Ids -> Clients \cup {Nobody}]
          /\ map' \in [Names -> Ids \cup {None}]
          /\ dir' \in [Names -> Ids \cup {None}] /\ tmp' \in [Names -> Ids \cup {None}]
          /\ cached' \in [Names -> Ids \cup {None}]
          /\ image' \in [Ids -> ImageType] /\ updates' \in 0 .. MaxUpdates
      BY <1>0, <1>1, <1>2, <1>3, TypeParts
    <2>2. made' \in 0 .. MaxMetrics
      BY <1>1, <1>3 DEF Ids
    <2> HIDE DEF r, o
    <2> QED
      BY <1>0, <1>1, <1>2, <1>3, <2>1, <2>2, ClientTypeOK DEF r
  <1>8. \A d \in Clients : client[d].o # o
    BY <1>0, <1>1, Known, IdsFacts
  <1> HIDE DEF o
  <1>9. Local(c, n)
    <2>1. client[c].name \in {None, n} /\ client'[c].name = n
      BY <1>4
    <2>2. \A p \in Ids : metric[p].name # None => metric'[p] = metric[p]
      BY <1>1, <1>5
    <2>3. \A p \in Ids : metric[p].name = None => metric'[p].name \in {None, n}
      BY <1>5, <1>6
    <2>4. n # None
      BY IdsFacts
    <2> QED
      BY <1>3, <1>4, <1>5, <2>1, <2>2, <2>3, <2>4 DEF Local
  <1>10. Proper(c, n)
    BY <1>1, <1>4, <1>5, <1>6, IdsFacts DEF Proper
  <1>11. Born'
    <2>1. \A p \in Ids : p > made' => metric'[p].name = None
      <3> TAKE p \in Ids
      <3>1. p > o => p # o /\ p > made
        BY <1>1 DEF o, Ids
      <3> QED
        BY <1>0, <1>3, <1>5, <3>1 DEF Global, Born
    <2> QED
      BY <1>0, <1>1, <1>3, <1>5, <1>6, <2>1, BornKept
  <1>12. Locks'
    BY <1>0, <1>3, <1>4, <1>8, LocksKept DEF ReadingPc
  <1>13. Zombie(n)'
    BY <1>5, <1>6 DEF Zombie
  <1>14. ASSUME ~raced[n], ~raced'[n]
         PROVE  Sound(n)' /\ Going(n)' /\ Served(n)' /\ Streams(n)' /\ map'[n] # None
    <2>1. ~Races(n)' /\ Saving(map[n])' /\ map'[n] # None
      BY <1>0, <1>1, <1>4, <1>5, <1>14, WatchedFacts DEF Saving
    <2>2. ~Dropping(n)' /\ journal.name # n
      BY <1>3, <2>1 DEF Races
    <2>3. ~Dropping(n)
      BY <1>4, <2>2 DEF Dropping
    <2>4. dir[n] = None
      BY <1>0, <1>14, <2>3 DEF Calm
    <2>5. Sound(n)'
      BY <1>3, <2>2, <2>4 DEF Sound
    <2>6. Going(n)'
      BY <2>2 DEF Going, Dropping
    <2>7. BeingSaved(n)'
      <3>1. \A d \in Clients : client'[d].o = o => d = c
        BY <1>4, <1>8
      <3> QED
        BY <1>3, <1>4, <1>5, <1>6, <2>4, <3>1 DEF BeingSaved
    <2>8. Served(n)'
      BY <1>5, <1>6, <2>1, <2>7 DEF Served, InFile
    <2>9. Streams(n)'
      <3>1. Streams(n)
        BY <1>0, <1>14 DEF Calm
      <3> QED
        BY <1>0, <1>3, <1>4, <1>9, <3>1, StreamsKept
    <2> QED
      BY <2>1, <2>5, <2>6, <2>8, <2>9
  <1> QED
    BY <1>7, <1>9, <1>10, <1>11, <1>12, <1>13, <1>14, LocalStep

(* A search, for an update or a select, and a creation that finds the metric *)
(* there: the client moves, and nothing else does.                           *)
LEMMA StepMoves ==
  ASSUME RInv, NEW c \in Clients, NEW n \in Names, NEW r \in ClientType, Watched,
         client' = [client EXCEPT ![c] = r], mode = "running",
         client[c].pc \in {"idle", "insert"}, client[c].name \in {None, n},
         r.pc \in {"insert", "update"}, r.name = n, r.o \in {None, map[n]},
         r.o = None <=> r.pc = "insert", r.pc = "insert" => r.u > 0,
         updates' \in 0 .. MaxUpdates,
         UNCHANGED <<mode, made, metric, lock, map, files, flush, crashes>>
  PROVE  RInv'
  <1>0. TypeOK /\ Global /\ Calm(n) /\ Zombie(n)
    BY DEF RInv
  <1>1. TypeOK'
    BY <1>0, TypeParts, ClientTypeOK
  <1>2. client'[c] = r /\ \A d \in Clients \ {c} : client'[d] = client[d]
    BY <1>0, TypeParts
  <1>3. Local(c, n)
    BY <1>2 DEF Local
  <1>4. r.o # None => r.o \in Ids /\ metric[r.o].name = n /\ n # None
    BY <1>0, Known, IdsFacts
  <1>5. Proper(c, n)
    BY <1>2, <1>4, IdsFacts DEF Proper
  <1>6. Born'
    BY <1>0 DEF Global, Born
  <1>7. Locks'
    BY <1>0, <1>2, LocksKept DEF SavingPc, ReadingPc
  <1>8. Zombie(n)'
    <2>1. \A d \in Clients : client'[d].name = n =>
            client'[d] = client[d] \/ client'[d].pc \in {"insert", "update"}
      BY <1>2
    <2>2. \A d \in Clients : client'[d].pc \in ReadingPc => client'[d] = client[d]
      BY <1>2 DEF ReadingPc
    <2> QED
      BY <1>0, <2>1, <2>2 DEF Zombie, At2, ReadingPc
  <1>9. ASSUME ~raced[n], ~raced'[n]
        PROVE  /\ Sound(n)' /\ Going(n)' /\ Served(n)' /\ Streams(n)'
               /\ map'[n] = None /\ ~Dropping(n)' => dir'[n] = None
    <2>1. Sound(n) /\ Going(n) /\ Served(n) /\ Streams(n)
          /\ (map[n] = None /\ ~Dropping(n) => dir[n] = None)
      BY <1>0, <1>9 DEF Calm
    <2>2. \A d \in Clients : client'[d].pc \in SavingPc \cup {"delete"} \/ client[d].pc \in SavingPc \cup {"delete"}
            => client'[d] = client[d]
      BY <1>2 DEF SavingPc
    <2>3. Sound(n)'
      BY <2>1 DEF Sound, Dropped
    <2>4. Going(n)'
      BY <2>1, <2>2 DEF Going, At2
    <2>5. Dropping(n)' = Dropping(n)
      BY <2>2 DEF Dropping
    <2>6. Saving(map[n])' = Saving(map[n])
      BY <2>2 DEF Saving, SavingPc
    <2>7. BeingSaved(n) => BeingSaved(n)'
      <3> SUFFICES ASSUME BeingSaved(n), NEW d \in Clients, client'[d].o = map[n], client'[d].pc \in SavingPc
                   PROVE  /\ dir[n] = None
                          /\ client'[d].pc \in SavingPc \ {"rename"} => metric[map[n]].held
                          /\ client'[d].pc \in {"write", "rename"} => tmp[n] = client'[d].file
                          /\ client'[d].pc = "rename" =>
                               image[tmp[n]] = [whole |-> TRUE, ups |-> metric[map[n]].ups, deleted |-> FALSE]
        BY DEF BeingSaved
      <3>1. client'[d] = client[d]
        BY <2>2
      <3> QED
        BY <3>1 DEF BeingSaved
    <2>8. InFile(n) => InFile(n)'
      BY <2>6 DEF InFile, Upcoming, Writing, At2
    <2>9. Streams(n)'
      BY <1>0, <1>2, <1>3, <2>1, StreamsKept
    <2> QED
      BY <2>1, <2>3, <2>4, <2>5, <2>7, <2>8, <2>9 DEF Served
  <1> QED
    BY <1>1, <1>3, <1>5, <1>6, <1>7, <1>8, <1>9, LocalStep

(* An update that is about to create its metric has a number.                *)
LEMMA BornOf ==
  ASSUME RInv, NEW c \in Clients
  PROVE  /\ client[c].pc = "insert" => client[c].u > 0
         /\ client[c].pc = "idle" <=> client[c].name = None
  BY DEF RInv, Global, BornClient

LEMMA StepInsert ==
  ASSUME RInv, NEW c \in Clients, NEW n \in Names, NEW u \in 0 .. MaxUpdates,
         mode = "running", client[c].pc \in {"idle", "insert"}, client[c].name \in {None, n},
         u > 0 => client[c].pc = "insert" /\ client[c].name = n,
         Insert(c, n, u), Watched
  PROVE  RInv'
  <1>1. CASE map[n] = None /\ InsertNew(c, n, u)
    BY <1>1, StepInsertNew
  <1>2. CASE map[n] # None /\ u > 0
    <2> DEFINE r == [client[c] EXCEPT !.pc = "update", !.o = map[n]]
    <2>1. client[c] \in ClientType /\ map[n] \in Ids /\ updates \in 0 .. MaxUpdates
      BY <1>2, TypeParts DEF RInv
    <2>2. r \in ClientType /\ r.pc = "update" /\ r.name = n /\ r.o = map[n] /\ r.u > 0
      BY <1>2, <2>1, BornOf DEF ClientType
    <2>3. client' = [client EXCEPT ![c] = r]
          /\ UNCHANGED <<mode, made, metric, lock, map, files, flush, updates, crashes>>
      BY <1>2 DEF Insert
    <2> HIDE DEF r
    <2> QED
      BY <1>2, <2>1, <2>2, <2>3, StepMoves
  <1> QED
    BY <1>1, <1>2 DEF Insert

LEMMA StepCreate ==
  ASSUME RInv, NEW c \in Clients, NEW n \in Names, Create(c, n), Watched
  PROVE  RInv'
  <1>1. client[c].pc = "idle" /\ client[c].name = None /\ mode = "running" /\ Insert(c, n, 0)
    BY DEF Create, At, RInv, Global, BornClient
  <1>2. 0 \in 0 .. MaxUpdates
    BY RegistryAssumption
  <1> QED
    BY <1>1, <1>2, StepInsert

LEMMA StepAutoCreate ==
  ASSUME RInv, NEW c \in Clients, AutoCreate(c), Watched
  PROVE  RInv'
  <1>1. client[c].pc = "insert" /\ mode = "running" /\ Insert(c, client[c].name, client[c].u)
    BY DEF AutoCreate, At
  <1>2. client[c].name \in Names /\ client[c].u \in 0 .. MaxUpdates
    BY <1>1, TypeParts DEF RInv, Global, BornClient, ClientType
  <1> QED
    BY <1>1, <1>2, StepInsert

LEMMA StepFind ==
  ASSUME RInv, NEW c \in Clients, NEW n \in Names, Find(c, n), Watched
  PROVE  RInv'
  <1> DEFINE r == [pc |-> IF map[n] = None THEN "insert" ELSE "update",
                   name |-> n, o |-> map[n], u |-> updates + 1, file |-> None]
  <1>1. updates + 1 \in 0 .. MaxUpdates /\ updates + 1 > 0 /\ map[n] \in Ids \cup {None}
    BY RegistryAssumption, TypeParts DEF RInv, Find
  <1>2. r \in ClientType
    BY <1>1 DEF ClientType
  <1>3. client' = [client EXCEPT ![c] = r] /\ updates' = updates + 1 /\ mode = "running"
        /\ client[c].pc = "idle"
        /\ UNCHANGED <<mode, made, metric, lock, map, files, flush, crashes>>
    BY DEF Find, At
  <1>4. client[c].name = None
    BY <1>3 DEF RInv, Global, BornClient
  <1>5. /\ r.pc \in {"insert", "update"} /\ r.name = n /\ r.o = map[n]
        /\ r.o = None <=> r.pc = "insert"
        /\ r.u > 0
    BY <1>1
  <1> HIDE DEF r
  <1> QED
    BY <1>1, <1>2, <1>3, <1>4, <1>5, StepMoves

LEMMA StepSelect ==
  ASSUME RInv, NEW c \in Clients, NEW n \in Names, Select(c, n), Watched
  PROVE  RInv'
  <1> DEFINE r == [pc |-> "update", name |-> n, o |-> map[n], u |-> 0, file |-> None]
  <1>1. updates + 1 \in 0 .. MaxUpdates /\ 0 \in 0 .. MaxUpdates /\ map[n] \in Ids /\ map[n] # None
    BY RegistryAssumption, TypeParts DEF RInv, Select
  <1>2. r \in ClientType
    BY <1>1 DEF ClientType
  <1>3. client' = [client EXCEPT ![c] = r] /\ updates' = updates + 1 /\ mode = "running"
        /\ client[c].pc = "idle"
        /\ UNCHANGED <<mode, made, metric, lock, map, files, flush, crashes>>
    BY DEF Select, At
  <1>4. client[c].name = None
    BY <1>3 DEF RInv, Global, BornClient
  <1>5. r.pc = "update" /\ r.name = n /\ r.o = map[n]
    OBVIOUS
  <1> HIDE DEF r
  <1> QED
    BY <1>1, <1>2, <1>3, <1>4, <1>5, StepMoves

LEMMA StepDrop ==
  ASSUME RInv, NEW c \in Clients, NEW n \in Names, Drop(c, n), Watched
  PROVE  RInv'
  <1>0. TypeOK /\ Global /\ Calm(n)
    BY DEF RInv
  <1>a. PICK o \in Ids : o = map[n]
    BY <1>0, Known DEF Drop
  <1> DEFINE r == [pc |-> "delete", name |-> n, o |-> o, u |-> 0, file |-> None]
  <1>1. o \in Ids /\ o # None /\ metric[o].name = n /\ n # None /\ map[n] = o
    BY <1>0, <1>a, Known, IdsFacts DEF Drop
  <1>2. r \in ClientType /\ client[c].pc = "idle" /\ mode = "running"
    BY <1>1, RegistryAssumption DEF ClientType, None, Drop, At
  <1>3. /\ client' = [client EXCEPT ![c] = r] /\ map' = [map EXCEPT ![n] = None]
        /\ UNCHANGED <<mode, made, metric, lock, files, flush, updates, crashes>>
    BY <1>1 DEF Drop
  <1>4. /\ client'[c] = r /\ \A d \in Clients \ {c} : client'[d] = client[d]
        /\ map'[n] = None /\ \A m \in Names \ {n} : map'[m] = map[m]
        /\ map' \in [Names -> Ids \cup {None}] /\ client[c].name = None
    BY <1>0, <1>2, <1>3, TypeParts, BornOf
  <1>5. /\ r.pc = "delete" /\ r.name = n /\ r.o = o
    OBVIOUS
  <1> HIDE DEF r
  <1>6. TypeOK'
    BY <1>0, <1>1, <1>2, <1>3, <1>4, <1>5, ClientTypeOK, TypeParts
  <1>7. Local(c, n)
    BY <1>2, <1>3, <1>4, <1>5 DEF Local
  <1>8. Proper(c, n)
    BY <1>1, <1>2, <1>3, <1>4, <1>5 DEF Proper, Deletes
  <1>9. Born'
    <2>1. \A p \in Ids : p > made' => metric'[p].name = None
      BY <1>0, <1>3 DEF Global, Born
    <2>2. \A m \in Names : map'[m] \in {None, map[m]}
      BY <1>4
    <2> QED
      BY <1>0, <1>3, <2>1, <2>2, BornKept
  <1>10. Locks'
    BY <1>0, <1>2, <1>3, <1>4, <1>5, LocksKept DEF SavingPc, ReadingPc
  <1>11. Zombie(n)'
    BY <1>4 DEF Zombie
  <1>12. ASSUME ~raced[n], ~raced'[n]
         PROVE  Sound(n)' /\ Going(n)' /\ Served(n)' /\ Streams(n)' /\ Dropping(n)'
    <2>1. ~Races(n) /\ ~Races(n)' /\ Sound(n) /\ Served(n) /\ Streams(n)
      BY <1>0, <1>12, WatchedFacts DEF Calm
    <2>2. ~Dropping(n) /\ (At2(n) => flush.o = o)
      BY <1>0, <1>1, <2>1, NoRace
    <2>3. Saving(o)' = Saving(o)
      BY <1>2, <1>4, <1>5 DEF Saving
    <2>4. ~Saving(o)
      BY <1>1, <1>3, <1>4, <2>1, <2>3 DEF Races
    <2>5. dir[n] # None /\ ~metric[o].deleted
      BY <1>1, <2>1, <2>4 DEF Served, InFile
    <2>6. Sound(n)'
      BY <1>3, <2>1 DEF Sound, Dropped
    <2>7. \A d \in Clients : client'[d].pc = "delete" /\ client'[d].name = n => d = c
      BY <1>4, <2>2 DEF Dropping
    <2>8. Going(n)'
      BY <1>3, <1>4, <1>5, <2>2, <2>5, <2>7 DEF Going, At2
    <2>9. Served(n)'
      BY <1>4 DEF Served
    <2>10. Dropping(n)'
      BY <1>4, <1>5 DEF Dropping
    <2>11. Streams(n)'
      BY <1>0, <1>3, <1>4, <1>5, <1>7, <2>1, StreamsKept
    <2> QED
      BY <2>6, <2>8, <2>9, <2>10, <2>11
  <1> QED
    BY <1>6, <1>7, <1>8, <1>9, <1>10, <1>11, <1>12, LocalStep

-----------------------------------------------------------------------------
(* What a saver finds.                                                       *)
SaverFacts(c, n, o) ==
  /\ n # None /\ o # None /\ metric[o].name = n
  /\ client[c].pc \in {"write", "rename"} =>
       client[c].file \in Ids /\ client[c].file # None /\ metric[client[c].file].name = n
  /\ \A d \in Clients \ {c} : client[d].pc \in SavingPc => client[d].o # o
  /\ map[n] = None \/ ~metric[map[n]].deleted
  /\ ~raced[n] =>
       /\ map[n] = o /\ metric[o].deleted = FALSE /\ dir[n] = None /\ ~Dropping(n)
       /\ journal.name # n /\ ~At2(n)
       /\ client[c].pc # "rename" => metric[o].held
       /\ client[c].pc \in {"write", "rename"} => tmp[n] = client[c].file
       /\ client[c].pc = "rename" =>
            image[tmp[n]] = [whole |-> TRUE, ups |-> metric[o].ups, deleted |-> FALSE]

LEMMA Saver ==
  ASSUME RInv, NEW c \in Clients, NEW n \in Names, NEW o \in Ids, client[c].pc \in SavingPc,
         n = client[c].name, o = client[c].o
  PROVE  SaverFacts(c, n, o)
  <1>0. TypeOK /\ Global
    BY DEF RInv
  <1>1. n \in Names /\ n # None /\ o \in Ids /\ o # None /\ metric[o].name = n
    BY <1>0, Known, IdsFacts
  <1>2. client[c].pc \in {"write", "rename"} =>
              client[c].file \in Ids /\ client[c].file # None /\ metric[client[c].file].name = n
    BY <1>0, TypeParts DEF ClientType, Global, BornClient
  <1>3. \A d \in Clients \ {c} : client[d].pc \in SavingPc => client[d].o # o
    BY <1>0 DEF Global, Locks
  <1>4. map[n] = None \/ ~metric[map[n]].deleted
    <2>1. Zombie(n)
      BY <1>1 DEF RInv
    <2> QED
      BY <2>1 DEF Zombie, SavingPc, ReadingPc
  <1>5. ASSUME ~raced[n]
        PROVE /\ map[n] = o /\ metric[o].deleted = FALSE /\ dir[n] = None /\ ~Dropping(n)
              /\ journal.name # n /\ ~At2(n)
              /\ client[c].pc # "rename" => metric[o].held
              /\ client[c].pc \in {"write", "rename"} => tmp[n] = client[c].file
              /\ client[c].pc = "rename" =>
                   image[tmp[n]] = [whole |-> TRUE, ups |-> metric[o].ups, deleted |-> FALSE]
    <2>1. ~Races(n) /\ Served(n)
      BY <1>1, <1>5 DEF Calm, RInv
    <2>2. map[n] = o /\ flush.o # o /\ journal.name # n
      BY <1>0, <1>1, <2>1, NoRace
    <2>3. ~Dropping(n) /\ ~At2(n)
      BY <1>0, <1>1, <2>1, <2>2, NoRace
    <2>4. metric[o].deleted \in BOOLEAN
      BY <1>0, TypeParts DEF MetricType
    <2> QED
      BY <1>1, <2>1, <2>2, <2>3, <2>4 DEF Served, BeingSaved
  <1> QED
    BY <1>1, <1>2, <1>3, <1>4, <1>5 DEF SaverFacts

(* Without a dropper, and without a file.                                    *)
LEMMA Alone ==
  ASSUME NEW c \in Clients, NEW n \in Names, ~Dropping(n),
         \A d \in Clients \ {c} : client'[d] = client[d], client'[c].pc # "delete"
  PROVE  ~Dropping(n)' /\ Going(n)'
  BY DEF Dropping, Going

(* When nobody can see the metric of a name that is being saved.             *)
LEMMA ServedWhileSaved ==
  ASSUME NEW c \in Clients, NEW n \in Names, NEW o \in Ids, map'[n] = o,
         client'[c].o = o, client'[c].pc \in SavingPc,
         \A d \in Clients : client'[d].o = o /\ client'[d].pc \in SavingPc => d = c,
         ~metric'[o].deleted, dir'[n] = None,
         client'[c].pc # "rename" => metric'[o].held,
         client'[c].pc \in {"write", "rename"} => tmp'[n] = client'[c].file,
         client'[c].pc = "rename" =>
           image'[tmp'[n]] = [whole |-> TRUE, ups |-> metric'[o].ups, deleted |-> FALSE]
  PROVE  Served(n)'
  <1>1. Saving(map[n])'
    BY DEF Saving, SavingPc
  <1>2. BeingSaved(n)'
    BY DEF BeingSaved
  <1> QED
    BY <1>1, <1>2 DEF Served, InFile

LEMMA StepSaveCheck ==
  ASSUME RInv, NEW c \in Clients, SaveCheck(c), Watched
  PROVE  RInv'
  <1>0. TypeOK /\ Global
    BY DEF RInv
  <1>1. client[c].pc = "save" /\ client[c].pc \in SavingPc /\ mode = "running"
    BY DEF SaveCheck, At, SavingPc
  <1>2. PICK n \in Names, o \in Ids : n = client[c].name /\ o = client[c].o
    BY <1>0, <1>1, Known
  <1>3. /\ n # None /\ o # None /\ metric[o].name = n
        /\ \A d \in Clients \ {c} : client[d].pc \in SavingPc => client[d].o # o
        /\ map[n] = None \/ ~metric[map[n]].deleted
        /\ ~raced[n] =>
              /\ map[n] = o /\ metric[o].deleted = FALSE /\ dir[n] = None /\ ~Dropping(n)
              /\ journal.name # n /\ metric[o].held
    <2>1. SaverFacts(c, n, o)
      BY <1>1, <1>2, Saver
    <2> QED
      BY <1>1, <1>2, <2>1 DEF SaverFacts
  <1>4. UNCHANGED <<mode, made, metric, lock, map, files, flush, updates, crashes>>
    BY DEF SaveCheck
  <1>5. PICK r : /\ r \in ClientType /\ client' = [client EXCEPT ![c] = r]
                 /\ (r = IdleClient /\ metric[o].deleted)
                    \/ (r.pc = "opentmp" /\ r.name = n /\ r.o = o)
    <2>1. CASE metric[o].deleted
      <3>1. client' = [client EXCEPT ![c] = IdleClient]
        BY <1>2, <2>1 DEF SaveCheck, Done
      <3> QED
        BY <2>1, <3>1, Shapes
    <2>2. CASE ~metric[o].deleted
      <3> DEFINE r == [client[c] EXCEPT !.pc = "opentmp"]
      <3>1. client' = [client EXCEPT ![c] = r]
        BY <1>2, <2>2 DEF SaveCheck, Goto
      <3>2. r \in ClientType /\ r.pc = "opentmp" /\ r.name = n /\ r.o = o
        BY <1>0, <1>2, TypeParts DEF ClientType
      <3> QED
        BY <3>1, <3>2
    <2> QED
      BY <2>1, <2>2
  <1>6. client'[c] = r /\ \A d \in Clients \ {c} : client'[d] = client[d]
    BY <1>0, <1>5, TypeParts
  <1>7. TypeOK'
    <2>1. r.o = None <=> r.pc \in {"idle", "insert"}
      BY <1>3, <1>5 DEF IdleClient
    <2> QED
      BY <1>0, <1>4, <1>5, <2>1, ClientTypeOK, TypeParts
  <1>8. Local(c, n)
    BY <1>1, <1>2, <1>4, <1>5, <1>6 DEF Local, IdleClient
  <1>9. Proper(c, n)
    BY <1>1, <1>3, <1>4, <1>5, <1>6 DEF Proper, IdleClient
  <1>10. Born' /\ Zombie(n)'
    BY <1>0, <1>3, <1>4 DEF Global, Born, Zombie
  <1>11. Locks'
    BY <1>0, <1>1, <1>3, <1>4, <1>5, <1>6, LocksKept DEF IdleClient, SavingPc, ReadingPc
  <1>12. ASSUME ~raced[n], ~raced'[n]
         PROVE  Sound(n)' /\ Going(n)' /\ Served(n)' /\ Streams(n)' /\ map'[n] # None
    <2>1. r.pc = "opentmp" /\ r.o = o
      BY <1>3, <1>5, <1>12
    <2>2. Calm(n)
      BY DEF RInv
    <2>3. Sound(n)' /\ Streams(n)'
      BY <1>0, <1>3, <1>4, <1>6, <1>8, <1>12, <2>1, <2>2, StreamsKept DEF Calm, Sound, Dropped
    <2>4. Going(n)'
      BY <1>3, <1>6, <1>12, <2>1, Alone
    <2>5. \A d \in Clients : client'[d].o = o /\ client'[d].pc \in SavingPc => d = c
      BY <1>3, <1>6
    <2>6. Served(n)'
      BY <1>3, <1>4, <1>6, <1>12, <2>1, <2>5, ServedWhileSaved DEF SavingPc
    <2> QED
      BY <1>3, <1>4, <1>12, <2>3, <2>4, <2>6
  <1> QED
    BY <1>7, <1>8, <1>9, <1>10, <1>11, <1>12, LocalStep

LEMMA StepSaveOpen ==
  ASSUME RInv, NEW c \in Clients, SaveOpen(c), Watched
  PROVE  RInv'
  <1>0. TypeOK /\ Global
    BY DEF RInv
  <1>1. client[c].pc = "opentmp" /\ client[c].pc \in SavingPc /\ mode = "running"
    BY DEF SaveOpen, At, SavingPc
  <1>2. PICK n \in Names, o \in Ids : n = client[c].name /\ o = client[c].o
    BY <1>0, <1>1, Known
  <1>3. /\ n # None /\ o # None /\ metric[o].name = n
        /\ \A d \in Clients \ {c} : client[d].pc \in SavingPc => client[d].o # o
        /\ map[n] = None \/ ~metric[map[n]].deleted
        /\ ~raced[n] =>
              /\ map[n] = o /\ metric[o].deleted = FALSE /\ dir[n] = None /\ ~Dropping(n)
              /\ journal.name # n /\ metric[o].held
    <2>1. SaverFacts(c, n, o)
      BY <1>1, <1>2, Saver
    <2> QED
      BY <1>1, <1>2, <2>1 DEF SaverFacts
  <1>4. UNCHANGED <<mode, made, metric, lock, map, dir, cached, journal, flush, updates, crashes>>
    BY DEF SaveOpen
  <1>5. PICK i \in Ids : i = IF tmp[n] = None THEN o ELSE tmp[n]
    BY <1>0, Known
  <1>6. i # None /\ metric[i].name = n
    BY <1>0, <1>3, <1>5, Known
  <1> DEFINE r == [client[c] EXCEPT !.pc = "write", !.file = i]
  <1>7. /\ tmp' = [tmp EXCEPT ![n] = i] /\ image' = [image EXCEPT ![i] = Blank]
        /\ client' = [client EXCEPT ![c] = r]
    BY <1>2, <1>5 DEF SaveOpen
  <1>8. r \in ClientType /\ r.pc = "write" /\ r.name = n /\ r.o = o /\ r.file = i
    BY <1>0, <1>2, TypeParts DEF ClientType
  <1> HIDE DEF r
  <1>9. /\ client'[c] = r /\ \A d \in Clients \ {c} : client'[d] = client[d]
        /\ tmp'[n] = i /\ \A m \in Names \ {n} : tmp'[m] = tmp[m]
        /\ \A j \in Ids \ {i} : image'[j] = image[j]
        /\ tmp' \in [Names -> Ids \cup {None}] /\ image' \in [Ids -> ImageType]
    BY <1>0, <1>7, TypeParts, Shapes
  <1>10. TypeOK'
    BY <1>0, <1>3, <1>4, <1>7, <1>8, <1>9, ClientTypeOK, TypeParts
  <1>11. Local(c, n)
    BY <1>1, <1>2, <1>4, <1>6, <1>8, <1>9 DEF Local
  <1>12. Proper(c, n)
    BY <1>1, <1>3, <1>4, <1>6, <1>8, <1>9 DEF Proper
  <1>13. Born'
    <2>1. \A p \in Ids : p > made' => metric'[p].name = None
      BY <1>0, <1>4 DEF Global, Born
    <2>2. \A m \in Names : tmp'[m] \in {None, tmp[m]} \/ metric'[tmp'[m]].name = m
      BY <1>4, <1>6, <1>9
    <2> QED
      BY <1>0, <1>4, <2>1, <2>2, BornKept
  <1>14. Zombie(n)'
    BY <1>3, <1>4 DEF Zombie
  <1>15. Locks'
    BY <1>0, <1>1, <1>3, <1>4, <1>8, <1>9, LocksKept DEF SavingPc, ReadingPc
  <1>16. ASSUME ~raced[n], ~raced'[n]
         PROVE  Sound(n)' /\ Going(n)' /\ Served(n)' /\ Streams(n)' /\ map'[n] # None
    <2>1. Sound(n)'
      BY <1>3, <1>4, <1>16 DEF Sound
    <2>2. Going(n)'
      BY <1>3, <1>8, <1>9, <1>16, Alone
    <2>3. \A d \in Clients : client'[d].o = o /\ client'[d].pc \in SavingPc => d = c
      BY <1>3, <1>9
    <2>4. /\ map'[n] = o /\ ~metric'[o].deleted /\ dir'[n] = None /\ metric'[o].held
          /\ client'[c].o = o /\ client'[c].pc = "write" /\ tmp'[n] = client'[c].file
      BY <1>3, <1>4, <1>8, <1>9, <1>16
    <2>5. Served(n)'
      BY <2>3, <2>4, ServedWhileSaved DEF SavingPc
    <2>6. Streams(n)'
      <3>1. Calm(n)
        BY DEF RInv
      <3> QED
        BY <1>0, <1>4, <1>8, <1>9, <1>11, <1>16, <3>1, StreamsKept DEF Calm
    <2> QED
      BY <1>3, <1>4, <1>16, <2>1, <2>2, <2>5, <2>6
  <1> QED
    BY <1>10, <1>11, <1>12, <1>13, <1>14, <1>15, <1>16, LocalStep

LEMMA StepSaveWrite ==
  ASSUME RInv, NEW c \in Clients, SaveWrite(c), Watched
  PROVE  RInv'
  <1>0. TypeOK /\ Global
    BY DEF RInv
  <1>1. client[c].pc = "write" /\ client[c].pc \in SavingPc /\ mode = "running"
    BY DEF SaveWrite, At, SavingPc
  <1>2. PICK n \in Names, o \in Ids, i \in Ids : n = client[c].name /\ o = client[c].o /\ i = client[c].file
    <2>1. client[c].o \in Ids /\ client[c].name \in Names
      BY <1>0, <1>1, Known
    <2>2. client[c].file \in Ids
      BY <1>0, <1>1, TypeParts DEF Global, BornClient, ClientType
    <2> QED
      BY <2>1, <2>2
  <1>3. /\ n # None /\ o # None /\ metric[o].name = n /\ i # None /\ metric[i].name = n
        /\ \A d \in Clients \ {c} : client[d].pc \in SavingPc => client[d].o # o
        /\ map[n] = None \/ ~metric[map[n]].deleted
        /\ ~raced[n] =>
              /\ map[n] = o /\ metric[o].deleted = FALSE /\ dir[n] = None /\ ~Dropping(n)
              /\ journal.name # n /\ tmp[n] = i
    <2>1. SaverFacts(c, n, o)
      BY <1>1, <1>2, Saver
    <2> QED
      BY <1>1, <1>2, <2>1 DEF SaverFacts
  <1> DEFINE r == [client[c] EXCEPT !.pc = "rename"]
             x == [whole |-> TRUE, ups |-> metric[o].ups, deleted |-> metric[o].deleted]
             y == [metric[o] EXCEPT !.dirty = FALSE, !.held = FALSE]
  <1>4. /\ client' = [client EXCEPT ![c] = r] /\ image' = [image EXCEPT ![i] = x]
        /\ metric' = [metric EXCEPT ![o] = y]
        /\ dir' = [dir EXCEPT ![n] = None] /\ cached' = [cached EXCEPT ![n] = None]
        /\ lock' = [lock EXCEPT ![o] = c]
        /\ lock[o] = Nobody
        /\ UNCHANGED <<mode, made, map, tmp, journal, flush, updates, crashes>>
    BY <1>2 DEF SaveWrite, Goto, Unlocked
  <1>5. /\ r \in ClientType /\ r.pc = "rename" /\ r.name = n /\ r.o = o /\ r.file = i
        /\ x \in ImageType
        /\ y \in MetricType /\ y.name = n /\ y.deleted = metric[o].deleted /\ y.ups = metric[o].ups
    <2>1. client[c] \in ClientType /\ metric[o] \in MetricType
      BY <1>0, TypeParts
    <2>2. r \in ClientType /\ r.pc = "rename" /\ r.name = n /\ r.o = o /\ r.file = i
      BY <1>2, <2>1 DEF ClientType
    <2>3. x \in ImageType
      BY <2>1 DEF ImageType, MetricType
    <2>4. y \in MetricType /\ y.name = n /\ y.deleted = metric[o].deleted /\ y.ups = metric[o].ups
      BY <1>3, <2>1 DEF MetricType
    <2> QED
      BY <2>2, <2>3, <2>4
  <1>6. x = [whole |-> TRUE, ups |-> metric[o].ups, deleted |-> metric[o].deleted]
    OBVIOUS
  <1> HIDE DEF r, x, y
  <1>7. /\ client'[c] = r /\ \A d \in Clients \ {c} : client'[d] = client[d]
        /\ image'[i] = x /\ \A j \in Ids \ {i} : image'[j] = image[j]
        /\ metric'[o] = y /\ \A p \in Ids \ {o} : metric'[p] = metric[p]
        /\ dir'[n] = None /\ \A m \in Names \ {n} : dir'[m] = dir[m]
        /\ cached'[n] = None /\ \A m \in Names \ {n} : cached'[m] = cached[m]
        /\ lock'[o] = c /\ \A p \in Ids \ {o} : lock'[p] = lock[p]
    BY <1>0, <1>4, <1>5, TypeParts
  <1>8. TypeOK'
    <2>1. /\ metric' \in [Ids -> MetricType] /\ lock' \in [Ids -> Clients \cup {Nobody}]
          /\ dir' \in [Names -> Ids \cup {None}] /\ image' \in [Ids -> ImageType]
          /\ cached' \in [Names -> Ids \cup {None}]
      BY <1>0, <1>4, <1>5, TypeParts
    <2> QED
      BY <1>0, <1>3, <1>4, <1>5, <2>1, ClientTypeOK, TypeParts
  <1>9. Local(c, n)
    BY <1>1, <1>2, <1>3, <1>4, <1>5, <1>7 DEF Local
  <1>10. Proper(c, n)
    BY <1>1, <1>3, <1>4, <1>5, <1>7 DEF Proper
  <1>11. \A p \in Ids : metric'[p].name = metric[p].name /\ metric'[p].deleted = metric[p].deleted
    BY <1>3, <1>5, <1>7
  <1>12. Born'
    <2>1. \A p \in Ids : p > made' => metric'[p].name = None
      BY <1>0, <1>4, <1>11 DEF Global, Born
    <2>2. \A m \in Names : dir'[m] \in {None, dir[m], tmp[m]}
      BY <1>7
    <2> QED
      BY <1>0, <1>4, <1>11, <2>1, <2>2, BornKept
  <1>13. Zombie(n)'
    <2>1. map[n] = None \/ map[n] \in Ids
      BY <1>0, Known
    <2> QED
      BY <1>3, <1>4, <1>11, <2>1 DEF Zombie
  <1>14. Locks'
    <2>1. \A d \in Clients : ~Holds(d, o)
      <3>1. \A d \in Clients : d # Nobody
        BY RegistryAssumption
      <3> QED
        BY <1>0, <1>4, <3>1 DEF Global, Locks
    <2>2. \A p \in Ids, d \in Clients : lock'[p] = d <=> Holds(d, p)'
      <3> TAKE p \in Ids, d \in Clients
      <3>0. (lock[p] = d <=> Holds(d, p)) /\ ~Holds(d, o) /\ ~Holds(c, p) /\ (Holds(c, p)' <=> p = o)
        BY <1>0, <1>1, <1>5, <1>7, <2>1 DEF Global, Locks, Holds, ReadingPc
      <3>1. d # c => Holds(d, p)' = Holds(d, p)
        BY <1>7 DEF Holds
      <3> QED
        BY <1>7, <3>0, <3>1
    <2>3. \A d, e \in Clients :
            client'[d].pc \in SavingPc /\ client'[e].pc \in SavingPc /\ client'[d].o = client'[e].o => d = e
      <3>1. \A d \in Clients : client'[d].o = client[d].o /\ (client'[d].pc \in SavingPc <=> client[d].pc \in SavingPc)
        BY <1>1, <1>2, <1>5, <1>7 DEF SavingPc
      <3> QED
        BY <1>0, <3>1 DEF Global, Locks
    <2> QED
      BY <2>2, <2>3 DEF Locks
  <1>15. ASSUME ~raced[n], ~raced'[n]
         PROVE  Sound(n)' /\ Going(n)' /\ Served(n)' /\ Streams(n)' /\ map'[n] # None
    <2>1. Sound(n)'
      BY <1>3, <1>4, <1>7, <1>15 DEF Sound
    <2>2. Going(n)'
      BY <1>3, <1>5, <1>7, <1>15, Alone
    <2>3. \A d \in Clients : client'[d].o = o /\ client'[d].pc \in SavingPc => d = c
      BY <1>3, <1>7
    <2>4. image'[tmp'[n]] = [whole |-> TRUE, ups |-> metric'[o].ups, deleted |-> FALSE]
      <3>1. tmp'[n] = i /\ metric[o].deleted = FALSE
        BY <1>3, <1>4, <1>15
      <3>2. image'[i] = x /\ metric'[o].ups = metric[o].ups
        BY <1>5, <1>7
      <3> QED
        BY <1>6, <3>1, <3>2
    <2>5. Served(n)'
      BY <1>3, <1>4, <1>5, <1>7, <1>15, <2>3, <2>4, ServedWhileSaved DEF SavingPc
    <2>6. Streams(n)'
      BY <1>7 DEF Streams
    <2> QED
      BY <1>3, <1>4, <1>15, <2>1, <2>2, <2>5, <2>6
  <1> QED
    BY <1>8, <1>9, <1>10, <1>12, <1>13, <1>14, <1>15, LocalStep

LEMMA StepSaveFails ==
  ASSUME RInv, NEW c \in Clients, SaveFails(c), Watched
  PROVE  RInv'
  <1>0. TypeOK /\ Global
    BY DEF RInv
  <1>1. client[c].pc = "write" /\ client[c].pc \in SavingPc /\ mode = "running"
    BY DEF SaveFails, At, SavingPc
  <1>2. PICK n \in Names, o \in Ids : n = client[c].name /\ o = client[c].o
    BY <1>0, <1>1, Known
  <1>3. SaverFacts(c, n, o)
    BY <1>1, <1>2, Saver
  <1> DEFINE y == [metric[o] EXCEPT !.dirty = TRUE]
  <1>4. /\ client' = [client EXCEPT ![c] = IdleClient] /\ metric' = [metric EXCEPT ![o] = y]
        /\ ~metric[o].held
        /\ UNCHANGED <<mode, made, lock, map, files, flush, updates, crashes>>
    BY <1>2 DEF SaveFails, Done
  <1>5. y \in MetricType /\ y.name = metric[o].name /\ y.deleted = metric[o].deleted
    <2>1. metric[o] \in MetricType
      BY <1>0, TypeParts
    <2> QED
      BY <2>1 DEF MetricType
  <1> HIDE DEF y
  <1>6. /\ client'[c] = IdleClient /\ \A d \in Clients \ {c} : client'[d] = client[d]
        /\ metric'[o] = y /\ \A p \in Ids \ {o} : metric'[p] = metric[p]
        /\ metric' \in [Ids -> MetricType]
    BY <1>0, <1>4, <1>5, TypeParts
  <1>7. TypeOK'
    BY <1>0, <1>4, <1>6, Shapes, ClientTypeOK, TypeParts DEF IdleClient
  <1>8. metric[o].name = n /\ n # None
    BY <1>3 DEF SaverFacts
  <1>9. Local(c, n)
    BY <1>1, <1>2, <1>4, <1>5, <1>6, <1>8 DEF Local, IdleClient
  <1>10. Proper(c, n)
    BY <1>1, <1>4, <1>6 DEF Proper, IdleClient
  <1>11. \A p \in Ids : metric'[p].name = metric[p].name /\ metric'[p].deleted = metric[p].deleted
    BY <1>5, <1>6
  <1>12. Born'
    <2>1. \A p \in Ids : p > made' => metric'[p].name = None
      BY <1>0, <1>4, <1>11 DEF Global, Born
    <2> QED
      BY <1>0, <1>4, <1>11, <2>1, BornKept
  <1>13. Zombie(n)'
    <2>1. map[n] = None \/ map[n] \in Ids
      BY <1>0, Known
    <2> QED
      BY <1>3, <1>4, <1>11, <2>1 DEF Zombie, SaverFacts
  <1>14. Locks'
    BY <1>0, <1>1, <1>4, <1>6, LocksKept DEF IdleClient, SavingPc, ReadingPc
  <1>15. raced[n]
    BY <1>1, <1>3, <1>4 DEF SaverFacts
  <1> QED
    BY <1>7, <1>9, <1>10, <1>12, <1>13, <1>14, <1>15, LocalStep

LEMMA StepSaveRename ==
  ASSUME RInv, NEW c \in Clients, SaveRename(c), Watched
  PROVE  RInv'
  <1>0. TypeOK /\ Global
    BY DEF RInv
  <1>1. client[c].pc = "rename" /\ client[c].pc \in SavingPc /\ mode = "running"
    BY DEF SaveRename, At, SavingPc
  <1>2. PICK n \in Names, o \in Ids : n = client[c].name /\ o = client[c].o
    BY <1>0, <1>1, Known
  <1>3. SaverFacts(c, n, o)
    BY <1>1, <1>2, Saver
  <1>4. PICK r : /\ r \in ClientType /\ client' = [client EXCEPT ![c] = r]
                 /\ \/ r = IdleClient
                    \/ /\ r.pc = "update" /\ r.name = n /\ r.o = o /\ tmp[n] # None
    <2>1. client[c] \in ClientType
      BY <1>0, TypeParts
    <2>2. CASE tmp[n] # None /\ client[c].u > 0
      <3> DEFINE r == [client[c] EXCEPT !.pc = "update"]
      <3>1. client' = [client EXCEPT ![c] = r]
        BY <1>2, <2>2 DEF SaveRename, Goto
      <3>2. r \in ClientType /\ r.pc = "update" /\ r.name = n /\ r.o = o /\ r.u > 0
        BY <1>2, <2>1, <2>2 DEF ClientType
      <3> QED
        BY <2>2, <3>1, <3>2
    <2>3. CASE ~(tmp[n] # None /\ client[c].u > 0)
      <3>1. client' = [client EXCEPT ![c] = IdleClient]
        BY <1>2, <2>3 DEF SaveRename, Done
      <3> QED
        BY <3>1, Shapes
    <2> QED
      BY <2>2, <2>3
  <1>5. /\ lock' = [lock EXCEPT ![o] = Nobody]
        /\ UNCHANGED <<mode, made, map, image, cached, journal, flush, updates, crashes>>
    BY <1>2 DEF SaveRename
  <1>6. \/ /\ tmp[n] # None /\ dir' = [dir EXCEPT ![n] = tmp[n]] /\ tmp' = [tmp EXCEPT ![n] = None]
           /\ metric' = metric
        \/ /\ tmp[n] = None /\ dir' = dir /\ tmp' = tmp
           /\ metric' = [metric EXCEPT ![o] = [metric[o] EXCEPT !.dirty = TRUE]]
    BY <1>2 DEF SaveRename
  <1>7. /\ metric' \in [Ids -> MetricType]
        /\ \A p \in Ids \ {o} : metric'[p] = metric[p]
        /\ metric'[o].name = metric[o].name /\ metric'[o].deleted = metric[o].deleted
    <2>1. metric \in [Ids -> MetricType] /\ metric[o] \in MetricType
      BY <1>0, TypeParts
    <2>2. [metric[o] EXCEPT !.dirty = TRUE] \in MetricType
          /\ [metric[o] EXCEPT !.dirty = TRUE].name = metric[o].name
          /\ [metric[o] EXCEPT !.dirty = TRUE].deleted = metric[o].deleted
      BY <2>1 DEF MetricType
    <2> QED
      BY <1>6, <2>1, <2>2
  <1>8. /\ client'[c] = r /\ \A d \in Clients \ {c} : client'[d] = client[d]
        /\ dir'[n] = IF tmp[n] # None THEN tmp[n] ELSE dir[n]
        /\ tmp'[n] = None
        /\ \A m \in Names \ {n} : dir'[m] = dir[m] /\ tmp'[m] = tmp[m]
        /\ lock'[o] = Nobody /\ \A p \in Ids \ {o} : lock'[p] = lock[p]
        /\ dir' \in [Names -> Ids \cup {None}] /\ tmp' \in [Names -> Ids \cup {None}]
        /\ lock' \in [Ids -> Clients \cup {Nobody}]
    BY <1>0, <1>4, <1>5, <1>6, TypeParts
  <1>9. TypeOK'
    <2>1. r.o = None <=> r.pc \in {"idle", "insert"}
      BY <1>3, <1>4 DEF IdleClient, SaverFacts
    <2> QED
      BY <1>0, <1>4, <1>5, <1>7, <1>8, <2>1, ClientTypeOK, TypeParts
  <1>10. metric[o].name = n /\ n # None /\ r.pc \notin SavingPc /\ r.pc # "delete"
         /\ r.name \in {None, n}
    BY <1>3, <1>4 DEF SaverFacts, IdleClient, SavingPc
  <1>11. Local(c, n)
    BY <1>1, <1>2, <1>5, <1>7, <1>8, <1>10 DEF Local
  <1>12. Proper(c, n)
    <2>1. \/ r.pc = "idle" /\ r.name = None /\ r.o = None
          \/ r.pc = "update" /\ r.name = n /\ r.o = o
      BY <1>4 DEF IdleClient
    <2> QED
      BY <1>1, <1>5, <1>7, <1>8, <1>10, <2>1 DEF Proper
  <1>13. \A p \in Ids : metric'[p].name = metric[p].name /\ metric'[p].deleted = metric[p].deleted
    BY <1>7
  <1>14. Born'
    <2>1. \A p \in Ids : p > made' => metric'[p].name = None
      BY <1>0, <1>5, <1>13 DEF Global, Born
    <2>2. \A m \in Names : dir'[m] \in {None, dir[m], tmp[m]} /\ tmp'[m] \in {None, tmp[m]}
      BY <1>8
    <2> QED
      BY <1>0, <1>5, <1>13, <2>1, <2>2, BornKept
  <1>15. Zombie(n)'
    <2>1. map[n] = None \/ map[n] \in Ids
      BY <1>0, Known
    <2> QED
      BY <1>3, <1>5, <1>13, <2>1 DEF Zombie, SaverFacts
  <1>16. Locks'
    <2>1. \A d \in Clients : Holds(d, o) => d = c
      BY <1>0, <1>1, <1>2 DEF Global, Locks, Holds
    <2>2. \A p \in Ids, d \in Clients : lock'[p] = d <=> Holds(d, p)'
      <3> TAKE p \in Ids, d \in Clients
      <3>0. /\ (lock[p] = d <=> Holds(d, p)) /\ (Holds(d, o) => d = c) /\ ~Holds(c, p)'
            /\ (Holds(c, p) => p = o) /\ d # Nobody
        BY <1>0, <1>2, <1>4, <1>8, <2>1, RegistryAssumption
           DEF Global, Locks, Holds, ReadingPc, IdleClient
      <3>1. d # c => Holds(d, p)' = Holds(d, p)
        BY <1>8 DEF Holds
      <3> QED
        BY <1>8, <3>0, <3>1
    <2>3. \A d, e \in Clients :
            client'[d].pc \in SavingPc /\ client'[e].pc \in SavingPc /\ client'[d].o = client'[e].o => d = e
      <3>1. \A d \in Clients : client'[d].pc \in SavingPc => client'[d] = client[d]
        BY <1>8, <1>10
      <3> QED
        BY <1>0, <3>1 DEF Global, Locks
    <2> QED
      BY <2>2, <2>3 DEF Locks
  <1>17. ASSUME ~raced[n], ~raced'[n]
         PROVE  Sound(n)' /\ Going(n)' /\ Served(n)' /\ Streams(n)' /\ map'[n] # None
    <2>1. /\ map[n] = o /\ ~metric[o].deleted /\ dir[n] = None /\ ~Dropping(n)
          /\ journal.name # n /\ ~At2(n) /\ tmp[n] # None /\ o # None
          /\ image[tmp[n]] = [whole |-> TRUE, ups |-> metric[o].ups, deleted |-> FALSE]
      <3>1. tmp[n] = client[c].file /\ client[c].file # None
        BY <1>1, <1>3, <1>17 DEF SaverFacts
      <3> QED
        BY <1>1, <1>3, <1>17, <3>1 DEF SaverFacts
    <2>2. dir'[n] = tmp[n] /\ metric' = metric
      BY <1>6, <1>8, <2>1
    <2>3. Sound(n)'
      BY <1>5, <1>8, <2>1, <2>2 DEF Sound
    <2>4. Going(n)'
      BY <1>8, <1>10, <2>1, Alone
    <2>5. \A d \in Clients : client'[d].o = o => client'[d].pc \notin SavingPc
      BY <1>3, <1>8, <1>10 DEF SaverFacts
    <2>6. ~At2(n)'
      BY <1>5, <2>1, <2>2 DEF At2
    <2>7. BeingSaved(n)'
      BY <1>5, <2>1, <2>5 DEF BeingSaved
    <2>8. Upcoming(n)' = metric[o].ups
      BY <1>5, <2>1, <2>2, <2>6 DEF Upcoming, Writing
    <2>9. InFile(n)'
      BY <1>5, <2>1, <2>2, <2>6, <2>8 DEF InFile, Writing
    <2>10. Streams(n)'
      <3>1. cached[n] = None
        <4>1. Streams(n) /\ Renaming(n)
          BY <1>1, <1>2, <1>17 DEF RInv, Calm, Renaming
        <4> QED
          BY <2>1, <4>1 DEF Streams
      <3> QED
        BY <1>5, <2>6, <3>1 DEF Streams
    <2> QED
      BY <1>5, <2>1, <2>2, <2>3, <2>4, <2>7, <2>9, <2>10 DEF Served
  <1> QED
    BY <1>9, <1>11, <1>12, <1>14, <1>15, <1>16, <1>17, LocalStep

-----------------------------------------------------------------------------
(* An update leaves its metric alone, or marks it, or brings its data.       *)
Grown(o) ==
  /\ metric' \in [Ids -> MetricType] /\ \A p \in Ids \ {o} : metric'[p] = metric[p]
  /\ metric'[o].name = metric[o].name /\ metric'[o].deleted = metric[o].deleted
  /\ \/ metric'[o] = metric[o]
     \/ /\ metric'[o].dirty = TRUE
        /\ metric'[o].held = metric[o].held /\ metric'[o].ups = metric[o].ups
     \/ /\ metric'[o].dirty = TRUE /\ metric'[o].held = TRUE
        /\ ~metric[o].deleted => metric[o].ups \subseteq metric'[o].ups

LEMMA GrownSame == ASSUME RInv, NEW o \in Ids, metric' = metric PROVE Grown(o)
  BY TypeParts DEF RInv, Grown

LEMMA GrownTo ==
  ASSUME RInv, NEW o \in Ids, NEW y \in MetricType, metric' = [metric EXCEPT ![o] = y],
         y.name = metric[o].name /\ y.deleted = metric[o].deleted,
         \/ y = metric[o]
         \/ y.dirty = TRUE /\ y.held = metric[o].held /\ y.ups = metric[o].ups
         \/ /\ y.dirty = TRUE /\ y.held = TRUE
            /\ ~metric[o].deleted => metric[o].ups \subseteq y.ups
  PROVE  Grown(o) /\ metric'[o] = y
  <1>1. metric \in [Ids -> MetricType]
    BY TypeParts DEF RInv
  <1>2. metric' \in [Ids -> MetricType] /\ metric'[o] = y /\ \A p \in Ids \ {o} : metric'[p] = metric[p]
    BY <1>1
  <1> QED
    BY <1>2 DEF Grown

LEMMA MarkedGrows ==
  ASSUME RInv, NEW c \in Clients, NEW o \in Ids,
         metric' = [metric EXCEPT ![o] = Marked(c, metric[o])]
  PROVE  Grown(o) /\ metric'[o].held = metric[o].held /\ metric'[o].ups = metric[o].ups
  <1>1. metric[o] \in MetricType
    BY TypeParts DEF RInv
  <1> DEFINE y == Marked(c, metric[o])
  <1>2. /\ y \in MetricType /\ y.name = metric[o].name /\ y.deleted = metric[o].deleted
        /\ y.held = metric[o].held /\ y.ups = metric[o].ups
        /\ y = metric[o] \/ y.dirty = TRUE
    BY <1>1 DEF Marked, MetricType
  <1>3. metric' = [metric EXCEPT ![o] = y]
    OBVIOUS
  <1> HIDE DEF y
  <1>4. Grown(o) /\ metric'[o] = y
    BY <1>2, <1>3, GrownTo
  <1> QED
    BY <1>2, <1>4

LEMMA AppliedGrows ==
  ASSUME RInv, NEW c \in Clients, NEW o \in Ids, NEW ups \in SUBSET (1 .. MaxUpdates),
         metric' = [metric EXCEPT ![o] = Applied(c, metric[o], ups)],
         ~metric[o].deleted => metric[o].ups \subseteq ups
  PROVE  Grown(o)
  <1>1. metric[o] \in MetricType /\ client[c].u \in 0 .. MaxUpdates
    BY TypeParts DEF RInv, ClientType
  <1> DEFINE y == Applied(c, metric[o], ups)
  <1>2. metric' = [metric EXCEPT ![o] = y]
    OBVIOUS
  <1>3. CASE client[c].u = 0
    <2>1. y = metric[o]
      BY <1>3 DEF Applied
    <2> HIDE DEF y
    <2> QED
      BY <1>1, <1>2, <2>1, GrownTo
  <1>4. CASE client[c].u # 0
    <2>1. client[c].u \in 1 .. MaxUpdates
      BY <1>1, <1>4
    <2>2. y = [metric[o] EXCEPT !.ups = ups \cup {client[c].u}, !.held = TRUE, !.dirty = TRUE]
      BY <1>4 DEF Applied
    <2>3. /\ y \in MetricType /\ y.name = metric[o].name /\ y.deleted = metric[o].deleted
          /\ y.dirty = TRUE /\ y.held = TRUE /\ ups \subseteq y.ups
      <3> HIDE DEF y
      <3> QED
        BY <1>1, <2>1, <2>2 DEF MetricType
    <2>4. ~metric[o].deleted => metric[o].ups \subseteq y.ups
      BY <2>3
    <2> HIDE DEF y
    <2> QED
      BY <1>2, <2>3, <2>4, GrownTo
  <1> QED
    BY <1>3, <1>4

(***************************************************************************)
(* A step of an update or a select of metric o, after which the client is  *)
(* at r: it reads the metric's file under the lock, or is through.  The    *)
(* streams it gets and leaves are of the name's file, where that matters.  *)
(***************************************************************************)
Using(c, n, o, r) ==
  /\ mode = "running" /\ client[c].pc \in {"update"} \cup ReadingPc
  /\ n = client[c].name /\ o = client[c].o
  /\ r \in ClientType /\ client' = [client EXCEPT ![c] = r]
  /\ \/ r = IdleClient /\ lock'[o] = Nobody
     \/ r.pc \in ReadingPc /\ r.name = n /\ r.o = o /\ lock'[o] = c
  /\ r.pc \in {"cache", "read"} => r.file # None
  /\ Grown(o)
  /\ lock' \in [Ids -> Clients \cup {Nobody}] /\ \A p \in Ids \ {o} : lock'[p] = lock[p]
  /\ lock[o] \in {Nobody, c}
  /\ cached' \in [Names -> Ids \cup {None}] /\ \A m \in Names \ {n} : cached'[m] = cached[m]
  /\ UNCHANGED <<mode, made, map, dir, tmp, image, journal, flush, updates, crashes>>
UsedStreams(n, o, r) ==
  /\ map[n] # None /\ metric[map[n]].deleted =>
       /\ r.pc \in {"cache", "read"} => r.file = dir[n]
       /\ cached'[n] \in {None, dir[n]}
       /\ r.pc \in ReadingPc /\ o = map[n] => ~metric'[o].held
  /\ ~raced[n] /\ (dir[n] # None \/ Renaming(n)) => cached'[n] \in {None, cached[n], dir[n]}

LEMMA StepUse ==
  ASSUME RInv, NEW c \in Clients, NEW n \in Names, NEW o \in Ids, NEW r,
         Using(c, n, o, r), UsedStreams(n, o, r), Watched
  PROVE  RInv'
  <1>0. TypeOK /\ Global
    BY DEF RInv
  <1>1. client[c].pc \in {"update"} \cup ReadingPc /\ mode = "running"
    BY DEF Using
  <1>2. n = client[c].name /\ o = client[c].o
    BY DEF Using
  <1>3. metric[o].name = n /\ n # None /\ o # None
    BY <1>0, <1>2, Known, IdsFacts
  <1>4. /\ client' = [client EXCEPT ![c] = r] /\ r \in ClientType
        /\ UNCHANGED <<mode, made, map, dir, tmp, image, journal, flush, updates, crashes>>
        /\ \/ r.pc = "idle" /\ r.name = None /\ r.o = None /\ lock'[o] = Nobody
           \/ r.pc \in ReadingPc /\ r.name = n /\ r.o = o /\ lock'[o] = c
        /\ r.pc \in {"cache", "read"} => r.file # None
        /\ lock' \in [Ids -> Clients \cup {Nobody}] /\ \A p \in Ids \ {o} : lock'[p] = lock[p]
        /\ lock[o] \in {Nobody, c}
        /\ cached' \in [Names -> Ids \cup {None}] /\ \A m \in Names \ {n} : cached'[m] = cached[m]
    BY DEF Using, IdleClient
  <1>5. /\ metric' \in [Ids -> MetricType] /\ \A p \in Ids \ {o} : metric'[p] = metric[p]
        /\ metric'[o].name = metric[o].name /\ metric'[o].deleted = metric[o].deleted
        /\ \/ metric'[o] = metric[o]
           \/ /\ metric'[o].dirty = TRUE
              /\ metric'[o].held = metric[o].held /\ metric'[o].ups = metric[o].ups
           \/ /\ metric'[o].dirty = TRUE /\ metric'[o].held = TRUE
              /\ ~metric[o].deleted => metric[o].ups \subseteq metric'[o].ups
    BY DEF Using, Grown
  <1>6. /\ client'[c] = r /\ \A d \in Clients \ {c} : client'[d] = client[d]
    BY <1>0, <1>4, TypeParts
  <1>a. /\ \A d \in Clients : client'[d].pc \in SavingPc \cup {"delete"}
                              \/ client[d].pc \in SavingPc \cup {"delete"}
              => client'[d] = client[d]
    BY <1>1, <1>4, <1>6 DEF SavingPc, ReadingPc
  <1>b. \A d \in Clients \ {c} : ~Holds(d, o)
    <2>1. \A d \in Clients : d # Nobody
      BY RegistryAssumption
    <2> QED
      BY <1>0, <1>4, <2>1 DEF Global, Locks
  <1>7. TypeOK'
    <2>1. r.o = None <=> r.pc \in {"idle", "insert"}
      BY <1>3, <1>4 DEF ReadingPc
    <2> QED
      BY <1>0, <1>4, <1>5, <2>1, ClientTypeOK, TypeParts
  <1>8. Local(c, n)
    BY <1>1, <1>2, <1>3, <1>4, <1>5, <1>6 DEF Local
  <1>9. Proper(c, n)
    BY <1>1, <1>3, <1>4, <1>5, <1>6 DEF Proper, ReadingPc
  <1>10. \A p \in Ids : metric'[p].name = metric[p].name /\ metric'[p].deleted = metric[p].deleted
    BY <1>5
  <1>11. Born'
    <2>1. \A p \in Ids : p > made' => metric'[p].name = None
      BY <1>0, <1>4, <1>10 DEF Global, Born
    <2> QED
      BY <1>0, <1>4, <1>10, <2>1, BornKept
  <1>12. Locks'
    <2>1. \A p \in Ids, d \in Clients : lock'[p] = d <=> Holds(d, p)'
      <3> TAKE p \in Ids, d \in Clients
      <3>0. (lock[p] = d <=> Holds(d, p)) /\ d # Nobody
        BY <1>0, RegistryAssumption DEF Global, Locks
      <3>1. d # c => Holds(d, p)' = Holds(d, p)
        BY <1>6 DEF Holds
      <3>2. p # o => ~Holds(c, p) /\ ~Holds(c, p)'
        BY <1>2, <1>4, <1>6 DEF Holds, ReadingPc
      <3>3. Holds(c, o)' <=> lock'[o] = c
        BY <1>4, <1>6, RegistryAssumption DEF Holds, ReadingPc
      <3>4. CASE p = o
        BY <1>4, <1>b, <3>0, <3>1, <3>3, <3>4
      <3>5. CASE p # o
        BY <1>4, <3>0, <3>1, <3>2, <3>5
      <3> QED
        BY <3>4, <3>5
    <2>2. \A d, e \in Clients :
            client'[d].pc \in SavingPc /\ client'[e].pc \in SavingPc /\ client'[d].o = client'[e].o => d = e
      BY <1>0, <1>a DEF Global, Locks
    <2> QED
      BY <2>1, <2>2 DEF Locks
  <1>13. Zombie(n)'
    <2> SUFFICES ASSUME map[n] # None, metric[map[n]].deleted
                 PROVE  /\ \A d \in Clients : client'[d].name = n =>
                             /\ client'[d].pc \in {"insert", "update"} \cup ReadingPc
                             /\ client'[d].pc \in {"cache", "read"} => client'[d].file = dir[n]
                             /\ client'[d].pc \in ReadingPc /\ client'[d].o = map[n]
                                  => ~metric'[map[n]].held
                        /\ ~At2(n)' /\ dir[n] # None /\ cached'[n] \in {None, dir[n]}
                        /\ metric'[map[n]].held \/ image[dir[n]].ups = metric'[map[n]].ups
      <3>1. map[n] # None => map[n] \in Ids
        BY <1>0, Known
      <3> QED
        BY <1>4, <1>10, <3>1 DEF Zombie
    <2>1. map[n] \in Ids /\ Zombie(n)
      BY <1>0, Known DEF RInv
    <2>2. ASSUME NEW d \in Clients, client'[d].name = n
          PROVE  /\ client'[d].pc \in {"insert", "update"} \cup ReadingPc
                 /\ client'[d].pc \in {"cache", "read"} => client'[d].file = dir[n]
                 /\ client'[d].pc \in ReadingPc /\ client'[d].o = map[n] => ~metric'[map[n]].held
      <3>1. CASE d = c
        BY <1>3, <1>4, <1>6, <2>2, <3>1 DEF UsedStreams
      <3>2. CASE d # c
        <4>1. client'[d] = client[d]
          BY <1>6, <3>2
        <4>2. client[d].pc \in ReadingPc /\ client[d].o = map[n] => map[n] # o
          BY <1>b, <3>2 DEF Holds
        <4> QED
          BY <1>5, <2>1, <2>2, <4>1, <4>2 DEF Zombie
      <3> QED
        BY <3>1, <3>2
    <2>3. ~At2(n)'
      <3>1. flush.o # None => flush.o \in Ids
        BY <1>0, Known
      <3> QED
        BY <1>4, <1>10, <2>1, <3>1 DEF Zombie, At2
    <2>4. metric'[map[n]].held \/ image[dir[n]].ups = metric'[map[n]].ups
      BY <1>5, <2>1 DEF Zombie
    <2>5. dir[n] # None /\ cached'[n] \in {None, dir[n]}
      BY <2>1 DEF Zombie, UsedStreams
    <2> QED
      BY <2>2, <2>3, <2>4, <2>5
  <1>14. ASSUME ~raced[n], ~raced'[n]
         PROVE  /\ Sound(n)' /\ Going(n)' /\ Served(n)' /\ Streams(n)'
                /\ map'[n] = None /\ ~Dropping(n)' => dir'[n] = None
    <2>0. Sound(n) /\ Going(n) /\ Served(n) /\ Streams(n)
          /\ (map[n] = None /\ ~Dropping(n) => dir[n] = None)
      BY <1>1, <1>14 DEF RInv, Calm
    <2>1. Dropped(n)' = Dropped(n)
      BY <1>10 DEF Dropped
    <2>2. Sound(n)'
      BY <1>4, <2>0, <2>1 DEF Sound
    <2>4. At2(n)' = At2(n)
      <3>1. flush.o # None => flush.o \in Ids
        BY <1>0, Known
      <3> QED
        BY <1>4, <1>10, <3>1 DEF At2
    <2>5. Going(n)'
      <3>1. \A d \in Clients : client[d].pc = "delete" => client[d].o \in Ids
        BY <1>0, Known
      <3> QED
        BY <1>4, <1>10, <1>a, <2>0, <2>4, <3>1 DEF Going
    <2>6. Dropping(n)' = Dropping(n)
      BY <1>a DEF Dropping
    <2>7. ASSUME map[n] # None PROVE Served(n)'
      <3>1. PICK m \in Ids : m = map[n]
        BY <1>0, <2>7, Known
      <3>2. m # None /\ map'[n] = m /\ ~metric[m].deleted /\ ~metric'[m].deleted /\ BeingSaved(n) /\ InFile(n)
        BY <1>4, <1>10, <2>0, <2>7, <3>1 DEF Served
      <3>3. /\ metric[m].held => metric'[m].held
            /\ metric[m].ups \subseteq metric'[m].ups
            /\ \/ metric'[m] = metric[m]
               \/ metric'[m].held /\ metric'[m].dirty /\ m = o
               \/ metric'[m].held = metric[m].held /\ metric'[m].ups = metric[m].ups
                  /\ metric'[m].dirty /\ m = o
        BY <1>5, <3>2
      <3>4. BeingSaved(n)'
        <4> SUFFICES ASSUME NEW d \in Clients, client'[d].o = m, client'[d].pc \in SavingPc
                     PROVE  /\ dir[n] = None
                            /\ client'[d].pc \in SavingPc \ {"rename"} => metric'[m].held
                            /\ client'[d].pc \in {"write", "rename"} => tmp[n] = client'[d].file
                            /\ client'[d].pc = "rename" =>
                                 image[tmp[n]] = [whole |-> TRUE, ups |-> metric'[m].ups, deleted |-> FALSE]
          BY <1>4, <3>1 DEF BeingSaved
        <4>1. client'[d] = client[d]
          BY <1>a
        <4>2. client[d].pc = "rename" => m # o
          BY <1>1, <1>b, <4>1 DEF Holds, ReadingPc
        <4> QED
          BY <3>1, <3>2, <3>3, <4>1, <4>2 DEF BeingSaved
      <3>5. InFile(n)'
        <4>1. Saving(m)' = Saving(m)
          BY <1>a DEF Saving, SavingPc
        <4>2. Upcoming(n)' = Upcoming(n) /\ Writing(n)' = Writing(n)
          BY <1>4, <2>4 DEF Upcoming, Writing
        <4> SUFFICES ASSUME ~Saving(m)
                     PROVE  /\ dir[n] # None
                            /\ image[dir[n]].ups \subseteq metric'[m].ups /\ Upcoming(n) \subseteq metric'[m].ups
                            /\ ~metric'[m].dirty \/ ~metric'[m].held => Upcoming(n) = metric'[m].ups
          BY <1>4, <3>1, <4>1, <4>2 DEF InFile
        <4> QED
          BY <3>1, <3>2, <3>3 DEF InFile
      <3> QED
        BY <1>4, <3>1, <3>2, <3>4, <3>5 DEF Served
    <2>8. Streams(n)'
      <3>1. Renaming(n)' = Renaming(n)
        BY <1>a DEF Renaming, SavingPc
      <3> QED
        BY <1>4, <1>14, <2>0, <2>4, <3>1 DEF Streams, UsedStreams
    <2> QED
      BY <1>4, <2>0, <2>2, <2>5, <2>6, <2>7, <2>8 DEF Served
  <1> QED
    BY <1>7, <1>8, <1>9, <1>11, <1>12, <1>13, <1>14, LocalStep

(* Whose turn it is, and what it knows of streams.                           *)
LEMMA User ==
  ASSUME RInv, NEW c \in Clients, client[c].pc \in {"update"} \cup ReadingPc
  PROVE  /\ client[c].name \in Names /\ client[c].o \in Ids
         /\ client[c] \in ClientType
         /\ client[c].pc \in ReadingPc => lock[client[c].o] = c
         /\ client[c].pc \in {"cache", "read"} => client[c].file \in Ids /\ client[c].file # None
         /\ Zombie(client[c].name) /\ Calm(client[c].name)
         /\ dir[client[c].name] \in Ids \cup {None} /\ cached[client[c].name] \in Ids \cup {None}
         /\ cached \in [Names -> Ids \cup {None}] /\ lock \in [Ids -> Clients \cup {Nobody}]
  <1>0. TypeOK /\ Global /\ client[c] \in ClientType
    BY TypeParts DEF RInv
  <1>1. client[c].name \in Names /\ client[c].o \in Ids
    BY <1>0, Known
  <1>2. client[c].pc \in ReadingPc => lock[client[c].o] = c
    BY <1>0, <1>1 DEF Global, Locks, Holds
  <1>3. client[c].pc \in {"cache", "read"} => client[c].file \in Ids /\ client[c].file # None
    BY <1>0 DEF Global, BornClient, ClientType
  <1>4. /\ dir[client[c].name] \in Ids \cup {None} /\ cached[client[c].name] \in Ids \cup {None}
        /\ cached \in [Names -> Ids \cup {None}] /\ lock \in [Ids -> Clients \cup {Nobody}]
    BY <1>0, <1>1, TypeParts
  <1> QED
    BY <1>0, <1>1, <1>2, <1>3, <1>4 DEF RInv

LEMMA StepUpdate ==
  ASSUME RInv, NEW c \in Clients, Update(c), Watched
  PROVE  RInv'
  <1>1. client[c].pc = "update" /\ client[c].pc \in {"update"} \cup ReadingPc /\ mode = "running"
    BY DEF Update, At
  <1>2. PICK n \in Names, o \in Ids : n = client[c].name /\ o = client[c].o
    BY <1>1, User
  <1>3. /\ client' = [client EXCEPT ![c] = IdleClient]
        /\ metric' = [metric EXCEPT ![o] = Applied(c, metric[o], metric[o].ups)]
        /\ UNCHANGED <<mode, made, lock, map, files, flush, updates, crashes>>
        /\ lock[o] = Nobody
    BY <1>2 DEF Update, Done, Unlocked
  <1>4. Grown(o)
    <2>1. metric[o].ups \in SUBSET (1 .. MaxUpdates)
      BY TypeParts DEF RInv, MetricType
    <2> QED
      BY <1>3, <2>1, AppliedGrows
  <1>5. Using(c, n, o, IdleClient)
    <2>1. cached \in [Names -> Ids \cup {None}] /\ lock \in [Ids -> Clients \cup {Nobody}]
      BY <1>1, User
    <2>2. IdleClient.pc = "idle"
      BY DEF IdleClient
    <2> QED
      BY <1>1, <1>2, <1>3, <1>4, <2>1, <2>2, Shapes DEF Using
  <1>6. UsedStreams(n, o, IdleClient)
    BY <1>1, <1>2, <1>3, User DEF UsedStreams, IdleClient, Zombie, ReadingPc
  <1> QED
    BY <1>5, <1>6, StepUse

LEMMA StepUpdateFind ==
  ASSUME RInv, NEW c \in Clients, UpdateFind(c), Watched
  PROVE  RInv'
  <1>1. client[c].pc = "update" /\ client[c].pc \in {"update"} \cup ReadingPc /\ mode = "running"
    BY DEF UpdateFind, At
  <1>2. PICK n \in Names, o \in Ids : n = client[c].name /\ o = client[c].o
    BY <1>1, User
  <1> DEFINE r == [client[c] EXCEPT !.pc = IF cached[n] = None THEN "open" ELSE "read",
                                    !.file = cached[n]]
  <1>3. /\ client' = [client EXCEPT ![c] = r]
        /\ metric' = [metric EXCEPT ![o] = Marked(c, metric[o])]
        /\ lock' = [lock EXCEPT ![o] = c]
        /\ UNCHANGED <<mode, made, map, files, flush, updates, crashes>>
        /\ lock[o] = Nobody /\ ~metric[o].held
    BY <1>2 DEF UpdateFind, Unlocked
  <1>4. /\ cached \in [Names -> Ids \cup {None}] /\ lock \in [Ids -> Clients \cup {Nobody}]
        /\ Zombie(n) /\ cached[n] \in Ids \cup {None} /\ client[c] \in ClientType
    BY <1>1, <1>2, User
  <1>5. /\ r \in ClientType /\ r.name = n /\ r.o = o /\ r.file = cached[n]
        /\ r.pc \in {"open", "read"} /\ (r.pc = "read" => cached[n] # None)
    BY <1>2, <1>4 DEF ClientType
  <1> HIDE DEF r
  <1>6. Grown(o) /\ metric'[o].held = metric[o].held
    BY <1>3, MarkedGrows
  <1>7. Using(c, n, o, r)
    BY <1>1, <1>2, <1>3, <1>4, <1>5, <1>6 DEF Using, ReadingPc
  <1>8. UsedStreams(n, o, r)
    BY <1>3, <1>4, <1>5, <1>6 DEF UsedStreams, Zombie
  <1> QED
    BY <1>7, <1>8, StepUse

LEMMA StepUpdateOpen ==
  ASSUME RInv, NEW c \in Clients, UpdateOpen(c), Watched
  PROVE  RInv'
  <1>1. client[c].pc = "open" /\ client[c].pc \in {"update"} \cup ReadingPc /\ mode = "running"
    BY DEF UpdateOpen, At, ReadingPc
  <1>2. PICK n \in Names, o \in Ids : n = client[c].name /\ o = client[c].o
    BY <1>1, User
  <1>3. UNCHANGED <<mode, made, metric, map, files, flush, updates, crashes>>
    BY DEF UpdateOpen
  <1>4. /\ cached \in [Names -> Ids \cup {None}] /\ lock \in [Ids -> Clients \cup {Nobody}]
        /\ Zombie(n) /\ client[c] \in ClientType /\ dir[n] \in Ids \cup {None} /\ lock[o] = c
    BY <1>1, <1>2, User DEF ReadingPc
  <1>5. Grown(o)
    BY <1>3, GrownSame
  <1>6. CASE dir[n] = None
    <2>1. client' = [client EXCEPT ![c] = IdleClient] /\ lock' = [lock EXCEPT ![o] = Nobody]
      BY <1>2, <1>6 DEF UpdateOpen, Done
    <2>2. IdleClient.pc = "idle"
      BY DEF IdleClient
    <2>3. Using(c, n, o, IdleClient)
      BY <1>1, <1>2, <1>3, <1>4, <1>5, <2>1, <2>2, Shapes DEF Using
    <2>4. UsedStreams(n, o, IdleClient)
      BY <1>3, <1>4, <2>2 DEF UsedStreams, Zombie, ReadingPc
    <2> QED
      BY <2>3, <2>4, StepUse
  <1>7. CASE dir[n] # None
    <2> DEFINE r == [client[c] EXCEPT !.pc = "cache", !.file = dir[n]]
    <2>1. client' = [client EXCEPT ![c] = r] /\ lock' = lock
      BY <1>2, <1>7 DEF UpdateOpen
    <2>2. r \in ClientType /\ r.pc = "cache" /\ r.name = n /\ r.o = o /\ r.file = dir[n]
      BY <1>2, <1>4 DEF ClientType
    <2> HIDE DEF r
    <2>3. Using(c, n, o, r)
      BY <1>1, <1>2, <1>3, <1>4, <1>5, <1>7, <2>1, <2>2 DEF Using, ReadingPc
    <2>4. UsedStreams(n, o, r)
      BY <1>1, <1>2, <1>3, <1>4, <2>2 DEF UsedStreams, Zombie, ReadingPc
    <2> QED
      BY <2>3, <2>4, StepUse
  <1> QED
    BY <1>6, <1>7

(* Without a race the stream is of the file that the name has, if it has one *)
(* or is about to.                                                           *)
LEMMA StepUpdateInsert ==
  ASSUME RInv, NEW c \in Clients, UpdateInsert(c), Watched
  PROVE  RInv'
  <1>1. client[c].pc = "cache" /\ client[c].pc \in {"update"} \cup ReadingPc /\ mode = "running"
    BY DEF UpdateInsert, At, ReadingPc
  <1>2. PICK n \in Names, o \in Ids : n = client[c].name /\ o = client[c].o
    BY <1>1, User
  <1> DEFINE r == [client[c] EXCEPT !.pc = "read"]
             k == IF cached[n] = None THEN client[c].file ELSE cached[n]
  <1>3. /\ client' = [client EXCEPT ![c] = r] /\ cached' = [cached EXCEPT ![n] = k]
        /\ UNCHANGED <<mode, made, metric, lock, map, dir, tmp, image, journal, flush, updates,
                       crashes>>
    BY <1>2 DEF UpdateInsert, InCache, Goto
  <1>4. /\ cached \in [Names -> Ids \cup {None}] /\ lock \in [Ids -> Clients \cup {Nobody}]
        /\ Zombie(n) /\ Calm(n) /\ client[c] \in ClientType /\ lock[o] = c
        /\ cached[n] \in Ids \cup {None} /\ client[c].file \in Ids /\ client[c].file # None
    BY <1>1, <1>2, User DEF ReadingPc
  <1>5. /\ r \in ClientType /\ r.pc = "read" /\ r.name = n /\ r.o = o /\ r.file = client[c].file
        /\ k \in Ids \cup {None} /\ k \in {cached[n], client[c].file}
    BY <1>2, <1>4 DEF ClientType
  <1> HIDE DEF r, k
  <1>6. cached' \in [Names -> Ids \cup {None}] /\ cached'[n] = k
        /\ \A m \in Names \ {n} : cached'[m] = cached[m]
    BY <1>3, <1>4, <1>5
  <1>7. Grown(o)
    BY <1>3, GrownSame
  <1>8. Using(c, n, o, r)
    BY <1>1, <1>2, <1>3, <1>4, <1>5, <1>6, <1>7 DEF Using, ReadingPc
  <1>9. UsedStreams(n, o, r)
    <2>1. ASSUME ~raced[n], dir[n] # None \/ Renaming(n) PROVE client[c].file = dir[n]
      BY <1>1, <1>2, <1>4, <2>1 DEF Calm, Races, Overtaken
    <2>2. ASSUME map[n] # None, metric[map[n]].deleted
          PROVE  /\ r.file = dir[n] /\ cached'[n] \in {None, dir[n]}
                 /\ o = map[n] => ~metric'[o].held
      BY <1>1, <1>2, <1>3, <1>4, <1>5, <1>6, <2>2 DEF Zombie, ReadingPc
    <2> QED
      BY <1>5, <1>6, <2>1, <2>2 DEF UsedStreams
  <1> QED
    BY <1>8, <1>9, StepUse

LEMMA StepUpdateRead ==
  ASSUME RInv, NEW c \in Clients, UpdateRead(c), Watched
  PROVE  RInv'
  <1>1. client[c].pc = "read" /\ client[c].pc \in {"update"} \cup ReadingPc /\ mode = "running"
    BY DEF UpdateRead, At, ReadingPc
  <1>2. PICK n \in Names, o \in Ids, file \in Ids :
          n = client[c].name /\ o = client[c].o /\ file = client[c].file
    BY <1>1, User
  <1>3. /\ client' = [client EXCEPT ![c] = IdleClient] /\ lock' = [lock EXCEPT ![o] = Nobody]
        /\ UNCHANGED <<mode, made, map, files, flush, updates, crashes>>
    BY <1>2 DEF UpdateRead, Done
  <1>4. /\ cached \in [Names -> Ids \cup {None}] /\ lock \in [Ids -> Clients \cup {Nobody}]
        /\ Zombie(n) /\ lock[o] = c
    BY <1>1, <1>2, User DEF ReadingPc
  <1>5. Grown(o)
    <2>1. metric[o].ups \in SUBSET (1 .. MaxUpdates) /\ image[file].ups \in SUBSET (1 .. MaxUpdates)
      BY TypeParts DEF RInv, MetricType, ImageType
    <2>2. \/ metric' = metric
          \/ metric' = [metric EXCEPT ![o] = Applied(c, metric[o], metric[o].ups)]
          \/ /\ metric[o].deleted
             /\ metric' = [metric EXCEPT ![o] = Applied(c, metric[o], image[file].ups)]
      BY <1>2 DEF UpdateRead
    <2> QED
      BY <2>1, <2>2, GrownSame, AppliedGrows
  <1>6. IdleClient.pc = "idle"
    BY DEF IdleClient
  <1>7. Using(c, n, o, IdleClient)
    BY <1>1, <1>2, <1>3, <1>4, <1>5, <1>6, Shapes DEF Using
  <1>8. UsedStreams(n, o, IdleClient)
    BY <1>3, <1>4, <1>6 DEF UsedStreams, Zombie, ReadingPc
  <1> QED
    BY <1>7, <1>8, StepUse

LEMMA StepDelete ==
  ASSUME RInv, NEW c \in Clients, Delete(c), Watched
  PROVE  RInv'
  <1>0. TypeOK /\ Global
    BY DEF RInv
  <1>1. client[c].pc = "delete" /\ client[c].pc \in SavingPc \cup ReadingPc \cup {"delete", "update"} /\ mode = "running"
    BY DEF Delete, At
  <1>2. PICK n \in Names, o \in Ids : n = client[c].name /\ o = client[c].o
    BY <1>0, <1>1, Known
  <1>3. metric[o].name = n /\ n # None /\ o # None /\ Zombie(n) /\ map[n] # o
    BY <1>0, <1>1, <1>2, Known, IdsFacts DEF RInv, Global, Droppers
  <1> DEFINE y == [metric[o] EXCEPT !.deleted = TRUE]
  <1>4. /\ client' = [client EXCEPT ![c] = IdleClient]
        /\ metric' = [metric EXCEPT ![o] = y] /\ dir' = [dir EXCEPT ![n] = None]
        /\ cached' = [cached EXCEPT ![n] = None]
        /\ UNCHANGED <<mode, made, lock, map, tmp, image, journal, flush, updates, crashes>>
    BY <1>2, <1>3 DEF Delete, Done, DeleteFile
  <1>5. y \in MetricType /\ y.name = n /\ y.deleted = TRUE
    <2>1. metric[o] \in MetricType
      BY <1>0, TypeParts
    <2> QED
      BY <1>3, <2>1 DEF MetricType
  <1> HIDE DEF y
  <1>6. /\ client'[c] = IdleClient /\ \A d \in Clients \ {c} : client'[d] = client[d]
        /\ metric'[o] = y /\ \A p \in Ids \ {o} : metric'[p] = metric[p]
        /\ dir'[n] = None /\ \A m \in Names \ {n} : dir'[m] = dir[m]
        /\ cached'[n] = None /\ \A m \in Names \ {n} : cached'[m] = cached[m]
        /\ metric' \in [Ids -> MetricType] /\ dir' \in [Names -> Ids \cup {None}]
        /\ cached' \in [Names -> Ids \cup {None}]
    BY <1>0, <1>4, <1>5, TypeParts
  <1>7. TypeOK'
    BY <1>0, <1>4, <1>6, Shapes, ClientTypeOK, TypeParts DEF IdleClient
  <1>8. Local(c, n)
    BY <1>1, <1>2, <1>3, <1>4, <1>5, <1>6 DEF Local, IdleClient
  <1>9. Proper(c, n)
    BY <1>1, <1>2, <1>4, <1>5, <1>6 DEF Proper, IdleClient
  <1>10. \A p \in Ids : metric'[p].name = metric[p].name
    BY <1>3, <1>5, <1>6
  <1>11. Born'
    <2>1. \A p \in Ids : p > made' => metric'[p].name = None
      BY <1>0, <1>4, <1>10 DEF Global, Born
    <2>2. \A m \in Names : dir'[m] \in {None, dir[m], tmp[m]}
      BY <1>6
    <2> QED
      BY <1>0, <1>4, <1>10, <2>1, <2>2, BornKept
  <1>12. Locks'
    BY <1>0, <1>1, <1>4, <1>6, LocksKept DEF IdleClient, SavingPc, ReadingPc
  <1>13. Zombie(n)'
    <2>1. map[n] = None \/ map[n] \in Ids
      BY <1>0, Known
    <2>2. map[n] = None \/ ~metric[map[n]].deleted
      BY <1>1, <1>2, <1>3 DEF Zombie, ReadingPc
    <2>3. map[n] = None \/ ~metric'[map[n]].deleted
      BY <1>3, <1>6, <2>1, <2>2
    <2> QED
      BY <1>4, <2>3 DEF Zombie
  <1>14. ASSUME ~raced[n], ~raced'[n]
         PROVE  Sound(n)' /\ Going(n)' /\ Served(n)' /\ Streams(n)' /\ dir'[n] = None
    <2>0. Sound(n) /\ Going(n) /\ ~Races(n)
      BY <1>1, <1>14 DEF RInv, Calm
    <2>1. map[n] = None
      BY <1>1, <1>2, <2>0 DEF Races, Dropping
    <2>2. Dropped(n)'
      BY <1>5, <1>6 DEF Dropped
    <2>3. Sound(n)'
      BY <1>4, <1>6, <2>2 DEF Sound
    <2>4. \A d \in Clients : ~(client'[d].pc = "delete" /\ client'[d].name = n)
      BY <1>1, <1>2, <1>6, <2>0 DEF Going, IdleClient
    <2>5. Going(n)'
      BY <2>4 DEF Going
    <2>6. Streams(n)'
      BY <1>6 DEF Streams
    <2> QED
      BY <1>4, <1>6, <2>1, <2>3, <2>5, <2>6 DEF Served
  <1> QED
    BY <1>7, <1>8, <1>9, <1>11, <1>12, <1>13, <1>14, LocalStep

-----------------------------------------------------------------------------
(* A step of the flush concerns the name of the metric it is at, if any.     *)
FlushLocal(n) ==
  /\ mode = "running" /\ mode' = "running" /\ client' = client /\ map' = map /\ lock' = lock
  /\ made' = made /\ tmp' = tmp /\ updates' = updates /\ crashes' = crashes
  /\ flush' \in FlushType /\ journal' \in JournalType
  /\ metric' \in [Ids -> MetricType] /\ image' \in [Ids -> ImageType]
  /\ dir' \in [Names -> Ids \cup {None}] /\ \A m \in Names : dir'[m] = dir[m] \/ (m = n /\ dir'[m] = None)
  /\ cached' \in [Names -> Ids \cup {None}] /\ \A m \in Names : cached'[m] = cached[m] \/ m = n
  /\ \A o \in Ids : metric'[o].name = metric[o].name /\ metric'[o].deleted = metric[o].deleted
  /\ \A o \in Ids : metric[o].name # n => metric'[o] = metric[o] /\ image'[o] = image[o]
  /\ journal' = journal \/ journal'.name \in {None, n}
  /\ flush.o = None \/ metric[flush.o].name = n
  /\ flush'.o = None \/ metric[flush'.o].name = n

LEMMA FlushAside ==
  ASSUME TypeOK, Global, NEW n, FlushLocal(n), NEW m \in Names \ {n}
  PROVE  Aside(m)
  <1>1. m # None
    BY IdsFacts
  <1>2. ~At2(m)
    BY DEF At2, FlushLocal
  <1>3. flush'.o \in Ids \cup {None}
    BY DEF FlushLocal, FlushType
  <1>4. ~At2(m)'
    BY <1>3 DEF At2, FlushLocal
  <1> QED
    BY <1>1, <1>2, <1>4 DEF Aside, FlushLocal

LEMMA FlushStep ==
  ASSUME RInv, NEW n, FlushLocal(n), Watched, BornFlush', Reached', BufferDeleted',
         n \in Names => Zombie(n)',
         n \in Names /\ ~raced[n] /\ ~raced'[n] => (Sound(n) /\ Going(n) /\ Served(n) /\ Streams(n))'
                                    /\ (map'[n] = None /\ ~Dropping(n)' => dir'[n] = None)
  PROVE  RInv'
  <1>0. TypeOK /\ Global
    BY DEF RInv
  <1>1. TypeOK'
    <2>1. raced' \in [Names -> BOOLEAN]
      BY Zenon DEF Watched
    <2>2. /\ \A c \in Clients : client[c].o = None <=> client[c].pc \in {"idle", "insert"}
          /\ mode \in {"running", "crashed", "failed"} /\ made \in 0 .. MaxMetrics
          /\ lock \in [Ids -> Clients \cup {Nobody}] /\ map \in [Names -> Ids \cup {None}]
          /\ tmp \in [Names -> Ids \cup {None}] /\ client \in [Clients -> ClientType]
          /\ updates \in 0 .. MaxUpdates /\ crashes \in 0 .. MaxCrashes
      BY <1>0, TypeParts
    <2> QED
      BY <2>1, <2>2 DEF FlushLocal, TypeOK, MetricType, ImageType, JournalType, ClientType, FlushType
  <1>2. Born'
    <2>1. /\ \A o \in Ids : metric[o].name # None => metric'[o].name = metric[o].name
          /\ \A o \in Ids : o > made' => metric'[o].name = None
          /\ \A m \in Names : map'[m] = map[m] /\ dir'[m] \in {None, dir[m], tmp[m]} /\ tmp'[m] = tmp[m]
      BY <1>0 DEF FlushLocal, Global, Born
    <2> QED
      BY <1>0, <2>1, BornKept
  <1>3. BornClient'
    <2>1. \A c \in Clients : client[c] \in ClientType
      BY <1>0, TypeParts
    <2>2. client' = client /\ \A o \in Ids : metric'[o].name = metric[o].name
      BY DEF FlushLocal
    <2>3. ASSUME NEW c \in Clients
          PROVE  /\ client[c].pc = "idle" <=> client[c].name = None
                 /\ client[c].pc = "insert" => client[c].u > 0
                 /\ client[c].o # None => metric'[client[c].o].name = client[c].name
                 /\ client[c].pc \in {"write", "rename"} =>
                      client[c].file # None /\ metric'[client[c].file].name = client[c].name
                 /\ client[c].pc \in {"cache", "read"} => client[c].file # None
      <3>1. /\ client[c].o # None => client[c].o \in Ids
            /\ client[c].file # None => client[c].file \in Ids
        BY <2>1 DEF ClientType
      <3> QED
        BY <1>0, <2>2, <3>1 DEF BornClient, Global
    <2> QED
      BY <2>2, <2>3 DEF BornClient
  <1>4. Stopped' /\ Locks' /\ Droppers'
    BY <1>0 DEF Stopped, Locks, Holds, Droppers, Global, FlushLocal
  <1>5. Global'
    BY <1>2, <1>3, <1>4 DEF Global
  <1>6. \A m \in Names \ {n} : (Zombie(m) /\ Calm(m))'
    BY <1>0, <1>1, <1>5, FlushAside, AsideKeeps
  <1>7. n \in Names => Calm(n)'
    BY <1>0, WatchedFacts DEF Calm
  <1> QED
    BY <1>1, <1>5, <1>6, <1>7 DEF RInv

(* Streams are as they were, or closed.                                      *)
LEMMA StreamsStay ==
  ASSUME NEW n, Streams(n), client' = client, dir'[n] = dir[n], cached'[n] \in {None, cached[n]},
         flush'.pc \notin {"cache", "apply"}
  PROVE  Streams(n)'
  BY DEF Streams, Renaming

(* What the flush finds at a name that saw no race.                          *)
LEMMA FlushFinds ==
  ASSUME RInv, flush.o # None, NEW n \in Names, NEW o \in Ids, o = flush.o, n = metric[o].name
  PROVE  /\ At2(n)
         /\ map[n] = None \/ ~metric[map[n]].deleted
         /\ ~raced[n] => /\ Sound(n) /\ Going(n) /\ Served(n) /\ Streams(n) /\ ~Races(n)
                         /\ (map[n] = None /\ ~Dropping(n) => dir[n] = None)
                         /\ map[n] # None => map[n] = o /\ ~Saving(o) /\ dir[n] # None
                         /\ metric[o].deleted => dir[n] = None
                         /\ dir[n] = None => Dropped(n)
                         /\ ~Renaming(n)
  <1>0. TypeOK /\ Global /\ mode = "running"
    BY DEF RInv, Global, Stopped, IdleFlush
  <1>1. At2(n)
    BY DEF At2
  <1>2. map[n] = None \/ ~metric[map[n]].deleted
    BY <1>1 DEF RInv, Zombie
  <1>3. ASSUME ~raced[n]
        PROVE  /\ Sound(n) /\ Going(n) /\ Served(n) /\ Streams(n) /\ ~Races(n)
               /\ (map[n] = None /\ ~Dropping(n) => dir[n] = None)
               /\ map[n] # None => map[n] = o /\ ~Saving(o) /\ dir[n] # None
               /\ metric[o].deleted => dir[n] = None
               /\ dir[n] = None => Dropped(n)
               /\ ~Renaming(n)
    <2>1. /\ Sound(n) /\ Going(n) /\ Served(n) /\ Streams(n) /\ ~Races(n)
          /\ (map[n] = None /\ ~Dropping(n) => dir[n] = None)
      BY <1>0, <1>3 DEF RInv, Calm
    <2>2. map[n] # None => map[n] = o /\ ~Saving(o)
      <3>1. map[n] # None => flush.o = map[n] /\ ~Saving(map[n])
        BY <1>0, <1>1, <2>1, NoRace
      <3> QED
        BY <3>1
    <2>3. map[n] # None => dir[n] # None /\ ~metric[o].deleted
      BY <2>1, <2>2 DEF Served, InFile
    <2>4. Dropping(n) => dir[n] # None /\ ~metric[o].deleted
      BY <1>1, <2>1 DEF Dropping, Going
    <2>5. metric[o].deleted => dir[n] = None
      BY <2>1, <2>3, <2>4
    <2>6. ASSUME dir[n] = None PROVE Dropped(n)
      <3>1. map[n] = o \/ metric[o].deleted \/ \E c \in Clients : Deletes(c, o)
        BY <1>0 DEF Global, Reached
      <3>2. ~\E c \in Clients : Deletes(c, o)
        <4> SUFFICES ASSUME NEW c \in Clients, Deletes(c, o) PROVE FALSE
          OBVIOUS
        <4>1. client[c].o = o /\ o # None /\ client[c].pc = "delete"
          BY DEF Deletes
        <4>2. client[c].name = n
          BY <1>0, <4>1, Known
        <4> QED
          BY <2>4, <2>6, <4>1, <4>2 DEF Dropping
      <3>3. metric[o].deleted
        BY <2>3, <2>6, <3>1, <3>2
      <3> QED
        BY <3>3 DEF Dropped
    <2>7. ~Renaming(n)
      <3> SUFFICES ASSUME NEW c \in Clients, client[c].pc = "rename", client[c].name = n PROVE FALSE
        BY DEF Renaming
      <3>1. client[c].pc \in SavingPc /\ client[c].o # None
        BY <1>0, Known DEF SavingPc
      <3>2. map[n] = client[c].o /\ flush.o # client[c].o
        BY <1>0, <2>1, <3>1, NoRace
      <3> QED
        BY <2>2, <3>1, <3>2
    <2> QED
      BY <2>1, <2>2, <2>3, <2>5, <2>6, <2>7
  <1> QED
    BY <1>1, <1>2, <1>3

(* A flush that is done with a metric, or with all of them.                  *)
LEMMA StepFlushBegin ==
  ASSUME RInv, FlushBegin, Watched
  PROVE  RInv'
  <1>0. TypeOK /\ Global /\ flush \in FlushType /\ flush.pc = "idle" /\ mode = "running"
    BY TypeParts DEF RInv, FlushBegin, Flushing
  <1> DEFINE todo == {o \in Range(map) \ {None} : metric[o].dirty}
             r == [flush EXCEPT !.pc = "next", !.todo = todo]
  <1>1. \A o \in todo : o \in Ids /\ metric[o].name # None /\ map[metric[o].name] = o
    <2> TAKE o \in todo
    <2>1. PICK n \in Names : map[n] = o /\ o # None
      BY <1>0, TypeParts DEF Range
    <2> QED
      BY <1>0, <2>1, Known, IdsFacts
  <1>2. r \in FlushType /\ r.pc = "next" /\ r.todo = todo /\ r.o = flush.o /\ r.buffer = flush.buffer
    <2>1. todo \in SUBSET Ids
      BY <1>1
    <2> HIDE DEF todo
    <2> QED
      BY <1>0, <2>1 DEF FlushType
  <1>3. flush' = r /\ UNCHANGED <<mode, made, metric, lock, map, files, client, updates, crashes>>
    BY DEF FlushBegin
  <1>4. flush.o = None
    BY <1>0 DEF Global, BornFlush
  <1> HIDE DEF r, todo
  <1>5. FlushLocal(None)
    BY <1>0, <1>2, <1>3, <1>4, TypeParts DEF FlushLocal
  <1>6. BornFlush'
    BY <1>0, <1>1, <1>2, <1>3, <1>4 DEF BornFlush, Global, WritingPc
  <1>7. Reached'
    BY <1>1, <1>2, <1>3, <1>4, IdsFacts DEF Reached
  <1>8. BufferDeleted'
    BY <1>2, <1>3 DEF BufferDeleted, WritingPc
  <1> QED
    BY <1>5, <1>6, <1>7, <1>8, FlushStep, IdsFacts

LEMMA StepFlushEnd ==
  ASSUME RInv, FlushEnd, Watched
  PROVE  RInv'
  <1>0. TypeOK /\ Global /\ flush.pc = "next" /\ mode = "running"
    BY DEF RInv, FlushEnd, Flushing
  <1>1. /\ flush' = IdleFlush /\ journal' = NoJournal
        /\ UNCHANGED <<mode, made, metric, lock, map, dir, tmp, image, cached, client, updates, crashes>>
    BY DEF FlushEnd
  <1>2. flush.o = None
    BY <1>0 DEF Global, BornFlush
  <1>3. FlushLocal(None)
    BY <1>0, <1>1, <1>2, Shapes, TypeParts DEF FlushLocal, IdleFlush, NoJournal
  <1>4. BornFlush' /\ BufferDeleted'
    BY <1>1 DEF BornFlush, BufferDeleted, IdleFlush, WritingPc
  <1>5. Reached'
    BY <1>1, IdsFacts DEF Reached, IdleFlush
  <1> QED
    BY <1>3, <1>4, <1>5, FlushStep, IdsFacts

(* A metric that nobody saves is served by its file.                         *)
LEMMA ServedAtRest ==
  ASSUME NEW n \in Names, NEW o \in Ids, map' = map, client' = client, map[n] = o, ~Saving(o),
         ~metric'[o].deleted, dir'[n] # None, image'[dir'[n]].ups \subseteq metric'[o].ups,
         Upcoming(n)' \subseteq metric'[o].ups,
         ~metric'[o].dirty \/ ~metric'[o].held => Upcoming(n)' = metric'[o].ups
  PROVE  Served(n)'
  <1>1. \A c \in Clients : client'[c].o = o => client'[c].pc \notin SavingPc
    BY DEF Saving, SavingPc
  <1>2. BeingSaved(n)'
    BY <1>1 DEF BeingSaved
  <1>3. InFile(n)'
    BY DEF InFile
  <1> QED
    BY <1>2, <1>3 DEF Served

LEMMA StepFlushCheck ==
  ASSUME RInv, NEW o \in Ids, FlushCheck(o), Watched
  PROVE  RInv'
  <1>0. TypeOK /\ Global /\ flush \in FlushType /\ flush.pc = "next" /\ mode = "running"
        /\ o \in flush.todo
    BY TypeParts DEF RInv, FlushCheck, Flushing
  <1>1. flush.o = None
    BY <1>0 DEF Global, BornFlush
  <1>2. PICK n \in Names : n = metric[o].name
    <2>1. metric[o].name # None /\ metric[o].name \in Names \cup {None}
      BY <1>0, TypeParts DEF Global, BornFlush, MetricType
    <2> QED
      BY <2>1
  <1> DEFINE r == [flush EXCEPT !.todo = @ \ {o},
                                !.pc = IF metric[o].deleted THEN "next" ELSE "take",
                                !.o = IF metric[o].deleted THEN None ELSE o]
  <1>3. /\ r \in FlushType /\ r.todo = flush.todo \ {o} /\ r.buffer = flush.buffer
        /\ r.pc = IF metric[o].deleted THEN "next" ELSE "take"
        /\ r.o = IF metric[o].deleted THEN None ELSE o
    BY <1>0 DEF FlushType
  <1>4. flush' = r /\ UNCHANGED <<mode, made, metric, lock, map, files, client, updates, crashes>>
    BY DEF FlushCheck
  <1> HIDE DEF r
  <1>5. FlushLocal(n)
    BY <1>0, <1>1, <1>2, <1>3, <1>4, TypeParts DEF FlushLocal
  <1>6. o # None /\ n # None
    BY IdsFacts
  <1>7. BornFlush'
    <2>1. \A p \in flush'.todo : metric'[p].name # None
      BY <1>0, <1>3, <1>4 DEF Global, BornFlush
    <2>2. journal'.name = None => journal' = NoJournal
      BY <1>0, <1>4 DEF Global, BornFlush
    <2> QED
      BY <1>2, <1>3, <1>4, <1>6, <2>1, <2>2 DEF BornFlush, WritingPc
  <1>8. Reached'
    <2>1. \A p \in Ids : p \in flush'.todo \/ p = flush'.o => p \in flush.todo
      BY <1>0, <1>3, <1>4, IdsFacts
    <2>2. \A p \in Ids : p \in flush.todo =>
            map[metric[p].name] = p \/ metric[p].deleted \/ \E c \in Clients : Deletes(c, p)
      BY <1>0 DEF Global, Reached
    <2>3. \A p \in Ids, c \in Clients : Deletes(c, p)' = Deletes(c, p)
      BY <1>4 DEF Deletes
    <2> QED
      BY <1>4, <2>1, <2>2, <2>3 DEF Reached
  <1>9. BufferDeleted'
    BY <1>3, <1>4 DEF BufferDeleted, WritingPc
  <1>10. Zombie(n) /\ Calm(n)
    BY DEF RInv
  <1>11. ~At2(n) /\ ~Writing(n) /\ ~Writing(n)'
    BY <1>1, <1>3, <1>4 DEF At2, Writing, WritingPc
  <1>12. At2(n)' => flush'.o = o /\ ~metric[o].deleted
    BY <1>3, <1>4 DEF At2
  <1>13. map[n] = o \/ metric[o].deleted \/ \E c \in Clients : Deletes(c, o)
    BY <1>0, <1>2 DEF Global, Reached
  <1>14. \A c \in Clients : Deletes(c, o) => client[c].pc = "delete" /\ client[c].o = o /\ client[c].name = n
    BY <1>0, <1>2, <1>6, Known DEF Deletes
  <1>15. Zombie(n)'
    <2>1. map[n] # None /\ metric[map[n]].deleted => ~At2(n)'
      BY <1>10, <1>12, <1>13, <1>14 DEF Zombie, ReadingPc
    <2> QED
      BY <1>4, <1>10, <2>1 DEF Zombie
  <1>16. ASSUME ~raced[n], ~raced'[n]
         PROVE  /\ (Sound(n) /\ Going(n) /\ Served(n) /\ Streams(n))'
                /\ (map'[n] = None /\ ~Dropping(n)' => dir'[n] = None)
    <2>1. /\ Sound(n) /\ Going(n) /\ Served(n) /\ Streams(n) /\ ~Races(n)
          /\ (map[n] = None /\ ~Dropping(n) => dir[n] = None)
      BY <1>0, <1>10, <1>16 DEF Calm
    <2>2. Sound(n)'
      BY <1>4, <2>1 DEF Sound, Dropped
    <2>3. ASSUME NEW c \in Clients, client[c].pc = "delete", client[c].name = n, At2(n)'
          PROVE  flush'.o = client[c].o
      <3>1. Dropping(n) /\ map[n] # o
        BY <1>6, <2>1, <2>3 DEF Dropping, Races
      <3>2. PICK d \in Clients : Deletes(d, o)
        BY <1>12, <1>13, <2>3, <3>1
      <3>3. d = c
        BY <1>14, <2>1, <2>3, <3>2 DEF Going
      <3> QED
        BY <1>12, <2>3, <3>2, <3>3 DEF Deletes
    <2>4. Going(n)'
      BY <1>4, <2>1, <2>3 DEF Going
    <2>5. Upcoming(n)' = Upcoming(n)
      BY <1>4, <1>11 DEF Upcoming
    <2>6. Saving(map[n])' = Saving(map[n])
      BY <1>4 DEF Saving
    <2>7. Served(n)'
      <3>1. BeingSaved(n) => BeingSaved(n)'
        BY <1>4 DEF BeingSaved
      <3>2. InFile(n) => InFile(n)'
        BY <1>4, <1>11, <2>5, <2>6 DEF InFile
      <3> QED
        BY <1>4, <2>1, <3>1, <3>2 DEF Served
    <2>8. Dropping(n)' = Dropping(n)
      BY <1>4 DEF Dropping
    <2>9. Streams(n)'
      BY <1>3, <1>4, <2>1, StreamsStay
    <2> QED
      BY <1>4, <2>1, <2>2, <2>4, <2>7, <2>8, <2>9
  <1> QED
    BY <1>5, <1>7, <1>8, <1>9, <1>15, <1>16, FlushStep

(* Where the flush is.                                                       *)
LEMMA FlushAt ==
  ASSUME RInv, flush.pc \notin {"idle", "next"}
  PROVE  /\ TypeOK /\ Global /\ flush \in FlushType /\ mode = "running"
         /\ \E n \in Names, o \in Ids : o = flush.o /\ o # None /\ n = metric[o].name /\ n # None
  <1>0. TypeOK /\ Global
    BY DEF RInv
  <1>1. flush.o # None /\ flush.o \in Ids /\ metric[flush.o].name \in Names
    BY <1>0, Known
  <1>2. mode = "running"
    BY <1>0 DEF Global, Stopped, IdleFlush
  <1> QED
    BY <1>0, <1>1, <1>2, TypeParts, IdsFacts

(* The list of metrics to flush stays sound while nobody is added to it.     *)
LEMMA ReachedKept ==
  ASSUME TypeOK, Global, map' = map, client' = client, flush'.todo = flush.todo,
         flush'.o \in {None, flush.o},
         \A o \in Ids : metric'[o].name = metric[o].name /\ metric'[o].deleted = metric[o].deleted
  PROVE  Reached'
  <1>1. \A o \in Ids : o # None
    BY IdsFacts
  <1>2. \A p \in Ids, c \in Clients : Deletes(c, p)' = Deletes(c, p)
    BY DEF Deletes
  <1>3. \A p \in Ids : p \in flush.todo \/ p = flush.o =>
            map[metric[p].name] = p \/ metric[p].deleted \/ \E c \in Clients : Deletes(c, p)
    BY DEF Global, Reached
  <1> QED
    BY <1>1, <1>2, <1>3 DEF Reached

LEMMA StepFlushTake ==
  ASSUME RInv, FlushTake, Watched
  PROVE  RInv'
  <1>a. flush.pc = "take"
    BY DEF FlushTake, Flushing
  <1>0. TypeOK /\ Global /\ flush \in FlushType /\ mode = "running"
    BY <1>a, FlushAt
  <1>1. PICK n \in Names, o \in Ids : o = flush.o /\ o # None /\ n = metric[o].name /\ n # None
    BY <1>a, FlushAt
  <1>2. /\ At2(n)
        /\ map[n] = None \/ ~metric[map[n]].deleted
        /\ ~raced[n] => /\ Sound(n) /\ Going(n) /\ Served(n) /\ Streams(n)
                        /\ (map[n] = None /\ ~Dropping(n) => dir[n] = None)
                        /\ map[n] # None => map[n] = o /\ ~Saving(o) /\ dir[n] # None
    BY <1>1, FlushFinds
  <1> DEFINE m == metric[o]
             y == [metric[o] EXCEPT !.dirty = FALSE, !.held = FALSE]
             b == [name |-> m.name, data |-> m.held, ups |-> m.ups, deleted |-> m.deleted]
             r == [flush EXCEPT !.pc = "journal", !.buffer = b]
  <1>3. /\ metric' = [metric EXCEPT ![o] = y] /\ flush' = r
        /\ UNCHANGED <<mode, made, lock, map, files, client, updates, crashes>>
    BY <1>1 DEF FlushTake
  <1>4. /\ y \in MetricType /\ y.name = n /\ y.deleted = metric[o].deleted /\ y.ups = metric[o].ups
        /\ b \in JournalType /\ b.name = n /\ b.deleted = metric[o].deleted
        /\ b.data = metric[o].held /\ b.ups = metric[o].ups
    <2>1. metric[o] \in MetricType
      BY <1>0, TypeParts
    <2> QED
      BY <1>1, <2>1 DEF MetricType, JournalType
  <1> HIDE DEF y, b
  <1>5. r \in FlushType /\ r.pc = "journal" /\ r.buffer = b /\ r.o = o /\ r.todo = flush.todo
    BY <1>0, <1>1, <1>4 DEF FlushType
  <1> HIDE DEF r
  <1>6. /\ metric' \in [Ids -> MetricType] /\ metric'[o] = y /\ \A p \in Ids \ {o} : metric'[p] = metric[p]
    BY <1>0, <1>3, <1>4, TypeParts
  <1>7. \A p \in Ids : metric'[p].name = metric[p].name /\ metric'[p].deleted = metric[p].deleted
    BY <1>1, <1>4, <1>6
  <1>8. FlushLocal(n)
    BY <1>0, <1>1, <1>3, <1>5, <1>6, <1>7, TypeParts DEF FlushLocal
  <1>9. BornFlush'
    <2>1. \A p \in flush'.todo : p \in Ids /\ metric'[p].name # None
      BY <1>0, <1>3, <1>5, <1>7 DEF Global, BornFlush, FlushType
    <2>2. journal'.name = None => journal' = NoJournal
      BY <1>0, <1>3 DEF Global, BornFlush
    <2> QED
      BY <1>1, <1>3, <1>4, <1>5, <1>6, <2>1, <2>2 DEF BornFlush, WritingPc
  <1>10. Reached'
    BY <1>0, <1>1, <1>3, <1>5, <1>7, ReachedKept
  <1>11. BufferDeleted'
    BY <1>3, <1>4, <1>5, <1>6 DEF BufferDeleted, WritingPc
  <1>12. Zombie(n)'
    <2>1. map[n] = None \/ map[n] \in Ids
      BY <1>0, Known
    <2> QED
      BY <1>2, <1>3, <1>7, <2>1 DEF Zombie
  <1>13. ASSUME ~raced[n], ~raced'[n]
         PROVE  /\ (Sound(n) /\ Going(n) /\ Served(n) /\ Streams(n))'
                /\ (map'[n] = None /\ ~Dropping(n)' => dir'[n] = None)
    <2>1. Sound(n)'
      <3>1. Dropped(n)' = Dropped(n)
        BY <1>7 DEF Dropped
      <3> QED
        BY <1>2, <1>3, <1>13, <3>1 DEF Sound
    <2>2. Going(n)'
      <3>1. \A c \in Clients : client[c].pc = "delete" => client[c].o \in Ids
        BY <1>0, Known
      <3> QED
        BY <1>1, <1>2, <1>3, <1>5, <1>7, <1>13, <3>1 DEF Going
    <2>3. ASSUME map[n] # None PROVE Served(n)'
      <3>1. map[n] = o /\ ~Saving(o) /\ dir[n] # None /\ ~metric[o].deleted /\ InFile(n)
        BY <1>2, <1>13, <2>3 DEF Served
      <3>2. ~Writing(n) /\ Writing(n)'
        BY <1>a, <1>1, <1>2, <1>3, <1>4, <1>5, <1>6 DEF Writing, At2, WritingPc
      <3>3. Upcoming(n) = image[dir[n]].ups
        BY <3>2 DEF Upcoming
      <3>4. Upcoming(n)' = IF metric[o].held THEN metric[o].ups ELSE image[dir[n]].ups
        BY <1>3, <1>4, <1>5, <3>2 DEF Upcoming
      <3>5. /\ image[dir[n]].ups \subseteq metric[o].ups
            /\ ~metric[o].held => image[dir[n]].ups = metric[o].ups
        BY <3>1, <3>3 DEF InFile
      <3>6. Upcoming(n)' = metric'[o].ups
        BY <1>4, <1>6, <3>4, <3>5
      <3>7. ~metric'[o].deleted /\ dir'[n] # None /\ image'[dir'[n]].ups \subseteq metric'[o].ups
        BY <1>3, <1>4, <1>5, <1>6, <3>1, <3>5
      <3> QED
        BY <1>3, <3>1, <3>6, <3>7, ServedAtRest
    <2>4. Dropping(n)' = Dropping(n)
      BY <1>3 DEF Dropping
    <2>5. Streams(n)'
      BY <1>2, <1>3, <1>5, <1>13, StreamsStay
    <2> QED
      BY <1>2, <1>3, <1>13, <2>1, <2>2, <2>3, <2>4, <2>5 DEF Served
  <1> QED
    BY <1>8, <1>9, <1>10, <1>11, <1>12, <1>13, FlushStep

(* The buffer belongs to the metric that is being flushed.                   *)
LEMMA BufferFacts ==
  ASSUME RInv, NEW n \in Names, NEW o \in Ids, o = flush.o, n = metric[o].name, o # None,
         flush.pc \in WritingPc
  PROVE  /\ flush.buffer.name = n /\ flush.buffer \in JournalType
         /\ flush.buffer.deleted => metric[o].deleted
         /\ ~raced[n] /\ dir[n] # None => flush.buffer.deleted = FALSE
         /\ flush.pc \in {"cache", "apply"} => flush.file \in Ids
  <1>1. flush \in FlushType /\ flush.buffer.name = n /\ (flush.buffer.deleted => metric[o].deleted)
        /\ (flush.pc \in {"cache", "apply"} => flush.file # None)
    BY TypeParts DEF RInv, Global, BornFlush, BufferDeleted
  <1>2. flush.buffer \in JournalType /\ flush.file \in Ids \cup {None}
    BY <1>1 DEF FlushType
  <1>3. ~raced[n] /\ metric[o].deleted => dir[n] = None
    BY FlushFinds
  <1> QED
    BY <1>1, <1>2, <1>3 DEF JournalType

LEMMA StepFlushJournal ==
  ASSUME RInv, FlushJournal, Watched
  PROVE  RInv'
  <1>a. flush.pc = "journal"
    BY DEF FlushJournal, Flushing
  <1>0. TypeOK /\ Global /\ flush \in FlushType /\ mode = "running"
    BY <1>a, FlushAt
  <1>1. PICK n \in Names, o \in Ids : o = flush.o /\ o # None /\ n = metric[o].name /\ n # None
    BY <1>a, FlushAt
  <1>2. /\ At2(n)
        /\ map[n] = None \/ ~metric[map[n]].deleted
        /\ ~raced[n] => /\ Sound(n) /\ Going(n) /\ Served(n) /\ Streams(n)
                        /\ (map[n] = None /\ ~Dropping(n) => dir[n] = None)
                        /\ map[n] # None => map[n] = o /\ ~Saving(o) /\ dir[n] # None
                        /\ dir[n] = None => Dropped(n)
    BY <1>1, FlushFinds
  <1>3. /\ flush.buffer.name = n /\ flush.buffer \in JournalType
        /\ flush.buffer.deleted => metric[o].deleted
        /\ ~raced[n] /\ dir[n] # None => flush.buffer.deleted = FALSE
    BY <1>a, <1>1, BufferFacts DEF WritingPc
  <1> DEFINE r == [flush EXCEPT !.pc = "find"]
  <1>4. /\ journal' = flush.buffer /\ flush' = r
        /\ UNCHANGED <<mode, made, metric, lock, map, dir, tmp, image, cached, client, updates, crashes>>
    BY DEF FlushJournal
  <1>5. r \in FlushType /\ r.pc = "find" /\ r.buffer = flush.buffer /\ r.o = o /\ r.todo = flush.todo
    BY <1>0, <1>1 DEF FlushType
  <1> HIDE DEF r
  <1>6. FlushLocal(n)
    BY <1>0, <1>1, <1>3, <1>4, <1>5, TypeParts DEF FlushLocal
  <1>7. BornFlush'
    <2>1. \A p \in flush'.todo : metric'[p].name # None
      BY <1>0, <1>4, <1>5 DEF Global, BornFlush
    <2> QED
      BY <1>1, <1>3, <1>4, <1>5, <2>1 DEF BornFlush, WritingPc
  <1>8. Reached'
    BY <1>0, <1>1, <1>4, <1>5, ReachedKept
  <1>9. BufferDeleted'
    BY <1>1, <1>3, <1>4, <1>5 DEF BufferDeleted, WritingPc
  <1>10. Zombie(n)'
    BY <1>2, <1>4 DEF Zombie
  <1>11. ASSUME ~raced[n], ~raced'[n]
         PROVE  /\ (Sound(n) /\ Going(n) /\ Served(n) /\ Streams(n))'
                /\ (map'[n] = None /\ ~Dropping(n)' => dir'[n] = None)
    <2>1. Sound(n)'
      <3>1. Dropped(n)' = Dropped(n)
        BY <1>4 DEF Dropped
      <3> QED
        BY <1>2, <1>3, <1>4, <1>11, <3>1 DEF Sound
    <2>2. Going(n)'
      BY <1>1, <1>2, <1>4, <1>5, <1>11 DEF Going
    <2>3. ASSUME map[n] # None PROVE Served(n)'
      <3>1. map[n] = o /\ ~Saving(o) /\ dir[n] # None /\ ~metric[o].deleted /\ InFile(n)
        BY <1>2, <1>11, <2>3 DEF Served
      <3>2. Writing(n) /\ Writing(n)'
        BY <1>a, <1>1, <1>2, <1>4, <1>5 DEF Writing, At2, WritingPc
      <3>3. Upcoming(n)' = Upcoming(n)
        BY <1>4, <1>5, <3>2 DEF Upcoming
      <3> QED
        BY <1>4, <1>5, <3>1, <3>3, ServedAtRest DEF InFile
    <2>4. Dropping(n)' = Dropping(n)
      BY <1>4 DEF Dropping
    <2>5. Streams(n)'
      BY <1>2, <1>4, <1>5, <1>11, StreamsStay
    <2> QED
      BY <1>2, <1>4, <1>11, <2>1, <2>2, <2>3, <2>4, <2>5 DEF Served
  <1> QED
    BY <1>6, <1>7, <1>8, <1>9, <1>10, <1>11, FlushStep

(* The record of a flush that goes to the next metric.                       *)
LEMMA NextMetricFacts ==
  ASSUME flush \in FlushType, NextMetric
  PROVE  /\ flush' \in FlushType /\ flush'.pc = "next" /\ flush'.o = None
         /\ flush'.todo = flush.todo /\ flush'.buffer = flush.buffer
  BY DEF NextMetric, FlushType

(* A step of open_file for the flush: whatever it finds, or leaves in the    *)
(* cache, is of the file that the name has, if it has one.                   *)
Streaming(n) ==
  /\ flush.pc \in {"find", "open", "cache"} /\ n = flush.buffer.name
  /\ UNCHANGED <<mode, made, metric, lock, map, dir, tmp, image, journal, client, updates, crashes>>
  /\ flush' \in FlushType /\ flush'.buffer = flush.buffer /\ flush'.todo = flush.todo
  /\ \/ dir[n] = None /\ flush'.o = None /\ flush'.pc = "next"
     \/ flush'.o = flush.o /\ flush'.pc \in WritingPc
  /\ flush'.pc \in {"cache", "apply"} => flush'.file # None
  /\ cached' \in [Names -> Ids \cup {None}] /\ \A m \in Names \ {n} : cached'[m] = cached[m]
  /\ ~raced[n] /\ dir[n] # None =>
       /\ cached'[n] \in {None, cached[n], dir[n]}
       /\ flush'.pc \in {"cache", "apply"} => flush'.file = dir[n]

LEMMA StepFlushStream ==
  ASSUME RInv, NEW n \in Names, Streaming(n), Watched
  PROVE  RInv'
  <1>a. flush.pc \in {"find", "open", "cache"} /\ flush.pc \notin {"idle", "next"}
        /\ flush.pc \in WritingPc /\ n = flush.buffer.name
    BY DEF Streaming, WritingPc
  <1>0. TypeOK /\ Global /\ flush \in FlushType /\ mode = "running"
    BY <1>a, FlushAt
  <1>1. PICK o \in Ids : o = flush.o /\ o # None /\ n = metric[o].name /\ n # None
    BY <1>a, FlushAt, BufferFacts
  <1>2. /\ At2(n)
        /\ map[n] = None \/ ~metric[map[n]].deleted
        /\ ~raced[n] => /\ Sound(n) /\ Going(n) /\ Served(n) /\ Streams(n)
                        /\ (map[n] = None /\ ~Dropping(n) => dir[n] = None)
                        /\ map[n] # None => map[n] = o /\ ~Saving(o) /\ dir[n] # None
                        /\ ~Renaming(n)
    BY <1>1, FlushFinds
  <1>3. /\ flush.buffer \in JournalType
        /\ flush.buffer.deleted => metric[o].deleted
    BY <1>a, <1>1, BufferFacts
  <1>4. /\ UNCHANGED <<mode, made, metric, lock, map, dir, tmp, image, journal, client, updates,
                       crashes>>
        /\ cached' \in [Names -> Ids \cup {None}] /\ \A m \in Names \ {n} : cached'[m] = cached[m]
    BY DEF Streaming
  <1>5. /\ flush' \in FlushType /\ flush'.buffer = flush.buffer /\ flush'.todo = flush.todo
        /\ \/ dir[n] = None /\ flush'.o = None /\ flush'.pc = "next"
           \/ flush'.o = o /\ flush'.pc \in WritingPc
        /\ flush'.pc \in {"cache", "apply"} => flush'.file # None
    BY <1>1 DEF Streaming
  <1>b. ~raced[n] /\ dir[n] # None =>
          /\ cached'[n] \in {None, cached[n], dir[n]}
          /\ flush'.pc \in {"cache", "apply"} => flush'.file = dir[n]
    BY DEF Streaming
  <1>6. FlushLocal(n)
    BY <1>0, <1>1, <1>4, <1>5, TypeParts DEF FlushLocal
  <1>7. BornFlush'
    <2>1. \A p \in flush'.todo : metric'[p].name # None
      BY <1>0, <1>4, <1>5 DEF Global, BornFlush
    <2>2. journal'.name = None => journal' = NoJournal
      BY <1>0, <1>4 DEF Global, BornFlush
    <2> QED
      BY <1>a, <1>1, <1>4, <1>5, <2>1, <2>2 DEF BornFlush, WritingPc
  <1>8. Reached'
    BY <1>0, <1>1, <1>4, <1>5, ReachedKept
  <1>9. BufferDeleted'
    BY <1>1, <1>3, <1>4, <1>5 DEF BufferDeleted, WritingPc
  <1>10. Zombie(n)'
    BY <1>2, <1>4 DEF Zombie
  <1>11. ASSUME ~raced[n], ~raced'[n]
         PROVE  /\ (Sound(n) /\ Going(n) /\ Served(n) /\ Streams(n))'
                /\ (map'[n] = None /\ ~Dropping(n)' => dir'[n] = None)
    <2>1. Sound(n)'
      BY <1>2, <1>4, <1>11 DEF Sound, Dropped
    <2>2. Going(n)'
      <3>1. At2(n)' => flush'.o = o
        BY <1>5 DEF At2
      <3> QED
        BY <1>1, <1>2, <1>4, <1>11, <3>1 DEF Going
    <2>3. ASSUME map[n] # None PROVE Served(n)'
      <3>1. map[n] = o /\ ~Saving(o) /\ dir[n] # None /\ ~metric[o].deleted /\ InFile(n)
        BY <1>2, <1>11, <2>3 DEF Served
      <3>2. Writing(n) /\ Writing(n)'
        BY <1>a, <1>1, <1>2, <1>4, <1>5, <3>1 DEF Writing, At2
      <3>3. Upcoming(n)' = Upcoming(n)
        BY <1>4, <1>5, <3>2 DEF Upcoming
      <3> QED
        BY <1>4, <3>1, <3>3, ServedAtRest DEF InFile
    <2>4. Dropping(n)' = Dropping(n)
      BY <1>4 DEF Dropping
    <2>5. Streams(n)'
      <3>1. ~Renaming(n)'
        BY <1>2, <1>4, <1>11 DEF Renaming
      <3> QED
        BY <1>2, <1>4, <1>b, <1>11, <3>1 DEF Streams
    <2> QED
      BY <1>2, <1>4, <1>11, <2>1, <2>2, <2>3, <2>4, <2>5 DEF Served
  <1> QED
    BY <1>6, <1>7, <1>8, <1>9, <1>10, <1>11, FlushStep

(* Whose file the flush opens, and what it knows of streams.                 *)
LEMMA Streamer ==
  ASSUME RInv, flush.pc \in {"find", "open", "cache"}
  PROVE  /\ flush \in FlushType /\ flush.buffer.name \in Names
         /\ cached \in [Names -> Ids \cup {None}]
         /\ dir[flush.buffer.name] \in Ids \cup {None}
         /\ flush.pc = "cache" => flush.file \in Ids /\ flush.file # None
         /\ At2(flush.buffer.name)
         /\ ~raced[flush.buffer.name] => Streams(flush.buffer.name)
  <1>1. flush.pc \notin {"idle", "next"} /\ flush.pc \in WritingPc
    BY DEF WritingPc
  <1>2. PICK n \in Names, o \in Ids : o = flush.o /\ o # None /\ n = metric[o].name /\ n # None
    BY <1>1, FlushAt
  <1>3. flush.buffer.name = n /\ (flush.pc = "cache" => flush.file \in Ids)
    BY <1>1, <1>2, BufferFacts
  <1>4. At2(n) /\ (~raced[n] => Streams(n))
    BY <1>2, FlushFinds
  <1> QED
    BY <1>2, <1>3, <1>4, TypeParts, IdsFacts DEF RInv

LEMMA StepFlushFind ==
  ASSUME RInv, FlushFind, Watched
  PROVE  RInv'
  <1>1. flush.pc = "find"
    BY DEF FlushFind, Flushing
  <1>2. PICK n \in Names : n = flush.buffer.name
    BY <1>1, Streamer
  <1>3. /\ flush \in FlushType /\ cached \in [Names -> Ids \cup {None}]
        /\ ~raced[n] => Streams(n)
    BY <1>1, <1>2, Streamer
  <1> DEFINE r == [flush EXCEPT !.pc = IF cached[n] = None THEN "open" ELSE "apply",
                                !.file = cached[n]]
  <1>4. flush' = r /\ UNCHANGED <<mode, made, metric, lock, map, files, client, updates, crashes>>
    BY <1>2 DEF FlushFind
  <1>5. /\ r \in FlushType /\ r.buffer = flush.buffer /\ r.todo = flush.todo /\ r.o = flush.o
        /\ r.pc \in {"open", "apply"} /\ (r.pc = "apply" => cached[n] # None) /\ r.file = cached[n]
    BY <1>3 DEF FlushType
  <1> HIDE DEF r
  <1>6. Streaming(n)
    BY <1>1, <1>2, <1>3, <1>4, <1>5 DEF Streaming, Streams, WritingPc
  <1> QED
    BY <1>6, StepFlushStream

LEMMA StepFlushOpen ==
  ASSUME RInv, FlushOpen, Watched
  PROVE  RInv'
  <1>1. flush.pc = "open"
    BY DEF FlushOpen, Flushing
  <1>2. PICK n \in Names : n = flush.buffer.name
    BY <1>1, Streamer
  <1>3. /\ flush \in FlushType /\ cached \in [Names -> Ids \cup {None}]
        /\ dir[n] \in Ids \cup {None}
    BY <1>1, <1>2, Streamer
  <1>4. UNCHANGED <<mode, made, metric, lock, map, files, client, updates, crashes>>
    BY DEF FlushOpen
  <1>5. /\ flush' \in FlushType /\ flush'.buffer = flush.buffer /\ flush'.todo = flush.todo
        /\ \/ dir[n] = None /\ flush'.o = None /\ flush'.pc = "next"
           \/ dir[n] # None /\ flush'.o = flush.o /\ flush'.pc = "cache" /\ flush'.file = dir[n]
    <2>1. CASE dir[n] = None
      BY <1>2, <1>3, <2>1, NextMetricFacts DEF FlushOpen
    <2>2. CASE dir[n] # None
      <3> DEFINE r == [flush EXCEPT !.pc = "cache", !.file = dir[n]]
      <3>1. flush' = r
        BY <1>2, <2>2 DEF FlushOpen
      <3> QED
        BY <1>3, <2>2, <3>1 DEF FlushType
    <2> QED
      BY <2>1, <2>2
  <1>6. Streaming(n)
    BY <1>1, <1>2, <1>3, <1>4, <1>5 DEF Streaming, WritingPc
  <1> QED
    BY <1>6, StepFlushStream

LEMMA StepFlushInsert ==
  ASSUME RInv, FlushInsert, Watched
  PROVE  RInv'
  <1>1. flush.pc = "cache"
    BY DEF FlushInsert, Flushing
  <1>2. PICK n \in Names : n = flush.buffer.name
    BY <1>1, Streamer
  <1>3. /\ flush \in FlushType /\ cached \in [Names -> Ids \cup {None}]
        /\ flush.file \in Ids /\ flush.file # None /\ At2(n)
        /\ ~raced[n] => Streams(n)
    BY <1>1, <1>2, Streamer
  <1> DEFINE r == [flush EXCEPT !.pc = "apply"]
             k == IF cached[n] = None THEN flush.file ELSE cached[n]
  <1>4. /\ flush' = r /\ cached' = [cached EXCEPT ![n] = k]
        /\ UNCHANGED <<mode, made, metric, lock, map, dir, tmp, image, journal, client, updates,
                       crashes>>
    BY <1>2 DEF FlushInsert, InCache
  <1>5. /\ r \in FlushType /\ r.buffer = flush.buffer /\ r.todo = flush.todo /\ r.o = flush.o
        /\ r.pc = "apply" /\ r.file = flush.file /\ k \in Ids \cup {None}
        /\ k \in {cached[n], flush.file}
    BY <1>3 DEF FlushType
  <1> HIDE DEF r, k
  <1>6. cached' \in [Names -> Ids \cup {None}] /\ cached'[n] = k
        /\ \A m \in Names \ {n} : cached'[m] = cached[m]
    BY <1>3, <1>4, <1>5
  <1>7. ~raced[n] /\ dir[n] # None => flush.file = dir[n]
    BY <1>1, <1>3 DEF Streams
  <1>8. Streaming(n)
    BY <1>1, <1>2, <1>3, <1>4, <1>5, <1>6, <1>7 DEF Streaming, WritingPc
  <1> QED
    BY <1>8, StepFlushStream

LEMMA StepFlushApply ==
  ASSUME RInv, FlushApply, Watched
  PROVE  RInv'
  <1>a. flush.pc = "apply"
    BY DEF FlushApply, Flushing
  <1>0. TypeOK /\ Global /\ flush \in FlushType /\ mode = "running"
    BY <1>a, FlushAt
  <1>1. PICK n \in Names, o \in Ids : o = flush.o /\ o # None /\ n = metric[o].name /\ n # None
    BY <1>a, FlushAt
  <1>2. /\ At2(n)
        /\ map[n] = None \/ ~metric[map[n]].deleted
        /\ ~raced[n] => /\ Sound(n) /\ Going(n) /\ Served(n) /\ Streams(n)
                        /\ (map[n] = None /\ ~Dropping(n) => dir[n] = None)
                        /\ map[n] # None => map[n] = o /\ ~Saving(o) /\ dir[n] # None
    BY <1>1, FlushFinds
  <1>b. PICK i \in Ids : i = flush.file /\ (dir[n] = i => metric[i].name = n)
    <2>1. flush.file \in Ids
      BY <1>a, <1>1, BufferFacts DEF WritingPc
    <2>2. dir[n] = flush.file => metric[flush.file].name = n
      BY <1>0, <2>1, Known, IdsFacts
    <2> QED
      BY <2>1, <2>2
  <1>3. /\ flush.buffer.name = n /\ flush.buffer \in JournalType
        /\ ~raced[n] /\ dir[n] # None => flush.buffer.deleted = FALSE
    BY <1>a, <1>1, BufferFacts DEF WritingPc
  <1> DEFINE x == Overwritten(image[i], flush.buffer)
  <1>4. /\ x \in ImageType /\ x.deleted = flush.buffer.deleted
        /\ image[i].whole = TRUE => x.whole = TRUE
        /\ x.ups = IF flush.buffer.data THEN flush.buffer.ups ELSE image[i].ups
    <2>1. image[i] \in ImageType
      BY <1>0, TypeParts
    <2> QED
      BY <1>3, <2>1 DEF Overwritten, ImageType, JournalType
  <1>5. UNCHANGED <<mode, made, metric, lock, map, dir, tmp, cached, journal, client, updates, crashes>>
    BY DEF FlushApply
  <1>6. \/ dir[n] = i /\ image' = [image EXCEPT ![i] = x] /\ flush' = [flush EXCEPT !.pc = "check"]
        \/ dir[n] # i /\ image' = image /\ (NextMetric \/ flush' = [flush EXCEPT !.pc = "check"])
    <2>1. CASE dir[n] = i
      <3>1. image' = [image EXCEPT ![i] = x]
        BY <1>0, <1>b, <1>3, <2>1, TypeParts DEF FlushApply
      <3> QED
        BY <1>b, <1>3, <2>1, <3>1 DEF FlushApply
    <2>2. CASE dir[n] # i
      BY <1>b, <1>3, <2>2 DEF FlushApply
    <2> QED
      BY <2>1, <2>2
  <1> HIDE DEF x
  <1>7. /\ flush' \in FlushType /\ flush'.buffer = flush.buffer /\ flush'.todo = flush.todo
        /\ \/ flush'.o = None /\ flush'.pc = "next"
           \/ flush'.o = o /\ flush'.pc = "check"
    <2>1. CASE NextMetric
      BY <1>0, <2>1, NextMetricFacts
    <2>2. CASE flush' = [flush EXCEPT !.pc = "check"]
      BY <1>0, <1>1, <2>2 DEF FlushType
    <2> QED
      BY <1>6, <2>1, <2>2
  <1>8. /\ image' \in [Ids -> ImageType] /\ \A j \in Ids \ {i} : image'[j] = image[j]
        /\ dir[n] = i => image'[i] = x
        /\ dir[n] # i => image' = image
    BY <1>0, <1>4, <1>6, TypeParts
  <1>9. FlushLocal(n)
    BY <1>0, <1>1, <1>b, <1>5, <1>7, <1>8, TypeParts DEF FlushLocal
  <1>10. BornFlush'
    <2>1. \A p \in flush'.todo : metric'[p].name # None
      BY <1>0, <1>5, <1>7 DEF Global, BornFlush
    <2>2. journal'.name = None => journal' = NoJournal
      BY <1>0, <1>5 DEF Global, BornFlush
    <2> QED
      BY <1>1, <1>3, <1>5, <1>7, <2>1, <2>2 DEF BornFlush, WritingPc
  <1>11. Reached'
    BY <1>0, <1>1, <1>5, <1>7, ReachedKept
  <1>12. BufferDeleted'
    BY <1>7 DEF BufferDeleted, WritingPc
  <1>13. Zombie(n)'
    BY <1>2, <1>5 DEF Zombie
  <1>14. ASSUME ~raced[n], ~raced'[n]
         PROVE  /\ (Sound(n) /\ Going(n) /\ Served(n) /\ Streams(n))'
                /\ (map'[n] = None /\ ~Dropping(n)' => dir'[n] = None)
    <2>0. dir[n] # None => /\ dir[n] \in Ids
                           /\ image[dir[n]].whole = TRUE /\ image[dir[n]].deleted = FALSE
      <3>1. dir[n] # None => dir[n] \in Ids
        BY <1>0, Known
      <3>2. dir[n] # None => image[dir[n]] \in ImageType
        BY <1>0, <3>1, TypeParts
      <3> QED
        BY <1>2, <1>14, <3>1, <3>2 DEF Sound, ImageType
    <2>1. Sound(n)'
      <3>1. dir[n] # None => image'[dir[n]].whole /\ ~image'[dir[n]].deleted
        <4>1. CASE dir[n] = i
          BY <1>3, <1>4, <1>8, <1>14, <2>0, <4>1
        <4>2. CASE dir[n] # i
          BY <1>8, <2>0, <4>2
        <4> QED
          BY <4>1, <4>2
      <3> QED
        BY <1>2, <1>5, <1>14, <3>1 DEF Sound, Dropped
    <2>2. Going(n)'
      <3>1. At2(n)' => flush'.o = o
        BY <1>7 DEF At2
      <3> QED
        BY <1>1, <1>2, <1>5, <1>14, <3>1 DEF Going
    <2>3. ASSUME map[n] # None PROVE Served(n)'
      <3>1. map[n] = o /\ ~Saving(o) /\ dir[n] # None /\ ~metric[o].deleted /\ InFile(n)
        BY <1>2, <1>14, <2>3 DEF Served
      <3>2. Writing(n) /\ ~Writing(n)'
        BY <1>a, <1>2, <1>7 DEF Writing, WritingPc
      <3>3. dir[n] = i
        BY <1>a, <1>b, <1>2, <1>14, <3>1 DEF Streams
      <3>4. Upcoming(n) = x.ups
        BY <1>4, <3>2, <3>3 DEF Upcoming
      <3>5. Upcoming(n)' = x.ups /\ image'[dir'[n]].ups = x.ups
        BY <1>5, <1>8, <3>2, <3>3 DEF Upcoming
      <3> QED
        BY <1>5, <3>1, <3>2, <3>4, <3>5, ServedAtRest DEF InFile
    <2>4. Dropping(n)' = Dropping(n)
      BY <1>5 DEF Dropping
    <2>5. Streams(n)'
      BY <1>2, <1>5, <1>7, <1>14, StreamsStay
    <2> QED
      BY <1>2, <1>5, <1>14, <2>1, <2>2, <2>3, <2>4, <2>5 DEF Served
  <1> QED
    BY <1>9, <1>10, <1>11, <1>12, <1>13, <1>14, FlushStep

LEMMA StepFlushCheckDeleted ==
  ASSUME RInv, FlushCheckDeleted, Watched
  PROVE  RInv'
  <1>a. flush.pc = "check"
    BY DEF FlushCheckDeleted, Flushing
  <1>0. TypeOK /\ Global /\ flush \in FlushType /\ mode = "running"
    BY <1>a, FlushAt
  <1>1. PICK n \in Names, o \in Ids : o = flush.o /\ o # None /\ n = metric[o].name /\ n # None
    BY <1>a, FlushAt
  <1>2. /\ At2(n)
        /\ map[n] = None \/ ~metric[map[n]].deleted
        /\ ~raced[n] => /\ Sound(n) /\ Going(n) /\ Served(n) /\ Streams(n)
                        /\ (map[n] = None /\ ~Dropping(n) => dir[n] = None)
                        /\ map[n] # None => map[n] = o /\ ~Saving(o) /\ dir[n] # None
                        /\ metric[o].deleted => dir[n] = None
    BY <1>1, FlushFinds
  <1>3. /\ flush' \in FlushType /\ flush'.pc = "next" /\ flush'.o = None
        /\ flush'.todo = flush.todo
        /\ UNCHANGED <<mode, made, lock, map, tmp, image, journal, client, updates, crashes>>
    BY <1>0, NextMetricFacts DEF FlushCheckDeleted
  <1>4. metric' = metric
    <2>1. metric \in [Ids -> MetricType] /\ metric[o] \in MetricType
      BY <1>0, TypeParts
    <2>2. CASE metric[o].deleted
      <3>1. metric' = [metric EXCEPT ![o].deleted = TRUE]
        BY <1>1, <2>2 DEF FlushCheckDeleted, DeleteFile
      <3>2. [metric[o] EXCEPT !.deleted = TRUE] = metric[o]
        BY <2>1, <2>2 DEF MetricType
      <3> QED
        BY <2>1, <3>1, <3>2
    <2>3. CASE ~metric[o].deleted
      BY <1>1, <2>3 DEF FlushCheckDeleted
    <2> QED
      BY <2>2, <2>3
  <1>5. /\ dir' \in [Names -> Ids \cup {None}] /\ \A m \in Names \ {n} : dir'[m] = dir[m]
        /\ cached' \in [Names -> Ids \cup {None}] /\ \A m \in Names \ {n} : cached'[m] = cached[m]
        /\ dir'[n] = IF metric[o].deleted THEN None ELSE dir[n]
        /\ cached'[n] \in {None, cached[n]}
    <2>1. /\ dir' = IF metric[o].deleted THEN [dir EXCEPT ![n] = None] ELSE dir
          /\ cached' = IF metric[o].deleted THEN [cached EXCEPT ![n] = None] ELSE cached
      BY <1>1 DEF FlushCheckDeleted, DeleteFile
    <2> QED
      BY <1>0, <2>1, TypeParts
  <1>6. FlushLocal(n)
    BY <1>0, <1>1, <1>3, <1>4, <1>5, TypeParts DEF FlushLocal
  <1>7. BornFlush'
    <2>1. \A p \in flush'.todo : metric'[p].name # None
      BY <1>0, <1>3, <1>4 DEF Global, BornFlush
    <2>2. journal'.name = None => journal' = NoJournal
      BY <1>0, <1>3 DEF Global, BornFlush
    <2> QED
      BY <1>3, <2>1, <2>2 DEF BornFlush, WritingPc
  <1>8. Reached'
    BY <1>0, <1>3, <1>4, ReachedKept
  <1>9. BufferDeleted'
    BY <1>3 DEF BufferDeleted, WritingPc
  <1>10. Zombie(n)'
    BY <1>2, <1>3, <1>4 DEF Zombie
  <1>11. ASSUME ~raced[n], ~raced'[n]
         PROVE  /\ (Sound(n) /\ Going(n) /\ Served(n) /\ Streams(n))'
                /\ (map'[n] = None /\ ~Dropping(n)' => dir'[n] = None)
    <2>0. dir'[n] = dir[n]
      BY <1>2, <1>5, <1>11
    <2>1. Sound(n)'
      BY <1>2, <1>3, <1>4, <1>11, <2>0 DEF Sound, Dropped
    <2>2. Going(n)'
      BY <1>2, <1>3, <1>4, <1>11, <2>0 DEF Going, At2
    <2>3. ASSUME map[n] # None PROVE Served(n)'
      <3>1. map[n] = o /\ ~Saving(o) /\ dir[n] # None /\ ~metric[o].deleted /\ InFile(n)
        BY <1>2, <1>11, <2>3 DEF Served
      <3>2. ~Writing(n) /\ ~Writing(n)'
        BY <1>a, <1>3 DEF Writing, WritingPc
      <3>3. Upcoming(n)' = Upcoming(n)
        BY <1>3, <2>0, <3>2 DEF Upcoming
      <3> QED
        BY <1>3, <1>4, <2>0, <3>1, <3>2, <3>3, ServedAtRest DEF InFile
    <2>4. Dropping(n)' = Dropping(n)
      BY <1>3 DEF Dropping
    <2>5. Streams(n)'
      BY <1>2, <1>3, <1>5, <1>11, <2>0, StreamsStay
    <2> QED
      BY <1>2, <1>3, <1>11, <2>0, <2>1, <2>2, <2>3, <2>4, <2>5 DEF Served
  <1> QED
    BY <1>6, <1>7, <1>8, <1>9, <1>10, <1>11, FlushStep

-----------------------------------------------------------------------------
(* Crash and restart.                                                        *)
LEMMA StepCrash ==
  ASSUME RInv, Crash, Watched
  PROVE  RInv'
  <1>0. TypeOK /\ Global
    BY DEF RInv
  <1>1. /\ mode' = "crashed" /\ map' = [n \in Names |-> None] /\ lock' = [o \in Ids |-> Nobody]
        /\ client' = [c \in Clients |-> IdleClient] /\ flush' = IdleFlush
        /\ crashes < MaxCrashes /\ crashes' = crashes + 1
        /\ cached' = [n \in Names |-> None]
        /\ UNCHANGED <<made, metric, dir, tmp, image, journal, updates>>
    BY DEF Crash
  <1>2. /\ \A n \in Names : map'[n] = None /\ cached'[n] = None
        /\ \A c \in Clients : client'[c] = IdleClient
        /\ \A o \in Ids : lock'[o] = Nobody
    BY <1>1
  <1>3. TypeOK'
    <2>1. raced' \in [Names -> BOOLEAN]
      BY Zenon DEF Watched
    <2>2. crashes' \in 0 .. MaxCrashes
      BY <1>0, <1>1, RegistryAssumption DEF TypeOK
    <2>3. /\ made \in 0 .. MaxMetrics /\ metric \in [Ids -> MetricType]
          /\ dir \in [Names -> Ids \cup {None}] /\ tmp \in [Names -> Ids \cup {None}]
          /\ image \in [Ids -> ImageType] /\ journal \in JournalType /\ updates \in 0 .. MaxUpdates
      BY <1>0, TypeParts
    <2>4. /\ map' \in [Names -> Ids \cup {None}] /\ cached' \in [Names -> Ids \cup {None}]
          /\ lock' \in [Ids -> Clients \cup {Nobody}]
          /\ client' \in [Clients -> ClientType] /\ flush' \in FlushType
          /\ \A c \in Clients : client'[c].o = None <=> client'[c].pc \in {"idle", "insert"}
      BY <1>1, <1>2, Shapes DEF IdleClient
    <2> QED
      BY <1>1, <2>1, <2>2, <2>3, <2>4 DEF TypeOK, MetricType, ImageType, JournalType, ClientType, FlushType
  <1>4. Born'
    BY <1>0, <1>1, <1>2 DEF Global, Born
  <1>5. BornClient' /\ Droppers' /\ Locks'
    BY <1>2, RegistryAssumption DEF BornClient, Droppers, Locks, Holds, IdleClient, SavingPc, ReadingPc
  <1>6. BornFlush' /\ BufferDeleted' /\ Reached' /\ Stopped'
    BY <1>0, <1>1, IdsFacts DEF Global, BornFlush, BufferDeleted, Reached, Stopped, IdleFlush,
       WritingPc
  <1>7. ASSUME NEW n \in Names PROVE Zombie(n)' /\ Calm(n)'
    <2>1. Zombie(n)'
      BY <1>2 DEF Zombie
    <2>2. Sound(n) => Sound(n)'
      BY <1>1 DEF Sound, Dropped
    <2>3. Going(n)'
      BY <1>2 DEF Going, IdleClient
    <2>4. Served(n)'
      BY <1>2 DEF Served
    <2>5. Calm(n)
      BY DEF RInv
    <2>6. Streams(n)'
      BY <1>1, <1>2 DEF Streams, At2, IdleFlush
    <2> QED
      BY <1>0, <1>1, <2>1, <2>2, <2>3, <2>4, <2>5, <2>6, WatchedFacts DEF Calm
  <1> QED
    BY <1>3, <1>4, <1>5, <1>6, <1>7 DEF RInv, Global

(* Nothing changes but the history variable, the mode, and the cache, which  *)
(* loses streams.                                                            *)
LEMMA StepStops ==
  ASSUME RInv, Watched, mode' = mode \/ (mode = "crashed" /\ mode' = "failed"),
         cached' \in [Names -> Ids \cup {None}], \A n \in Names : cached'[n] \in {None, cached[n]},
         UNCHANGED <<made, metric, lock, map, dir, tmp, image, journal, client, flush, updates,
                     crashes>>
  PROVE  RInv'
  <1>0. TypeOK /\ Global
    BY DEF RInv
  <1>1. TypeOK'
    <2>1. raced' \in [Names -> BOOLEAN]
      BY Zenon DEF Watched
    <2> QED
      BY <1>0, <2>1 DEF TypeOK
  <1>2. Born' /\ BornClient' /\ BornFlush'
    BY <1>0 DEF Global, Born, BornClient, BornFlush
  <1>3. Stopped' /\ Locks' /\ Droppers'
    BY <1>0 DEF Global, Stopped, Locks, Holds, Droppers
  <1>4. Reached' /\ BufferDeleted'
    <2>1. \A c \in Clients, o \in Ids : Deletes(c, o)' = Deletes(c, o)
      BY DEF Deletes
    <2> QED
      BY <1>0, <2>1 DEF Global, Reached, BufferDeleted
  <1>5. ASSUME NEW n \in Names PROVE Zombie(n)' /\ Calm(n)'
    <2>1. Zombie(n) /\ Calm(n)
      BY DEF RInv
    <2>2. Zombie(n)'
      BY <2>1 DEF Zombie, At2
    <2>3. Sound(n)' = Sound(n) /\ Going(n)' = Going(n) /\ Dropping(n)' = Dropping(n)
      BY DEF Sound, Going, Dropping, Dropped, At2
    <2>4. Served(n)' = Served(n)
      <3>1. BeingSaved(n)' = BeingSaved(n) /\ Saving(map[n])' = Saving(map[n])
        BY DEF BeingSaved, Saving
      <3>2. Upcoming(n)' = Upcoming(n) /\ Writing(n)' = Writing(n)
        BY DEF Upcoming, Writing, At2
      <3>3. InFile(n)' = InFile(n)
        BY <3>1, <3>2 DEF InFile
      <3> QED
        BY <3>1, <3>3 DEF Served
    <2>5. Streams(n) => Streams(n)'
      BY DEF Streams, Renaming, At2
    <2> QED
      BY <1>0, <2>1, <2>2, <2>3, <2>4, <2>5, WatchedFacts DEF Calm
  <1> QED
    BY <1>1, <1>2, <1>3, <1>4, <1>5 DEF RInv, Global

(* What the recovery makes of the files.                                     *)
LEMMA RecoveredFacts ==
  ASSUME RInv, CanStart
  PROVE  /\ Recovered \in [Ids -> ImageType]
         /\ \A n \in OnDisk : Recovered[dir[n]].whole = TRUE
         /\ \A n \in OnDisk : ~raced[n] => Recovered[dir[n]].deleted = FALSE
  <1>0. TypeOK /\ Global /\ image \in [Ids -> ImageType] /\ journal \in JournalType
    BY TypeParts DEF RInv
  <1>1. \A n \in OnDisk : n \in Names /\ dir[n] \in Ids /\ metric[dir[n]].name = n
    BY <1>0, Known DEF OnDisk
  <1>2. \A n \in OnDisk : ~raced[n] => image[dir[n]].deleted = FALSE
    <2> SUFFICES ASSUME NEW n \in OnDisk, ~raced[n] PROVE image[dir[n]].deleted = FALSE
      OBVIOUS
    <2>1. Calm(n) /\ dir[n] \in Ids /\ dir[n] # None
      BY <1>1, IdsFacts DEF RInv
    <2>2. image[dir[n]] \in ImageType
      BY <1>0, <2>1
    <2> QED
      BY <2>1, <2>2 DEF Calm, Sound, ImageType
  <1>3. CASE journal = NoJournal
    <2>1. Recovered = image
      BY <1>3 DEF Recovered
    <2>2. \A n \in OnDisk : image[dir[n]] \in ImageType
      BY <1>0, <1>1
    <2> QED
      BY <1>0, <1>2, <2>1, <2>2 DEF CanStart, ImageType
  <1>4. CASE journal # NoJournal
    <2>1. PICK m \in OnDisk : m = journal.name
      BY <1>4 DEF CanStart
    <2>2. PICK i \in Ids : i = dir[m] /\ metric[i].name = m
      BY <1>1
    <2> DEFINE x == Overwritten(image[i], journal)
    <2>3. x \in ImageType /\ x.deleted = journal.deleted
      <3>1. image[i] \in ImageType
        BY <1>0
      <3> QED
        BY <1>0, <3>1 DEF Overwritten, ImageType, JournalType
    <2>4. Recovered = [image EXCEPT ![i] = x]
      BY <1>0, <1>4, <2>1, <2>2 DEF Recovered
    <2> HIDE DEF x
    <2>5. Recovered \in [Ids -> ImageType] /\ Recovered[i] = x
          /\ \A j \in Ids \ {i} : Recovered[j] = image[j]
      BY <1>0, <2>3, <2>4
    <2>6. \A n \in OnDisk : Recovered[dir[n]].whole = TRUE
      <3>1. \A n \in OnDisk : Recovered[dir[n]] \in ImageType /\ Recovered[dir[n]].whole
        BY <1>1, <2>5 DEF CanStart
      <3> QED
        BY <3>1 DEF ImageType
    <2>7. ~raced[m] => journal.deleted = FALSE
      <3>1. Calm(m) /\ dir[m] # None
        BY <1>1, <2>1 DEF RInv, OnDisk
      <3> QED
        BY <1>0, <2>1, <3>1 DEF Calm, Sound, JournalType
    <2>8. ASSUME NEW n \in OnDisk, ~raced[n] PROVE Recovered[dir[n]].deleted = FALSE
      <3>1. CASE n = m
        BY <2>2, <2>3, <2>5, <2>7, <2>8, <3>1
      <3>2. CASE n # m
        <4>1. dir[n] \in Ids \ {i}
          BY <1>1, <2>2, <3>2
        <4> QED
          BY <1>2, <2>5, <2>8, <4>1
      <3> QED
        BY <3>1, <3>2
    <2> QED
      BY <2>5, <2>6, <2>8
  <1> QED
    BY <1>3, <1>4

(* A start makes one new metric of each file.                                *)
LEMMA StartFacts ==
  ASSUME RInv, Start
  PROVE  /\ made' \in 0 .. MaxMetrics /\ made <= made'
         /\ map' \in [Names -> Ids \cup {None}] /\ metric' \in [Ids -> MetricType]
         /\ \A o \in Ids : o <= made \/ o > made' => metric'[o] = metric[o]
         /\ \A n \in Names : dir[n] = None => map'[n] = None
         /\ \A n \in Names : dir[n] # None =>
              map'[n] \in Ids /\ map'[n] > made /\ metric'[map'[n]] = Loaded(n)
  <1>0. TypeOK /\ Global /\ made \in Nat /\ metric \in [Ids -> MetricType]
    <2>1. made \in Nat
      BY RegistryAssumption DEF RInv, TypeOK
    <2> QED
      BY <2>1, TypeParts DEF RInv
  <1>1. PICK k \in Nat : k = Cardinality(OnDisk)
    <2>1. OnDisk \subseteq Names
      BY DEF OnDisk
    <2>2. IsFiniteSet(OnDisk)
      BY <2>1, RegistryAssumption, FS_Subset
    <2> QED
      BY <2>2, FS_CardinalityType
  <1>2. made + k <= MaxMetrics /\ made' = made + k
    BY <1>1 DEF Start
  <1>3. PICK ids \in [OnDisk -> made + 1 .. made + k] :
       /\ IsInjective(ids)
       /\ map' = [n \in Names |-> IF n \in OnDisk THEN ids[n] ELSE None]
       /\ metric' = [o \in Ids |-> IF o \in Range(ids) THEN Loaded(Inverse(ids, OnDisk, Range(ids))[o])
                                                       ELSE metric[o]]
    BY <1>1 DEF Start
  <1>4. \A n \in OnDisk : ids[n] \in Ids /\ ids[n] > made /\ ids[n] <= made'
    <2> TAKE n \in OnDisk
    <2>1. ids[n] \in made + 1 .. made + k
      BY <1>3
    <2> QED
      BY <1>0, <1>2, <2>1, RegistryAssumption DEF Ids
  <1>5. \A n \in OnDisk : ids[n] \in Range(ids) /\ Inverse(ids, OnDisk, Range(ids))[ids[n]] = n
    <2> TAKE n \in OnDisk
    <2>1. ids[n] \in Range(ids)
      BY <1>3 DEF Range
    <2>2. Inverse(ids, OnDisk, Range(ids))[ids[n]] =
            CHOOSE s \in OnDisk : ids[n] \in Range(ids) => ids[s] = ids[n]
      BY <2>1 DEF Inverse
    <2>3. \A s \in OnDisk : ids[s] = ids[n] => s = n
      BY <1>3 DEF IsInjective
    <2> QED
      BY <2>1, <2>2, <2>3
  <1>6. \A n \in OnDisk : metric'[ids[n]] = Loaded(n)
    BY <1>3, <1>4, <1>5
  <1>7. \A o \in Range(ids) : \E n \in OnDisk : o = ids[n]
    BY <1>3 DEF Range
  <1>8. \A o \in Ids : o \notin Range(ids) => metric'[o] = metric[o]
    BY <1>3
  <1>9. \A n \in OnDisk : Loaded(n) \in MetricType
    <2> TAKE n \in OnDisk
    <2>1. n \in Names /\ dir[n] \in Ids
      BY <1>0, Known DEF OnDisk
    <2>2. Recovered[dir[n]] \in ImageType
      BY <2>1, RecoveredFacts DEF Start
    <2> QED
      BY <2>1, <2>2 DEF Loaded, MetricType, ImageType
  <1>10. metric' \in [Ids -> MetricType]
    <2>1. \A o \in Ids : metric'[o] \in MetricType
      BY <1>0, <1>6, <1>7, <1>8, <1>9
    <2>2. metric' = [o \in Ids |-> metric'[o]]
      BY <1>3
    <2> QED
      BY <2>1, <2>2
  <1>11. map' \in [Names -> Ids \cup {None}]
    BY <1>3, <1>4
  <1>12. \A o \in Ids : o <= made \/ o > made' => metric'[o] = metric[o]
    <2> TAKE o \in Ids
    <2>1. o \in Range(ids) => o > made /\ o <= made'
      BY <1>4, <1>7
    <2>2. o \in Nat
      BY IdsFacts
    <2> QED
      BY <1>0, <1>2, <1>8, <2>1, <2>2
  <1>13. \A n \in Names : dir[n] = None => map'[n] = None
    BY <1>3 DEF OnDisk
  <1>14. \A n \in Names : dir[n] # None =>
              map'[n] \in Ids /\ map'[n] > made /\ metric'[map'[n]] = Loaded(n)
    BY <1>3, <1>4, <1>6 DEF OnDisk
  <1>15. made' \in 0 .. MaxMetrics /\ made <= made'
    BY <1>0, <1>2, RegistryAssumption
  <1> QED
    BY <1>10, <1>11, <1>12, <1>13, <1>14, <1>15

LEMMA StepStart ==
  ASSUME RInv, Start, Watched
  PROVE  RInv'
  <1>0. TypeOK /\ Global
    BY DEF RInv
  <1>1. /\ mode = "crashed" /\ mode' = "running" /\ CanStart /\ image' = Recovered /\ cached' = dir
        /\ UNCHANGED <<lock, dir, tmp, journal, client, flush, updates, crashes>>
    BY DEF Start
  <1>2. /\ made' \in 0 .. MaxMetrics /\ made <= made'
        /\ map' \in [Names -> Ids \cup {None}] /\ metric' \in [Ids -> MetricType]
        /\ \A o \in Ids : o <= made \/ o > made' => metric'[o] = metric[o]
        /\ \A n \in Names : dir[n] = None => map'[n] = None
        /\ \A n \in Names : dir[n] # None =>
              map'[n] \in Ids /\ map'[n] > made /\ metric'[map'[n]] = Loaded(n)
    BY StartFacts
  <1>3. /\ image' \in [Ids -> ImageType]
        /\ \A n \in OnDisk : image'[dir[n]].whole = TRUE
        /\ \A n \in OnDisk : ~raced[n] => image'[dir[n]].deleted = FALSE
    BY <1>1, RecoveredFacts
  <1>4. /\ \A c \in Clients : client[c] = IdleClient
        /\ \A o \in Ids : lock[o] = Nobody
        /\ flush = IdleFlush
    BY <1>0, <1>1 DEF Global, Stopped
  <1>5. \A o \in Ids : metric[o].name # None => metric'[o] = metric[o]
    <2> SUFFICES ASSUME NEW o \in Ids, metric[o].name # None PROVE o <= made
      BY <1>2
    <2>1. ~(o > made) /\ o \in Nat /\ made \in Nat
      BY <1>0, IdsFacts DEF Global, Born, TypeOK
    <2> QED
      BY <2>1
  <1>6. \A n \in Names : dir[n] # None =>
          /\ map'[n] \in Ids /\ metric'[map'[n]].name = n
          /\ metric'[map'[n]].ups = image'[dir[n]].ups
          /\ metric'[map'[n]].deleted = image'[dir[n]].deleted
          /\ metric'[map'[n]].held = FALSE /\ metric'[map'[n]].dirty = FALSE
    <2> SUFFICES ASSUME NEW n \in Names, dir[n] # None
                 PROVE  /\ map'[n] \in Ids /\ metric'[map'[n]].name = n
                        /\ metric'[map'[n]].ups = image'[dir[n]].ups
                        /\ metric'[map'[n]].deleted = image'[dir[n]].deleted
                        /\ metric'[map'[n]].held = FALSE /\ metric'[map'[n]].dirty = FALSE
      OBVIOUS
    <2>1. map'[n] \in Ids /\ metric'[map'[n]] = Loaded(n)
      BY <1>2
    <2>2. /\ Loaded(n).name = n /\ Loaded(n).ups = Recovered[dir[n]].ups
          /\ Loaded(n).deleted = Recovered[dir[n]].deleted
          /\ Loaded(n).held = FALSE /\ Loaded(n).dirty = FALSE
      BY DEF Loaded
    <2> QED
      BY <1>1, <2>1, <2>2
  <1>7. TypeOK'
    <2>1. raced' \in [Names -> BOOLEAN]
      BY Zenon DEF Watched
    <2>2. /\ \A c \in Clients : client[c].o = None <=> client[c].pc \in {"idle", "insert"}
          /\ lock \in [Ids -> Clients \cup {Nobody}]
          /\ dir \in [Names -> Ids \cup {None}] /\ tmp \in [Names -> Ids \cup {None}]
          /\ journal \in JournalType /\ client \in [Clients -> ClientType] /\ flush \in FlushType
          /\ updates \in 0 .. MaxUpdates /\ crashes \in 0 .. MaxCrashes
      BY <1>0, TypeParts
    <2> QED
      BY <1>1, <1>2, <1>3, <2>1, <2>2
      DEF TypeOK, MetricType, ImageType, JournalType, ClientType, FlushType
  <1>8. Born'
    <2>1. \A o \in Ids : o > made' => metric'[o].name = None
      <3> TAKE o \in Ids
      <3>1. o > made' => o > made
        BY <1>0, <1>2, IdsFacts DEF TypeOK
      <3> QED
        BY <1>0, <1>2, <3>1 DEF Global, Born
    <2>2. \A n \in Names : map'[n] \in {None, map[n]} \/ metric'[map'[n]].name = n
      BY <1>2, <1>6
    <2> QED
      BY <1>0, <1>1, <1>5, <2>1, <2>2, BornKept
  <1>9. BornClient' /\ Droppers' /\ Locks'
    BY <1>1, <1>4, RegistryAssumption DEF BornClient, Droppers, Locks, Holds, IdleClient, SavingPc, ReadingPc
  <1>10. BornFlush' /\ BufferDeleted' /\ Reached' /\ Stopped'
    BY <1>0, <1>1, <1>4, IdsFacts DEF Global, BornFlush, BufferDeleted, Reached, Stopped, IdleFlush,
       WritingPc
  <1>11. ASSUME NEW n \in Names PROVE Zombie(n)' /\ Calm(n)'
    <2>1. \A c \in Clients : client'[c].name # n /\ client'[c].pc = "idle"
      BY <1>1, <1>4, IdsFacts DEF IdleClient
    <2>2. ~At2(n)' /\ ~Writing(n)'
      BY <1>1, <1>4 DEF At2, Writing, IdleFlush
    <2>3. Zombie(n)'
      BY <1>1, <1>2, <1>6, <2>1, <2>2 DEF Zombie
    <2>4. ASSUME ~raced[n], ~raced'[n], Sound(n) PROVE Sound(n)'
      <3>1. Dropped(n) => Dropped(n)'
        BY <1>5, IdsFacts DEF Dropped
      <3> QED
        BY <1>1, <1>3, <2>4, <3>1 DEF Sound, OnDisk
    <2>5. Going(n)'
      BY <2>1 DEF Going
    <2>6. ASSUME ~raced[n], map'[n] # None PROVE Served(n)'
      <3>1. dir[n] # None /\ ~metric'[map'[n]].deleted /\ image'[dir[n]].ups = metric'[map'[n]].ups
        BY <1>2, <1>3, <1>6, <2>6 DEF OnDisk
      <3>2. BeingSaved(n)'
        BY <2>1 DEF BeingSaved, SavingPc
      <3>3. Upcoming(n)' = image'[dir[n]].ups
        BY <1>1, <2>2 DEF Upcoming
      <3>4. InFile(n)'
        BY <1>1, <2>2, <3>1, <3>3 DEF InFile
      <3> QED
        BY <3>1, <3>2, <3>4 DEF Served
    <2>7. Calm(n)
      BY DEF RInv
    <2>8. map'[n] = None => dir'[n] = None /\ Served(n)'
      BY <1>1, <1>6, IdsFacts DEF Served
    <2>9. ~raced[n] => Sound(n)
      BY <2>7 DEF Calm
    <2>10. ~raced'[n] => ~raced[n] /\ ~Races(n)'
      BY <1>0, WatchedFacts
    <2>11. Streams(n)'
      BY <1>1, <2>2 DEF Streams
    <2> QED
      BY <2>3, <2>4, <2>5, <2>6, <2>8, <2>9, <2>10, <2>11 DEF Calm
  <1> QED
    BY <1>7, <1>8, <1>9, <1>10, <1>11 DEF RInv, Global

-----------------------------------------------------------------------------
LEMMA InitRInv == Init => RInv
  <1> SUFFICES ASSUME Init PROVE RInv
    OBVIOUS
  <1>1. TypeOK
    BY InitType
  <1>2. /\ mode = "running" /\ \A o \in Ids : metric[o] = Unborn
        /\ \A o \in Ids : lock[o] = Nobody
        /\ \A n \in Names : map[n] = None /\ dir[n] = None /\ tmp[n] = None /\ cached[n] = None
        /\ \A c \in Clients : client[c] = IdleClient
        /\ journal = NoJournal /\ flush = IdleFlush
    BY DEF Init
  <1>3. Global
    <2>1. Born
      BY <1>2 DEF Born, Unborn
    <2>2. BornClient /\ Locks /\ Droppers
      BY <1>2, RegistryAssumption DEF BornClient, Locks, Holds, Droppers, IdleClient, SavingPc, ReadingPc
    <2>3. BornFlush /\ BufferDeleted /\ Reached /\ Stopped
      BY <1>2, IdsFacts DEF BornFlush, BufferDeleted, Reached, Stopped, IdleFlush,
         WritingPc
    <2> QED
      BY <2>1, <2>2, <2>3 DEF Global
  <1>4. ASSUME NEW n \in Names PROVE Zombie(n) /\ Calm(n)
    <2>1. Zombie(n) /\ Served(n)
      BY <1>2 DEF Zombie, Served
    <2>2. Going(n)
      BY <1>2 DEF Going, IdleClient
    <2>3. Sound(n)
      BY <1>2, IdsFacts DEF Sound, NoJournal
    <2>4. ~Races(n)
      BY <1>2 DEF Races, Saving, Overtaken, IdleClient
    <2>5. Streams(n)
      BY <1>2 DEF Streams, At2, IdleFlush
    <2> QED
      BY <1>2, <2>1, <2>2, <2>3, <2>4, <2>5 DEF Calm
  <1> QED
    BY <1>1, <1>3, <1>4 DEF RInv

LEMMA StepClient ==
  ASSUME RInv, NEW c \in Clients, Client(c)
  PROVE  RInv'
  <1>1. CASE \E n \in Names : Create(c, n) /\ Watched
    BY <1>1, StepCreate
  <1>2. CASE \E n \in Names : Find(c, n) /\ Watched
    BY <1>2, StepFind
  <1>3. CASE \E n \in Names : Drop(c, n) /\ Watched
    BY <1>3, StepDrop
  <1>4. CASE \E n \in Names : Select(c, n) /\ Watched
    BY <1>4, StepSelect
  <1>5. CASE AutoCreate(c) /\ Watched
    BY <1>5, StepAutoCreate
  <1>6. CASE SaveCheck(c) /\ Watched
    BY <1>6, StepSaveCheck
  <1>7. CASE SaveOpen(c) /\ Watched
    BY <1>7, StepSaveOpen
  <1>8. CASE SaveWrite(c) /\ Watched
    BY <1>8, StepSaveWrite
  <1>9. CASE SaveFails(c) /\ Watched
    BY <1>9, StepSaveFails
  <1>10. CASE SaveRename(c) /\ Watched
    BY <1>10, StepSaveRename
  <1>11. CASE Update(c) /\ Watched
    BY <1>11, StepUpdate
  <1>12. CASE UpdateFind(c) /\ Watched
    BY <1>12, StepUpdateFind
  <1>13. CASE UpdateOpen(c) /\ Watched
    BY <1>13, StepUpdateOpen
  <1>14. CASE UpdateInsert(c) /\ Watched
    BY <1>14, StepUpdateInsert
  <1>15. CASE UpdateRead(c) /\ Watched
    BY <1>15, StepUpdateRead
  <1>16. CASE Delete(c) /\ Watched
    BY <1>16, StepDelete
  <1> QED
    BY <1>1, <1>2, <1>3, <1>4, <1>5, <1>6, <1>7, <1>8, <1>9, <1>10, <1>11, <1>12, <1>13, <1>14,
       <1>15, <1>16 DEF Client

LEMMA StepFlush ==
  ASSUME RInv, Flush
  PROVE  RInv'
  <1>1. CASE FlushBegin /\ Watched
    BY <1>1, StepFlushBegin
  <1>2. CASE \E o \in Ids : FlushCheck(o) /\ Watched
    BY <1>2, StepFlushCheck
  <1>3. CASE FlushTake /\ Watched
    BY <1>3, StepFlushTake
  <1>4. CASE FlushJournal /\ Watched
    BY <1>4, StepFlushJournal
  <1>5. CASE FlushFind /\ Watched
    BY <1>5, StepFlushFind
  <1>6. CASE FlushOpen /\ Watched
    BY <1>6, StepFlushOpen
  <1>7. CASE FlushInsert /\ Watched
    BY <1>7, StepFlushInsert
  <1>8. CASE FlushApply /\ Watched
    BY <1>8, StepFlushApply
  <1>9. CASE FlushCheckDeleted /\ Watched
    BY <1>9, StepFlushCheckDeleted
  <1>10. CASE FlushEnd /\ Watched
    BY <1>10, StepFlushEnd
  <1> QED
    BY <1>1, <1>2, <1>3, <1>4, <1>5, <1>6, <1>7, <1>8, <1>9, <1>10 DEF Flush

LEMMA StepNext == RInv /\ [Next]_vars => RInv'
  <1> SUFFICES ASSUME RInv, [Next]_vars PROVE RInv'
    OBVIOUS
  <1>1. CASE \E c \in Clients : Client(c)
    BY <1>1, StepClient
  <1>2. CASE Flush
    BY <1>2, StepFlush
  <1>3. CASE Crash /\ Watched
    BY <1>3, StepCrash
  <1>4. CASE Start /\ Watched
    BY <1>4, StepStart
  <1>5. cached \in [Names -> Ids \cup {None}]
    BY TypeParts DEF RInv
  <1>6. CASE StartFails /\ Watched
    BY <1>5, <1>6, StepStops DEF StartFails
  <1>7. CASE Halted /\ Watched
    <2>1. UNCHANGED <<mode, made, metric, lock, map, files, client, flush, updates, crashes>>
      BY <1>7, Zenon DEF Halted
    <2> QED
      BY <1>5, <1>7, <2>1, StepStops
  <1>8. CASE \E n \in Names : Purge(n) /\ Watched
    <2>1. PICK n \in Names : Purge(n) /\ Watched
      BY <1>8
    <2>2. /\ cached' \in [Names -> Ids \cup {None}] /\ \A m \in Names : cached'[m] \in {None, cached[m]}
          /\ UNCHANGED <<mode, made, metric, lock, map, dir, tmp, image, journal, client, flush,
                         updates, crashes>>
      BY <1>5, <2>1 DEF Purge
    <2> QED
      BY <2>1, <2>2, StepStops
  <1>9. CASE UNCHANGED vars
    <2>1. TypeOK' = TypeOK
      BY <1>9 DEF vars, TypeOK
    <2>2. Global' = Global
      BY <1>9 DEF vars, Global, Born, BornClient, BornFlush, Stopped, Locks, Holds, Droppers, Reached,
         BufferDeleted, Deletes
    <2>3. ASSUME NEW n \in Names PROVE Zombie(n)' = Zombie(n)
      BY <1>9 DEF vars, Zombie, At2
    <2>4. ASSUME NEW n \in Names PROVE Calm(n)' = Calm(n)
      <3>1. Races(n)' = Races(n)
        BY <1>9 DEF vars, Races, Saving, Dropping, FlushingAt, Renaming, Overtaken
      <3>2. Sound(n)' = Sound(n) /\ Going(n)' = Going(n) /\ Streams(n)' = Streams(n)
        BY <1>9 DEF vars, Sound, Dropped, Going, At2, Streams, Renaming
      <3>3. Served(n)' = Served(n)
        BY <1>9 DEF vars, Served, BeingSaved, InFile, Saving, Upcoming, Writing, At2
      <3>4. Dropping(n)' = Dropping(n)
        BY <1>9 DEF vars, Dropping
      <3> QED
        BY <1>9, <3>1, <3>2, <3>3, <3>4 DEF vars, Calm
    <2> QED
      BY <2>1, <2>2, <2>3, <2>4 DEF RInv
  <1> QED
    BY <1>1, <1>2, <1>3, <1>4, <1>6, <1>7, <1>8, <1>9 DEF Next

LEMMA Invariant == Spec => []RInv
  BY InitRInv, StepNext, PTL DEF Spec

(* Every variable keeps its type, and who works on a metric has one.         *)
THEOREM TypeCorrect == Spec => []TypeOK
  <1>1. RInv => TypeOK
    BY DEF RInv
  <1> QED
    BY <1>1, Invariant, PTL

(***************************************************************************)
(* Map and files agree on every name that nobody works on and that saw     *)
(* none of the three races: a metric in the map has a complete file with   *)
(* all its data, unless it is dirty, and a name not in the map has none    *)
(* (rrdb::create_metric, drop_metric, update_metric, select_from_metric    *)
(* and flush_to_disk, and the files cache they open files through).        *)
(***************************************************************************)
THEOREM FilesMatch == Spec => []MapMatchesFiles
  <1>1. RInv => MapMatchesFiles
    <2> SUFFICES ASSUME RInv, NEW n \in Names, Quiet(n), ~raced[n]
                 PROVE  IF map[n] = None THEN dir[n] = None
                        ELSE /\ dir[n] # None
                             /\ image[dir[n]].whole /\ ~image[dir[n]].deleted /\ ~metric[map[n]].deleted
                             /\ image[dir[n]].ups \subseteq metric[map[n]].ups
                             /\ ~metric[map[n]].dirty => image[dir[n]].ups = metric[map[n]].ups
      BY DEF MapMatchesFiles
    <2>1. /\ TypeOK /\ Global /\ Sound(n) /\ Served(n) /\ mode = "running" /\ ~Dropping(n)
          /\ (map[n] = None /\ ~Dropping(n) => dir[n] = None)
      BY DEF RInv, Calm, Quiet
    <2>2. CASE map[n] = None
      BY <2>1, <2>2
    <2>3. CASE map[n] # None
      <3>1. map[n] \in Ids /\ metric[map[n]].name = n
        BY <2>1, <2>3, Known
      <3>2. ~Saving(map[n])
        BY <3>1 DEF Quiet
      <3>3. ~At2(n)
        <4>1. flush.o # None => flush.o \in Ids /\ flush.pc # "next"
          BY <2>1, Known DEF Global, BornFlush
        <4> QED
          BY <4>1 DEF Quiet, At2, FlushingAt
      <3>4. Upcoming(n) = image[dir[n]].ups
        BY <3>3 DEF Upcoming, Writing
      <3>5. InFile(n) /\ ~metric[map[n]].deleted
        BY <2>1, <2>3 DEF Served
      <3> QED
        BY <2>1, <2>3, <3>2, <3>4, <3>5 DEF InFile, Sound
    <2> QED
      BY <2>2, <2>3
  <1> QED
    BY <1>1, Invariant, PTL

-----------------------------------------------------------------------------
(* A start that failed, failed because of what is still on the disk.         *)
Refused == mode = "failed" => ~CanStart

(* What the start looks at.                                                  *)
LEMMA FilesAlone ==
  ASSUME UNCHANGED <<dir, tmp, image, journal>>
  PROVE  CanStart' = CanStart
  BY DEF CanStart, Recovered, OnDisk, Overwritten

(* Nothing repairs it.                                                       *)
LEMMA StepRefused == RInv /\ Refused /\ [Next]_vars => Refused'
  <1> SUFFICES ASSUME RInv, Refused, [Next]_vars, mode' = "failed" PROVE ~CanStart'
    BY DEF Refused
  <1>1. CASE \E c \in Clients : Client(c)
    <2>1. PICK c \in Clients : Client(c)
      BY <1>1
    <2>2. CASE AutoCreate(c) \/ \E n \in Names : Create(c, n) \/ Find(c, n) \/ Select(c, n) \/ Drop(c, n)
      BY <2>2 DEF Create, Find, Select, Drop, AutoCreate, Insert, InsertNew, At
    <2>3. CASE SaveCheck(c) \/ SaveOpen(c) \/ SaveWrite(c) \/ SaveFails(c) \/ SaveRename(c)
      BY <2>3 DEF SaveCheck, SaveOpen, SaveWrite, SaveFails, SaveRename, At
    <2>4. CASE Update(c) \/ UpdateFind(c) \/ UpdateOpen(c) \/ UpdateInsert(c) \/ UpdateRead(c) \/ Delete(c)
      BY <2>4 DEF Update, UpdateFind, UpdateOpen, UpdateInsert, UpdateRead, Delete, At
    <2> QED
      BY <2>1, <2>2, <2>3, <2>4 DEF Client
  <1>2. CASE Flush
    BY <1>2 DEF Flush, FlushBegin, FlushCheck, FlushTake, FlushJournal, FlushFind, FlushOpen,
       FlushInsert, FlushApply, FlushCheckDeleted, FlushEnd, Flushing
  <1>3. CASE Crash \/ Start \/ \E n \in Names : Purge(n)
    BY <1>3 DEF Crash, Start, Purge
  <1>4. CASE StartFails
    BY <1>4, FilesAlone DEF StartFails
  <1>5. CASE Halted
    BY <1>5, FilesAlone DEF Halted, Refused
  <1>6. CASE UNCHANGED vars
    BY <1>6, FilesAlone DEF vars, Refused
  <1> QED
    BY <1>1, <1>2, <1>3, <1>4, <1>5, <1>6 DEF Next

(***************************************************************************)
(* A start fails only because the journal is of a metric whose file a drop *)
(* has deleted, or because of one of the races (journal_file::load and     *)
(* rrdb_metric::load_file throw; everything else they find is whole).      *)
(***************************************************************************)
THEOREM FailsAfterDropOnly == Spec => []StartFailsOnlyAfterDrop
  <1>1. Init => Refused
    BY DEF Init, Refused
  <1>2. RInv /\ Refused => StartFailsOnlyAfterDrop
    <2> SUFFICES ASSUME RInv, mode = "failed", ~CanStart
                 PROVE  \/ \E n \in OnDisk : raced[n] /\ ~image[dir[n]].whole
                        \/ /\ journal # NoJournal /\ journal.name \notin OnDisk
                           /\ Dropped(journal.name) \/ raced[journal.name]
      BY DEF Refused, StartFailsOnlyAfterDrop
    <2>0. TypeOK /\ Global /\ image \in [Ids -> ImageType] /\ journal \in JournalType
      BY TypeParts DEF RInv
    <2>1. \A n \in OnDisk : n \in Names /\ dir[n] \in Ids /\ dir[n] # None
      BY <2>0, Known DEF OnDisk
    <2>2. CASE journal # NoJournal /\ journal.name \notin OnDisk
      <3>1. journal.name \in Names
        BY <2>0, <2>2 DEF JournalType, Global, BornFlush
      <3>2. dir[journal.name] = None
        BY <2>2, <3>1 DEF OnDisk
      <3>3. Dropped(journal.name) \/ raced[journal.name]
        BY <3>1, <3>2 DEF RInv, Calm, Sound
      <3> QED
        BY <2>2, <3>3
    <2>3. CASE journal = NoJournal \/ journal.name \in OnDisk
      <3>1. PICK n \in OnDisk : ~Recovered[dir[n]].whole
        BY <2>3 DEF CanStart
      <3>2. ~image[dir[n]].whole
        <4>1. CASE journal = NoJournal
          BY <3>1, <4>1 DEF Recovered
        <4>2. CASE journal # NoJournal
          <5>1. PICK i \in Ids : i = dir[journal.name]
            BY <2>1, <2>3, <4>2
          <5>2. Recovered = [image EXCEPT ![i] = Overwritten(image[i], journal)]
            BY <2>0, <4>2, <5>1 DEF Recovered
          <5>3. PICK j \in Ids : j = dir[n]
            BY <2>1
          <5>4. Recovered[j] = IF j = i THEN Overwritten(image[i], journal) ELSE image[j]
            BY <2>0, <5>2
          <5>5. Overwritten(image[i], journal).whole = (image[i].whole \/ journal.data)
            BY DEF Overwritten
          <5> QED
            BY <3>1, <5>3, <5>4, <5>5
        <4> QED
          BY <4>1, <4>2
      <3>3. raced[n]
        BY <2>1, <3>2 DEF RInv, Calm, Sound
      <3> QED
        BY <3>2, <3>3
    <2> QED
      BY <2>2, <2>3
  <1> QED
    BY <1>1, <1>2, InitRInv, StepNext, StepRefused, PTL DEF Spec

-----------------------------------------------------------------------------
(* What a step that keeps a metric in the map does to what it stores.        *)
Kept(n) ==
  map[n] # None /\ map'[n] # None =>
    map'[n] = map[n] /\ metric[map[n]].ups \subseteq metric'[map[n]].ups

(* Data that only grows, in the same metric.                                 *)
LEMMA KeptWhere ==
  ASSUME TypeOK, NEW n \in Names, map'[n] = map[n] \/ map[n] = None \/ map'[n] = None,
         \A o \in Ids : metric[o].ups \subseteq metric'[o].ups
  PROVE  Kept(n)
  BY DEF Kept, TypeOK

(* A step that concerns the data of one metric.                              *)
LEMMA GrownKeeps ==
  ASSUME RInv, NEW o \in Ids, Grown(o), map' = map, NEW n \in Names,
         map[n] = o => metric[o].ups \subseteq metric'[o].ups
  PROVE  Kept(n)
  BY DEF RInv, TypeOK, Grown, Kept

(* Updates only add.                                                         *)
LEMMA AppliedKeeps ==
  ASSUME RInv, NEW c \in Clients, NEW o \in Ids, NEW ups,
         metric' = [metric EXCEPT ![o] = Applied(c, metric[o], ups)], metric[o].ups \subseteq ups
  PROVE  metric[o].ups \subseteq metric'[o].ups
  <1>1. metric \in [Ids -> MetricType] /\ metric[o] \in MetricType
    BY TypeParts DEF RInv
  <1>2. metric'[o] = Applied(c, metric[o], ups)
    BY <1>1
  <1>3. CASE client[c].u = 0
    BY <1>2, <1>3 DEF Applied
  <1>4. CASE client[c].u # 0
    <2>1. metric'[o].ups = ups \cup {client[c].u}
      BY <1>1, <1>2, <1>4 DEF Applied, MetricType
    <2> QED
      BY <2>1
  <1> QED
    BY <1>3, <1>4

(* An update of a metric marked deleted adds to what its own file has.       *)
LEMMA UpdateKeeps ==
  ASSUME RInv, NEW c \in Clients, Update(c) \/ UpdateFind(c) \/ UpdateRead(c), NEW n \in Names
  PROVE  Kept(n)
  <1>1. client[c].pc \in {"update"} \cup ReadingPc /\ map' = map
    BY DEF Update, UpdateFind, UpdateRead, At, ReadingPc
  <1>2. PICK m \in Names, o \in Ids : m = client[c].name /\ o = client[c].o
    BY <1>1, User
  <1>3. metric[o].ups \in SUBSET (1 .. MaxUpdates)
    BY TypeParts DEF RInv, MetricType
  <1>4. CASE metric' = [metric EXCEPT ![o] = Applied(c, metric[o], metric[o].ups)]
    <2>1. Grown(o)
      BY <1>3, <1>4, AppliedGrows
    <2>2. metric[o].ups \subseteq metric'[o].ups
      BY <1>4, AppliedKeeps
    <2> QED
      BY <1>1, <2>1, <2>2, GrownKeeps
  <1>5. CASE UpdateFind(c)
    <2>1. metric' = [metric EXCEPT ![o] = Marked(c, metric[o])]
      BY <1>2, <1>5 DEF UpdateFind
    <2>2. Grown(o) /\ metric'[o].ups = metric[o].ups
      BY <2>1, MarkedGrows
    <2> QED
      BY <1>1, <2>2, GrownKeeps
  <1>6. CASE metric' = metric
    BY <1>1, <1>6, GrownSame, GrownKeeps
  <1>7. ASSUME client[c].pc = "read", metric[o].deleted, NEW file \in Ids, file = client[c].file,
               metric' = [metric EXCEPT ![o] = Applied(c, metric[o], image[file].ups)]
        PROVE  Kept(n)
    <2>1. image[file].ups \in SUBSET (1 .. MaxUpdates)
      BY TypeParts DEF RInv, ImageType
    <2>2. Grown(o)
      BY <1>7, <2>1, AppliedGrows
    <2>3. ASSUME map[n] = o PROVE metric[o].ups \subseteq metric'[o].ups
      <3>1. n = m /\ map[n] # None
        BY <1>1, <1>2, <2>3, Known, IdsFacts DEF RInv, ReadingPc
      <3>2. file = dir[n] /\ ~metric[o].held
        BY <1>2, <1>7, <2>3, <3>1 DEF RInv, Zombie, ReadingPc
      <3>3. image[file].ups = metric[o].ups
        BY <1>7, <2>3, <3>1, <3>2 DEF RInv, Zombie
      <3> QED
        BY <1>7, <3>3, AppliedKeeps
    <2> QED
      BY <1>1, <2>2, <2>3, GrownKeeps
  <1>8. CASE UpdateRead(c)
    <2>1. client[c].pc = "read" /\ client[c].file \in Ids
      BY <1>8, User DEF UpdateRead, At, ReadingPc
    <2> QED
      BY <1>2, <1>4, <1>6, <1>7, <1>8, <2>1 DEF UpdateRead
  <1> QED
    BY <1>2, <1>4, <1>5, <1>8 DEF Update

(* Marks are not data.                                                       *)
LEMMA MarksKeep ==
  ASSUME TypeOK, NEW o \in Ids,
         \/ metric' = metric
         \/ metric' = [metric EXCEPT ![o].dirty = TRUE]
         \/ metric' = [metric EXCEPT ![o].deleted = TRUE]
         \/ metric' = [metric EXCEPT ![o].dirty = FALSE, ![o].held = FALSE]
  PROVE  \A p \in Ids : metric'[p].ups = metric[p].ups
  <1>1. metric \in [Ids -> MetricType] /\ \A p \in Ids : metric[p] \in MetricType
    BY TypeParts
  <1> QED
    BY <1>1 DEF MetricType

LEMMA InsertNewKeeps ==
  ASSUME RInv, NEW c \in Clients, NEW m \in Names, NEW u, map[m] = None, InsertNew(c, m, u), NEW n \in Names
  PROVE  Kept(n)
  <1>0. TypeOK /\ Global /\ metric \in [Ids -> MetricType]
    BY TypeParts DEF RInv
  <1>1. map[n] # None => map[n] \in Ids /\ n # m /\ map[n] # made + 1
    <2>1. map[n] # None => map[n] \in Ids /\ metric[map[n]].name # None
      BY <1>0, Known, IdsFacts
    <2>2. \A o \in Ids : o = made + 1 => metric[o].name = None
      BY <1>0 DEF Global, Born, TypeOK
    <2> QED
      BY <2>1, <2>2
  <1>2. map[n] # None => map'[n] = map[n] /\ metric'[map[n]] = metric[map[n]]
    BY <1>0, <1>1 DEF InsertNew, TypeOK
  <1> QED
    BY <1>2 DEF Kept

LEMMA ClientKeeps ==
  ASSUME RInv, NEW c \in Clients, Client(c), NEW n \in Names
  PROVE  Kept(n)
  <1>0. TypeOK /\ Global /\ map \in [Names -> Ids \cup {None}]
    BY DEF RInv, TypeOK
  <1>1. ASSUME NEW m \in Names, NEW u, Insert(c, m, u) PROVE Kept(n)
    <2>1. CASE map[m] = None /\ InsertNew(c, m, u)
      BY <2>1, InsertNewKeeps
    <2>2. CASE UNCHANGED <<map, metric>>
      BY <1>0, <2>2, KeptWhere
    <2> QED
      BY <1>1, <2>1, <2>2 DEF Insert
  <1>2. ASSUME NEW m \in Names, Create(c, m) PROVE Kept(n)
    BY <1>1, <1>2 DEF Create
  <1>3. CASE AutoCreate(c)
    <2>1. client[c].name \in Names
      BY <1>0, <1>3, TypeParts DEF AutoCreate, At, Global, BornClient, ClientType
    <2> QED
      BY <1>1, <1>3, <2>1 DEF AutoCreate
  <1>4. ASSUME NEW m \in Names, Find(c, m) PROVE Kept(n)
    BY <1>0, <1>4, KeptWhere DEF Find
  <1>5. ASSUME NEW m \in Names, Drop(c, m) PROVE Kept(n)
    <2>1. map'[n] = map[n] \/ map'[n] = None
      BY <1>0, <1>5 DEF Drop
    <2> QED
      BY <1>0, <1>5, <2>1, KeptWhere DEF Drop
  <1>6. ASSUME NEW o \in Ids, map' = map,
               \/ metric' = metric
               \/ metric' = [metric EXCEPT ![o].dirty = TRUE]
               \/ metric' = [metric EXCEPT ![o].deleted = TRUE]
               \/ metric' = [metric EXCEPT ![o].dirty = FALSE, ![o].held = FALSE]
        PROVE  Kept(n)
    <2>1. \A p \in Ids : metric'[p].ups = metric[p].ups
      BY <1>0, <1>6, MarksKeep
    <2> QED
      BY <1>0, <1>6, <2>1, KeptWhere
  <1>7. client[c].pc \in SavingPc \cup ReadingPc \cup {"delete", "update"} => client[c].o \in Ids
    BY <1>0, Known
  <1>8. CASE UNCHANGED <<map, metric>>
    BY <1>0, <1>8, KeptWhere
  <1>9. CASE SaveWrite(c)
    BY <1>6, <1>7, <1>9 DEF SaveWrite, At, SavingPc
  <1>10. CASE SaveFails(c)
    BY <1>6, <1>7, <1>10 DEF SaveFails, At, SavingPc
  <1>11. CASE SaveRename(c)
    BY <1>6, <1>7, <1>11 DEF SaveRename, At, SavingPc
  <1>12. CASE Update(c) \/ UpdateFind(c) \/ UpdateRead(c)
    BY <1>12, UpdateKeeps
  <1>13. CASE Delete(c)
    BY <1>6, <1>7, <1>13 DEF Delete, DeleteFile, At
  <1>14. /\ SaveCheck(c) \/ SaveOpen(c) => UNCHANGED <<map, metric>>
         /\ UpdateOpen(c) \/ UpdateInsert(c) => UNCHANGED <<map, metric>>
         /\ \A m \in Names : Select(c, m) => UNCHANGED <<map, metric>>
    BY DEF SaveCheck, SaveOpen, UpdateOpen, UpdateInsert, Select
  <1> QED
    BY <1>2, <1>3, <1>4, <1>5, <1>8, <1>9, <1>10, <1>11, <1>12, <1>13, <1>14 DEF Client

LEMMA FlushKeeps ==
  ASSUME RInv, Flush, NEW n \in Names
  PROVE  Kept(n)
  <1>0. TypeOK /\ Global
    BY DEF RInv
  <1>1. map' = map
    BY DEF Flush, FlushBegin, FlushCheck, FlushTake, FlushJournal, FlushFind, FlushOpen,
       FlushInsert, FlushApply, FlushCheckDeleted, FlushEnd
  <1>2. CASE metric' = metric
    BY <1>0, <1>1, <1>2, KeptWhere
  <1>3. CASE metric' # metric
    <2>1. /\ flush.pc \in {"take", "check"}
          /\ \/ metric' = [metric EXCEPT ![flush.o].deleted = TRUE]
             \/ metric' = [metric EXCEPT ![flush.o].dirty = FALSE, ![flush.o].held = FALSE]
      BY <1>3 DEF Flush, FlushBegin, FlushCheck, FlushTake, FlushJournal, FlushFind, FlushOpen,
         FlushInsert, FlushApply, FlushCheckDeleted, FlushEnd, DeleteFile, Flushing
    <2>2. flush.o \in Ids
      BY <1>0, <2>1, Known
    <2>3. \A p \in Ids : metric'[p].ups = metric[p].ups
      BY <1>0, <2>1, <2>2, MarksKeep
    <2> QED
      BY <1>0, <1>1, <2>3, KeptWhere
  <1> QED
    BY <1>2, <1>3

(***************************************************************************)
(* No step replaces a metric that is in the map, or loses what an update   *)
(* stored in it: create_metric looks again before it inserts, and a metric *)
(* that was loaded from a file marked deleted still has what it stored.    *)
(***************************************************************************)
THEOREM NothingReplaced == Spec => CreationReplacesNothing
  <1>1. RInv /\ [Next]_vars => [\A n \in Names : Kept(n)]_vars
    <2> SUFFICES ASSUME RInv, Next, NEW n \in Names PROVE Kept(n)
      OBVIOUS
    <2>1. TypeOK /\ Global
      BY DEF RInv
    <2>2. CASE \E c \in Clients : Client(c)
      BY <2>2, ClientKeeps
    <2>3. CASE Flush
      BY <2>3, FlushKeeps
    <2>4. CASE Crash
      BY <2>4 DEF Crash, Kept
    <2>5. CASE Start
      <3>1. map[n] = None
        BY <2>1, <2>5 DEF Start, Global, Stopped
      <3> QED
        BY <3>1 DEF Kept
    <2>6. CASE UNCHANGED <<map, metric>>
      BY <2>1, <2>6, KeptWhere
    <2>7. StartFails \/ Halted \/ (\E m \in Names : Purge(m)) => UNCHANGED <<map, metric>>
      BY DEF StartFails, Halted, Purge
    <2> QED
      BY <2>2, <2>3, <2>4, <2>5, <2>6, <2>7 DEF Next
  <1>2. [\A n \in Names : Kept(n)]_vars =>
        [\A n \in Names : map[n] # None /\ map'[n] # None =>
           map'[n] = map[n] /\ metric[map[n]].ups \subseteq metric'[map[n]].ups]_vars
    BY DEF Kept
  <1> QED
    BY <1>1, <1>2, Invariant, PTL DEF Spec, CreationReplacesNothing
=============================================================================
