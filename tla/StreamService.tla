--------------------------- MODULE StreamService ---------------------------
(***************************************************************************)
(* The streams of a service over the JSON file provider: concurrent HTTP   *)
(* requests that create and delete streams, open and close iterators and   *)
(* list streams; the map of the service, the catalog of the provider, the  *)
(* directories of the streams and the catalog file (streams.json); the     *)
(* shutdown, the start that loads the catalog file, and crashes between    *)
(* any two steps.  Sources: service/service.go, jsonfileprovider.go,       *)
(* streamcatalogfile.go and Init of streamwriter.go of the JSON file       *)
(* provider, the handlers of web/apistream.go, and the part of stream.go   *)
(* about the state of a stream and its map of iterators.                   *)
(*                                                                         *)
(* A stream is its UUID; its records are the subject of StreamIngest.  The *)
(* two maps written without a lock (StreamCatalogFile.streams and          *)
(* Stream.iterators) are changed one step at a time: when the Go runtime   *)
(* sees two writers it ends the process, which is Crash.                   *)
(***************************************************************************)
EXTENDS Integers, FiniteSets

CONSTANTS
  Requests,               \* concurrent HTTP requests
  Streams,                \* UUIDs; each is generated at most once
  Free,                   \* a mutex nobody holds
  NoStream,               \* the stream of a request that has none
  MaxAllowedStreams,      \* streams.maxAllowedStreams; 0 means unlimited
  MaxIteratorsPerStream,  \* streams.maxIteratorsPerStream; 0 means unlimited
  MaxCalls,               \* bound: requests in a behaviour
  MaxFaults,              \* bound: failed calls of the operating system
  MaxStops,               \* bound: orderly shutdowns
  MaxCrashes              \* bound: crashes that are not a panic of the model

ASSUME ServiceAssumption ==
  /\ IsFiniteSet(Requests) /\ Requests # {} /\ Free \notin Requests
  /\ IsFiniteSet(Streams) /\ NoStream \notin Streams
  /\ MaxAllowedStreams \in Nat /\ MaxIteratorsPerStream \in Nat
  /\ MaxCalls \in Nat /\ MaxFaults \in Nat /\ MaxStops \in Nat /\ MaxCrashes \in Nat

VARIABLES
  server,        \* "down", "creating" or "loading" the catalog file, "up", or "failed"
  map,           \* Service.Hashmap
  mapMutex,      \* Service.mapMutex: held only by a request that never releases it
  catalog,       \* StreamCatalogFile.streams
  catalogMutex,  \* StreamCatalogFile.mu
  state,         \* Stream.state
  iterators,     \* number of iterators in Stream.iterators
  pc,            \* where each request is
  on,            \* the stream of each request
  snapshot,      \* the UUIDs each request is about to save
  dirs,          \* directories of streams
  meta,          \* stream.json of each stream: "none", "empty" or "saved"
  file,          \* the catalog file: "none", "empty" (truncated) or "saved"
  saved,         \* the UUIDs in the catalog file
  calls, faults, stops, crashes,
  used,          \* UUIDs generated
  created,       \* streams whose creation was acknowledged
  deleting,      \* streams whose deletion began
  removed,       \* streams whose directory was removed
  older,         \* for each snapshot not saved yet, the requests with an older one
  overtaken,     \* requests whose snapshot is older than one already saved
  reordered      \* a snapshot was saved over a later one

memVars     == <<server, map, mapMutex, catalog, catalogMutex, state, iterators>>
requestVars == <<pc, on, snapshot, older, overtaken>>
diskVars    == <<dirs, meta, file, saved>>
boundVars   == <<calls, faults, stops, crashes>>
historyVars == <<used, created, deleting, removed, reordered>>
vars == <<memVars, requestVars, diskVars, boundVars, historyVars>>

Up == server = "up"
MapFree == mapMutex = Free
CatalogFree == catalogMutex = Free

\* What a process without requests has in memory.
Memory(m) ==
  /\ map' = m /\ catalog' = m
  /\ state' = [u \in Streams |-> IF u \in m THEN "RUNNING" ELSE "NONE"]
  /\ iterators' = [u \in Streams |-> 0]

NoRequests ==
  /\ mapMutex' = Free /\ catalogMutex' = Free
  /\ pc' = [t \in Requests |-> "idle"]
  /\ on' = [t \in Requests |-> NoStream]
  /\ snapshot' = [t \in Requests |-> {}]
  /\ older' = [t \in Requests |-> {}]
  /\ overtaken' = {}

\* An empty data directory.
Init ==
  /\ server = "down" /\ map = {} /\ mapMutex = Free /\ catalog = {} /\ catalogMutex = Free
  /\ state = [u \in Streams |-> "NONE"]
  /\ iterators = [u \in Streams |-> 0]
  /\ pc = [t \in Requests |-> "idle"]
  /\ on = [t \in Requests |-> NoStream]
  /\ snapshot = [t \in Requests |-> {}]
  /\ older = [t \in Requests |-> {}]
  /\ overtaken = {}
  /\ dirs = {} /\ meta = [u \in Streams |-> "none"] /\ file = "none" /\ saved = {}
  /\ calls = 0 /\ faults = 0 /\ stops = 0 /\ crashes = 0
  /\ used = {} /\ created = {} /\ deleting = {} /\ removed = {}
  /\ reordered = FALSE

-----------------------------------------------------------------------------
Goto(t, place) == pc' = [pc EXCEPT ![t] = place]

\* A request on stream u begins.
Call(t, u, place) ==
  /\ Up /\ pc[t] = "idle" /\ calls < MaxCalls
  /\ calls' = calls + 1
  /\ on' = [on EXCEPT ![t] = u]
  /\ Goto(t, place)

Return(t) ==
  /\ Goto(t, "idle")
  /\ on' = [on EXCEPT ![t] = NoStream]

\* A call of the operating system fails: the error is returned, nothing is undone.
Fail(t) ==
  /\ faults < MaxFaults
  /\ faults' = faults + 1
  /\ Return(t)

\* The end of the process, by itself or by a panic of one of its goroutines.
ProcessEnds ==
  /\ server' = "down"
  /\ Memory({})
  /\ NoRequests

-----------------------------------------------------------------------------
(* Faulty forms of operators below, not used by the specification.         *)

LimitOffByOne == MaxAllowedStreams > 0 /\ Cardinality(map) > MaxAllowedStreams
KeptInCatalog(t) == catalog
FilesKept(t) == meta' = meta /\ dirs' = dirs
StartWithoutSave(t) ==
  /\ pc[t] = "start"
  /\ state' = [state EXCEPT ![on[t]] = "RUNNING"]
  /\ created' = created \cup {on[t]}
  /\ Return(t)
  /\ UNCHANGED <<server, map, mapMutex, catalog, catalogMutex, iterators, snapshot, older,
                 overtaken, diskVars, boundVars, used, deleting, removed, reordered>>
DeleteWithoutSave(t) ==
  /\ pc[t] = "unmap" /\ MapFree
  /\ map' = map \ {on[t]}
  /\ Return(t)
  /\ UNCHANGED <<server, mapMutex, catalog, catalogMutex, state, iterators, snapshot, older,
                 overtaken, diskVars, boundVars, historyVars>>
DeleteWithoutClose(t, u) ==
  /\ MapFree /\ u \in map
  /\ Call(t, u, "remove")
  /\ deleting' = deleting \cup {u}
  /\ UNCHANGED <<memVars, snapshot, older, overtaken, diskVars, faults, stops, crashes,
                 used, created, removed, reordered>>
StillHeld(t) == t

-----------------------------------------------------------------------------
(* CreateStream.                                                           *)

StreamsLimitReached == MaxAllowedStreams > 0 /\ Cardinality(map) >= MaxAllowedStreams

\* A UUID that was never seen; which one does not matter.
GenerateNewStreamUuid == CHOOSE u \in Streams : u \notin used

CreateBegin(t) ==
  /\ Streams # used
  /\ ~StreamsLimitReached
  /\ Call(t, GenerateNewStreamUuid, "mkdir")
  /\ used' = used \cup {GenerateNewStreamUuid}
  /\ UNCHANGED <<memVars, snapshot, older, overtaken, diskVars, faults, stops, crashes,
                 created, deleting, removed, reordered>>

\* OnCreateStream: the directory, then the catalog, without its mutex.
CreateDirectory(t) ==
  /\ pc[t] = "mkdir"
  /\ \/ dirs' = dirs \cup {on[t]} /\ Goto(t, "register") /\ UNCHANGED <<on, faults>>
     \/ Fail(t) /\ UNCHANGED dirs
  /\ UNCHANGED <<memVars, snapshot, older, overtaken, meta, file, saved, calls, stops, crashes,
                 historyVars>>

Register(t) ==
  /\ pc[t] = "register"
  /\ catalog' = catalog \cup {on[t]}
  /\ Goto(t, "initwriter")
  /\ UNCHANGED <<server, map, mapMutex, catalogMutex, state, iterators, on, snapshot, older,
                 overtaken, diskVars, boundVars, historyVars>>

\* Init of the writer: stream.json is created empty by OpenFile, then written.
InitWriter(t) ==
  /\ pc[t] = "initwriter"
  /\ \/ /\ meta' = [meta EXCEPT ![on[t]] = "empty"]
        /\ Goto(t, "savemeta")
        /\ UNCHANGED <<on, faults>>
     \/ Fail(t) /\ UNCHANGED meta
  /\ UNCHANGED <<memVars, snapshot, older, overtaken, dirs, file, saved, calls, stops, crashes,
                 historyVars>>

SaveMeta(t) ==
  /\ pc[t] = "savemeta"
  /\ \/ /\ meta' = [meta EXCEPT ![on[t]] = "saved"]
        /\ Goto(t, "openwriter")
        /\ UNCHANGED <<on, faults>>
     \/ Fail(t) /\ UNCHANGED meta
  /\ UNCHANGED <<memVars, snapshot, older, overtaken, dirs, file, saved, calls, stops, crashes,
                 historyVars>>

\* Open of the writer, then setStreamMap: the stream is known before it runs.
OpenWriter(t) ==
  /\ pc[t] = "openwriter"
  /\ \/ /\ MapFree
        /\ map' = map \cup {on[t]}
        /\ Goto(t, "start")
        /\ UNCHANGED <<on, faults>>
     \/ Fail(t) /\ UNCHANGED map
  /\ UNCHANGED <<server, mapMutex, catalog, catalogMutex, state, iterators, snapshot, older,
                 overtaken, diskVars, calls, stops, crashes, historyVars>>

StartStream(t) ==
  /\ pc[t] = "start"
  /\ state' = [state EXCEPT ![on[t]] = "RUNNING"]
  /\ Goto(t, "snapshot")
  /\ UNCHANGED <<server, map, mapMutex, catalog, catalogMutex, iterators, on, snapshot, older,
                 overtaken, diskVars, boundVars, historyVars>>

-----------------------------------------------------------------------------
(* SaveStreamCatalog.  The mutex is released between the list of the       *)
(* streams and the write of the file.  WriteFile truncates, then writes;   *)
(* its failure is fatal to the process (Crash at this place).              *)

TakeSnapshot(t) ==
  /\ pc[t] = "snapshot" /\ CatalogFree
  /\ snapshot' = [snapshot EXCEPT ![t] = catalog]
  /\ older' = [q \in Requests |-> IF q = t THEN {r \in Requests : pc[r] \in {"write", "fill"}}
                                  ELSE older[q] \ {t}]
  /\ Goto(t, "write")
  /\ UNCHANGED <<memVars, on, overtaken, diskVars, boundVars, historyVars>>

TruncateFile(t) ==
  /\ pc[t] = "write" /\ CatalogFree
  /\ catalogMutex' = t
  /\ file' = "empty" /\ saved' = {}
  /\ Goto(t, "fill")
  /\ UNCHANGED <<server, map, mapMutex, catalog, state, iterators, on, snapshot, older, overtaken,
                 dirs, meta, boundVars, historyVars>>

\* The deferred unlock of the catalog.
Unlocked(t) == Free

\* The file is written, and CreateStream or DeleteStream returns.
FillFile(t) ==
  /\ pc[t] = "fill"
  /\ file' = "saved" /\ saved' = snapshot[t]
  /\ catalogMutex' = Unlocked(t)
  /\ created' = IF on[t] \in deleting THEN created ELSE created \cup {on[t]}
  /\ reordered' = (reordered \/ t \in overtaken)
  /\ overtaken' = (overtaken \cup older[t]) \ {t}
  /\ older' = [q \in Requests |-> IF q = t THEN {} ELSE older[q] \ {t}]
  /\ snapshot' = [snapshot EXCEPT ![t] = {}]
  /\ Return(t)
  /\ UNCHANGED <<server, map, mapMutex, catalog, state, iterators, dirs, meta, boundVars,
                 used, deleting, removed>>

-----------------------------------------------------------------------------
(* DeleteStream.                                                           *)

DeleteBegin(t, u) ==
  /\ MapFree /\ u \in map
  /\ Call(t, u, "close")
  /\ deleting' = deleting \cup {u}
  /\ UNCHANGED <<memVars, snapshot, older, overtaken, diskVars, faults, stops, crashes,
                 used, created, removed, reordered>>

\* Close tests the state without a lock ...
CloseTest(t) ==
  /\ pc[t] = "close"
  /\ IF state[on[t]] = "RUNNING" THEN Goto(t, "stop") /\ UNCHANGED on ELSE Return(t)
  /\ UNCHANGED <<memVars, snapshot, older, overtaken, diskVars, boundVars, historyVars>>

\* ... and closes the channel done, which may be closed once.
CloseStop(t) ==
  /\ pc[t] = "stop" /\ state[on[t]] = "RUNNING"
  /\ state' = [state EXCEPT ![on[t]] = "STOPPING"]
  /\ Goto(t, "wait")
  /\ UNCHANGED <<server, map, mapMutex, catalog, catalogMutex, iterators, on, snapshot, older,
                 overtaken, diskVars, boundVars, historyVars>>

CloseTwice(t) ==
  /\ pc[t] = "stop" /\ state[on[t]] # "RUNNING"
  /\ ProcessEnds
  /\ crashes' = crashes + 1
  /\ UNCHANGED <<diskVars, calls, faults, stops, historyVars>>

\* Run closed the iterators and ended.
CloseWait(t) ==
  /\ pc[t] = "wait"
  /\ iterators' = [iterators EXCEPT ![on[t]] = 0]
  /\ state' = [state EXCEPT ![on[t]] = "NONE"]
  /\ Goto(t, "remove")
  /\ UNCHANGED <<server, map, mapMutex, catalog, catalogMutex, on, snapshot, older, overtaken,
                 diskVars, boundVars, historyVars>>

FilesRemoved(t) ==
  /\ meta' = [meta EXCEPT ![on[t]] = "none"]
  /\ dirs' = dirs \ {on[t]}

\* RemoveAll; when it fails, part of the directory may be gone.
RemoveDirectory(t) ==
  /\ pc[t] = "remove"
  /\ \/ /\ FilesRemoved(t)
        /\ removed' = removed \cup {on[t]}
        /\ Goto(t, "unregister")
        /\ UNCHANGED <<on, faults>>
     \/ /\ Fail(t)
        /\ meta' \in {meta, [meta EXCEPT ![on[t]] = "none"]}
        /\ UNCHANGED <<dirs, removed>>
  /\ UNCHANGED <<memVars, snapshot, older, overtaken, file, saved, calls, stops, crashes,
                 used, created, deleting, reordered>>

Unregistered(t) == catalog \ {on[t]}

\* OnDeleteStream, without the mutex of the catalog.
Unregister(t) ==
  /\ pc[t] = "unregister"
  /\ catalog' = Unregistered(t)
  /\ Goto(t, "unmap")
  /\ UNCHANGED <<server, map, mapMutex, catalogMutex, state, iterators, on, snapshot, older,
                 overtaken, diskVars, boundVars, historyVars>>

Unmap(t) ==
  /\ pc[t] = "unmap" /\ MapFree
  /\ map' = map \ {on[t]}
  /\ Goto(t, "snapshot")
  /\ UNCHANGED <<server, mapMutex, catalog, catalogMutex, state, iterators, on, snapshot, older,
                 overtaken, diskVars, boundVars, historyVars>>

-----------------------------------------------------------------------------
(* Iterators and the filtered list.                                        *)

IteratorsLimitReached(u) ==
  MaxIteratorsPerStream > 0 /\ iterators[u] > MaxIteratorsPerStream

\* CreateRecordsIterator: the stream is found and the limit is tested.
IteratorBegin(t, u) ==
  /\ MapFree /\ u \in map
  /\ ~IteratorsLimitReached(u)
  /\ Call(t, u, "testiterator")
  /\ UNCHANGED <<memVars, snapshot, older, overtaken, diskVars, faults, stops, crashes, historyVars>>

\* AddIterator tests the state, then writes the map.
IteratorTest(t) ==
  /\ pc[t] = "testiterator"
  /\ IF state[on[t]] = "RUNNING" THEN Goto(t, "additerator") /\ UNCHANGED on ELSE Return(t)
  /\ UNCHANGED <<memVars, snapshot, older, overtaken, diskVars, boundVars, historyVars>>

\* The iterator is added; it stays in the map when its Open fails.
IteratorAdd(t) ==
  /\ pc[t] = "additerator"
  /\ iterators' = [iterators EXCEPT ![on[t]] = @ + 1]
  /\ \/ Return(t) /\ UNCHANGED faults
     \/ Fail(t)
  /\ UNCHANGED <<server, map, mapMutex, catalog, catalogMutex, state, snapshot, older, overtaken,
                 diskVars, calls, stops, crashes, historyVars>>

IteratorFound(u) == iterators[u] > 0

\* CloseIterator of one of the iterators of the stream.
IteratorClose(t, u) ==
  /\ MapFree /\ u \in map /\ IteratorFound(u)
  /\ Up /\ pc[t] = "idle" /\ calls < MaxCalls
  /\ calls' = calls + 1
  /\ iterators' = [iterators EXCEPT ![u] = @ - 1]
  /\ UNCHANGED <<server, map, mapMutex, catalog, catalogMutex, state, requestVars, diskVars,
                 faults, stops, crashes, historyVars>>

\* GetStreamsUUIDsFiltered calls GetStream for each stream with the mutex held.
ListFiltered(t) ==
  /\ MapFree /\ map # {}
  /\ Call(t, NoStream, "blocked")
  /\ mapMutex' = t
  /\ UNCHANGED <<server, map, catalog, catalogMutex, state, iterators, snapshot, older, overtaken,
                 diskVars, faults, stops, crashes, historyVars>>

-----------------------------------------------------------------------------
(* The life of the process.                                                *)

\* EnsureCatalogFileExists: the first start creates the catalog file.
StartInit ==
  /\ server = "down"
  /\ IF file = "none" THEN server' = "creating" /\ file' = "empty"
     ELSE server' = "loading" /\ UNCHANGED file
  /\ UNCHANGED <<map, mapMutex, catalog, catalogMutex, state, iterators, requestVars, dirs, meta,
                 saved, boundVars, historyVars>>

CreateEmptyCatalogFile ==
  /\ server = "creating"
  /\ server' = "loading" /\ file' = "saved" /\ saved' = {}
  /\ UNCHANGED <<map, mapMutex, catalog, catalogMutex, state, iterators, requestVars, dirs, meta,
                 boundVars, historyVars>>

\* The catalog file can be decoded and so can stream.json of each of its streams.
CanLoad == file = "saved" /\ \A u \in saved : meta[u] = "saved"

\* LoadStreams: all the streams of the catalog file are started, or none.
LoadStreams ==
  /\ server = "loading" /\ CanLoad
  /\ server' = "up"
  /\ Memory(saved)
  /\ UNCHANGED <<mapMutex, catalogMutex, requestVars, diskVars, boundVars, historyVars>>

\* NewService: the error is fatal, at this start and at every later one.
LoadFails ==
  /\ server = "loading" /\ ~CanLoad
  /\ server' = "failed"
  /\ UNCHANGED <<map, mapMutex, catalog, catalogMutex, state, iterators, requestVars, diskVars,
                 boundVars, historyVars>>

\* The listener is shut down once the requests are over, then Stop closes the streams.
Stop ==
  /\ Up /\ MapFree /\ \A t \in Requests : pc[t] = "idle"
  /\ stops < MaxStops
  /\ stops' = stops + 1
  /\ ProcessEnds
  /\ UNCHANGED <<diskVars, calls, faults, crashes, historyVars>>

Crash ==
  /\ server \in {"creating", "loading", "up"}
  /\ crashes < MaxCrashes
  /\ crashes' = crashes + 1
  /\ ProcessEnds
  /\ UNCHANGED <<diskVars, calls, faults, stops, historyVars>>

-----------------------------------------------------------------------------
CreateStep(t) ==
  \/ CreateDirectory(t) \/ Register(t) \/ InitWriter(t) \/ SaveMeta(t) \/ OpenWriter(t)
  \/ StartStream(t)

SaveStep(t) == TakeSnapshot(t) \/ TruncateFile(t) \/ FillFile(t)

DeleteStep(t) ==
  \/ CloseTest(t) \/ CloseStop(t) \/ CloseTwice(t) \/ CloseWait(t)
  \/ RemoveDirectory(t) \/ Unregister(t) \/ Unmap(t)

IteratorStep(t) == IteratorTest(t) \/ IteratorAdd(t)

\* A request that began goes on.
RequestStep(t) == CreateStep(t) \/ SaveStep(t) \/ DeleteStep(t) \/ IteratorStep(t)

RequestBegins(t) ==
  \/ \E u \in Streams :
       DeleteBegin(t, u) \/ IteratorBegin(t, u) \/ IteratorClose(t, u)
  \/ CreateBegin(t) \/ ListFiltered(t)

Next ==
  \/ \E t \in Requests : RequestBegins(t) \/ RequestStep(t)
  \/ StartInit \/ CreateEmptyCatalogFile \/ LoadStreams \/ LoadFails
  \/ Stop \/ Crash

Spec == Init /\ [][Next]_vars

\* A request that can go on is scheduled; nobody is obliged to make one.
FairSpec == Spec /\ \A t \in Requests : WF_vars(RequestStep(t))

-----------------------------------------------------------------------------
Places == {"idle", "mkdir", "register", "initwriter", "savemeta", "openwriter", "start",
           "snapshot", "write", "fill", "close", "stop", "wait", "remove", "unregister", "unmap",
           "testiterator", "additerator", "blocked"}

TypeServer ==
  /\ server \in {"down", "creating", "loading", "up", "failed"}
  /\ mapMutex \in Requests \cup {Free} /\ catalogMutex \in Requests \cup {Free}
TypeMemory ==
  /\ map \in SUBSET Streams /\ catalog \in SUBSET Streams
  /\ state \in [Streams -> {"NONE", "RUNNING", "STOPPING"}]
  /\ iterators \in [Streams -> Nat]
TypeRequests ==
  /\ pc \in [Requests -> Places]
  /\ on \in [Requests -> Streams \cup {NoStream}]
  /\ snapshot \in [Requests -> SUBSET Streams]
  /\ older \in [Requests -> SUBSET Requests] /\ overtaken \in SUBSET Requests
TypeDisk ==
  /\ dirs \in SUBSET Streams
  /\ meta \in [Streams -> {"none", "empty", "saved"}]
  /\ file \in {"none", "empty", "saved"} /\ saved \in SUBSET Streams
TypeBounds == calls \in Nat /\ faults \in Nat /\ stops \in Nat /\ crashes \in Nat
TypeHistory ==
  /\ used \in SUBSET Streams /\ created \in SUBSET used
  /\ deleting \in SUBSET used /\ removed \in SUBSET deleting
  /\ reordered \in BOOLEAN

TypeOK == TypeServer /\ TypeMemory /\ TypeRequests /\ TypeDisk /\ TypeBounds /\ TypeHistory

(* A running stream has its directory, a stream.json that can be loaded,   *)
(* and is in both maps: a deletion takes none of them away before Close    *)
(* ended, whatever other requests, failures and crashes come in between.   *)
RunningHasFiles ==
  \A u \in Streams : state[u] \in {"RUNNING", "STOPPING"} =>
    u \in dirs /\ meta[u] = "saved" /\ u \in catalog /\ u \in map

(* A stream whose directory was removed never runs again, although the     *)
(* catalog file may still have it after a crash or an older save.          *)
DeletedNeverReturns == \A u \in removed : state[u] = "NONE"

(* When no request is in progress and no call failed, the map, the catalog *)
(* and the disk agree and every stream runs: creations and deletions that  *)
(* overlap, shutdowns and crashes leave nothing half done in memory.       *)
QuiescentAgree ==
  Up /\ faults = 0 /\ (\A t \in Requests : pc[t] = "idle") =>
    /\ map = catalog /\ catalog \subseteq dirs
    /\ \A u \in map : state[u] = "RUNNING"

(* The limits, tested before the stream or the iterator is added, are      *)
(* exceeded by no more than the requests in progress, even over restarts.  *)
(* The limit of iterators is tested with > and lets one more through.      *)
LimitsKept ==
  /\ MaxAllowedStreams > 0 /\ faults = 0 =>
       Cardinality(map) < MaxAllowedStreams + Cardinality(Requests)
  /\ MaxIteratorsPerStream > 0 =>
       \A u \in Streams : iterators[u] <= MaxIteratorsPerStream + Cardinality(Requests)

(* A stream whose creation was acknowledged and that nobody deletes is in  *)
(* the catalog file with what a start needs, unless SaveStreamCatalog let  *)
(* an older list overwrite a later one.                                    *)
CreatedIsCatalogued ==
  file = "saved" /\ ~reordered =>
    \A u \in created \ deleting : u \in saved /\ u \in dirs /\ meta[u] = "saved"

(* Without crash, failed call and lists saved out of order, the catalog    *)
(* file left by an orderly shutdown can always be loaded.                  *)
OrderlyStopCanStart ==
  crashes = 0 /\ faults = 0 /\ ~reordered => server # "failed"

(* Every request returns, unless it meets the mutex that a filtered list   *)
(* of the streams holds for ever.                                          *)
RequestReturns ==
  \A t \in Requests : pc[t] # "idle" ~> (pc[t] = "idle" \/ ~MapFree)
=============================================================================
