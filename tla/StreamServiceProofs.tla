------------------------ MODULE StreamServiceProofs ------------------------
(***************************************************************************)
(* The safety invariants of StreamService, for every number of requests    *)
(* and streams and every value of the limits and of the bounds.            *)
(***************************************************************************)
EXTENDS StreamService, FiniteSetTheorems, TLAPS

Busy(t) == pc[t] \notin {"idle", "blocked"}

\* Where a request is that creates a stream, removes one, or saves the catalog file.
Creating == {"mkdir", "register", "initwriter", "savemeta", "openwriter", "start"}
Removing == {"remove", "unregister", "unmap"}
Saving   == {"write", "fill"}

-----------------------------------------------------------------------------
(* What every other invariant needs: UUIDs come from GenerateNewStreamUuid, *)
(* a process that is not up has no request and no stream.                  *)

UsedInv ==
  /\ map \subseteq used /\ catalog \subseteq used /\ saved \subseteq used /\ dirs \subseteq used
  /\ \A t \in Requests : snapshot[t] \subseteq used

OnInv ==
  \A t \in Requests :
    /\ Busy(t) => on[t] \in used
    /\ pc[t] \in {"close", "stop", "wait"} \cup Removing => on[t] \in deleting

DownInv ==
  ~Up => /\ map = {} /\ catalog = {}
         /\ \A t \in Requests : pc[t] = "idle"
         /\ \A u \in Streams : state[u] = "NONE"

Base == TypeOK /\ UsedInv /\ OnInv /\ DownInv

-----------------------------------------------------------------------------
(* Who may change a stream: at most one request creates or removes it, and *)
(* meanwhile it does not run.                                              *)

Owner(t) == pc[t] \in Creating \cup Removing \cup {"wait"}

OwnerInv ==
  \A t \in Requests :
    /\ pc[t] \in Creating \cup Removing => state[on[t]] = "NONE"
    /\ pc[t] = "wait" => state[on[t]] = "STOPPING"
    /\ \A q \in Requests : Owner(t) /\ Owner(q) /\ on[t] = on[q] => t = q
    /\ \A q \in Requests : pc[t] \in Creating /\ pc[q] \in {"snapshot", "write", "fill"} =>
         on[t] # on[q]

\* What the creation of a stream has done so far.
CreatorInv ==
  \A t \in Requests :
    /\ pc[t] \in Creating => on[t] \notin removed /\ on[t] \notin created
    /\ pc[t] \in Creating \ {"mkdir"} => on[t] \in dirs
    /\ pc[t] \in Creating \ {"mkdir", "register"} => on[t] \in catalog
    /\ pc[t] \in {"openwriter", "start"} => meta[on[t]] = "saved"
    /\ pc[t] = "start" => on[t] \in map

\* Nothing but the removal takes stream.json away, and it never comes back.
MetaInv ==
  /\ \A u \in removed : meta[u] = "none"
  /\ \A u \in Streams : meta[u] # "none" => u \in dirs

FilesInv == OwnerInv /\ CreatorInv /\ MetaInv /\ RunningHasFiles

-----------------------------------------------------------------------------
(* Without a failed call, each difference between the two maps, the disk   *)
(* and the states is the work of a request that is not over.               *)

At(u, places) == \E t \in Requests : on[t] = u /\ pc[t] \in places

AgreeOn(u) ==
  /\ u \in map \ catalog => At(u, {"unmap"})
  /\ u \in catalog \ map => At(u, {"initwriter", "savemeta", "openwriter"})
  /\ u \in catalog \ dirs => At(u, {"unregister"})
  /\ u \in map /\ state[u] # "RUNNING" => At(u, {"start", "wait", "remove", "unregister", "unmap"})

AgreeInv ==
  /\ faults = 0 => \A u \in Streams : AgreeOn(u)
  /\ \A t \in Requests : pc[t] = "unmap" => on[t] \notin catalog

-----------------------------------------------------------------------------
(* The order of the snapshots.  A request that is not older than another   *)
(* one took its snapshot later, from a catalog that had the stream of the  *)
(* other one.                                                              *)

Kept == created \ deleting

KeptInv ==
  /\ \A u \in Kept : meta[u] = "saved"
  /\ \A t \in Requests :
       pc[t] \in {"snapshot", "write", "fill"} /\ on[t] \notin deleting =>
         meta[on[t]] = "saved" /\ on[t] \in catalog

SnapshotInv ==
  \A t \in Requests : pc[t] \in Saving =>
    /\ t \notin older[t]
    /\ on[t] \notin deleting => on[t] \in snapshot[t]
    /\ \A q \in Requests : pc[q] \in Saving /\ on[q] \notin deleting =>
         t \in older[q] \/ on[q] \in snapshot[t]

FirstInv ==
  /\ file = "none" => server = "down"
  /\ file = "none" \/ server = "creating" => created = {}

OrderInv ==
  ~reordered =>
    /\ Up => Kept \subseteq catalog
    /\ file = "saved" => Kept \subseteq saved
    /\ \A t \in Requests : pc[t] \in Saving /\ t \notin overtaken => Kept \subseteq snapshot[t]

CatalogInv == KeptInv /\ SnapshotInv /\ FirstInv /\ OrderInv

-----------------------------------------------------------------------------
(* Without trouble, a stream of the catalog file that has no stream.json   *)
(* is the stream of a request that will save the catalog file again.       *)

Trouble == crashes # 0 \/ faults # 0 \/ reordered

\* The requests that are about to give a stream its stream.json, or to take it off the catalog ...
Repairing == {"initwriter", "savemeta", "unregister"}

\* ... and those that have done so and will save the catalog file after request q.
Ahead(u, q) ==
  \/ At(u, Repairing) \/ At(u, {"unmap", "snapshot"})
  \/ \E t \in Requests : on[t] = u /\ pc[t] \in Saving /\ q \in older[t]

CatalogLoads == \A u \in catalog : meta[u] = "saved" \/ At(u, Repairing)

SnapshotsLoad ==
  \A q \in Requests : pc[q] \in Saving /\ q \notin overtaken =>
    \A u \in snapshot[q] : meta[u] = "saved" \/ Ahead(u, q)

SavedLoads ==
  \A u \in saved :
    meta[u] = "saved" \/ At(u, Repairing) \/ At(u, {"unmap", "snapshot"}) \/ At(u, Saving)

FileLoads ==
  /\ server = "down" => file = "saved" \/ (file = "none" /\ saved = {})
  /\ server = "creating" => saved = {}
  /\ server = "loading" => file = "saved"
  /\ Up => file = "saved" \/ \E t \in Requests : pc[t] = "fill"
  /\ server # "failed"

LoadInv == ~Trouble => CatalogLoads /\ SnapshotsLoad /\ SavedLoads /\ FileLoads

-----------------------------------------------------------------------------
(* The requests that passed the test of a limit and have not added yet.    *)

IteratorPlaces == {"testiterator", "additerator"}

Pending == {t \in Requests : pc[t] \in Creating \ {"start"}}
PendingOn(u) == {t \in Requests : on[t] = u /\ pc[t] \in IteratorPlaces}

StreamsLimit == MaxAllowedStreams + Cardinality(Requests)

MapInv ==
  /\ Cardinality(map) + Cardinality(Pending) < StreamsLimit
  /\ catalog \subseteq map \cup {on[t] : t \in Pending}

ListsInv ==
  /\ Cardinality(saved) < StreamsLimit
  /\ \A t \in Requests : Cardinality(snapshot[t]) < StreamsLimit

StreamsLimitInv == MaxAllowedStreams > 0 /\ faults = 0 => MapInv /\ ListsInv

IteratorsOK(u) ==
  iterators[u] + Cardinality(PendingOn(u)) <= MaxIteratorsPerStream + Cardinality(Requests)

IteratorsLimitInv == MaxIteratorsPerStream > 0 => \A u \in Streams : IteratorsOK(u)

-----------------------------------------------------------------------------
(* The base invariant.                                                     *)

LEMMA NewUuid ==
  ASSUME TypeHistory, Streams # used
  PROVE  GenerateNewStreamUuid \in Streams /\ GenerateNewStreamUuid \notin used
<1>1. \E u \in Streams : u \notin used
  BY DEF TypeHistory
<1> QED BY <1>1 DEF GenerateNewStreamUuid

\* A request that is somewhere is a request of a process that is up.
LEMMA BusyUp ==
  ASSUME DownInv, NEW t \in Requests, pc[t] # "idle"
  PROVE  Up
  BY DEF DownInv

LEMMA BusyOn ==
  ASSUME TypeOK, OnInv, NEW t \in Requests, Busy(t)
  PROVE  on[t] \in Streams /\ on[t] \in used
  BY DEF OnInv, TypeOK, TypeHistory

LEMMA InitBase == Init => Base
  <1> SUFFICES ASSUME Init PROVE Base
    OBVIOUS
  <1> USE DEF Init
  <1>1. TypeServer /\ TypeMemory /\ TypeDisk /\ TypeBounds /\ TypeHistory
    BY DEF TypeServer, TypeMemory, TypeDisk, TypeBounds, TypeHistory
  <1>2. TypeRequests
    BY DEF TypeRequests, Places
  <1>3. UsedInv /\ OnInv /\ DownInv
    BY DEF UsedInv, OnInv, DownInv, Busy, Removing
  <1> QED BY <1>1, <1>2, <1>3 DEF Base, TypeOK

\* A process that ends leaves the disk and the history as they are.
LEMMA EndsBase ==
  ASSUME Base, ProcessEnds, UNCHANGED <<diskVars, historyVars>>, TypeBounds'
  PROVE  Base'
<1> USE DEF Base, TypeOK
<1>1. TypeServer' /\ TypeMemory'
  BY DEF ProcessEnds, Memory, NoRequests, TypeServer, TypeMemory
<1>2. TypeRequests'
  BY DEF ProcessEnds, NoRequests, TypeRequests, Places
<1>3. TypeDisk' /\ TypeHistory'
  BY DEF diskVars, historyVars, TypeDisk, TypeHistory
<1>4. UsedInv' /\ OnInv' /\ DownInv'
  BY DEF ProcessEnds, Memory, NoRequests, UsedInv, OnInv, DownInv, Busy, Removing, diskVars,
         historyVars
<1> QED BY <1>1, <1>2, <1>3, <1>4

LEMMA BeginsBase ==
  ASSUME Base, NEW t \in Requests, RequestBegins(t)
  PROVE  Base'
<1> USE DEF Base, TypeOK, Call, Goto
<1>0. Up /\ pc[t] = "idle"
  BY DEF RequestBegins, DeleteBegin, IteratorBegin, IteratorClose, CreateBegin, ListFiltered
<1>1. CASE \E u \in Streams : DeleteBegin(t, u) \/ IteratorBegin(t, u)
  <2> PICK u \in Streams : DeleteBegin(t, u) \/ IteratorBegin(t, u)
    BY <1>1
  <2>0. u \in map /\ u \in used
    BY DEF DeleteBegin, IteratorBegin, UsedInv
  <2> USE DEF DeleteBegin, IteratorBegin, memVars, diskVars, historyVars
  <2>1. TypeServer' /\ TypeMemory' /\ TypeDisk' /\ TypeBounds'
    BY DEF TypeServer, TypeMemory, TypeDisk, TypeBounds
  <2>2. TypeHistory'
    BY <2>0 DEF TypeHistory
  <2>3. TypeRequests'
    BY DEF TypeRequests, Places
  <2>4. UsedInv' /\ DownInv'
    BY <1>0 DEF UsedInv, DownInv, Up
  <2>5. OnInv'
    BY <2>0 DEF OnInv, Busy, Removing, TypeRequests
  <2> QED BY <2>1, <2>2, <2>3, <2>4, <2>5
<1>2. CASE \E u \in Streams : IteratorClose(t, u)
  <2> PICK u \in Streams : IteratorClose(t, u)
    BY <1>2
  <2> USE DEF IteratorClose, requestVars, diskVars, historyVars
  <2>1. TypeMemory'
    BY DEF TypeMemory, IteratorFound
  <2>2. TypeServer' /\ TypeDisk' /\ TypeBounds' /\ TypeHistory' /\ TypeRequests'
    BY DEF TypeServer, TypeDisk, TypeBounds, TypeHistory, TypeRequests
  <2>3. UsedInv' /\ DownInv' /\ OnInv'
    BY <1>0 DEF UsedInv, DownInv, Up, OnInv, Busy
  <2> QED BY <2>1, <2>2, <2>3
<1>3. CASE CreateBegin(t)
  <2>0. GenerateNewStreamUuid \in Streams
    BY <1>3, NewUuid DEF CreateBegin
  <2> DEFINE u == GenerateNewStreamUuid
  <2> HIDE DEF u
  <2>1. /\ on' = [on EXCEPT ![t] = u] /\ pc' = [pc EXCEPT ![t] = "mkdir"]
        /\ used' = used \cup {u} /\ u \in Streams
        /\ calls' = calls + 1
        /\ UNCHANGED <<memVars, snapshot, older, overtaken, diskVars, faults, stops, crashes,
                       created, deleting, removed, reordered>>
    BY <1>3, <2>0 DEF CreateBegin, u
  <2> USE <2>1 DEF memVars, diskVars
  <2>2. TypeServer' /\ TypeMemory' /\ TypeDisk' /\ TypeBounds'
    BY DEF TypeServer, TypeMemory, TypeDisk, TypeBounds
  <2>3. TypeHistory'
    BY DEF TypeHistory
  <2>4. TypeRequests'
    BY DEF TypeRequests, Places
  <2>5. UsedInv' /\ DownInv'
    BY <1>0 DEF UsedInv, DownInv, Up
  <2>6. OnInv'
    BY DEF OnInv, Busy, Removing, TypeRequests
  <2> QED BY <2>2, <2>3, <2>4, <2>5, <2>6
<1>4. CASE ListFiltered(t)
  <2> USE <1>4 DEF ListFiltered, diskVars, historyVars
  <2>1. TypeServer' /\ TypeMemory' /\ TypeDisk' /\ TypeBounds' /\ TypeHistory'
    BY DEF TypeServer, TypeMemory, TypeDisk, TypeBounds, TypeHistory
  <2>2. TypeRequests'
    BY DEF TypeRequests, Places
  <2>3. UsedInv' /\ DownInv'
    BY <1>0 DEF UsedInv, DownInv, Up
  <2>4. OnInv'
    BY DEF OnInv, Busy, Removing, TypeRequests
  <2> QED BY <2>1, <2>2, <2>3, <2>4
<1> QED BY <1>1, <1>2, <1>3, <1>4 DEF RequestBegins

LEMMA CreateBase ==
  ASSUME Base, NEW t \in Requests, CreateStep(t)
  PROVE  Base'
<1> USE DEF Base, TypeOK, Goto, Fail, Return
<1> USE DEF CreateDirectory, Register, InitWriter, SaveMeta, OpenWriter, StartStream
<1>0. Busy(t) /\ Up
  BY BusyUp DEF CreateStep, Busy
<1>1. on[t] \in Streams /\ on[t] \in used
  BY <1>0, BusyOn
<1>2. TypeServer' /\ TypeBounds' /\ UNCHANGED <<server, historyVars>>
  BY DEF CreateStep, memVars, boundVars, historyVars, TypeServer, TypeBounds
<1>3. TypeHistory'
  BY <1>2 DEF historyVars, TypeHistory
<1>4. TypeMemory'
  BY <1>1 DEF CreateStep, memVars, TypeMemory
<1>5. TypeDisk'
  BY <1>1 DEF CreateStep, diskVars, TypeDisk
<1>6. TypeRequests'
  BY <1>1 DEF CreateStep, TypeRequests, Places
<1>7. UsedInv'
  BY <1>1, <1>2 DEF CreateStep, UsedInv, diskVars, memVars, historyVars
<1>8. OnInv'
  BY <1>1, <1>2 DEF CreateStep, OnInv, Busy, Removing, TypeRequests, historyVars
<1>9. DownInv'
  BY <1>0, <1>2 DEF DownInv, Up
<1> QED BY <1>2, <1>3, <1>4, <1>5, <1>6, <1>7, <1>8, <1>9

LEMMA SaveBase ==
  ASSUME Base, NEW t \in Requests, SaveStep(t)
  PROVE  Base'
<1> USE DEF Base, TypeOK, Goto, Return
<1> USE DEF TakeSnapshot, TruncateFile, FillFile, Unlocked
<1>0. Busy(t) /\ Up
  BY BusyUp DEF SaveStep, Busy
<1>1. on[t] \in Streams /\ on[t] \in used
  BY <1>0, BusyOn
<1>2. TypeServer' /\ TypeBounds' /\ UNCHANGED <<server, used, deleting, removed, dirs, meta, map,
                                              catalog, state, iterators, boundVars>>
  BY DEF SaveStep, memVars, boundVars, historyVars, diskVars, TypeServer, TypeBounds
<1>3. TypeHistory'
  BY <1>1, <1>2 DEF SaveStep, historyVars, TypeHistory
<1>4. TypeMemory'
  BY <1>2 DEF TypeMemory
<1>5. TypeDisk'
  BY <1>2 DEF SaveStep, diskVars, TypeDisk, TypeRequests
<1>6. TypeRequests'
  <2>1. CASE TakeSnapshot(t)
    BY <2>1 DEF TypeRequests, TypeMemory, Places
  <2>2. CASE TruncateFile(t)
    BY <2>2 DEF TypeRequests, Places
  <2>3. CASE FillFile(t)
    BY <2>3 DEF TypeRequests, Places
  <2> QED BY <2>1, <2>2, <2>3 DEF SaveStep
<1>7. UsedInv'
  <2>1. CASE TakeSnapshot(t)
    BY <1>2, <2>1 DEF UsedInv, diskVars, TypeRequests
  <2>2. CASE TruncateFile(t)
    BY <1>2, <2>2 DEF UsedInv
  <2>3. CASE FillFile(t)
    BY <1>2, <2>3 DEF UsedInv, TypeRequests
  <2> QED BY <2>1, <2>2, <2>3 DEF SaveStep
<1>8. OnInv'
  BY <1>1, <1>2 DEF SaveStep, OnInv, Busy, Removing, TypeRequests
<1>9. DownInv'
  BY <1>0, <1>2 DEF DownInv, Up
<1> QED BY <1>2, <1>3, <1>4, <1>5, <1>6, <1>7, <1>8, <1>9

LEMMA DeleteBase ==
  ASSUME Base, NEW t \in Requests, DeleteStep(t)
  PROVE  Base'
<1> USE DEF Base, TypeOK, Goto, Fail, Return
<1>0. Busy(t) /\ Up
  BY BusyUp DEF DeleteStep, CloseTest, CloseStop, CloseTwice, CloseWait, RemoveDirectory, Unregister,
                Unmap, Busy
<1>1. on[t] \in Streams /\ on[t] \in used
  BY <1>0, BusyOn
<1>2. CASE CloseTwice(t)
  <2>1. TypeBounds'
    BY <1>2 DEF CloseTwice, TypeBounds
  <2>2. ProcessEnds /\ UNCHANGED <<diskVars, historyVars>>
    BY <1>2 DEF CloseTwice
  <2> QED BY <2>1, <2>2, EndsBase
<1>3. CASE RemoveDirectory(t)
  <2> USE <1>3 DEF RemoveDirectory, FilesRemoved
  <2>1. TypeServer' /\ TypeMemory' /\ TypeBounds' /\ UNCHANGED <<memVars, used, deleting, created>>
    BY DEF TypeServer, TypeMemory, TypeBounds, memVars
  <2>2. TypeDisk'
    BY <1>1 DEF TypeDisk
  <2>3. TypeHistory'
    BY <1>1 DEF TypeHistory, OnInv, Removing
  <2>4. TypeRequests'
    BY DEF TypeRequests, Places
  <2>5. UsedInv' /\ DownInv'
    BY <1>0, <2>1 DEF UsedInv, DownInv, memVars, Up
  <2>6. OnInv'
    BY <2>1 DEF OnInv, Busy, Removing, TypeRequests
  <2> QED BY <2>1, <2>2, <2>3, <2>4, <2>5, <2>6
<1>4. CASE CloseTest(t) \/ CloseStop(t) \/ CloseWait(t) \/ Unregister(t) \/ Unmap(t)
  <2> USE <1>4 DEF CloseTest, CloseStop, CloseWait, Unregister, Unmap, Unregistered
  <2>1. UNCHANGED <<server, snapshot, older, overtaken, diskVars, boundVars, historyVars>>
    BY DEF memVars
  <2>2. TypeServer' /\ TypeBounds' /\ TypeDisk' /\ TypeHistory'
    BY <2>1 DEF TypeServer, TypeBounds, TypeDisk, TypeHistory, memVars, diskVars, boundVars,
                historyVars
  <2>3. TypeMemory'
    BY <1>1 DEF TypeMemory, memVars
  <2>4. TypeRequests'
    BY <2>1 DEF TypeRequests, Places
  <2>5. UsedInv' /\ DownInv'
    BY <1>0, <2>1 DEF UsedInv, DownInv, memVars, diskVars, historyVars, Up
  <2>6. OnInv'
    BY <2>1 DEF OnInv, Busy, Removing, TypeRequests, historyVars
  <2> QED BY <2>2, <2>3, <2>4, <2>5, <2>6
<1> QED BY <1>2, <1>3, <1>4 DEF DeleteStep

LEMMA IteratorBase ==
  ASSUME Base, NEW t \in Requests, IteratorStep(t)
  PROVE  Base'
<1> USE DEF Base, TypeOK, Goto, Fail, Return, IteratorTest, IteratorAdd
<1>0. Busy(t) /\ Up
  BY BusyUp DEF IteratorStep, Busy
<1>1. on[t] \in Streams /\ on[t] \in used
  BY <1>0, BusyOn
<1>2. UNCHANGED <<server, mapMutex, catalogMutex, map, catalog, state, snapshot, older, overtaken,
                  diskVars, calls, stops, crashes, historyVars>>
  BY DEF IteratorStep, memVars, boundVars
<1>3. TypeServer' /\ TypeBounds' /\ TypeDisk' /\ TypeHistory'
  BY <1>2 DEF IteratorStep, TypeServer, TypeBounds, TypeDisk, TypeHistory, diskVars, boundVars,
              historyVars
<1>4. TypeMemory'
  BY <1>1, <1>2 DEF IteratorStep, TypeMemory, memVars
<1>5. TypeRequests'
  BY <1>2 DEF IteratorStep, TypeRequests, Places
<1>6. UsedInv' /\ DownInv'
  BY <1>0, <1>2 DEF UsedInv, DownInv, diskVars, historyVars, Up
<1>7. OnInv'
  BY <1>2 DEF IteratorStep, OnInv, Busy, Removing, TypeRequests, historyVars
<1> QED BY <1>3, <1>4, <1>5, <1>6, <1>7

LEMMA LifeBase ==
  ASSUME Base, StartInit \/ CreateEmptyCatalogFile \/ LoadStreams \/ LoadFails \/ Stop \/ Crash
  PROVE  Base'
<1> USE DEF Base, TypeOK
<1>1. CASE StartInit \/ CreateEmptyCatalogFile \/ LoadFails
  <2> USE <1>1 DEF StartInit, CreateEmptyCatalogFile, LoadFails
  <2>1. UNCHANGED <<mapMutex, catalogMutex, map, catalog, state, iterators, requestVars, dirs, meta,
                    boundVars, historyVars>> /\ ~Up
    BY DEF Up, diskVars
  <2>2. TypeServer' /\ TypeMemory' /\ TypeBounds' /\ TypeHistory' /\ TypeRequests'
    BY <2>1 DEF TypeServer, TypeMemory, TypeBounds, TypeHistory, TypeRequests, boundVars,
                historyVars, requestVars
  <2>3. TypeDisk'
    BY <2>1 DEF TypeDisk, diskVars
  <2>4. UsedInv'
    BY <2>1 DEF UsedInv, diskVars, historyVars, requestVars
  <2>5. OnInv' /\ DownInv'
    BY <2>1 DEF OnInv, DownInv, Busy, historyVars, requestVars
  <2> QED BY <2>2, <2>3, <2>4, <2>5
<1>2. CASE LoadStreams
  <2> USE <1>2 DEF LoadStreams, Memory
  <2>1. TypeServer' /\ TypeBounds' /\ TypeHistory' /\ TypeRequests' /\ TypeDisk'
    BY DEF TypeServer, TypeBounds, TypeHistory, TypeRequests, TypeDisk, boundVars,
                historyVars, requestVars, diskVars
  <2>2. TypeMemory'
    BY DEF TypeMemory, TypeDisk
  <2>3. UsedInv' /\ DownInv'
    BY DEF UsedInv, DownInv, diskVars, historyVars, requestVars, Up
  <2>4. OnInv'
    BY DEF OnInv, Busy, historyVars, requestVars
  <2> QED BY <2>1, <2>2, <2>3, <2>4
<1>3. CASE Stop \/ Crash
  <2>1. TypeBounds'
    BY <1>3 DEF Stop, Crash, TypeBounds
  <2>2. ProcessEnds /\ UNCHANGED <<diskVars, historyVars>>
    BY <1>3 DEF Stop, Crash
  <2> QED BY <2>1, <2>2, EndsBase
<1> QED BY <1>1, <1>2, <1>3

LEMMA StutterBase ==
  ASSUME Base, UNCHANGED vars
  PROVE  Base'
  BY DEF Base, TypeOK, vars, memVars, requestVars, diskVars, boundVars, historyVars, TypeServer,
         TypeMemory, TypeRequests, TypeDisk, TypeBounds, TypeHistory, UsedInv, OnInv, DownInv, Busy, Up

(* Every variable keeps its type, in the memory of every process and on    *)
(* the disk; the maps and the files have only UUIDs that were generated,   *)
(* and a process that is down has no request in progress.                  *)
THEOREM ServiceTypes == Spec => []Base
<1>1. Base /\ [Next]_vars => Base'
  BY BeginsBase, CreateBase, SaveBase, DeleteBase, IteratorBase, LifeBase, StutterBase
     DEF Next, RequestStep
<1> QED BY <1>1, InitBase, PTL DEF Spec

-----------------------------------------------------------------------------
(* Who may change a stream, and the files of a running stream.             *)

\* A step of a request leaves the other requests where they are.
LEMMA OthersStay ==
  ASSUME TypeRequests, NEW t \in Requests, RequestBegins(t) \/ RequestStep(t), ~CloseTwice(t)
  PROVE  /\ \A q \in Requests : q # t =>
               pc'[q] = pc[q] /\ on'[q] = on[q] /\ snapshot'[q] = snapshot[q]
         /\ UNCHANGED <<server, stops, crashes>>
<1> USE DEF TypeRequests, Call, Goto, Fail, Return
<1>1. CASE RequestBegins(t)
  BY <1>1 DEF RequestBegins, CreateBegin, DeleteBegin, IteratorBegin, IteratorClose, ListFiltered,
              requestVars, memVars, boundVars
<1>2. CASE CreateStep(t)
  BY <1>2 DEF CreateStep, CreateDirectory, Register, InitWriter, SaveMeta, OpenWriter, StartStream,
              memVars, boundVars
<1>3. CASE SaveStep(t)
  BY <1>3 DEF SaveStep, TakeSnapshot, TruncateFile, FillFile, memVars, boundVars
<1>4. CASE DeleteStep(t)
  BY <1>4 DEF DeleteStep, CloseTest, CloseStop, CloseWait, RemoveDirectory, Unregister, Unmap,
              memVars, boundVars
<1>5. CASE IteratorStep(t)
  BY <1>5 DEF IteratorStep, IteratorTest, IteratorAdd, memVars, boundVars
<1> QED BY <1>1, <1>2, <1>3, <1>4, <1>5 DEF RequestStep

LEMMA EndsFiles ==
  ASSUME Base, FilesInv, ProcessEnds, UNCHANGED <<diskVars, historyVars>>
  PROVE  FilesInv'
  BY DEF Base, FilesInv, ProcessEnds, Memory, NoRequests, diskVars, historyVars, OwnerInv, Owner,
         CreatorInv, MetaInv, RunningHasFiles, Creating, Removing

LEMMA BeginsFiles ==
  ASSUME Base, FilesInv, NEW t \in Requests, RequestBegins(t)
  PROVE  FilesInv'
<1> USE DEF Base, TypeOK, TypeRequests, FilesInv, Call, Goto
<1>1. CASE CreateBegin(t)
  <2>0. GenerateNewStreamUuid \in Streams /\ GenerateNewStreamUuid \notin used
    BY <1>1, NewUuid DEF CreateBegin
  <2> DEFINE u == GenerateNewStreamUuid
  <2> HIDE DEF u
  <2>1. /\ on' = [on EXCEPT ![t] = u] /\ pc' = [pc EXCEPT ![t] = "mkdir"]
        /\ u \in Streams /\ u \notin used
        /\ UNCHANGED <<map, catalog, state, dirs, meta, created, removed>>
    BY <1>1, <2>0 DEF CreateBegin, u, memVars, diskVars
  <2>2. state[u] = "NONE"
    BY <2>1 DEF RunningHasFiles, UsedInv, TypeMemory
  <2>3. \A q \in Requests : Busy(q) => on[q] # u
    BY <2>1 DEF OnInv
  <2>4. OwnerInv'
    BY <2>1, <2>2, <2>3 DEF OwnerInv, Owner, Creating, Removing, Busy
  <2>5. CreatorInv'
    BY <2>1 DEF CreatorInv, Creating, TypeHistory
  <2> QED BY <2>1, <2>4, <2>5 DEF MetaInv, RunningHasFiles
<1>2. CASE \E u \in Streams : DeleteBegin(t, u) \/ IteratorBegin(t, u)
  <2> PICK u \in Streams : DeleteBegin(t, u) \/ IteratorBegin(t, u)
    BY <1>2
  <2>1. /\ pc' \in {[pc EXCEPT ![t] = "close"], [pc EXCEPT ![t] = "testiterator"]}
        /\ on' = [on EXCEPT ![t] = u]
        /\ UNCHANGED <<map, catalog, state, dirs, meta, created, removed>>
    BY DEF DeleteBegin, IteratorBegin, memVars, diskVars, historyVars
  <2>2. OwnerInv' /\ CreatorInv'
    BY <2>1 DEF OwnerInv, Owner, CreatorInv, Creating, Removing
  <2> QED BY <2>1, <2>2 DEF MetaInv, RunningHasFiles
<1>3. CASE \E u \in Streams : IteratorClose(t, u)
  BY <1>3 DEF IteratorClose, requestVars, diskVars, historyVars, OwnerInv, Owner, CreatorInv, MetaInv,
              RunningHasFiles
<1>4. CASE ListFiltered(t)
  <2>1. /\ pc' = [pc EXCEPT ![t] = "blocked"] /\ on' = [on EXCEPT ![t] = NoStream]
        /\ UNCHANGED <<map, catalog, state, dirs, meta, created, removed>>
    BY <1>4 DEF ListFiltered, diskVars, historyVars
  <2>2. OwnerInv' /\ CreatorInv'
    BY <2>1 DEF OwnerInv, Owner, CreatorInv, Creating, Removing
  <2> QED BY <2>1, <2>2 DEF MetaInv, RunningHasFiles
<1> QED BY <1>1, <1>2, <1>3, <1>4 DEF RequestBegins

\* A request that only goes on to a place where it owns nothing.
LEMMA LetsGo ==
  ASSUME Base, FilesInv, NEW t \in Requests, NEW place,
         place \in Places \ (Creating \cup Removing \cup {"wait", "snapshot", "write", "fill"}),
         pc' = [pc EXCEPT ![t] = place], on' \in {on, [on EXCEPT ![t] = NoStream]},
         UNCHANGED <<map, catalog, state, dirs, created, removed>>,
         \/ UNCHANGED meta
         \/ pc[t] = "remove" /\ meta' = [meta EXCEPT ![on[t]] = "none"]
  PROVE  FilesInv'
<1> USE DEF Base, TypeOK, TypeRequests, FilesInv
<1>1. OwnerInv'
  BY DEF OwnerInv, Owner, Creating, Removing
<1>2. CreatorInv' /\ MetaInv' /\ RunningHasFiles'
  <2>1. CASE UNCHANGED meta
    BY <2>1 DEF CreatorInv, MetaInv, RunningHasFiles, Creating
  <2>2. CASE pc[t] = "remove" /\ meta' = [meta EXCEPT ![on[t]] = "none"]
    <3>1. on[t] \in Streams /\ state[on[t]] = "NONE"
      BY <2>2, BusyOn DEF OwnerInv, Removing, Busy
    <3>2. \A q \in Requests : pc[q] \in Creating => on[q] # on[t]
      BY <2>2 DEF OwnerInv, Owner, Creating, Removing
    <3>3. CreatorInv'
      BY <2>2, <3>1, <3>2 DEF CreatorInv, Creating, TypeDisk
    <3> QED BY <2>2, <3>1, <3>3 DEF MetaInv, RunningHasFiles, TypeDisk
  <2> QED BY <2>1, <2>2
<1> QED BY <1>1, <1>2

\* A request that goes on with its creation or with its removal.
LEMMA OwnerGoesOn ==
  ASSUME Base, OwnerInv, NEW t \in Requests, NEW place,
         \/ pc[t] \in Creating /\ place \in Creating
         \/ pc[t] \in Removing /\ place \in Removing,
         pc' = [pc EXCEPT ![t] = place], UNCHANGED <<on, state>>
  PROVE  OwnerInv'
  BY DEF Base, TypeOK, TypeRequests, OwnerInv, Owner, Creating, Removing

LEMMA CreateFiles ==
  ASSUME Base, FilesInv, NEW t \in Requests, CreateStep(t)
  PROVE  FilesInv'
<1> USE DEF Base, TypeOK, TypeRequests, FilesInv, Goto
<1>0. /\ pc[t] \in Creating /\ on[t] \in Streams /\ state[on[t]] = "NONE"
      /\ \A q \in Requests : q # t /\ Owner(q) => on[q] # on[t]
  <2>1. pc[t] \in Creating
    BY DEF CreateStep, CreateDirectory, Register, InitWriter, SaveMeta, OpenWriter, StartStream,
           Creating
  <2> QED BY <2>1, BusyOn DEF OwnerInv, Owner, Creating, Busy
<1>1. CASE (CreateDirectory(t) \/ InitWriter(t) \/ SaveMeta(t) \/ OpenWriter(t)) /\ Fail(t)
           /\ UNCHANGED <<map, meta, dirs>>
  <2>1. pc' = [pc EXCEPT ![t] = "idle"] /\ on' = [on EXCEPT ![t] = NoStream]
    BY <1>1 DEF Fail, Return
  <2>2. UNCHANGED <<map, catalog, state, dirs, meta, created, removed>>
    BY <1>1 DEF CreateDirectory, InitWriter, SaveMeta, OpenWriter, memVars, diskVars, historyVars
  <2>3. "idle" \in Places \ (Creating \cup Removing \cup {"wait", "snapshot", "write", "fill"})
    BY DEF Places, Creating, Removing
  <2> QED BY <2>1, <2>2, <2>3, LetsGo
<1>2. CASE CreateDirectory(t) /\ ~Fail(t)
  <2>1. /\ pc[t] = "mkdir" /\ pc' = [pc EXCEPT ![t] = "register"] /\ dirs' = dirs \cup {on[t]}
        /\ UNCHANGED <<on, map, catalog, state, meta, created, removed>>
    BY <1>2 DEF CreateDirectory, memVars, historyVars
  <2>2. OwnerInv'
    BY <2>1, OwnerGoesOn DEF Creating
  <2>3. CreatorInv'
    BY <2>1 DEF CreatorInv, Creating
  <2> QED BY <2>1, <2>2, <2>3 DEF MetaInv, RunningHasFiles
<1>3. CASE Register(t)
  <2>1. /\ pc[t] = "register" /\ pc' = [pc EXCEPT ![t] = "initwriter"]
        /\ catalog' = catalog \cup {on[t]}
        /\ UNCHANGED <<on, map, state, dirs, meta, created, removed>>
    BY <1>3 DEF Register, diskVars, historyVars
  <2>2. OwnerInv'
    BY <2>1, OwnerGoesOn DEF Creating
  <2>3. CreatorInv'
    BY <2>1 DEF CreatorInv, Creating
  <2> QED BY <2>1, <2>2, <2>3 DEF MetaInv, RunningHasFiles
<1>4. CASE (InitWriter(t) \/ SaveMeta(t)) /\ ~Fail(t)
  <2>1. /\ \/ /\ pc[t] = "initwriter" /\ pc' = [pc EXCEPT ![t] = "savemeta"]
              /\ meta' = [meta EXCEPT ![on[t]] = "empty"]
           \/ /\ pc[t] = "savemeta" /\ pc' = [pc EXCEPT ![t] = "openwriter"]
              /\ meta' = [meta EXCEPT ![on[t]] = "saved"]
        /\ UNCHANGED <<on, map, catalog, state, dirs, created, removed>>
    BY <1>4 DEF InitWriter, SaveMeta, memVars, historyVars
  <2>2. OwnerInv'
    BY <2>1, OwnerGoesOn DEF Creating
  <2>3. \A u \in Streams : u # on[t] => meta'[u] = meta[u]
    BY <2>1 DEF TypeDisk
  <2>4. CreatorInv'
    BY <1>0, <2>1, <2>3 DEF CreatorInv, Owner, Creating, TypeDisk, TypeHistory
  <2>5. MetaInv'
    BY <1>0, <2>1, <2>3 DEF MetaInv, CreatorInv, Creating, TypeDisk, TypeHistory
  <2> QED BY <1>0, <2>1, <2>2, <2>3, <2>4, <2>5 DEF RunningHasFiles
<1>5. CASE OpenWriter(t) /\ ~Fail(t)
  <2>1. /\ pc[t] = "openwriter" /\ pc' = [pc EXCEPT ![t] = "start"] /\ map' = map \cup {on[t]}
        /\ UNCHANGED <<on, catalog, state, dirs, meta, created, removed>>
    BY <1>5 DEF OpenWriter, diskVars, historyVars
  <2>2. OwnerInv'
    BY <2>1, OwnerGoesOn DEF Creating
  <2>3. CreatorInv'
    BY <2>1 DEF CreatorInv, Creating
  <2> QED BY <2>1, <2>2, <2>3 DEF MetaInv, RunningHasFiles
<1>6. CASE StartStream(t)
  <2>1. /\ pc[t] = "start" /\ pc' = [pc EXCEPT ![t] = "snapshot"]
        /\ state' = [state EXCEPT ![on[t]] = "RUNNING"]
        /\ UNCHANGED <<on, map, catalog, dirs, meta, created, removed>>
    BY <1>6 DEF StartStream, diskVars, historyVars
  <2>2. OwnerInv'
    BY <1>0, <2>1 DEF OwnerInv, Owner, Creating, Removing, TypeMemory
  <2>3. CreatorInv'
    BY <2>1 DEF CreatorInv, Creating
  <2>4. RunningHasFiles'
    BY <1>0, <2>1 DEF RunningHasFiles, CreatorInv, Creating, TypeMemory
  <2> QED BY <2>1, <2>2, <2>3, <2>4 DEF MetaInv
<1>7. \/ (CreateDirectory(t) \/ InitWriter(t) \/ SaveMeta(t) \/ OpenWriter(t)) /\ Fail(t)
         /\ UNCHANGED <<map, meta, dirs>>
      \/ (CreateDirectory(t) \/ InitWriter(t) \/ SaveMeta(t) \/ OpenWriter(t)) /\ ~Fail(t)
      \/ Register(t) \/ StartStream(t)
  <2>1. Fail(t) => pc'[t] = "idle"
    BY DEF Fail, Return
  <2>2. CreateDirectory(t) \/ InitWriter(t) \/ SaveMeta(t) \/ OpenWriter(t) =>
          (pc'[t] = "idle" => UNCHANGED <<map, meta, dirs>>)
    BY DEF CreateDirectory, InitWriter, SaveMeta, OpenWriter, memVars, diskVars
  <2> QED BY <2>1, <2>2 DEF CreateStep
<1> QED BY <1>1, <1>2, <1>3, <1>4, <1>5, <1>6, <1>7

LEMMA SaveFiles ==
  ASSUME Base, FilesInv, NEW t \in Requests, SaveStep(t)
  PROVE  FilesInv'
<1> USE DEF Base, TypeOK, TypeRequests, FilesInv, Goto, Return
<1>1. UNCHANGED <<map, catalog, state, dirs, meta, removed>>
  BY DEF SaveStep, TakeSnapshot, TruncateFile, FillFile, memVars, diskVars, historyVars
<1>2. CASE TakeSnapshot(t) \/ TruncateFile(t)
  <2>1. /\ pc[t] \in {"snapshot", "write"}
        /\ pc' \in {[pc EXCEPT ![t] = "write"], [pc EXCEPT ![t] = "fill"]}
        /\ UNCHANGED <<on, created>>
    BY <1>2 DEF TakeSnapshot, TruncateFile, historyVars
  <2>2. OwnerInv' /\ CreatorInv'
    BY <1>1, <2>1 DEF OwnerInv, Owner, CreatorInv, Creating, Removing
  <2> QED BY <1>1, <2>1, <2>2 DEF MetaInv, RunningHasFiles
<1>3. CASE FillFile(t)
  <2>1. /\ pc[t] = "fill" /\ pc' = [pc EXCEPT ![t] = "idle"]
        /\ on' = [on EXCEPT ![t] = NoStream]
        /\ created' \subseteq created \cup {on[t]}
    BY <1>3 DEF FillFile
  <2>2. \A q \in Requests : pc[q] \in Creating => on[q] # on[t]
    BY <2>1 DEF OwnerInv
  <2>3. OwnerInv' /\ CreatorInv'
    BY <1>1, <2>1, <2>2 DEF OwnerInv, Owner, CreatorInv, Creating, Removing
  <2> QED BY <1>1, <2>1, <2>3 DEF MetaInv, RunningHasFiles
<1> QED BY <1>2, <1>3 DEF SaveStep

LEMMA DeleteFiles ==
  ASSUME Base, FilesInv, NEW t \in Requests, DeleteStep(t)
  PROVE  FilesInv'
<1> USE DEF Base, TypeOK, TypeRequests, FilesInv, Goto
<1>0. /\ pc[t] \in {"close", "stop", "wait"} \cup Removing /\ on[t] \in Streams
  <2>1. pc[t] \in {"close", "stop", "wait"} \cup Removing
    BY DEF DeleteStep, CloseTest, CloseStop, CloseTwice, CloseWait, RemoveDirectory, Unregister,
           Unmap, Removing
  <2> QED BY <2>1, BusyOn DEF Removing, Busy
<1>1. Owner(t) => \A q \in Requests : q # t /\ Owner(q) => on[q] # on[t]
  BY DEF OwnerInv
<1>2. CASE CloseTest(t)
  <2>1. /\ \E place \in {"idle", "stop"} : pc' = [pc EXCEPT ![t] = place]
        /\ on' \in {on, [on EXCEPT ![t] = NoStream]}
        /\ UNCHANGED <<map, catalog, state, dirs, meta, created, removed>>
    BY <1>2 DEF CloseTest, Return, memVars, diskVars, historyVars
  <2>2. {"idle", "stop"} \subseteq
          Places \ (Creating \cup Removing \cup {"wait", "snapshot", "write", "fill"})
    BY DEF Places, Creating, Removing
  <2> QED BY <2>1, <2>2, LetsGo
<1>3. CASE CloseStop(t)
  <2>1. /\ pc[t] = "stop" /\ pc' = [pc EXCEPT ![t] = "wait"]
        /\ state[on[t]] = "RUNNING" /\ state' = [state EXCEPT ![on[t]] = "STOPPING"]
        /\ UNCHANGED <<on, map, catalog, dirs, meta, created, removed>>
    BY <1>3 DEF CloseStop, diskVars, historyVars
  <2>2. \A q \in Requests : Owner(q) => on[q] # on[t]
    BY <2>1 DEF OwnerInv, Owner
  <2>3. OwnerInv'
    BY <1>0, <2>1, <2>2 DEF OwnerInv, Owner, Creating, Removing, TypeMemory
  <2>4. CreatorInv'
    BY <2>1 DEF CreatorInv, Creating
  <2>5. RunningHasFiles'
    BY <1>0, <2>1 DEF RunningHasFiles, TypeMemory
  <2> QED BY <2>1, <2>3, <2>4, <2>5 DEF MetaInv
<1>4. CASE CloseTwice(t)
  BY <1>4, EndsFiles DEF CloseTwice
<1>5. CASE CloseWait(t)
  <2>1. /\ pc[t] = "wait" /\ pc' = [pc EXCEPT ![t] = "remove"]
        /\ state' = [state EXCEPT ![on[t]] = "NONE"]
        /\ UNCHANGED <<on, map, catalog, dirs, meta, created, removed>>
    BY <1>5 DEF CloseWait, diskVars, historyVars
  <2>2. \A q \in Requests : q # t /\ Owner(q) => on[q] # on[t]
    BY <1>1, <2>1 DEF Owner
  <2>3. OwnerInv'
    BY <1>0, <2>1, <2>2 DEF OwnerInv, Owner, Creating, Removing, TypeMemory
  <2>4. CreatorInv'
    BY <2>1 DEF CreatorInv, Creating
  <2>5. RunningHasFiles'
    BY <1>0, <2>1 DEF RunningHasFiles, TypeMemory
  <2> QED BY <2>1, <2>3, <2>4, <2>5 DEF MetaInv
<1>6. CASE RemoveDirectory(t)
  <2>1. CASE pc'[t] = "idle"
    <3>1. /\ pc[t] = "remove" /\ pc' = [pc EXCEPT ![t] = "idle"]
          /\ on' = [on EXCEPT ![t] = NoStream]
          /\ meta' \in {meta, [meta EXCEPT ![on[t]] = "none"]}
          /\ UNCHANGED <<map, catalog, state, dirs, created, removed>>
      BY <1>6, <2>1 DEF RemoveDirectory, Fail, Return, memVars
    <3>2. "idle" \in Places \ (Creating \cup Removing \cup {"wait", "snapshot", "write", "fill"})
      BY DEF Places, Creating, Removing
    <3> QED BY <3>1, <3>2, LetsGo
  <2>2. CASE pc'[t] # "idle"
    <3>1. /\ pc[t] = "remove" /\ pc' = [pc EXCEPT ![t] = "unregister"]
          /\ meta' = [meta EXCEPT ![on[t]] = "none"] /\ dirs' = dirs \ {on[t]}
          /\ removed' = removed \cup {on[t]}
          /\ UNCHANGED <<on, map, catalog, state, created>>
      BY <1>6, <2>2 DEF RemoveDirectory, FilesRemoved, Fail, Return, memVars
    <3>2. state[on[t]] = "NONE" /\ \A q \in Requests : q # t /\ Owner(q) => on[q] # on[t]
      BY <1>1, <3>1 DEF OwnerInv, Owner, Removing
    <3>3. OwnerInv'
      BY <3>1, OwnerGoesOn DEF Removing
    <3>4. CreatorInv'
      BY <1>0, <3>1, <3>2 DEF CreatorInv, Creating, Owner, TypeDisk
    <3>5. MetaInv'
      BY <1>0, <3>1 DEF MetaInv, TypeDisk
    <3>6. RunningHasFiles'
      BY <1>0, <3>1, <3>2 DEF RunningHasFiles, TypeDisk
    <3> QED BY <3>3, <3>4, <3>5, <3>6
  <2> QED BY <2>1, <2>2
<1>7. CASE Unregister(t)
  <2>1. /\ pc[t] = "unregister" /\ pc' = [pc EXCEPT ![t] = "unmap"]
        /\ catalog' = catalog \ {on[t]}
        /\ UNCHANGED <<on, map, state, dirs, meta, created, removed>>
    BY <1>7 DEF Unregister, Unregistered, diskVars, historyVars
  <2>2. state[on[t]] = "NONE" /\ \A q \in Requests : q # t /\ Owner(q) => on[q] # on[t]
    BY <1>1, <2>1 DEF OwnerInv, Owner, Removing
  <2>3. OwnerInv'
    BY <2>1, OwnerGoesOn DEF Removing
  <2>4. CreatorInv'
    BY <2>1, <2>2 DEF CreatorInv, Creating, Owner
  <2> QED BY <2>1, <2>2, <2>3, <2>4 DEF MetaInv, RunningHasFiles
<1>8. CASE Unmap(t)
  <2>1. /\ pc[t] = "unmap" /\ pc' = [pc EXCEPT ![t] = "snapshot"]
        /\ map' = map \ {on[t]}
        /\ UNCHANGED <<on, catalog, state, dirs, meta, created, removed>>
    BY <1>8 DEF Unmap, diskVars, historyVars
  <2>2. state[on[t]] = "NONE" /\ \A q \in Requests : q # t /\ Owner(q) => on[q] # on[t]
    BY <1>1, <2>1 DEF OwnerInv, Owner, Removing
  <2>3. OwnerInv'
    BY <2>1, <2>2 DEF OwnerInv, Owner, Creating, Removing
  <2>4. CreatorInv'
    BY <2>1, <2>2 DEF CreatorInv, Creating, Owner
  <2> QED BY <2>1, <2>2, <2>3, <2>4 DEF MetaInv, RunningHasFiles
<1> QED BY <1>2, <1>3, <1>4, <1>5, <1>6, <1>7, <1>8 DEF DeleteStep

LEMMA IteratorFiles ==
  ASSUME Base, FilesInv, NEW t \in Requests, IteratorStep(t)
  PROVE  FilesInv'
<1>1. /\ \E place \in {"idle", "additerator"} : pc' = [pc EXCEPT ![t] = place]
      /\ on' \in {on, [on EXCEPT ![t] = NoStream]}
      /\ UNCHANGED <<map, catalog, state, dirs, meta, created, removed>>
  BY DEF IteratorStep, IteratorTest, IteratorAdd, Goto, Return, Fail, memVars, diskVars, historyVars
<1>2. {"idle", "additerator"} \subseteq
        Places \ (Creating \cup Removing \cup {"wait", "snapshot", "write", "fill"})
  BY DEF Places, Creating, Removing
<1> QED BY <1>1, <1>2, LetsGo

LEMMA LifeFiles ==
  ASSUME Base, FilesInv, StartInit \/ CreateEmptyCatalogFile \/ LoadStreams \/ LoadFails \/ Stop \/ Crash
  PROVE  FilesInv'
<1> USE DEF Base, TypeOK, FilesInv
<1>1. CASE StartInit \/ CreateEmptyCatalogFile \/ LoadFails
  <2>1. UNCHANGED <<pc, on, map, catalog, state, dirs, meta, created, removed>>
    BY <1>1 DEF StartInit, CreateEmptyCatalogFile, LoadFails, requestVars, diskVars, historyVars
  <2> QED BY <2>1 DEF OwnerInv, Owner, CreatorInv, MetaInv, RunningHasFiles
<1>2. CASE LoadStreams
  <2>1. /\ map' = saved /\ catalog' = saved
        /\ state' = [u \in Streams |-> IF u \in saved THEN "RUNNING" ELSE "NONE"]
        /\ \A u \in saved : meta[u] = "saved"
        /\ UNCHANGED <<pc, on, dirs, meta, created, removed>>
    BY <1>2 DEF LoadStreams, CanLoad, Memory, requestVars, diskVars, historyVars
  <2>2. \A t \in Requests : pc[t] = "idle"
    BY <1>2 DEF LoadStreams, DownInv, Up
  <2>3. OwnerInv' /\ CreatorInv' /\ MetaInv'
    BY <2>1, <2>2 DEF OwnerInv, Owner, CreatorInv, MetaInv, Creating, Removing
  <2>4. RunningHasFiles'
    BY <2>1 DEF RunningHasFiles, MetaInv, TypeDisk
  <2> QED BY <2>3, <2>4
<1>3. CASE Stop \/ Crash
  BY <1>3, EndsFiles DEF Stop, Crash
<1> QED BY <1>1, <1>2, <1>3

LEMMA StutterFiles ==
  ASSUME FilesInv, UNCHANGED vars
  PROVE  FilesInv'
  BY DEF FilesInv, OwnerInv, Owner, CreatorInv, MetaInv, RunningHasFiles, vars, memVars, requestVars,
         diskVars, historyVars

LEMMA FilesCorrect == Spec => []FilesInv
<1>1. Init => FilesInv
  BY DEF Init, FilesInv, OwnerInv, Owner, CreatorInv, MetaInv, RunningHasFiles, Creating, Removing
<1>2. Base /\ FilesInv /\ [Next]_vars => FilesInv'
  BY BeginsFiles, CreateFiles, SaveFiles, DeleteFiles, IteratorFiles, LifeFiles, StutterFiles
     DEF Next, RequestStep
<1> QED BY <1>1, <1>2, ServiceTypes, PTL DEF Spec

(* A running stream, whatever requests, failed calls, shutdowns and        *)
(* crashes came before, has its directory and its stream.json, and is in   *)
(* the catalog and in the map: it is owned by at most one request at a     *)
(* time, and a request that owns it found it stopped.                      *)
THEOREM RunningIsBacked == Spec => []RunningHasFiles
<1>1. FilesInv => RunningHasFiles
  BY DEF FilesInv
<1> QED BY <1>1, FilesCorrect, PTL

(* A stream whose directory was removed never runs again: a start loads a  *)
(* stream only with its stream.json, which nobody writes again.            *)
THEOREM RemovedStaysRemoved == Spec => []DeletedNeverReturns
<1>1. Base /\ FilesInv => DeletedNeverReturns
  BY DEF Base, TypeOK, TypeHistory, TypeMemory, FilesInv, MetaInv, RunningHasFiles,
         DeletedNeverReturns
<1> QED BY <1>1, ServiceTypes, FilesCorrect, PTL

-----------------------------------------------------------------------------
(* Agreement of the maps, the disk and the states.                         *)

\* A step of a request changes the stream of the request only.
LEMMA Footprint ==
  ASSUME Base, NEW t \in Requests, RequestStep(t), ~CloseTwice(t), NEW u \in Streams, u # on[t]
  PROVE  /\ u \in map' <=> u \in map
         /\ u \in catalog' <=> u \in catalog
         /\ u \in dirs' <=> u \in dirs
         /\ state'[u] = state[u] /\ meta'[u] = meta[u]
<1> USE DEF Base, TypeOK, TypeMemory, TypeDisk
<1>1. CASE CreateStep(t)
  BY <1>1 DEF CreateStep, CreateDirectory, Register, InitWriter, SaveMeta, OpenWriter, StartStream,
              memVars, diskVars
<1>2. CASE SaveStep(t)
  BY <1>2 DEF SaveStep, TakeSnapshot, TruncateFile, FillFile, memVars, diskVars
<1>3. CASE DeleteStep(t)
  BY <1>3 DEF DeleteStep, CloseTest, CloseStop, CloseWait, RemoveDirectory, FilesRemoved, Unregister,
              Unregistered, Unmap, memVars, diskVars
<1>4. CASE IteratorStep(t)
  BY <1>4 DEF IteratorStep, IteratorTest, IteratorAdd, memVars, diskVars
<1> QED BY <1>1, <1>2, <1>3, <1>4 DEF RequestStep

LEMMA BeginsFootprint ==
  ASSUME TypeRequests, NEW t \in Requests, RequestBegins(t)
  PROVE  /\ UNCHANGED <<map, catalog, dirs, state, meta, saved, file, faults, created, snapshot, older,
                        overtaken, reordered>>
         /\ pc[t] = "idle"
         /\ pc'[t] \in {"idle", "mkdir", "close", "testiterator", "blocked"}
  BY DEF RequestBegins, CreateBegin, DeleteBegin, IteratorBegin, IteratorClose, ListFiltered, Call,
         Goto, requestVars, memVars, diskVars, historyVars, TypeRequests

\* The requests other than t stay where they are; so does what they are the reason of.
LEMMA AtOthers ==
  ASSUME NEW t \in Requests, NEW u, NEW places,
         \A q \in Requests : q # t => pc'[q] = pc[q] /\ on'[q] = on[q],
         At(u, places), on[t] # u \/ pc[t] \notin places
  PROVE  At(u, places)'
  BY DEF At

LEMMA AgreeOther ==
  ASSUME Base, NEW t \in Requests, RequestStep(t), ~CloseTwice(t), NEW u \in Streams, u # on[t],
         AgreeOn(u)
  PROVE  AgreeOn(u)'
<1>1. \A q \in Requests : q # t => pc'[q] = pc[q] /\ on'[q] = on[q]
  BY OthersStay DEF Base, TypeOK
<1>2. \A places : At(u, places) => At(u, places)'
  BY <1>1, AtOthers
<1> QED BY <1>2, Footprint DEF AgreeOn

\* The stream of the request itself.
LEMMA AgreeSelf ==
  ASSUME Base, FilesInv, AgreeInv, NEW t \in Requests, RequestStep(t), ~CloseTwice(t), faults' = 0,
         NEW u \in Streams, u = on[t], AgreeOn(u)
  PROVE  AgreeOn(u)'
<1> USE DEF Base, TypeOK, TypeRequests, TypeMemory, TypeDisk, TypeBounds
<1>0. \A q \in Requests : q # t => pc'[q] = pc[q] /\ on'[q] = on[q]
  BY OthersStay
<1>1. faults' # faults + 1
  OBVIOUS
<1>2. \A places : At(u, places) /\ pc[t] \notin places => At(u, places)'
  BY <1>0, AtOthers
<1>3. \A places : on'[t] = u /\ pc'[t] \in places => At(u, places)'
  BY DEF At
<1> USE <1>0, <1>1, <1>2, <1>3 DEF AgreeOn, Goto, Fail, Return
<1>4. CASE CreateDirectory(t)
  <2>1. /\ pc[t] = "mkdir" /\ dirs' = dirs \cup {u}
        /\ UNCHANGED <<map, catalog, state>>
    BY <1>4 DEF CreateDirectory, memVars
  <2> QED BY <2>1
<1>5. CASE Register(t)
  <2>1. /\ pc[t] = "register" /\ catalog' = catalog \cup {u} /\ pc'[t] = "initwriter" /\ on'[t] = u
        /\ UNCHANGED <<map, dirs, state>> /\ u \in dirs
    BY <1>5 DEF Register, diskVars, FilesInv, CreatorInv, Creating
  <2> QED BY <2>1
<1>6. CASE InitWriter(t) \/ SaveMeta(t)
  <2>1. /\ pc[t] \in {"initwriter", "savemeta"} /\ pc'[t] \in {"savemeta", "openwriter"} /\ on'[t] = u
        /\ UNCHANGED <<map, catalog, dirs, state>>
    BY <1>6 DEF InitWriter, SaveMeta, memVars
  <2> QED BY <2>1
<1>7. CASE OpenWriter(t)
  <2>1. /\ pc[t] = "openwriter" /\ map' = map \cup {u} /\ pc'[t] = "start" /\ on'[t] = u
        /\ UNCHANGED <<catalog, dirs, state>> /\ u \in catalog
    BY <1>7 DEF OpenWriter, diskVars, FilesInv, CreatorInv, Creating
  <2> QED BY <2>1
<1>8. CASE StartStream(t)
  <2>1. /\ pc[t] = "start" /\ state'[u] = "RUNNING"
        /\ UNCHANGED <<map, catalog, dirs>>
    BY <1>8 DEF StartStream, diskVars
  <2> QED BY <2>1
<1>9. CASE SaveStep(t) \/ CloseTest(t) \/ IteratorStep(t)
  <2>1. /\ pc[t] \in {"snapshot", "write", "fill", "close", "testiterator", "additerator"}
        /\ UNCHANGED <<map, catalog, dirs, state>>
    BY <1>9 DEF SaveStep, TakeSnapshot, TruncateFile, FillFile, CloseTest, IteratorStep, IteratorTest,
                IteratorAdd, memVars, diskVars
  <2> QED BY <2>1
<1>10. CASE CloseStop(t) \/ CloseWait(t)
  <2>1. /\ pc[t] \in {"stop", "wait"} /\ pc'[t] \in {"wait", "remove"} /\ on'[t] = u
        /\ UNCHANGED <<map, catalog, dirs>>
    BY <1>10 DEF CloseStop, CloseWait, diskVars
  <2> QED BY <2>1
<1>11. CASE RemoveDirectory(t)
  <2>1. /\ pc[t] = "remove" /\ pc'[t] = "unregister" /\ on'[t] = u
        /\ UNCHANGED <<map, catalog, state>>
    BY <1>11 DEF RemoveDirectory, memVars
  <2> QED BY <2>1
<1>12. CASE Unregister(t)
  <2>1. /\ pc[t] = "unregister" /\ pc'[t] = "unmap" /\ on'[t] = u /\ catalog' = catalog \ {u}
        /\ UNCHANGED <<map, dirs, state>>
    BY <1>12 DEF Unregister, Unregistered, diskVars
  <2> QED BY <2>1
<1>13. CASE Unmap(t)
  <2>1. /\ pc[t] = "unmap" /\ map' = map \ {u} /\ u \notin catalog
        /\ UNCHANGED <<catalog, dirs, state>>
    BY <1>13 DEF Unmap, diskVars, AgreeInv
  <2> QED BY <2>1
<1> QED BY <1>4, <1>5, <1>6, <1>7, <1>8, <1>9, <1>10, <1>11, <1>12, <1>13
     DEF RequestStep, CreateStep, DeleteStep

\* A failed call is never forgotten.
LEMMA FaultsGrow ==
  ASSUME Base, [Next]_vars, faults' = 0
  PROVE  faults = 0
<1> USE DEF Base, TypeOK, TypeBounds, Fail
<1>1. ASSUME NEW t \in Requests, RequestBegins(t) PROVE faults = 0
  BY <1>1, BeginsFootprint
<1>2. ASSUME NEW t \in Requests, RequestStep(t) PROVE faults = 0
  BY <1>2 DEF RequestStep, CreateStep, CreateDirectory, Register, InitWriter, SaveMeta, OpenWriter,
      StartStream, SaveStep, TakeSnapshot, TruncateFile, FillFile, DeleteStep, CloseTest, CloseStop,
      CloseTwice, CloseWait, RemoveDirectory, Unregister, Unmap, IteratorStep, IteratorTest,
      IteratorAdd, boundVars
<1>3. ASSUME StartInit \/ CreateEmptyCatalogFile \/ LoadStreams \/ LoadFails \/ Stop \/ Crash
      PROVE  faults = 0
  BY <1>3 DEF StartInit, CreateEmptyCatalogFile, LoadStreams, LoadFails, Stop, Crash, boundVars
<1> QED BY <1>1, <1>2, <1>3 DEF Next, vars, boundVars

LEMMA EndsAgree ==
  ASSUME ProcessEnds
  PROVE  AgreeInv'
  BY DEF ProcessEnds, Memory, NoRequests, AgreeInv, AgreeOn

\* After its removal from the catalog, nobody registers the stream again.
LEMMA UnmapStep ==
  ASSUME Base, FilesInv, AgreeInv, NEW t \in Requests, RequestStep(t), ~CloseTwice(t),
         NEW q \in Requests, pc'[q] = "unmap"
  PROVE  on'[q] \notin catalog'
<1> USE DEF Base, TypeOK, TypeRequests
<1>0. \A r \in Requests : r # t => pc'[r] = pc[r] /\ on'[r] = on[r]
  BY OthersStay
<1>1. CASE Register(t)
  <2>1. pc[t] = "register" /\ pc'[t] = "initwriter" /\ catalog' = catalog \cup {on[t]}
    BY <1>1 DEF Register, Goto
  <2>2. q # t /\ on[q] # on[t]
    BY <1>0, <2>1 DEF FilesInv, OwnerInv, Owner, Creating, Removing
  <2> QED BY <1>0, <2>1, <2>2 DEF AgreeInv
<1>2. CASE Unregister(t)
  <2>1. catalog' = catalog \ {on[t]} /\ on' = on
    BY <1>2 DEF Unregister, Unregistered
  <2> QED BY <1>0, <2>1 DEF AgreeInv
<1>3. CASE ~Register(t) /\ ~Unregister(t)
  <2>1. catalog' = catalog /\ pc'[t] # "unmap"
    BY <1>3 DEF RequestStep, CreateStep, CreateDirectory, InitWriter, SaveMeta, OpenWriter,
      StartStream, SaveStep, TakeSnapshot, TruncateFile, FillFile, DeleteStep, CloseTest, CloseStop,
      CloseWait, RemoveDirectory, Unmap, IteratorStep, IteratorTest, IteratorAdd, memVars, Goto,
      Return, Fail
  <2> QED BY <1>0, <2>1 DEF AgreeInv
<1> QED BY <1>1, <1>2, <1>3

LEMMA AgreeStep ==
  ASSUME Base, FilesInv, AgreeInv, [Next]_vars
  PROVE  AgreeInv'
<1> USE DEF Base, TypeOK
<1>1. ASSUME NEW t \in Requests, RequestBegins(t), ~CloseTwice(t)
      PROVE  AgreeInv'
  <2>1. /\ UNCHANGED <<map, catalog, dirs, state, faults>>
        /\ pc[t] = "idle" /\ pc'[t] \in {"idle", "mkdir", "close", "testiterator", "blocked"}
    BY <1>1, BeginsFootprint
  <2>2. \A q \in Requests : q # t => pc'[q] = pc[q] /\ on'[q] = on[q]
    BY <1>1, OthersStay
  <2>3. \A u \in Streams : AgreeOn(u) => AgreeOn(u)'
    <3> TAKE u \in Streams
    <3>1. \A places : At(u, places) /\ pc[t] \notin places => At(u, places)'
      BY <2>2, AtOthers
    <3> QED BY <2>1, <3>1 DEF AgreeOn
  <2> QED BY <2>1, <2>2, <2>3 DEF AgreeInv
<1>2. ASSUME NEW t \in Requests, RequestStep(t), ~CloseTwice(t)
      PROVE  AgreeInv'
  <2>1. ASSUME faults' = 0, NEW u \in Streams PROVE AgreeOn(u)'
    <3>1. AgreeOn(u)
      BY <2>1, FaultsGrow DEF AgreeInv
    <3> QED BY <1>2, <2>1, <3>1, AgreeOther, AgreeSelf
  <2> QED BY <1>2, <2>1, UnmapStep DEF AgreeInv
<1>3. ASSUME NEW t \in Requests, CloseTwice(t)
      PROVE  AgreeInv'
  BY <1>3, EndsAgree DEF CloseTwice
<1>4. CASE Stop \/ Crash
  BY <1>4, EndsAgree DEF Stop, Crash
<1>5. CASE StartInit \/ CreateEmptyCatalogFile \/ LoadFails
  <2>1. UNCHANGED <<pc, on, map, catalog, dirs, state, faults>>
    BY <1>5 DEF StartInit, CreateEmptyCatalogFile, LoadFails, requestVars, diskVars, boundVars
  <2> QED BY <2>1 DEF AgreeInv, AgreeOn, At
<1>6. CASE LoadStreams
  <2>1. /\ map' = saved /\ catalog' = saved /\ dirs' = dirs /\ saved \subseteq dirs
        /\ \A u \in Streams : u \in saved => state'[u] = "RUNNING"
        /\ \A t \in Requests : pc'[t] = "idle"
    BY <1>6 DEF LoadStreams, CanLoad, Memory, diskVars, requestVars, DownInv, Up, FilesInv, MetaInv,
                TypeDisk
  <2> QED BY <2>1 DEF AgreeInv, AgreeOn
<1>7. CASE UNCHANGED vars
  <2>1. UNCHANGED <<pc, on, map, catalog, dirs, state, faults>>
    BY <1>7 DEF vars, memVars, requestVars, diskVars, boundVars
  <2> QED BY <2>1 DEF AgreeInv, AgreeOn, At
<1>8. ASSUME NEW t \in Requests, RequestBegins(t) PROVE ~CloseTwice(t)
  BY <1>8, BeginsFootprint DEF CloseTwice
<1> QED BY <1>1, <1>2, <1>3, <1>4, <1>5, <1>6, <1>7, <1>8 DEF Next

LEMMA AgreeCorrect == Spec => []AgreeInv
<1>1. Init => AgreeInv
  BY DEF Init, AgreeInv, AgreeOn
<1> QED BY <1>1, AgreeStep, ServiceTypes, FilesCorrect, PTL DEF Spec

(* When no request is in progress and no call failed, Service.Hashmap and  *)
(* the catalog of the provider have the same streams, each has its         *)
(* directory and runs: what differs while requests are in progress is the  *)
(* stream of one of them, in every interleaving and after every restart.   *)
THEOREM IdleServiceAgrees == Spec => []QuiescentAgree
<1>1. Base /\ AgreeInv => QuiescentAgree
  BY DEF Base, TypeOK, TypeMemory, AgreeInv, AgreeOn, At, QuiescentAgree
<1> QED BY <1>1, ServiceTypes, AgreeCorrect, PTL

-----------------------------------------------------------------------------
(* The catalog file and the order of its saves.                            *)

\* A stream that nobody deletes or creates keeps its stream.json and its place in the catalog.
LEMMA Preserved ==
  ASSUME Base, FilesInv, NEW t \in Requests, RequestStep(t), ~CloseTwice(t),
         NEW u \in Streams, u \notin deleting, on[t] = u => pc[t] \notin Creating
  PROVE  meta'[u] = meta[u] /\ (u \in catalog => u \in catalog')
<1>1. CASE on[t] # u
  BY <1>1, Footprint
<1>2. CASE on[t] = u
  <2>1. pc[t] \notin {"wait"} \cup Removing
    BY <1>2 DEF Base, OnInv
  <2>2. UNCHANGED <<meta, catalog>>
    BY <1>2, <2>1 DEF RequestStep, CreateStep, CreateDirectory, Register, InitWriter, SaveMeta,
      OpenWriter, StartStream, SaveStep, TakeSnapshot, TruncateFile, FillFile, DeleteStep, CloseTest,
      CloseStop, CloseWait, RemoveDirectory, Unregister, Unmap, IteratorStep, IteratorTest,
      IteratorAdd, memVars, diskVars, Creating, Removing
  <2> QED BY <2>2
<1> QED BY <1>1, <1>2

\* The steps that have nothing to do with the catalog file.
LEMMA NotSaving ==
  ASSUME Base, NEW t \in Requests, RequestStep(t), ~CloseTwice(t), ~SaveStep(t)
  PROVE  /\ UNCHANGED <<server, file, saved, created, deleting, reordered, snapshot, older, overtaken>>
         /\ pc[t] \notin {"snapshot", "write", "fill"} /\ pc'[t] \notin Saving
         /\ pc'[t] = "snapshot" => /\ on'[t] = on[t]
                                   /\ StartStream(t) \/ on[t] \in deleting
<1> USE DEF Base, TypeOK, TypeRequests, Goto, Return, Fail, Saving, memVars, diskVars, historyVars
<1>1. CASE CreateStep(t)
  BY <1>1 DEF CreateStep, CreateDirectory, Register, InitWriter, SaveMeta, OpenWriter, StartStream
<1>2. CASE DeleteStep(t)
  <2>1. pc[t] \in Removing => on[t] \in deleting
    BY DEF OnInv
  <2> QED BY <1>2, <2>1 DEF DeleteStep, CloseTest, CloseStop, CloseWait, RemoveDirectory, Unregister,
                            Unmap, Removing
<1>3. CASE IteratorStep(t)
  BY <1>3 DEF IteratorStep, IteratorTest, IteratorAdd
<1> QED BY <1>1, <1>2, <1>3 DEF RequestStep

LEMMA DeletingGrows ==
  ASSUME NEW t \in Requests, RequestBegins(t)
  PROVE  deleting \subseteq deleting' /\ UNCHANGED server
  BY DEF RequestBegins, CreateBegin, DeleteBegin, IteratorBegin, IteratorClose, ListFiltered,
         historyVars, memVars

LEMMA KeptStep ==
  ASSUME Base, FilesInv, KeptInv, NEW t \in Requests, RequestBegins(t) \/ RequestStep(t), ~CloseTwice(t)
  PROVE  KeptInv'
<1> USE DEF Base, TypeOK, TypeHistory, TypeRequests
<1>0. \A q \in Requests : q # t => pc'[q] = pc[q] /\ on'[q] = on[q]
  BY OthersStay
<1>1. CASE RequestBegins(t)
  <2>1. /\ UNCHANGED <<catalog, meta, created>> /\ deleting \subseteq deleting'
        /\ pc'[t] \notin {"snapshot", "write", "fill"}
    BY <1>1, BeginsFootprint, DeletingGrows
  <2> QED BY <1>0, <2>1 DEF KeptInv, Kept
<1>2. CASE RequestStep(t) /\ ~SaveStep(t)
  <2>1. /\ UNCHANGED <<created, deleting>> /\ pc'[t] \notin Saving
        /\ pc'[t] = "snapshot" => on'[t] = on[t] /\ (StartStream(t) \/ on[t] \in deleting)
    BY <1>2, NotSaving
  <2>2. \A u \in Kept : meta'[u] = "saved"
    BY <1>2, Preserved DEF KeptInv, Kept, FilesInv, CreatorInv
  <2>3. ASSUME NEW q \in Requests, pc'[q] \in {"snapshot", "write", "fill"}, on'[q] \notin deleting'
        PROVE  meta'[on'[q]] = "saved" /\ on'[q] \in catalog'
    <3>1. CASE q = t
      <4>1. StartStream(t) /\ on'[q] = on[t]
        BY <2>1, <2>3, <3>1 DEF Saving
      <4>2. meta[on[t]] = "saved" /\ on[t] \in catalog /\ UNCHANGED <<meta, catalog>>
        BY <4>1 DEF StartStream, FilesInv, CreatorInv, Creating, diskVars
      <4> QED BY <4>1, <4>2
    <3>2. CASE q # t
      <4>1. /\ pc[q] \in {"snapshot", "write", "fill"} /\ on'[q] = on[q]
            /\ on[q] \notin deleting /\ on[q] \in Streams
        BY <1>0, <2>1, <2>3, <3>2, BusyOn DEF Busy
      <4>2. on[t] = on[q] => pc[t] \notin Creating
        BY <4>1 DEF FilesInv, OwnerInv
      <4> QED BY <1>2, <4>1, <4>2, Preserved DEF KeptInv
    <3> QED BY <3>1, <3>2
  <2> QED BY <2>1, <2>2, <2>3 DEF KeptInv, Kept
<1>3. CASE TakeSnapshot(t) \/ TruncateFile(t)
  <2>1. UNCHANGED <<on, catalog, meta, created, deleting>> /\ pc[t] \in {"snapshot", "write"}
    BY <1>3 DEF TakeSnapshot, TruncateFile, memVars, diskVars, historyVars
  <2> QED BY <1>0, <2>1 DEF KeptInv, Kept
<1>4. CASE FillFile(t)
  <2>1. /\ UNCHANGED <<catalog, meta, deleting>> /\ pc[t] = "fill" /\ pc'[t] = "idle"
        /\ created' = IF on[t] \in deleting THEN created ELSE created \cup {on[t]}
    BY <1>4 DEF FillFile, Return, Goto
  <2> QED BY <1>0, <2>1 DEF KeptInv, Kept
<1> QED BY <1>1, <1>2, <1>3, <1>4 DEF SaveStep

LEMMA SnapshotStep ==
  ASSUME Base, KeptInv, SnapshotInv, NEW t \in Requests, RequestBegins(t) \/ RequestStep(t),
         ~CloseTwice(t)
  PROVE  SnapshotInv'
<1> USE DEF Base, TypeOK, TypeRequests
<1>0. \A q \in Requests : q # t => pc'[q] = pc[q] /\ on'[q] = on[q] /\ snapshot'[q] = snapshot[q]
  BY OthersStay
<1>1. CASE RequestBegins(t) \/ (RequestStep(t) /\ ~SaveStep(t))
  <2>1. UNCHANGED <<older, snapshot>> /\ deleting \subseteq deleting' /\ pc'[t] \notin Saving
    BY <1>1, BeginsFootprint, DeletingGrows, NotSaving DEF Saving
  <2> QED BY <1>0, <2>1 DEF SnapshotInv
<1>2. CASE TakeSnapshot(t)
  <2>1. /\ pc[t] = "snapshot" /\ UNCHANGED <<on, deleting>> /\ snapshot'[t] = catalog
        /\ older'[t] = {r \in Requests : pc[r] \in Saving}
        /\ \A q \in Requests : q # t => older'[q] = older[q] \ {t}
    BY <1>2 DEF TakeSnapshot, historyVars, Saving
  <2>2. t \notin older'[t] /\ (on[t] \notin deleting => on[t] \in snapshot'[t])
    BY <2>1 DEF KeptInv, Saving
  <2>3. ASSUME NEW q \in Requests, q # t, pc'[q] \in Saving
        PROVE  q \in older'[t] /\ (on[q] \notin deleting => on[q] \in snapshot'[t])
    BY <1>0, <2>1, <2>3 DEF KeptInv, Saving
  <2> QED BY <1>0, <2>1, <2>2, <2>3 DEF SnapshotInv
<1>3. CASE TruncateFile(t)
  <2>1. UNCHANGED <<on, deleting, older, snapshot>> /\ pc[t] \in Saving
    BY <1>3 DEF TruncateFile, historyVars, Saving
  <2> QED BY <1>0, <2>1 DEF SnapshotInv
<1>4. CASE FillFile(t)
  <2>1. /\ UNCHANGED deleting /\ pc'[t] \notin Saving
        /\ \A q \in Requests : q # t => older'[q] = older[q] \ {t}
    BY <1>4 DEF FillFile, Return, Goto, Saving
  <2> QED BY <1>0, <2>1 DEF SnapshotInv
<1> QED BY <1>1, <1>2, <1>3, <1>4 DEF SaveStep

LEMMA OrderStep ==
  ASSUME Base, FilesInv, KeptInv, SnapshotInv, OrderInv,
         NEW t \in Requests, RequestBegins(t) \/ RequestStep(t), ~CloseTwice(t)
  PROVE  OrderInv'
<1> USE DEF Base, TypeOK, TypeRequests, TypeHistory
<1>0. \A q \in Requests : q # t => pc'[q] = pc[q] /\ on'[q] = on[q] /\ snapshot'[q] = snapshot[q]
  BY OthersStay
<1>1. CASE RequestBegins(t)
  <2>1. /\ UNCHANGED <<server, catalog, file, saved, created, overtaken, reordered, snapshot>>
        /\ deleting \subseteq deleting' /\ pc'[t] \notin Saving
    BY <1>1, BeginsFootprint, DeletingGrows DEF Saving
  <2> QED BY <1>0, <2>1 DEF OrderInv, Kept, Up
<1>2. CASE RequestStep(t) /\ ~SaveStep(t)
  <2>1. /\ UNCHANGED <<server, file, saved, created, deleting, overtaken, reordered, snapshot>>
        /\ pc'[t] \notin Saving
    BY <1>2, NotSaving
  <2>2. \A u \in Kept : u \in catalog => u \in catalog'
    BY <1>2, Preserved DEF Kept, FilesInv, CreatorInv
  <2> QED BY <1>0, <2>1, <2>2 DEF OrderInv, Kept, Up
<1>3. CASE TakeSnapshot(t)
  <2>1. /\ UNCHANGED <<server, catalog, file, saved, created, deleting, overtaken, reordered>>
        /\ snapshot'[t] = catalog
    BY <1>3 DEF TakeSnapshot, memVars, diskVars, historyVars
  <2>2. Up
    BY <1>3, BusyUp DEF TakeSnapshot
  <2> QED BY <1>0, <2>1, <2>2 DEF OrderInv, Kept, Up
<1>4. CASE TruncateFile(t)
  <2>1. /\ UNCHANGED <<server, catalog, snapshot, created, deleting, overtaken, reordered>>
        /\ file' = "empty" /\ pc[t] \in Saving
    BY <1>4 DEF TruncateFile, historyVars, Saving
  <2> QED BY <1>0, <2>1 DEF OrderInv, Kept, Up
<1>5. CASE FillFile(t)
  <2>1. /\ UNCHANGED <<server, catalog, deleting>>
        /\ saved' = snapshot[t] /\ pc[t] = "fill" /\ pc'[t] = "idle"
        /\ created' = IF on[t] \in deleting THEN created ELSE created \cup {on[t]}
        /\ reordered' = (reordered \/ t \in overtaken)
        /\ overtaken' = (overtaken \cup older[t]) \ {t}
    BY <1>5 DEF FillFile, Return, Goto
  <2> SUFFICES ASSUME ~reordered' PROVE OrderInv'
    BY DEF OrderInv
  <2>2. ~reordered /\ t \notin overtaken
    BY <2>1
  <2>3. Kept' = Kept \cup ({on[t]} \ deleting)
    BY <2>1 DEF Kept
  <2>4. Kept' \subseteq saved'
    BY <2>1, <2>2, <2>3 DEF OrderInv, SnapshotInv, Saving
  <2>5. Kept' \subseteq catalog'
    BY <2>1, <2>2, <2>3, BusyUp DEF OrderInv, KeptInv
  <2>6. ASSUME NEW q \in Requests, pc'[q] \in Saving, q \notin overtaken'
        PROVE  Kept' \subseteq snapshot'[q]
    <3>1. /\ q # t /\ pc[q] \in Saving /\ q \notin overtaken /\ q \notin older[t]
          /\ snapshot'[q] = snapshot[q]
      BY <1>0, <2>1, <2>6 DEF Saving
    <3> QED BY <2>1, <2>2, <2>3, <3>1 DEF OrderInv, SnapshotInv, Saving
  <2> QED BY <2>4, <2>5, <2>6 DEF OrderInv
<1> QED BY <1>1, <1>2, <1>3, <1>4, <1>5 DEF SaveStep

\* The catalog file exists before the first request.
LEMMA FirstStep ==
  ASSUME Base, FirstInv, NEW t \in Requests, RequestBegins(t) \/ RequestStep(t), ~CloseTwice(t)
  PROVE  FirstInv'
<1> USE DEF Base, TypeOK
<1>1. Up
  BY BusyUp DEF RequestBegins, CreateBegin, DeleteBegin, IteratorBegin, IteratorClose, ListFiltered,
      Call, RequestStep, CreateStep, CreateDirectory, Register, InitWriter, SaveMeta, OpenWriter,
      StartStream, SaveStep, TakeSnapshot, TruncateFile, FillFile, DeleteStep, CloseTest, CloseStop,
      CloseWait, RemoveDirectory, Unregister, Unmap, IteratorStep, IteratorTest, IteratorAdd
<1>2. server' = server
  BY OthersStay
<1>3. file' \in {file, "empty", "saved"}
  <2>1. CASE RequestBegins(t)
    BY <2>1, BeginsFootprint
  <2>2. CASE RequestStep(t) /\ ~SaveStep(t)
    BY <2>2, NotSaving
  <2>3. CASE SaveStep(t)
    BY <2>3 DEF SaveStep, TakeSnapshot, TruncateFile, FillFile, diskVars
  <2> QED BY <2>1, <2>2, <2>3
<1> QED BY <1>1, <1>2, <1>3 DEF FirstInv, Up

LEMMA EndsCatalog ==
  ASSUME CatalogInv, ProcessEnds, UNCHANGED <<diskVars, historyVars>>, server # "down"
  PROVE  CatalogInv'
<1> USE DEF CatalogInv, ProcessEnds, NoRequests, diskVars, historyVars
<1>1. KeptInv' /\ SnapshotInv'
  BY DEF KeptInv, Kept, SnapshotInv, Saving
<1>2. FirstInv'
  BY DEF FirstInv
<1>3. OrderInv'
  BY DEF OrderInv, Kept, Saving, Up
<1> QED BY <1>1, <1>2, <1>3

LEMMA CatalogStep ==
  ASSUME Base, FilesInv, CatalogInv, [Next]_vars
  PROVE  CatalogInv'
<1>1. ASSUME NEW t \in Requests, RequestBegins(t) \/ RequestStep(t), ~CloseTwice(t)
      PROVE  CatalogInv'
  BY <1>1, KeptStep, SnapshotStep, FirstStep, OrderStep DEF CatalogInv
<1>2. ASSUME NEW t \in Requests, CloseTwice(t)
      PROVE  CatalogInv'
  BY <1>2, EndsCatalog, BusyUp DEF CloseTwice, Up, Base
<1>3. CASE Stop \/ Crash
  BY <1>3, EndsCatalog DEF Stop, Crash, Up
<1>4. CASE StartInit \/ CreateEmptyCatalogFile \/ LoadFails \/ LoadStreams
  <2>1. UNCHANGED <<pc, on, meta, created, deleting, snapshot, older, reordered, overtaken>>
    BY <1>4 DEF StartInit, CreateEmptyCatalogFile, LoadFails, LoadStreams, requestVars, diskVars,
                historyVars
  <2>2. ~Up /\ \A t \in Requests : pc[t] = "idle"
    BY <1>4 DEF StartInit, CreateEmptyCatalogFile, LoadFails, LoadStreams, Up, Base, DownInv
  <2>3. KeptInv' /\ SnapshotInv'
    BY <2>1, <2>2 DEF CatalogInv, KeptInv, Kept, SnapshotInv, Saving
  <2>4. FirstInv'
    BY <1>4, <2>1 DEF CatalogInv, FirstInv, StartInit, CreateEmptyCatalogFile, LoadFails, LoadStreams,
                diskVars
  <2>5. OrderInv'
    <3>1. CASE LoadStreams
      <4>1. catalog' = saved /\ file = "saved" /\ UNCHANGED <<file, saved>>
        BY <3>1 DEF LoadStreams, CanLoad, Memory, diskVars
      <4> QED BY <2>1, <2>2, <4>1 DEF CatalogInv, OrderInv, Kept, Saving
    <3>2. CASE CreateEmptyCatalogFile
      <4>1. created = {} /\ server' = "loading"
        BY <3>2 DEF CreateEmptyCatalogFile, CatalogInv, FirstInv
      <4> QED BY <2>1, <2>2, <4>1 DEF OrderInv, Kept, Saving, Up
    <3>3. CASE StartInit \/ LoadFails
      <4>1. file' \in {file, "empty"} /\ saved' = saved /\ server' # "up"
        BY <3>3 DEF StartInit, LoadFails, diskVars
      <4> QED BY <2>1, <2>2, <4>1 DEF CatalogInv, OrderInv, Kept, Saving, Up
    <3> QED BY <1>4, <3>1, <3>2, <3>3
  <2> QED BY <2>3, <2>4, <2>5 DEF CatalogInv
<1>5. CASE UNCHANGED vars
  BY <1>5 DEF vars, memVars, requestVars, diskVars, historyVars, CatalogInv, KeptInv, SnapshotInv,
              FirstInv, OrderInv, Kept, Up
<1> QED BY <1>1, <1>2, <1>3, <1>4, <1>5 DEF Next

LEMMA CatalogCorrect == Spec => []CatalogInv
<1>1. Init => CatalogInv
  BY DEF Init, CatalogInv, KeptInv, SnapshotInv, FirstInv, OrderInv, Kept, Saving, Up
<1> QED BY <1>1, CatalogStep, ServiceTypes, FilesCorrect, PTL DEF Spec

(* A stream whose creation was acknowledged, and that nobody deletes, is   *)
(* in the catalog file with its directory and its stream.json: the list a  *)
(* request saves has the streams of every list saved before it, as long as *)
(* SaveStreamCatalog never writes an older list over a later one.  The     *)
(* mutex released between the list and the write is what that condition    *)
(* is about.                                                               *)
THEOREM AcknowledgedIsSaved == Spec => []CreatedIsCatalogued
<1>1. Base /\ FilesInv /\ CatalogInv => CreatedIsCatalogued
  BY DEF Base, TypeOK, TypeHistory, FilesInv, MetaInv, CatalogInv, KeptInv, OrderInv, Kept,
         CreatedIsCatalogued
<1> QED BY <1>1, ServiceTypes, FilesCorrect, CatalogCorrect, PTL

-----------------------------------------------------------------------------
(* The start after an orderly shutdown.                                    *)

\* What a step without failure does to the stream.json of a stream.
LEMMA Repair ==
  ASSUME Base, FilesInv, NEW t \in Requests, RequestStep(t), ~CloseTwice(t), ~SaveStep(t),
         faults' = 0, NEW u \in Streams
  PROVE  /\ meta[u] = "saved" => meta'[u] = "saved" \/ At(u, Repairing)'
         /\ At(u, Repairing) => \/ meta'[u] = "saved" \/ At(u, Repairing)'
                                \/ u \notin catalog' /\ At(u, {"unmap", "snapshot"})'
         /\ At(u, {"unmap", "snapshot"}) => At(u, {"unmap", "snapshot"})'
         /\ At(u, Saving) => At(u, Saving)'
         /\ u \in catalog' \ catalog => At(u, Repairing)'
<1> USE DEF Base, TypeOK, TypeRequests, TypeMemory, TypeDisk, TypeBounds, Goto, Fail, Return
<1>0. \A q \in Requests : q # t => pc'[q] = pc[q] /\ on'[q] = on[q]
  BY OthersStay
<1>1. \A places : At(u, places) /\ (on[t] # u \/ pc[t] \notin places) => At(u, places)'
  BY <1>0, AtOthers
<1>2. \A places : on'[t] = u /\ pc'[t] \in places => At(u, places)'
  BY DEF At
<1>3. pc[t] \notin Saving
  BY NotSaving DEF Saving
<1>4. faults' # faults + 1
  OBVIOUS
<1>5. CASE on[t] # u
  BY <1>1, <1>5, Footprint
<1>6. CASE on[t] = u
  <2> USE <1>1, <1>2, <1>3, <1>4, <1>6
  <2>1. CASE Register(t)
    <3>1. pc[t] = "register" /\ pc'[t] = "initwriter" /\ on'[t] = u /\ UNCHANGED meta
      BY <2>1 DEF Register, diskVars
    <3> QED BY <3>1 DEF Repairing
  <2>2. CASE InitWriter(t)
    <3>1. pc[t] = "initwriter" /\ pc'[t] = "savemeta" /\ on'[t] = u /\ UNCHANGED catalog
      BY <2>2 DEF InitWriter, memVars
    <3> QED BY <3>1 DEF Repairing
  <2>3. CASE SaveMeta(t)
    <3>1. pc[t] = "savemeta" /\ meta'[u] = "saved" /\ UNCHANGED catalog
      BY <2>3 DEF SaveMeta, memVars
    <3> QED BY <3>1
  <2>4. CASE RemoveDirectory(t)
    <3>1. pc[t] = "remove" /\ pc'[t] = "unregister" /\ on'[t] = u /\ UNCHANGED catalog
      BY <2>4 DEF RemoveDirectory, memVars
    <3> QED BY <3>1 DEF Repairing
  <2>5. CASE Unregister(t)
    <3>1. /\ pc[t] = "unregister" /\ pc'[t] = "unmap" /\ on'[t] = u /\ u \notin catalog'
          /\ UNCHANGED meta
      BY <2>5 DEF Unregister, Unregistered, diskVars
    <3> QED BY <3>1
  <2>6. CASE Unmap(t)
    <3>1. /\ pc[t] = "unmap" /\ pc'[t] = "snapshot" /\ on'[t] = u /\ UNCHANGED <<meta, catalog>>
      BY <2>6 DEF Unmap, diskVars
    <3> QED BY <3>1 DEF Repairing
  <2>7. CASE ~(Register(t) \/ InitWriter(t) \/ SaveMeta(t) \/ RemoveDirectory(t) \/ Unregister(t)
              \/ Unmap(t))
    <3>1. UNCHANGED <<meta, catalog>> /\ pc[t] \notin Repairing \cup {"unmap", "snapshot"}
      BY <2>7 DEF RequestStep, CreateStep, CreateDirectory, OpenWriter, StartStream, DeleteStep,
        CloseTest, CloseStop, CloseWait, IteratorStep, IteratorTest, IteratorAdd, memVars, diskVars,
        Repairing
    <3> QED BY <3>1
  <2> QED BY <2>1, <2>2, <2>3, <2>4, <2>5, <2>6, <2>7
<1> QED BY <1>5, <1>6

LEMMA LoadsNotSaving ==
  ASSUME Base, FilesInv, NEW t \in Requests, RequestStep(t), ~CloseTwice(t), ~SaveStep(t),
         faults' = 0, CatalogLoads, SnapshotsLoad, SavedLoads, FileLoads
  PROVE  CatalogLoads' /\ SnapshotsLoad' /\ SavedLoads' /\ FileLoads'
<1> USE DEF Base, TypeOK, TypeRequests, TypeMemory, TypeDisk
<1>0. \A q \in Requests : q # t => pc'[q] = pc[q] /\ on'[q] = on[q]
  BY OthersStay
<1>1. /\ UNCHANGED <<server, file, saved, snapshot, older, overtaken>>
      /\ pc[t] \notin Saving /\ pc'[t] \notin Saving
  BY NotSaving DEF Saving
<1>2. catalog' \subseteq Streams
  BY CreateBase, DeleteBase, IteratorBase DEF RequestStep
<1>3. CatalogLoads'
  BY <1>2, Repair DEF CatalogLoads
<1>4. SavedLoads'
  BY <1>1, Repair DEF SavedLoads
<1>5. ASSUME NEW q \in Requests, pc'[q] \in Saving, q \notin overtaken', NEW u \in snapshot'[q]
      PROVE  meta'[u] = "saved" \/ Ahead(u, q)'
  <2>1. q # t /\ pc[q] \in Saving /\ q \notin overtaken /\ u \in snapshot[q] /\ u \in Streams
    BY <1>0, <1>1, <1>5
  <2>2. meta[u] = "saved" \/ Ahead(u, q)
    BY <2>1 DEF SnapshotsLoad
  <2>3. CASE \E r \in Requests : on[r] = u /\ pc[r] \in Saving /\ q \in older[r]
    <3>1. \E r \in Requests : on'[r] = u /\ pc'[r] \in Saving /\ q \in older'[r]
      BY <1>0, <1>1, <2>3
    <3> QED BY <3>1 DEF Ahead
  <2>4. CASE meta[u] = "saved" \/ At(u, Repairing) \/ At(u, {"unmap", "snapshot"})
    BY <2>1, <2>4, Repair DEF Ahead
  <2> QED BY <2>2, <2>3, <2>4 DEF Ahead
<1>6. FileLoads'
  BY <1>0, <1>1 DEF FileLoads, Up, Saving
<1> QED BY <1>3, <1>4, <1>5, <1>6 DEF SnapshotsLoad

LEMMA LoadsTake ==
  ASSUME Base, NEW t \in Requests, TakeSnapshot(t), CatalogLoads, SnapshotsLoad, SavedLoads, FileLoads
  PROVE  CatalogLoads' /\ SnapshotsLoad' /\ SavedLoads' /\ FileLoads'
<1> USE DEF Base, TypeOK, TypeRequests
<1>0. \A q \in Requests : q # t => pc'[q] = pc[q] /\ on'[q] = on[q] /\ snapshot'[q] = snapshot[q]
  BY DEF TakeSnapshot, Goto
<1>1. /\ UNCHANGED <<server, catalog, file, saved, meta, on, overtaken>>
      /\ pc[t] = "snapshot" /\ pc'[t] = "write" /\ snapshot'[t] = catalog
      /\ older'[t] = {r \in Requests : pc[r] \in Saving}
      /\ \A q \in Requests : q # t => older'[q] = older[q] \ {t}
  BY DEF TakeSnapshot, Goto, memVars, diskVars, historyVars, Saving
<1>2. \A u : At(u, Repairing) => At(u, Repairing)'
  BY <1>0, <1>1 DEF At, Repairing
<1>3. \A u : At(u, {"unmap", "snapshot"}) => At(u, {"unmap", "snapshot"})' \/ u = on[t]
  BY <1>0, <1>1 DEF At
<1>4. \A u : At(u, Saving) => At(u, Saving)'
  BY <1>0, <1>1 DEF At, Saving
<1>5. \A u : u = on[t] => At(u, Saving)'
  BY <1>1 DEF At, Saving
<1>6. CatalogLoads'
  BY <1>1, <1>2 DEF CatalogLoads
<1>7. SavedLoads'
  BY <1>1, <1>2, <1>3, <1>4, <1>5 DEF SavedLoads
<1>8. ASSUME NEW q \in Requests, pc'[q] \in Saving, q \notin overtaken', NEW u \in snapshot'[q]
      PROVE  meta'[u] = "saved" \/ Ahead(u, q)'
  <2>1. CASE q = t
    BY <1>1, <1>2, <1>8, <2>1 DEF CatalogLoads, Ahead
  <2>2. CASE q # t
    <3>1. pc[q] \in Saving /\ q \notin overtaken /\ u \in snapshot[q]
      BY <1>0, <1>1, <1>8, <2>2
    <3>2. meta[u] = "saved" \/ Ahead(u, q)
      BY <3>1 DEF SnapshotsLoad
    <3>3. CASE \E r \in Requests : on[r] = u /\ pc[r] \in Saving /\ q \in older[r]
      <4>1. \E r \in Requests : on'[r] = u /\ pc'[r] \in Saving /\ q \in older'[r]
        BY <1>0, <1>1, <2>2, <3>3 DEF Saving
      <4> QED BY <4>1 DEF Ahead
    <3>4. CASE u = on[t]
      <4>1. \E r \in Requests : on'[r] = u /\ pc'[r] \in Saving /\ q \in older'[r]
        BY <1>1, <3>1, <3>4 DEF Saving
      <4> QED BY <4>1 DEF Ahead
    <3>5. CASE meta[u] = "saved" \/ At(u, Repairing) \/ At(u, {"unmap", "snapshot"})
      BY <1>1, <1>2, <1>3, <3>4, <3>5 DEF Ahead
    <3> QED BY <3>2, <3>3, <3>5 DEF Ahead
  <2> QED BY <2>1, <2>2
<1>9. FileLoads'
  BY <1>0, <1>1 DEF FileLoads, Up
<1> QED BY <1>6, <1>7, <1>8, <1>9 DEF SnapshotsLoad

LEMMA LoadsTruncate ==
  ASSUME Base, NEW t \in Requests, TruncateFile(t), CatalogLoads, SnapshotsLoad, SavedLoads, FileLoads
  PROVE  CatalogLoads' /\ SnapshotsLoad' /\ SavedLoads' /\ FileLoads'
<1> USE DEF Base, TypeOK, TypeRequests
<1>0. \A q \in Requests : q # t => pc'[q] = pc[q]
  BY DEF TruncateFile, Goto
<1>1. /\ UNCHANGED <<server, catalog, meta, on, snapshot, older, overtaken>>
      /\ pc[t] = "write" /\ pc'[t] = "fill" /\ saved' = {}
  BY DEF TruncateFile, Goto
<1>2. \A q \in Requests : pc'[q] \in Saving <=> pc[q] \in Saving
  BY <1>0, <1>1 DEF Saving
<1>3. \A u : At(u, Repairing) => At(u, Repairing)'
  BY <1>0, <1>1 DEF At, Repairing
<1>4. \A u : At(u, {"unmap", "snapshot"}) => At(u, {"unmap", "snapshot"})'
  BY <1>0, <1>1 DEF At
<1>5. CatalogLoads' /\ SavedLoads'
  BY <1>1, <1>3 DEF CatalogLoads, SavedLoads
<1>6. \A u, q : Ahead(u, q) => Ahead(u, q)'
  BY <1>1, <1>2, <1>3, <1>4 DEF Ahead
<1>7. SnapshotsLoad'
  BY <1>1, <1>2, <1>6 DEF SnapshotsLoad
<1>8. FileLoads'
  BY <1>1, BusyUp DEF FileLoads, Up
<1> QED BY <1>5, <1>7, <1>8

\* The request that fills the file is not overtaken, and whoever took a later snapshot is not over.
LEMMA LoadsFill ==
  ASSUME Base, SnapshotInv, NEW t \in Requests, FillFile(t), ~reordered',
         CatalogLoads, SnapshotsLoad, SavedLoads, FileLoads
  PROVE  CatalogLoads' /\ SnapshotsLoad' /\ SavedLoads' /\ FileLoads'
<1> USE DEF Base, TypeOK, TypeRequests
<1>0. \A q \in Requests : q # t =>
        pc'[q] = pc[q] /\ on'[q] = on[q] /\ snapshot'[q] = snapshot[q] /\ older'[q] = older[q] \ {t}
  BY DEF FillFile, Return, Goto
<1>1. /\ UNCHANGED <<server, catalog, meta>> /\ file' = "saved" /\ saved' = snapshot[t]
      /\ pc[t] = "fill" /\ pc'[t] = "idle" /\ t \notin overtaken
      /\ overtaken' = (overtaken \cup older[t]) \ {t}
  BY DEF FillFile, Return, Goto
<1>2. \A u : At(u, Repairing) => At(u, Repairing)'
  BY <1>0, <1>1 DEF At, Repairing
<1>3. \A u : At(u, {"unmap", "snapshot"}) => At(u, {"unmap", "snapshot"})'
  BY <1>0, <1>1 DEF At
<1>4. CatalogLoads'
  BY <1>1, <1>2 DEF CatalogLoads
<1>5. ASSUME NEW u \in snapshot[t]
      PROVE  \/ meta'[u] = "saved" \/ At(u, Repairing)' \/ At(u, {"unmap", "snapshot"})'
             \/ At(u, Saving)'
  <2>1. meta[u] = "saved" \/ Ahead(u, t)
    BY <1>1 DEF SnapshotsLoad, Saving
  <2>2. CASE \E r \in Requests : on[r] = u /\ pc[r] \in Saving /\ t \in older[r]
    <3> PICK r \in Requests : on[r] = u /\ pc[r] \in Saving /\ t \in older[r]
      BY <2>2
    <3>1. r # t
      BY DEF SnapshotInv
    <3>2. At(u, Saving)'
      BY <1>0, <3>1 DEF At
    <3> QED BY <3>2
  <2> QED BY <1>1, <1>2, <1>3, <2>1, <2>2 DEF Ahead
<1>6. SavedLoads'
  BY <1>1, <1>5 DEF SavedLoads
<1>7. ASSUME NEW q \in Requests, pc'[q] \in Saving, q \notin overtaken', NEW u \in snapshot'[q]
      PROVE  meta'[u] = "saved" \/ Ahead(u, q)'
  <2>1. q # t /\ pc[q] \in Saving /\ q \notin overtaken /\ q \notin older[t] /\ u \in snapshot[q]
    BY <1>0, <1>1, <1>7 DEF Saving
  <2>2. meta[u] = "saved" \/ Ahead(u, q)
    BY <2>1 DEF SnapshotsLoad
  <2>3. CASE \E r \in Requests : on[r] = u /\ pc[r] \in Saving /\ q \in older[r]
    <3>1. \E r \in Requests : on'[r] = u /\ pc'[r] \in Saving /\ q \in older'[r]
      BY <1>0, <2>1, <2>3
    <3> QED BY <3>1 DEF Ahead
  <2> QED BY <1>1, <1>2, <1>3, <2>2, <2>3 DEF Ahead
<1>8. FileLoads'
  BY <1>1, BusyUp DEF FileLoads, Up
<1> QED BY <1>4, <1>6, <1>7, <1>8 DEF SnapshotsLoad

\* Trouble is never forgotten.
LEMMA TroubleStays ==
  ASSUME Base, [Next]_vars, ~Trouble'
  PROVE  ~Trouble
<1> USE DEF Base, TypeOK, TypeBounds, TypeHistory, Trouble
<1>1. faults = 0
  BY FaultsGrow
<1>2. ASSUME NEW t \in Requests, RequestBegins(t) PROVE ~Trouble
  <2>1. UNCHANGED <<crashes, reordered>>
    BY <1>2 DEF RequestBegins, CreateBegin, DeleteBegin, IteratorBegin, IteratorClose, ListFiltered,
                historyVars
  <2> QED BY <1>1, <2>1
<1>3. ASSUME NEW t \in Requests, RequestStep(t), ~CloseTwice(t) PROVE ~Trouble
  <2>1. UNCHANGED crashes
    BY <1>3, OthersStay
  <2>2. reordered' = reordered \/ FillFile(t)
    BY <1>3, NotSaving DEF SaveStep, TakeSnapshot, TruncateFile, historyVars
  <2> QED BY <1>1, <2>1, <2>2 DEF FillFile
<1>4. ASSUME NEW t \in Requests, CloseTwice(t) PROVE ~Trouble
  BY <1>4 DEF CloseTwice
<1>5. ASSUME StartInit \/ CreateEmptyCatalogFile \/ LoadStreams \/ LoadFails \/ Stop \/ Crash
      PROVE  ~Trouble
  BY <1>1, <1>5 DEF StartInit, CreateEmptyCatalogFile, LoadStreams, LoadFails, Stop, Crash, boundVars,
                    historyVars
<1>6. ASSUME UNCHANGED vars PROVE ~Trouble
  BY <1>6 DEF vars, boundVars, historyVars
<1> QED BY <1>2, <1>3, <1>4, <1>5, <1>6 DEF Next

LEMMA LoadStep ==
  ASSUME Base, FilesInv, CatalogInv, LoadInv, [Next]_vars
  PROVE  LoadInv'
<1> SUFFICES ASSUME ~Trouble'
             PROVE  CatalogLoads' /\ SnapshotsLoad' /\ SavedLoads' /\ FileLoads'
  BY DEF LoadInv
<1> USE DEF Base, TypeOK
<1>0. CatalogLoads /\ SnapshotsLoad /\ SavedLoads /\ FileLoads
  BY TroubleStays DEF LoadInv
<1>1. ASSUME NEW t \in Requests, RequestBegins(t), ~CloseTwice(t)
      PROVE  CatalogLoads' /\ SnapshotsLoad' /\ SavedLoads' /\ FileLoads'
  <2>1. /\ UNCHANGED <<server, catalog, meta, saved, file, snapshot, older, overtaken>>
        /\ pc[t] = "idle" /\ pc'[t] \in {"idle", "mkdir", "close", "testiterator", "blocked"}
    BY <1>1, BeginsFootprint, DeletingGrows
  <2>2. \A q \in Requests : q # t => pc'[q] = pc[q] /\ on'[q] = on[q]
    BY <1>1, OthersStay
  <2>3. \A u, places : At(u, places) /\ "idle" \notin places => At(u, places)'
    BY <2>1, <2>2 DEF At
  <2>4. \A u, q : Ahead(u, q) => Ahead(u, q)'
    BY <2>1, <2>2, <2>3 DEF Ahead, Repairing, Saving
  <2>5. CatalogLoads' /\ SavedLoads'
    BY <1>0, <2>1, <2>3 DEF CatalogLoads, SavedLoads, Repairing, Saving
  <2>6. SnapshotsLoad'
    BY <1>0, <2>1, <2>2, <2>4 DEF SnapshotsLoad, Saving
  <2>7. FileLoads'
    BY <1>0, <2>1, <2>2 DEF FileLoads, Up
  <2> QED BY <2>5, <2>6, <2>7
<1>2. ASSUME NEW t \in Requests, RequestStep(t), ~CloseTwice(t)
      PROVE  CatalogLoads' /\ SnapshotsLoad' /\ SavedLoads' /\ FileLoads'
  BY <1>0, <1>2, LoadsNotSaving, LoadsTake, LoadsTruncate, LoadsFill DEF SaveStep, Trouble, CatalogInv
<1>3. ASSUME NEW t \in Requests, CloseTwice(t) PROVE FALSE
  BY <1>3 DEF CloseTwice, Trouble, TypeBounds
<1>4. ~Crash
  BY DEF Crash, Trouble, TypeBounds
<1>5. CASE Stop
  <2>1. /\ \A t \in Requests : pc[t] = "idle" /\ pc'[t] = "idle"
        /\ Up /\ server' = "down" /\ catalog' = {} /\ UNCHANGED <<meta, file, saved>>
    BY <1>5 DEF Stop, ProcessEnds, Memory, NoRequests, diskVars
  <2>2. \A u \in saved : meta[u] = "saved"
    BY <1>0, <2>1 DEF SavedLoads, At, Repairing, Saving
  <2>3. file = "saved"
    BY <1>0, <2>1 DEF FileLoads
  <2> QED BY <2>1, <2>2, <2>3 DEF CatalogLoads, SnapshotsLoad, SavedLoads, FileLoads, Up, Saving
<1>6. CASE StartInit \/ CreateEmptyCatalogFile \/ LoadFails \/ LoadStreams
  <2>1. /\ ~Up /\ catalog = {} /\ \A t \in Requests : pc[t] = "idle"
        /\ UNCHANGED <<pc, meta>>
    BY <1>6 DEF StartInit, CreateEmptyCatalogFile, LoadFails, LoadStreams, Up, DownInv, requestVars,
                diskVars
  <2>2. \A u \in saved : meta[u] = "saved"
    BY <1>0, <2>1 DEF SavedLoads, At, Repairing, Saving
  <2>3. SnapshotsLoad'
    BY <2>1 DEF SnapshotsLoad, Saving
  <2>4. CASE StartInit
    <3>1. /\ server = "down" /\ catalog' = catalog /\ saved' = saved
          /\ \/ file = "none" /\ server' = "creating"
             \/ file # "none" /\ server' = "loading" /\ file' = file
      BY <2>4 DEF StartInit
    <3> QED BY <1>0, <2>1, <2>2, <2>3, <3>1 DEF CatalogLoads, SavedLoads, FileLoads, Up
  <2>5. CASE CreateEmptyCatalogFile
    BY <2>1, <2>3, <2>5 DEF CreateEmptyCatalogFile, CatalogLoads, SavedLoads, FileLoads, Up
  <2>6. ~LoadFails
    BY <1>0, <2>2 DEF LoadFails, CanLoad, FileLoads
  <2>7. CASE LoadStreams
    <3>1. /\ catalog' = saved /\ server' = "up" /\ file' = "saved" /\ saved' = saved
      BY <2>7 DEF LoadStreams, CanLoad, Memory, diskVars
    <3> QED BY <2>1, <2>2, <2>3, <3>1 DEF CatalogLoads, SavedLoads, FileLoads, Up
  <2> QED BY <1>6, <2>4, <2>5, <2>6, <2>7
<1>7. CASE UNCHANGED vars
  BY <1>0, <1>7 DEF vars, memVars, requestVars, diskVars, CatalogLoads, SnapshotsLoad, SavedLoads,
                    FileLoads, Ahead, At, Up
<1>8. ASSUME NEW t \in Requests, RequestBegins(t) PROVE ~CloseTwice(t)
  BY <1>8, BeginsFootprint DEF CloseTwice
<1> QED BY <1>1, <1>2, <1>3, <1>4, <1>5, <1>6, <1>7, <1>8 DEF Next

LEMMA LoadCorrect == Spec => []LoadInv
<1>1. Init => LoadInv
  BY DEF Init, LoadInv, CatalogLoads, SnapshotsLoad, SavedLoads, FileLoads, Up, Saving
<1> QED BY <1>1, LoadStep, ServiceTypes, FilesCorrect, CatalogCorrect, PTL DEF Spec

(* Without crash, failed call and lists saved out of order, a start after  *)
(* an orderly shutdown always loads the catalog file.  A list that names a *)
(* stream before its stream.json is written, or after it is removed, is    *)
(* followed by the list of the request that creates or deletes the stream, *)
(* and the shutdown waits for that request.                                *)
THEOREM ShutdownIsReloadable == Spec => []OrderlyStopCanStart
<1>1. LoadInv => OrderlyStopCanStart
  BY DEF LoadInv, Trouble, FileLoads, OrderlyStopCanStart
<1> QED BY <1>1, LoadCorrect, PTL

-----------------------------------------------------------------------------
(* The limits.                                                             *)

LEMMA RequestsFinite ==
  /\ IsFiniteSet(Requests) /\ Cardinality(Requests) \in Nat \ {0}
  /\ MaxAllowedStreams \in Nat /\ MaxIteratorsPerStream \in Nat
  /\ \A S \in SUBSET Requests : /\ IsFiniteSet(S) /\ Cardinality(S) \in Nat
                               /\ Cardinality(S) <= Cardinality(Requests)
  BY ServiceAssumption, FS_EmptySet, FS_Subset, FS_CardinalityType

\* One more request that was not there leaves the others fewer than all the requests.
LEMMA AddRequest ==
  ASSUME NEW S \in SUBSET Requests, NEW t \in Requests, t \notin S
  PROVE  /\ Cardinality(S \cup {t}) = Cardinality(S) + 1
         /\ Cardinality(S \cup {t}) <= Cardinality(Requests)
<1>1. S \cup {t} \in SUBSET Requests /\ IsFiniteSet(S)
  BY RequestsFinite
<1> QED BY <1>1, RequestsFinite, FS_AddElement

LEMMA RemoveRequest ==
  ASSUME NEW S \in SUBSET Requests, NEW t \in S
  PROVE  Cardinality(S \ {t}) = Cardinality(S) - 1
  BY RequestsFinite, FS_RemoveElement

LEMMA FewerRequests ==
  ASSUME NEW S \in SUBSET Requests, NEW T \in SUBSET S
  PROVE  Cardinality(T) <= Cardinality(S)
  BY RequestsFinite, FS_Subset

LEMMA IteratorsShrink ==
  ASSUME Base, NEW u \in Streams, IteratorsOK(u), iterators'[u] \in Nat, iterators'[u] <= iterators[u],
         PendingOn(u)' \subseteq PendingOn(u)
  PROVE  IteratorsOK(u)'
<1> DEFINE S == PendingOn(u) 
           T == PendingOn(u)'
<1>1. S \in SUBSET Requests /\ T \in SUBSET S
  BY DEF PendingOn
<1>2. Cardinality(T) <= Cardinality(S) /\ Cardinality(S) \in Nat /\ Cardinality(T) \in Nat
  BY <1>1, FewerRequests, RequestsFinite
<1>3. iterators[u] \in Nat
  BY DEF Base, TypeOK, TypeMemory
<1>4. iterators[u] + Cardinality(S) <= MaxIteratorsPerStream + Cardinality(Requests)
  BY DEF IteratorsOK
<1> HIDE DEF S, T
<1>5. iterators'[u] + Cardinality(T) <= MaxIteratorsPerStream + Cardinality(Requests)
  BY <1>2, <1>3, <1>4, RequestsFinite
<1> QED BY <1>5 DEF IteratorsOK, T

LEMMA IteratorsStep ==
  ASSUME Base, Base', NEW t \in Requests, RequestBegins(t) \/ RequestStep(t), ~CloseTwice(t),
         MaxIteratorsPerStream > 0, NEW u \in Streams, IteratorsOK(u)
  PROVE  IteratorsOK(u)'
<1> USE DEF Base, TypeOK, TypeRequests, TypeMemory
<1>0. \A q \in Requests : q # t => pc'[q] = pc[q] /\ on'[q] = on[q]
  BY OthersStay
<1>1. iterators[u] \in Nat /\ iterators'[u] \in Nat
  OBVIOUS
<1>2. CASE \E v \in Streams : IteratorBegin(t, v)
  <2> PICK v \in Streams : IteratorBegin(t, v)
    BY <1>2
  <2>1. /\ UNCHANGED iterators /\ ~IteratorsLimitReached(v) /\ pc[t] = "idle"
        /\ pc'[t] = "testiterator" /\ on'[t] = v
    BY DEF IteratorBegin, Call, Goto, memVars
  <2>2. CASE u # v
    BY <1>0, <1>1, <2>1, <2>2, IteratorsShrink DEF PendingOn
  <2>3. CASE u = v
    <3> DEFINE S == PendingOn(u)
    <3>1. S \in SUBSET Requests /\ t \notin S /\ PendingOn(u)' = S \cup {t}
      BY <1>0, <2>1, <2>3 DEF PendingOn, IteratorPlaces
    <3> HIDE DEF S
    <3>2. Cardinality(S \cup {t}) <= Cardinality(Requests) /\ Cardinality(S \cup {t}) \in Nat
      BY <3>1, AddRequest, RequestsFinite
    <3>3. iterators[u] <= MaxIteratorsPerStream
      BY <1>1, <2>1, <2>3, RequestsFinite DEF IteratorsLimitReached
    <3>4. iterators[u] + Cardinality(S \cup {t}) <= MaxIteratorsPerStream + Cardinality(Requests)
      BY <1>1, <3>2, <3>3, RequestsFinite
    <3> QED BY <2>1, <3>1, <3>4 DEF IteratorsOK
  <2> QED BY <2>2, <2>3
<1>3. CASE \E v \in Streams : IteratorClose(t, v)
  <2>1. UNCHANGED <<pc, on>> /\ iterators'[u] <= iterators[u]
    BY <1>1, <1>3 DEF IteratorClose, requestVars
  <2> QED BY <1>1, <2>1, IteratorsShrink DEF PendingOn
<1>4. CASE IteratorAdd(t)
  <2>1. /\ pc[t] = "additerator" /\ pc'[t] = "idle"
        /\ iterators' = [iterators EXCEPT ![on[t]] = @ + 1]
    BY <1>4 DEF IteratorAdd, Return, Fail, Goto
  <2>2. CASE u # on[t]
    <3>1. iterators'[u] = iterators[u] /\ PendingOn(u)' \subseteq PendingOn(u)
      BY <1>0, <2>1, <2>2 DEF PendingOn, IteratorPlaces
    <3> QED BY <1>1, <3>1, IteratorsShrink
  <2>3. CASE u = on[t]
    <3> DEFINE S == PendingOn(u)
    <3>1. S \in SUBSET Requests /\ t \in S /\ PendingOn(u)' = S \ {t}
      BY <1>0, <2>1, <2>3 DEF PendingOn, IteratorPlaces
    <3>2. iterators[u] + Cardinality(S) <= MaxIteratorsPerStream + Cardinality(Requests)
      BY DEF IteratorsOK
    <3> HIDE DEF S
    <3>3. Cardinality(S \ {t}) = Cardinality(S) - 1 /\ Cardinality(S) \in Nat
      BY <3>1, RemoveRequest, RequestsFinite
    <3>4. iterators'[u] = iterators[u] + 1
      BY <2>1, <2>3
    <3>5. iterators'[u] + Cardinality(S \ {t}) <= MaxIteratorsPerStream + Cardinality(Requests)
      BY <1>1, <3>2, <3>3, <3>4, RequestsFinite
    <3> QED BY <3>1, <3>5 DEF IteratorsOK
  <2> QED BY <2>2, <2>3
<1>5. CASE RequestStep(t) /\ ~IteratorAdd(t)
  <2>1. iterators'[u] <= iterators[u]
    <3>1. CASE CloseWait(t)
      <4>1. iterators'[u] \in {iterators[u], 0}
        BY <3>1 DEF CloseWait
      <4> QED BY <1>1, <4>1
    <3>2. CASE ~CloseWait(t)
      <4>1. UNCHANGED iterators
        BY <1>5, <3>2 DEF RequestStep, CreateStep, CreateDirectory, Register, InitWriter, SaveMeta,
          OpenWriter, StartStream, SaveStep, TakeSnapshot, TruncateFile, FillFile, DeleteStep,
          CloseTest, CloseStop, RemoveDirectory, Unregister, Unmap, IteratorStep, IteratorTest, memVars
      <4> QED BY <1>1, <4>1
    <3> QED BY <3>1, <3>2
  <2>2. pc'[t] \in IteratorPlaces => pc[t] \in IteratorPlaces /\ on'[t] = on[t]
    BY <1>5 DEF RequestStep, CreateStep, CreateDirectory, Register, InitWriter, SaveMeta,
      OpenWriter, StartStream, SaveStep, TakeSnapshot, TruncateFile, FillFile, DeleteStep, CloseTest,
      CloseStop, CloseWait, RemoveDirectory, Unregister, Unmap, IteratorStep, IteratorTest, Goto,
      Return, Fail, IteratorPlaces
  <2>3. PendingOn(u)' \subseteq PendingOn(u)
    BY <1>0, <2>2 DEF PendingOn
  <2> QED BY <1>1, <2>1, <2>3, IteratorsShrink
<1>6. CASE CreateBegin(t) \/ ListFiltered(t) \/ \E v \in Streams : DeleteBegin(t, v)
  <2>1. UNCHANGED iterators /\ pc'[t] \in {"mkdir", "blocked", "close"}
    BY <1>6 DEF CreateBegin, ListFiltered, DeleteBegin, Call, Goto, memVars
  <2>2. PendingOn(u)' \subseteq PendingOn(u)
    BY <1>0, <2>1 DEF PendingOn, IteratorPlaces
  <2> QED BY <1>1, <2>1, <2>2, IteratorsShrink
<1> QED BY <1>2, <1>3, <1>4, <1>5, <1>6 DEF RequestBegins

LEMMA IteratorsIdle ==
  ASSUME NEW u \in Streams, \A t \in Requests : pc[t] = "idle", iterators[u] = 0
  PROVE  IteratorsOK(u)
<1>1. PendingOn(u) = {}
  BY DEF PendingOn, IteratorPlaces
<1> QED BY <1>1, FS_EmptySet, RequestsFinite DEF IteratorsOK

LEMMA IteratorsCorrect == Spec => []IteratorsLimitInv
<1>1. Init => IteratorsLimitInv
  BY IteratorsIdle DEF Init, IteratorsLimitInv
<1>2. Base /\ Base' /\ IteratorsLimitInv /\ [Next]_vars => IteratorsLimitInv'
  <2> SUFFICES ASSUME Base, Base', IteratorsLimitInv, [Next]_vars, MaxIteratorsPerStream > 0,
                      NEW u \in Streams
               PROVE  IteratorsOK(u)'
    BY DEF IteratorsLimitInv
  <2>0. IteratorsOK(u)
    BY DEF IteratorsLimitInv
  <2>1. ASSUME NEW t \in Requests, RequestBegins(t) \/ RequestStep(t), ~CloseTwice(t)
        PROVE  IteratorsOK(u)'
    BY <2>0, <2>1, IteratorsStep
  <2>2. CASE ProcessEnds \/ LoadStreams
    <3>1. (\A t \in Requests : pc'[t] = "idle") /\ iterators'[u] = 0
      BY <2>2 DEF ProcessEnds, LoadStreams, NoRequests, Memory, Base, DownInv, Up, requestVars
    <3>2. PendingOn(u)' = {}
      BY <3>1 DEF PendingOn, IteratorPlaces
    <3> QED BY <3>1, <3>2, FS_EmptySet, RequestsFinite DEF IteratorsOK
  <2>3. CASE UNCHANGED vars \/ StartInit \/ CreateEmptyCatalogFile \/ LoadFails
    <3>1. UNCHANGED <<pc, on, iterators>>
      BY <2>3 DEF vars, memVars, requestVars, StartInit, CreateEmptyCatalogFile, LoadFails
    <3> QED BY <2>0, <3>1 DEF IteratorsOK, PendingOn
  <2> QED BY <2>1, <2>2, <2>3 DEF Next, CloseTwice, Stop, Crash
<1> QED BY <1>1, <1>2, ServiceTypes, PTL DEF Spec

LEMMA StreamsFinite ==
  ASSUME NEW S \in SUBSET Streams
  PROVE  IsFiniteSet(S) /\ Cardinality(S) \in Nat
  BY ServiceAssumption, FS_Subset, FS_CardinalityType

LEMMA PendingFinite ==
  /\ Pending \in SUBSET Requests /\ IsFiniteSet(Pending) /\ Cardinality(Pending) \in Nat
  /\ Pending' \in SUBSET Requests /\ IsFiniteSet(Pending') /\ Cardinality(Pending') \in Nat
  BY RequestsFinite DEF Pending

LEMMA LimitPositive ==
  ASSUME MaxAllowedStreams > 0
  PROVE  StreamsLimit \in Nat /\ 0 < StreamsLimit /\ Cardinality({}) = 0
  BY RequestsFinite, FS_EmptySet DEF StreamsLimit

\* The catalog is no longer than the limit either: a start that loads it finds no more streams.
LEMMA CatalogBounded ==
  ASSUME Base, MapInv, MaxAllowedStreams > 0
  PROVE  Cardinality(catalog) < StreamsLimit
<1> DEFINE P == {on[t] : t \in Pending}
           f == [t \in Pending |-> on[t]]
<1>1. f \in Surjection(Pending, P)
  BY DEF Surjection
<1>2. IsFiniteSet(P) /\ Cardinality(P) <= Cardinality(Pending) /\ Cardinality(P) \in Nat
  BY <1>1, PendingFinite, FS_Surjection, FS_CardinalityType
<1>3. IsFiniteSet(map) /\ Cardinality(map) \in Nat
  BY StreamsFinite DEF Base, TypeOK, TypeMemory
<1>4. catalog \in SUBSET (map \cup P)
  BY DEF MapInv
<1> HIDE DEF P, f
<1>5. /\ IsFiniteSet(map \cup P)
      /\ Cardinality(map \cup P) = Cardinality(map) + Cardinality(P) - Cardinality(map \cap P)
  BY <1>2, <1>3, FS_Union
<1>6. Cardinality(map \cap P) \in Nat
  BY <1>3, FS_Subset, FS_CardinalityType
<1>7. Cardinality(catalog) <= Cardinality(map \cup P) /\ Cardinality(catalog) \in Nat
  BY <1>4, <1>5, FS_Subset, FS_CardinalityType
<1>8. Cardinality(map) + Cardinality(Pending) < StreamsLimit
  BY DEF MapInv
<1> QED BY <1>2, <1>3, <1>5, <1>6, <1>7, <1>8, PendingFinite, LimitPositive

LEMMA ListsStep ==
  ASSUME Base, MapInv, ListsInv, MaxAllowedStreams > 0,
         NEW t \in Requests, RequestBegins(t) \/ RequestStep(t), ~CloseTwice(t)
  PROVE  ListsInv'
<1> USE DEF Base, TypeOK, TypeRequests
<1>1. CASE RequestBegins(t) \/ (RequestStep(t) /\ ~SaveStep(t))
  <2>1. UNCHANGED <<saved, snapshot>>
    BY <1>1, BeginsFootprint, NotSaving
  <2> QED BY <2>1 DEF ListsInv, StreamsLimit
<1>2. CASE TakeSnapshot(t)
  <2>1. snapshot' = [snapshot EXCEPT ![t] = catalog] /\ UNCHANGED saved
    BY <1>2 DEF TakeSnapshot, diskVars
  <2> QED BY <2>1, CatalogBounded DEF ListsInv, StreamsLimit
<1>3. CASE TruncateFile(t)
  <2>1. UNCHANGED snapshot /\ saved' = {}
    BY <1>3 DEF TruncateFile
  <2> QED BY <2>1, LimitPositive DEF ListsInv, StreamsLimit
<1>4. CASE FillFile(t)
  <2>1. snapshot' = [snapshot EXCEPT ![t] = {}] /\ saved' = snapshot[t]
    BY <1>4 DEF FillFile
  <2> QED BY <2>1, LimitPositive DEF ListsInv, StreamsLimit
<1> QED BY <1>1, <1>2, <1>3, <1>4 DEF SaveStep

\* A step that leaves the map and the requests in progress as they are.
LEMMA MapSame ==
  ASSUME MapInv, UNCHANGED map, Pending' = Pending, \A t \in Pending : on'[t] = on[t],
         catalog' \subseteq catalog \cup {on[t] : t \in Pending}
  PROVE  MapInv'
<1>1. {on'[t] : t \in Pending'} = {on[t] : t \in Pending}
  OBVIOUS
<1> QED BY <1>1 DEF MapInv, StreamsLimit

LEMMA MapStep ==
  ASSUME Base, AgreeInv, MapInv, MaxAllowedStreams > 0, faults' = 0,
         NEW t \in Requests, RequestBegins(t) \/ RequestStep(t), ~CloseTwice(t)
  PROVE  MapInv'
<1> USE DEF Base, TypeOK, TypeRequests, TypeMemory, TypeBounds
<1>0. \A q \in Requests : q # t => pc'[q] = pc[q] /\ on'[q] = on[q]
  BY OthersStay
<1>1. IsFiniteSet(map) /\ Cardinality(map) \in Nat
  BY StreamsFinite
<1>2. CASE CreateBegin(t)
  <2>1. /\ UNCHANGED <<map, catalog>> /\ ~StreamsLimitReached
        /\ pc[t] = "idle" /\ pc'[t] = "mkdir"
    BY <1>2 DEF CreateBegin, Call, Goto, memVars
  <2>2. t \notin Pending /\ Pending' = Pending \cup {t} /\ \A q \in Pending : on'[q] = on[q]
    BY <1>0, <2>1 DEF Pending, Creating
  <2>3. Cardinality(Pending') <= Cardinality(Requests)
    BY <2>2, PendingFinite, AddRequest
  <2>4. Cardinality(map) < MaxAllowedStreams
    BY <1>1, <2>1, RequestsFinite DEF StreamsLimitReached
  <2>5. Cardinality(map') + Cardinality(Pending') < StreamsLimit'
    BY <1>1, <2>1, <2>3, <2>4, RequestsFinite, PendingFinite DEF StreamsLimit
  <2>6. catalog' \subseteq map' \cup {on'[q] : q \in Pending'}
    BY <2>1, <2>2 DEF MapInv
  <2> QED BY <2>5, <2>6 DEF MapInv
<1>3. CASE RequestBegins(t) /\ ~CreateBegin(t)
  <2>1. /\ UNCHANGED <<map, catalog>> /\ pc[t] = "idle"
        /\ pc'[t] \in {"idle", "close", "testiterator", "blocked"}
    BY <1>3 DEF RequestBegins, DeleteBegin, IteratorBegin, IteratorClose, ListFiltered, Call, Goto,
                requestVars, memVars
  <2>2. Pending' = Pending /\ \A q \in Pending : on'[q] = on[q]
    BY <1>0, <2>1 DEF Pending, Creating
  <2> QED BY <2>1, <2>2, MapSame
<1>4. CASE OpenWriter(t)
  <2>1. /\ map' = map \cup {on[t]} /\ UNCHANGED catalog
        /\ pc[t] = "openwriter" /\ pc'[t] = "start"
    BY <1>4 DEF OpenWriter, Fail, Goto
  <2>2. t \in Pending /\ Pending' = Pending \ {t} /\ \A q \in Pending' : on'[q] = on[q]
    BY <1>0, <2>1 DEF Pending, Creating
  <2>3. Cardinality(Pending') = Cardinality(Pending) - 1
    BY <2>2, PendingFinite, RemoveRequest
  <2>4. Cardinality(map') \in {Cardinality(map), Cardinality(map) + 1}
    BY <1>1, <2>1, FS_AddElement
  <2>5. Cardinality(map') + Cardinality(Pending') < StreamsLimit'
    BY <1>1, <2>3, <2>4, PendingFinite, LimitPositive DEF MapInv, StreamsLimit
  <2>6. catalog' \subseteq map' \cup {on'[q] : q \in Pending'}
    BY <2>1, <2>2 DEF MapInv
  <2> QED BY <2>5, <2>6 DEF MapInv
<1>5. CASE Unmap(t)
  <2>1. /\ map' = map \ {on[t]} /\ UNCHANGED <<catalog, on>> /\ on[t] \notin catalog
        /\ pc[t] = "unmap" /\ pc'[t] = "snapshot"
    BY <1>5 DEF Unmap, Goto, AgreeInv
  <2>2. Pending' = Pending
    BY <1>0, <2>1 DEF Pending, Creating
  <2>3. Cardinality(map') <= Cardinality(map) /\ Cardinality(map') \in Nat
    BY <1>1, <2>1, FS_Subset, FS_CardinalityType
  <2>4. Cardinality(map') + Cardinality(Pending') < StreamsLimit'
    BY <1>1, <2>2, <2>3, PendingFinite, LimitPositive DEF MapInv, StreamsLimit
  <2>5. catalog' \subseteq map' \cup {on'[q] : q \in Pending'}
    BY <2>1, <2>2 DEF MapInv
  <2> QED BY <2>4, <2>5 DEF MapInv
<1>6. CASE RequestStep(t) /\ ~OpenWriter(t) /\ ~Unmap(t)
  <2>1. faults' # faults + 1
    OBVIOUS
  <2>2. /\ UNCHANGED map
        /\ pc[t] \in Creating \ {"start"} =>
             /\ pc'[t] \in Creating \ {"start"} /\ on'[t] = on[t]
             /\ catalog' \subseteq catalog \cup {on[t]}
        /\ pc[t] \notin Creating \ {"start"} =>
             pc'[t] \notin Creating \ {"start"} /\ catalog' \subseteq catalog
    BY <1>6, <2>1 DEF RequestStep, CreateStep, CreateDirectory, Register, InitWriter, SaveMeta,
      StartStream, SaveStep, TakeSnapshot, TruncateFile, FillFile, DeleteStep, CloseTest,
      CloseStop, CloseWait, RemoveDirectory, Unregister, Unregistered, IteratorStep, IteratorTest,
      IteratorAdd, Goto, Return, Fail, memVars, Creating
  <2>3. Pending' = Pending /\ \A q \in Pending : on'[q] = on[q]
    BY <1>0, <2>2 DEF Pending
  <2>4. catalog' \subseteq catalog \cup {on[q] : q \in Pending}
    BY <2>2 DEF Pending
  <2> QED BY <2>2, <2>3, <2>4, MapSame
<1> QED BY <1>2, <1>3, <1>4, <1>5, <1>6

LEMMA StreamsLimitStep ==
  ASSUME Base, AgreeInv, StreamsLimitInv, [Next]_vars
  PROVE  StreamsLimitInv'
<1> SUFFICES ASSUME MaxAllowedStreams > 0, faults' = 0 PROVE MapInv' /\ ListsInv'
  BY DEF StreamsLimitInv
<1> USE DEF Base, TypeOK
<1>0. MapInv /\ ListsInv
  BY FaultsGrow DEF StreamsLimitInv
<1>1. ASSUME NEW t \in Requests, RequestBegins(t) \/ RequestStep(t), ~CloseTwice(t)
      PROVE  MapInv' /\ ListsInv'
  BY <1>0, <1>1, MapStep, ListsStep
<1>2. CASE ProcessEnds /\ UNCHANGED diskVars
  <2>1. /\ map' = {} /\ catalog' = {} /\ saved' = saved
        /\ \A t \in Requests : pc'[t] = "idle" /\ snapshot'[t] = {}
    BY <1>2 DEF ProcessEnds, Memory, NoRequests, diskVars
  <2>2. Pending' = {}
    BY <2>1 DEF Pending, Creating
  <2> QED BY <1>0, <2>1, <2>2, LimitPositive DEF MapInv, ListsInv, StreamsLimit
<1>3. CASE LoadStreams
  <2>1. /\ map' = saved /\ catalog' = saved /\ UNCHANGED <<saved, snapshot>>
        /\ \A t \in Requests : pc'[t] = "idle"
    BY <1>3 DEF LoadStreams, Memory, diskVars, requestVars, DownInv, Up
  <2>2. Pending' = {}
    BY <2>1 DEF Pending, Creating
  <2>3. Cardinality(saved) \in Nat
    BY StreamsFinite DEF TypeDisk
  <2> QED BY <1>0, <2>1, <2>2, <2>3, LimitPositive DEF MapInv, ListsInv, StreamsLimit
<1>4. CASE UNCHANGED vars \/ StartInit \/ CreateEmptyCatalogFile \/ LoadFails
  <2>1. UNCHANGED <<map, catalog, pc, on, snapshot>> /\ saved' \in {saved, {}}
    BY <1>4 DEF vars, memVars, requestVars, diskVars, StartInit, CreateEmptyCatalogFile, LoadFails
  <2> QED BY <1>0, <2>1, LimitPositive DEF MapInv, ListsInv, StreamsLimit, Pending
<1> QED BY <1>1, <1>2, <1>3, <1>4 DEF Next, CloseTwice, Stop, Crash

LEMMA StreamsLimitCorrect == Spec => []StreamsLimitInv
<1>1. Init => StreamsLimitInv
  <2> SUFFICES ASSUME Init, MaxAllowedStreams > 0 PROVE MapInv /\ ListsInv
    BY DEF StreamsLimitInv
  <2>1. Pending = {}
    BY DEF Init, Pending, Creating
  <2> QED BY <2>1, LimitPositive DEF Init, MapInv, ListsInv
<1> QED BY <1>1, StreamsLimitStep, ServiceTypes, AgreeCorrect, PTL DEF Spec

(* maxAllowedStreams and maxIteratorsPerStream, tested by a request before *)
(* it adds its stream or its iterator, are exceeded by no more than the    *)
(* requests in progress, over any number of restarts: a request that       *)
(* passed the test and has not added yet is counted with those that are    *)
(* there, and so are the lists of streams that a start may load.           *)
THEOREM LimitsAreKept == Spec => []LimitsKept
<1>1. Base /\ StreamsLimitInv /\ IteratorsLimitInv => LimitsKept
  <2> SUFFICES ASSUME Base, StreamsLimitInv, IteratorsLimitInv PROVE LimitsKept
    OBVIOUS
  <2>1. ASSUME MaxAllowedStreams > 0, faults = 0
        PROVE  Cardinality(map) < MaxAllowedStreams + Cardinality(Requests)
    <3>1. Cardinality(map) \in Nat
      BY StreamsFinite DEF Base, TypeOK, TypeMemory
    <3> QED BY <2>1, <3>1, PendingFinite, RequestsFinite DEF StreamsLimitInv, MapInv, StreamsLimit
  <2>2. ASSUME MaxIteratorsPerStream > 0, NEW u \in Streams
        PROVE  iterators[u] <= MaxIteratorsPerStream + Cardinality(Requests)
    <3>1. iterators[u] \in Nat
      BY DEF Base, TypeOK, TypeMemory
    <3>2. Cardinality(PendingOn(u)) \in Nat
      BY RequestsFinite DEF PendingOn
    <3> QED BY <2>2, <3>1, <3>2, RequestsFinite DEF IteratorsLimitInv, IteratorsOK
  <2> QED BY <2>1, <2>2 DEF LimitsKept
<1> QED BY <1>1, ServiceTypes, StreamsLimitCorrect, IteratorsCorrect, PTL
=============================================================================
