------------------------ MODULE MySQLProviderProofs ------------------------
(* Theorems about MySQLProvider, for every value of its constants.         *)
EXTENDS MySQLProvider, TLAPS

(***************************************************************************)
(* Type correctness                                                        *)
(***************************************************************************)

LEMMA InfoType ==
  ASSUME NEW i \in Info
  PROVE  i.cpt \in Nat /\ i.first \in Nat /\ i.last \in Nat
  BY DEF Info

\* Facts about sequences of identifiers.
LEMMA SeqFacts ==
  ASSUME NEW s \in Seq(Nat), NEW t \in Seq(Nat), NEW x \in Nat
  PROVE  /\ Len(s) \in Nat
         /\ s = <<>> <=> Len(s) = 0
         /\ \A i \in 1..Len(s) : s[i] \in Nat
         /\ Append(s, x) \in Seq(Nat) /\ Len(Append(s, x)) = Len(s) + 1
         /\ \A i \in 1..Len(s) : Append(s, x)[i] = s[i]
         /\ Append(s, x)[Len(s) + 1] = x
         /\ s \o t \in Seq(Nat) /\ Len(s \o t) = Len(s) + Len(t)
         /\ \A i \in 1..Len(s) : (s \o t)[i] = s[i]
         /\ \A i \in 1..Len(t) : (s \o t)[Len(s) + i] = t[i]
  OBVIOUS

\* A call in progress is about a stream, and a Save about records.
CallInv ==
  /\ cpc # "idle" => on \in Streams
  /\ \A u \in Streams : wpc[u] # "idle" => buffer[u] # <<>>

TypeInv == TypeOK /\ CallInv

\* What a step leaves alone keeps its type.
LEMMA KeepTypes ==
  /\ TypeDatabase /\ UNCHANGED databaseVars => TypeDatabase'
  /\ TypeStreams /\ UNCHANGED streamVars => TypeStreams'
  /\ TypeWriters /\ UNCHANGED writerVars => TypeWriters'
  /\ TypeCalls /\ UNCHANGED callVars => TypeCalls'
  /\ TypeBounds /\ UNCHANGED boundVars => TypeBounds'
  /\ TypeHistory /\ UNCHANGED historyVars => TypeHistory'
<1>1. TypeDatabase /\ UNCHANGED databaseVars => TypeDatabase'
  BY DEF TypeDatabase, databaseVars
<1>2. TypeStreams /\ UNCHANGED streamVars => TypeStreams'
  BY DEF TypeStreams, streamVars
<1>3. TypeWriters /\ UNCHANGED writerVars => TypeWriters'
  BY DEF TypeWriters, writerVars
<1>4. TypeCalls /\ UNCHANGED callVars => TypeCalls'
  BY DEF TypeCalls, callVars
<1>5. TypeBounds /\ UNCHANGED boundVars => TypeBounds'
  BY DEF TypeBounds, boundVars
<1>6. TypeHistory /\ UNCHANGED historyVars => TypeHistory'
  BY DEF TypeHistory, historyVars
<1> QED BY <1>1, <1>2, <1>3, <1>4, <1>5, <1>6

\* At most one fault more.
LEMMA FaultTypes ==
  ASSUME TypeBounds, UNCHANGED <<messages, ends>>, UNCHANGED faults \/ Fault
  PROVE  TypeBounds'
  BY DEF TypeBounds, Fault

LEMMA TypeInit == Init => TypeInv
<1> SUFFICES ASSUME Init PROVE TypeInv
  OBVIOUS
<1> USE DEF Init
<1>1. NoMessages \in Info /\ <<>> \in Seq(Nat)
  BY DEF NoMessages, Info
<1>2. TypeDatabase
  BY <1>1 DEF TypeDatabase
<1>3. TypeStreams
  BY <1>1 DEF TypeStreams
<1>4. TypeWriters /\ TypeCalls /\ TypeBounds /\ TypeHistory
  BY DEF TypeWriters, TypeCalls, TypeBounds, TypeHistory
<1> QED BY <1>2, <1>3, <1>4 DEF TypeInv, TypeOK, CallInv

\* The memory of a process that has just started.
LEMMA TypeEmptyMemory ==
  ASSUME EmptyMemory
  PROVE  TypeStreams' /\ TypeWriters' /\ TypeCalls' /\ CallInv'
<1>1. NoMessages \in Info /\ <<>> \in Seq(Nat)
  BY DEF NoMessages, Info
<1>2. TypeStreams'
  BY <1>1 DEF EmptyMemory, TypeStreams
<1> QED BY <1>2 DEF EmptyMemory, TypeWriters, TypeCalls, CallInv

LEMMA TypeEnd ==
  ASSUME TypeInv, EmptyMemory, server' = "down",
         StartFails \/ DropTable \/ StopEnds \/ Crash \/ \E u \in Streams : DeleteRow(u)
  PROVE  TypeInv'
<1> USE DEF ProcessEnds
<1>1. TypeDatabase'
  <2>1. [u \in Streams |-> {}] \in [Streams -> SUBSET Nat]
    OBVIOUS
  <2>2. locked' = locked \/ locked' = [u \in Streams |-> {}]
    BY DEF StartFails, DropTable, StopEnds, Crash, DeleteRow
  <2>3. rows' \subseteq rows /\ UNCHANGED <<database, cache, tables, stored>>
    BY DEF StartFails, DropTable, StopEnds, Crash, DeleteRow
  <2> QED BY <2>1, <2>2, <2>3 DEF TypeInv, TypeOK, TypeDatabase
<1>2. TypeBounds' /\ TypeHistory'
  BY DEF StartFails, DropTable, StopEnds, Crash, DeleteRow, Fault, boundVars, historyVars,
     TypeInv, TypeOK, TypeBounds, TypeHistory
<1> QED BY <1>1, <1>2, TypeEmptyMemory DEF TypeInv, TypeOK

LEMMA TypeStart ==
  ASSUME TypeInv, StartStep
  PROVE  TypeInv'
<1> USE KeepTypes DEF TypeInv, TypeOK
<1>0. UNCHANGED <<wpc, buffer, cpc, on>> => CallInv'
  BY DEF CallInv
<1>1. CASE StartServer
  BY <1>0, <1>1 DEF StartServer, streamVars, writerVars, callVars
<1>2. CASE EnsureSchemaExists
  <2>1. TypeDatabase'
    BY <1>2 DEF EnsureSchemaExists, TypeDatabase
  <2> QED BY <1>0, <1>2, <2>1 DEF EnsureSchemaExists, streamVars, writerVars, callVars
<1>3. CASE EnsureCatalogExists
  <2>1. TypeDatabase'
    BY <1>3 DEF EnsureCatalogExists, CatalogKept, TypeDatabase
  <2> QED BY <1>0, <1>3, <2>1 DEF EnsureCatalogExists, streamVars, writerVars, callVars
<1>4. CASE LoadStreams
  <2>1. PICK loaded \in SUBSET rows :
          /\ (loaded = rows /\ UNCHANGED faults) \/ (loaded # rows /\ Fault)
          /\ catalog' = loaded
          /\ phase' = [u \in Streams |-> IF u \in loaded THEN "running" ELSE "none"]
          /\ ingested' = [u \in Streams |-> LoadedInfo(u, loaded)]
          /\ readable' = [u \in Streams |-> LoadedInfo(u, loaded)]
    BY <1>4 DEF LoadStreams
  <2>2. \A u \in Streams : LoadedInfo(u, loaded) \in Info
    BY DEF LoadedInfo, NoMessages, Info, TypeDatabase
  <2>3. ingested' \in [Streams -> Info] /\ readable' \in [Streams -> Info]
    BY <2>1, <2>2
  <2>4. /\ catalog' \subseteq Streams
        /\ phase' \in [Streams -> {"none", "new", "running", "closing", "final"}]
    BY <2>1 DEF TypeDatabase
  <2>5. TypeStreams'
    BY <1>4, <2>3, <2>4 DEF LoadStreams, TypeStreams
  <2>6. TypeBounds'
    BY <1>4, <2>1, FaultTypes DEF LoadStreams
  <2> QED BY <1>0, <1>4, <2>5, <2>6 DEF LoadStreams, writerVars, callVars
<1> QED BY <1>1, <1>2, <1>3, <1>4 DEF StartStep

LEMMA TypeCreate ==
  ASSUME TypeInv, CreateStream \/ CreateStep
  PROVE  TypeInv'
<1> USE KeepTypes DEF TypeInv, TypeOK
<1>0. /\ cpc = "begin" \/ cpc = "insert" \/ cpc = "table" \/ cpc = "commit" => on \in Streams
      /\ UNCHANGED writerVars /\ buffer' = buffer /\ (cpc' # "idle" => on' \in Streams) => CallInv'
  BY DEF CallInv, writerVars
<1>1. CASE CreateStream
  <2>1. GenerateNewStreamUuid \in Streams
    BY <1>1 DEF CreateStream, GenerateNewStreamUuid, TypeHistory
  <2>2. TypeCalls' /\ TypeHistory'
    BY <1>1, <2>1 DEF CreateStream, TypeCalls, TypeHistory
  <2> QED BY <1>0, <1>1, <2>1, <2>2 DEF CreateStream, streamVars
<1>2. CASE CreateBegin \/ CreateInsert
  <2>1. TypeCalls' /\ (cpc' # "idle" => on' \in Streams)
    BY <1>0, <1>2 DEF CreateBegin, CreateInsert, CallReturns, TypeCalls
  <2>2. TypeBounds'
    BY <1>2, FaultTypes DEF CreateBegin, CreateInsert
  <2> QED BY <1>0, <1>2, <2>1, <2>2 DEF CreateBegin, CreateInsert, streamVars
<1>3. CASE CreateTable
  <2>0. on \in Streams /\ NoMessages \in Info
    BY <1>0, <1>3 DEF CreateTable, NoMessages, Info
  <2>1. TypeCalls' /\ (cpc' # "idle" => on' \in Streams)
    BY <1>3, <2>0 DEF CreateTable, CallReturns, TypeCalls
  <2>2. TypeBounds'
    BY <1>3, FaultTypes DEF CreateTable
  <2>3. RowCommitted => rows' \subseteq Streams /\ cache' \in [Streams -> Info]
    BY <2>0 DEF RowCommitted, TypeDatabase
  <2>4. TableCreated => tables' \subseteq Streams \X {"_"}
    <3>1. <<on, "_">> \in Streams \X {"_"}
      BY <2>0
    <3> QED BY <3>1 DEF TableCreated, GetSQLStreamTable, TypeDatabase
  <2>5. TypeDatabase'
    BY <1>3, <2>3, <2>4 DEF CreateTable, TypeDatabase
  <2> QED BY <1>0, <1>3, <2>1, <2>2, <2>5 DEF CreateTable, streamVars
<1>4. CASE CreateCommit
  <2>0. on \in Streams
    BY <1>0, <1>4 DEF CreateCommit
  <2>1. TypeCalls' /\ (cpc' # "idle" => on' \in Streams)
    BY <1>4 DEF CreateCommit, CallReturns, TypeCalls
  <2>2. TypeBounds'
    BY <1>4, FaultTypes DEF CreateCommit
  <2>3. TypeStreams'
    BY <1>4, <2>0 DEF CreateCommit, TypeStreams
  <2> QED BY <1>0, <1>4, <2>1, <2>2, <2>3 DEF CreateCommit
<1> QED BY <1>1, <1>2, <1>3, <1>4 DEF CreateStep

\* What Save and its callers change.
SaveTypes ==
  /\ wpc \in [Streams -> {"idle", "begin", "insert", "meta", "commit", "announce"}]
  /\ inserted \in [Streams -> Nat]
  /\ buffer \in [Streams -> Seq(Nat)]
  /\ unsaved \subseteq Streams
  /\ phase \in [Streams -> {"none", "new", "running", "closing", "final"}]
  /\ \A v \in Streams : wpc[v] # "idle" => buffer[v] # <<>>

LEMMA TypeSaveReturns ==
  ASSUME SaveTypes, NEW u \in Streams, NEW ok \in BOOLEAN, SaveReturns(u, ok)
  PROVE  SaveTypes'
<1>1. buffer' \in [Streams -> Seq(Nat)] /\ wpc'[u] = "idle"
      /\ \A v \in Streams \ {u} : buffer'[v] = buffer[v] /\ wpc'[v] = wpc[v]
  BY DEF SaveTypes, SaveReturns, BufferAfterSave
<1> QED BY <1>1 DEF SaveTypes, SaveReturns

\* A Save goes on to its next statement.
LEMMA TypeSaveStep ==
  ASSUME SaveTypes, NEW u \in Streams, wpc[u] # "idle",
         NEW p \in {"insert", "meta", "commit", "announce"},
         wpc' = [wpc EXCEPT ![u] = p], UNCHANGED <<buffer, unsaved, phase>>,
         UNCHANGED inserted \/ inserted' = [inserted EXCEPT ![u] = @ + 1]
  PROVE  SaveTypes'
  BY DEF SaveTypes

LEMMA TypeMetaInfo ==
  ASSUME TypeInv, NEW u \in Streams, wpc[u] # "idle"
  PROVE  MetaInfo(u) \in Info /\ stored[u] \o buffer[u] \in Seq(Nat)
<1>1. /\ stored[u] \in Seq(Nat) /\ buffer[u] \in Seq(Nat) /\ buffer[u] # <<>>
      /\ ingested[u] \in Info /\ readable[u] \in Info
  BY DEF TypeInv, TypeOK, TypeDatabase, TypeStreams, CallInv
<1>2. /\ Len(buffer[u]) \in Nat /\ Last(buffer[u]) \in Nat
      /\ ingested[u].first \in Nat /\ readable[u].cpt \in Nat
  BY <1>1, InfoType, SeqFacts DEF Last
<1>3. readable[u].cpt + Len(buffer[u]) \in Nat
  BY <1>2
<1> QED BY <1>1, <1>2, <1>3 DEF MetaInfo, Info

LEMMA TypeWrite ==
  ASSUME TypeInv, NEW u \in Streams, WriteStep(u)
  PROVE  TypeInv'
<1>0. SaveTypes
  BY DEF SaveTypes, TypeInv, TypeOK, TypeStreams, TypeWriters, CallInv
<1>1. SaveTypes' /\ wpc[u] # "idle"
  <2>1. SaveReturns(u, TRUE) \/ SaveReturns(u, FALSE) => SaveTypes'
    BY <1>0, TypeSaveReturns
  <2>2. wpc[u] # "idle"
    BY DEF WriteStep, Begin, Insert, SaveMetaInfo, Commit, Announce
  <2>3. CASE Begin(u)
    BY <1>0, <2>1, <2>2, <2>3, TypeSaveStep DEF Begin
  <2>4. CASE Insert(u)
    BY <1>0, <2>1, <2>2, <2>4, TypeSaveStep DEF Insert
  <2>5. CASE SaveMetaInfo(u)
    BY <1>0, <2>1, <2>2, <2>5, TypeSaveStep DEF SaveMetaInfo
  <2>6. CASE Commit(u)
    BY <1>0, <2>1, <2>2, <2>6, TypeSaveStep DEF Commit
  <2>7. CASE Announce(u)
    BY <2>1, <2>7 DEF Announce
  <2> QED BY <2>2, <2>3, <2>4, <2>5, <2>6, <2>7 DEF WriteStep
<1>2. TypeCalls' /\ TypeHistory' /\ UNCHANGED <<server, cpc, on, catalog, deleting, ingested, armed>>
  <2>1. UNCHANGED <<callVars, historyVars, server, catalog, deleting, ingested, armed>>
    BY DEF WriteStep, Begin, Insert, SaveMetaInfo, Commit, Announce
  <2> QED BY <2>1, KeepTypes DEF TypeInv, TypeOK, callVars
<1>3. TypeBounds'
  <2>1. UNCHANGED <<messages, ends>> /\ (UNCHANGED faults \/ Fault)
    BY DEF WriteStep, Begin, Insert, SaveMetaInfo, Commit, Announce, boundVars
  <2> QED BY <2>1, FaultTypes DEF TypeInv, TypeOK
<1>4. leaked' \in Nat
  <2>1. leaked' = leaked \/ leaked' = leaked + 1
    BY DEF WriteStep, Begin, Insert, SaveMetaInfo, Commit, Announce
  <2> QED BY <2>1 DEF TypeInv, TypeOK, TypeWriters
<1>5. readable' \in [Streams -> Info]
  <2>1. CASE Announce(u)
    <3>1. [MetaInfo(u) EXCEPT !.first = IF readable[u].cpt = 0 THEN @ ELSE readable[u].first] \in Info
      <4>1. MetaInfo(u) \in Info /\ readable[u] \in Info
        BY <1>1, TypeMetaInfo DEF TypeInv, TypeOK, TypeStreams
      <4> QED BY <4>1 DEF Info
    <3> QED BY <2>1, <3>1 DEF Announce, TypeInv, TypeOK, TypeStreams
  <2> QED BY <2>1 DEF WriteStep, Begin, Insert, SaveMetaInfo, Commit, TypeInv, TypeOK, TypeStreams
<1>6. TypeDatabase'
  <2>1. CASE SaveMetaInfo(u)
    <3>1. buffer[u] \in Seq(Nat)
      BY DEF TypeInv, TypeOK, TypeStreams
    <3>2. {buffer[u][i] : i \in 1..Len(buffer[u])} \in SUBSET Nat
      BY <3>1
    <3>3. locked' \in [Streams -> SUBSET Nat]
      BY <2>1, <3>2 DEF SaveMetaInfo, TypeInv, TypeOK, TypeDatabase
    <3> QED BY <2>1, <3>3 DEF SaveMetaInfo, TypeInv, TypeOK, TypeDatabase
  <2>2. CASE Commit(u)
    <3>1. Committed(u) => stored' \in [Streams -> Seq(Nat)] /\ cache' \in [Streams -> Info]
      BY <1>1, TypeMetaInfo DEF Committed, TypeInv, TypeOK, TypeDatabase
    <3> QED BY <2>2, <3>1 DEF Commit, TypeInv, TypeOK, TypeDatabase
  <2> QED BY <2>1, <2>2, KeepTypes DEF WriteStep, Begin, Insert, Announce, TypeInv, TypeOK
<1> QED BY <1>1, <1>2, <1>3, <1>4, <1>5, <1>6
        DEF SaveTypes, TypeInv, TypeOK, TypeStreams, TypeWriters, CallInv

LEMMA TypeStream ==
  ASSUME TypeInv, NEW u \in Streams,
         Ingest(u) \/ FlushTimer(u) \/ FinalSave(u) \/ StartStream(u) \/ DeleteStream(u)
  PROVE  TypeInv'
<1> USE KeepTypes DEF TypeInv, TypeOK
<1>1. CASE Ingest(u)
  <2>1. ingested[u] \in Info /\ buffer[u] \in Seq(Nat)
    BY DEF TypeStreams
  <2>2. ingested[u].last \in Nat /\ ingested[u].cpt \in Nat /\ ingested[u].first \in Nat
    BY <2>1, InfoType
  <2>3. /\ Append(buffer[u], ingested[u].last + 1) \in Seq(Nat)
        /\ Append(buffer[u], ingested[u].last + 1) # <<>>
    BY <2>1, <2>2
  <2>4. ingested' \in [Streams -> Info]
    BY <1>1, <2>2, SMTT(30) DEF Ingest, TypeStreams, Info
  <2>5. TypeStreams'
    BY <1>1, <2>3, <2>4 DEF Ingest, TypeStreams
  <2>6. TypeWriters' /\ TypeBounds'
    BY <1>1 DEF Ingest, TypeWriters, TypeBounds
  <2>7. CallInv'
    BY <1>1, <2>3 DEF Ingest, TypeStreams, TypeWriters, CallInv, callVars
  <2> QED BY <1>1, <2>5, <2>6, <2>7 DEF Ingest
<1>2. CASE FlushTimer(u) \/ FinalSave(u)
  <2>1. TypeStreams' /\ TypeWriters'
    BY <1>2 DEF FlushTimer, FinalSave, CallSave, TypeStreams, TypeWriters
  <2>2. CallInv'
    BY <1>2 DEF FlushTimer, FinalSave, CallSave, TypeWriters, CallInv, callVars
  <2> QED BY <1>2, <2>1, <2>2 DEF FlushTimer, FinalSave
<1>3. CASE StartStream(u) \/ DeleteStream(u)
  <2>1. TypeStreams' /\ TypeHistory'
    BY <1>3 DEF StartStream, DeleteStream, TypeStreams, TypeHistory
  <2>2. CallInv'
    BY <1>3 DEF StartStream, DeleteStream, CallInv, callVars, writerVars
  <2> QED BY <1>3, <2>1, <2>2 DEF StartStream, DeleteStream
<1> QED BY <1>1, <1>2, <1>3

LEMMA TypeOther ==
  ASSUME TypeInv, StopServer \/ \E u \in Streams : WaitTimeout(u) \/ (DeleteRow(u) /\ ~ProcessEnds)
  PROVE  TypeInv'
<1> USE KeepTypes DEF TypeInv, TypeOK
<1>1. ASSUME NEW u \in Streams, WaitTimeout(u) PROVE TypeInv'
  <2>1. TypeDatabase'
    BY <1>1 DEF WaitTimeout, TypeDatabase
  <2> QED BY <1>1, <2>1 DEF WaitTimeout, CallInv, streamVars, writerVars, callVars
<1>2. ASSUME NEW u \in Streams, DeleteRow(u), ~ProcessEnds PROVE TypeInv'
  <2>1. TypeDatabase'
    BY <1>2 DEF DeleteRow, TypeDatabase
  <2>2. TypeStreams' /\ TypeCalls' /\ TypeBounds'
    BY <1>2 DEF DeleteRow, TypeStreams, TypeCalls, TypeBounds
  <2> QED BY <1>2, <2>1, <2>2 DEF DeleteRow, CallInv, writerVars
<1>3. CASE StopServer
  <2>1. TypeStreams' /\ TypeBounds'
    BY <1>3 DEF StopServer, TypeStreams, TypeBounds
  <2> QED BY <1>3, <2>1 DEF StopServer, CallInv, writerVars, callVars
<1> QED BY <1>1, <1>2, <1>3

\* The process ends in these steps.
LEMMA EndCases ==
  ASSUME StartFails \/ DropTable \/ StopEnds \/ Crash \/ \E u \in Streams : DeleteRow(u) /\ ProcessEnds
  PROVE  EmptyMemory /\ server' = "down"
  BY DEF StartFails, DropTable, StopEnds, Crash, ProcessEnds

LEMMA NextCases ==
  ASSUME [Next]_vars
  PROVE  \/ StartStep \/ CreateStream \/ CreateStep \/ UNCHANGED vars
         \/ StartFails \/ DropTable \/ StopEnds \/ Crash \/ StopServer
         \/ \E u \in Streams :
              \/ Ingest(u) \/ FlushTimer(u) \/ FinalSave(u) \/ StartStream(u) \/ DeleteStream(u)
              \/ WriteStep(u) \/ WaitTimeout(u) \/ (DeleteRow(u) /\ ~ProcessEnds)
              \/ (DeleteRow(u) /\ ProcessEnds)
  BY DEF Next

(* Types, and that a call in progress has its stream and a Save its        *)
(* records.                                                                *)
THEOREM TypeCorrect == Spec => []TypeInv
<1>1. TypeInv /\ [Next]_vars => TypeInv'
  <2> SUFFICES ASSUME TypeInv, [Next]_vars PROVE TypeInv'
    OBVIOUS
  <2>1. CASE UNCHANGED vars
    BY <2>1, KeepTypes DEF vars, TypeInv, TypeOK, CallInv, streamVars, writerVars, callVars
  <2>2. CASE StartFails \/ DropTable \/ StopEnds \/ Crash \/ \E u \in Streams : DeleteRow(u) /\ ProcessEnds
    BY <2>2, EndCases, TypeEnd
  <2> QED BY <2>1, <2>2, NextCases, TypeStart, TypeCreate, TypeStream, TypeWrite, TypeOther
<1> QED BY <1>1, TypeInit, PTL DEF Spec

(***************************************************************************)
(* The records, the row and the information of a stream                    *)
(***************************************************************************)

\* The information about the messages 1..n.
Upto(n) == [cpt |-> n, first |-> IF n = 0 THEN 0 ELSE 1, last |-> n]

Contiguous(s) == \A i \in 1..Len(s) : s[i] = i

\* Table s, last identifier n, buffer b, where Save is (w) and what it has inserted
\* (k): the buffer holds the last identifiers, and the table ends before the buffer
\* or, after a commit in doubt, within it; then its first INSERT fails, so that a
\* transaction past it finds the table ending where the buffer begins.
Consistent(s, n, b, w, k) ==
  LET base == n - Len(b) IN
  /\ base >= 0
  /\ \A i \in 1..Len(b) : b[i] = base + i
  /\ base <= Len(s) /\ Len(s) <= n
  /\ w \in {"idle", "begin"} => k = 0
  /\ w = "insert" => k < Len(b)
  /\ (w = "insert" /\ k > 0) \/ w \in {"meta", "commit"} => Len(s) = base
  /\ w = "announce" => Len(s) = n

\* A stream in memory, and its row.
StreamInv(u) ==
  /\ Contiguous(stored[u])
  /\ u \in rows => cache[u] = Upto(Len(stored[u]))
  /\ phase[u] = "none" => wpc[u] = "idle"
  /\ phase[u] # "none" =>
       /\ ingested[u] = Upto(ingested[u].last)
       /\ readable[u] = Upto(ingested[u].last - Len(buffer[u]))
       /\ Consistent(stored[u], ingested[u].last, buffer[u], wpc[u], inserted[u])

\* Never seen, or being created.
Fresh(u) == u \notin used \/ (on = u /\ cpc \in {"begin", "insert", "table", "commit"})

Blank(u) ==
  /\ stored[u] = <<>> /\ phase[u] = "none" /\ wpc[u] = "idle" /\ inserted[u] = 0
  /\ ingested[u] = NoMessages /\ readable[u] = NoMessages /\ buffer[u] = <<>>

\* A stream begins with nothing, and so does a process.
FreshInv ==
  /\ \A u \in Streams : Fresh(u) =>
       /\ Blank(u)
       /\ u \notin doomed
       /\ u \in rows => cpc = "commit" /\ on = u
  /\ cpc # "idle" => on \in used
  /\ deleting \subseteq doomed
  /\ server \in {"down", "schema", "catalog", "load"} =>
       /\ cpc = "idle" /\ deleting = {}
       /\ \A u \in Streams : phase[u] = "none" /\ buffer[u] = <<>> /\ inserted[u] = 0

TableInv == FreshInv /\ \A u \in Streams : StreamInv(u)

LEMMA DescribeContiguous ==
  ASSUME NEW s \in Seq(Nat), Contiguous(s)
  PROVE  Describe(s) = Upto(Len(s))
<1>1. CASE Len(s) = 0
  <2>1. s = <<>>
    BY <1>1, SeqFacts
  <2> QED BY <1>1, <2>1 DEF Describe, Upto
<1>2. CASE Len(s) # 0
  <2>1. s # <<>> /\ Len(s) \in Nat /\ 1 \in 1..Len(s) /\ Len(s) \in 1..Len(s)
    BY <1>2, SeqFacts
  <2>2. s[1] = 1 /\ s[Len(s)] = Len(s)
    BY <2>1 DEF Contiguous
  <2> QED BY <1>2, <2>1, <2>2 DEF Describe, Upto, Last
<1> QED BY <1>1, <1>2

LEMMA PrefixContiguous ==
  ASSUME NEW s \in Seq(Nat), Contiguous(s), NEW n \in Nat, n <= Len(s)
  PROVE  /\ SubSeq(s, 1, n) \in Seq(Nat) /\ Len(SubSeq(s, 1, n)) = n
         /\ Contiguous(SubSeq(s, 1, n))
<1>1. Len(s) \in Nat /\ \A i \in 1..n : i \in 1..Len(s)
  BY SeqFacts
<1>2. /\ SubSeq(s, 1, n) \in Seq(Nat) /\ Len(SubSeq(s, 1, n)) = n
      /\ \A i \in 1..n : SubSeq(s, 1, n)[i] = s[i]
  BY <1>1
<1> QED BY <1>1, <1>2 DEF Contiguous

\* The effect on Consistent of each step of a stream.
LEMMA ConsistentIngest ==
  ASSUME NEW s \in Seq(Nat), NEW n \in Nat, NEW b \in Seq(Nat), NEW k \in Nat,
         Consistent(s, n, b, "idle", k), NEW w \in {"idle", "begin"}
  PROVE  /\ Consistent(s, n + 1, Append(b, n + 1), w, k)
         /\ (n + 1) - Len(Append(b, n + 1)) = n - Len(b)
<1>1. /\ Len(s) \in Nat /\ Len(b) \in Nat /\ Len(Append(b, n + 1)) = Len(b) + 1
      /\ \A i \in 1..Len(b) : Append(b, n + 1)[i] = b[i]
      /\ Append(b, n + 1)[Len(b) + 1] = n + 1
  BY SeqFacts
<1>2. (n + 1) - Len(Append(b, n + 1)) = n - Len(b)
  BY <1>1
<1>3. ASSUME NEW i \in 1..Len(Append(b, n + 1)) PROVE Append(b, n + 1)[i] = n - Len(b) + i
  <2>1. i \in 1..Len(b) \/ i = Len(b) + 1
    BY <1>1
  <2>2. CASE i \in 1..Len(b)
    <3>1. b[i] = n - Len(b) + i
      BY <2>2 DEF Consistent
    <3> QED BY <1>1, <2>2, <3>1
  <2>3. CASE i = Len(b) + 1
    BY <1>1, <2>3
  <2> QED BY <2>1, <2>2, <2>3
<1> QED BY <1>1, <1>2, <1>3, SMTT(30) DEF Consistent

LEMMA ConsistentSave ==
  ASSUME NEW s \in Seq(Nat), NEW n \in Nat, NEW b \in Seq(Nat), NEW k \in Nat
  PROVE  /\ Consistent(s, n, b, "idle", k) => Consistent(s, n, b, "begin", k)
         /\ Consistent(s, n, b, "begin", k) /\ b # <<>> => Consistent(s, n, b, "insert", k)
         /\ Consistent(s, n, b, "meta", k) => Consistent(s, n, b, "commit", k)
         /\ \A w : Consistent(s, n, b, w, k) => Consistent(s, n, b, "idle", 0)
         /\ Consistent(s, n, b, "announce", k) => Consistent(s, n, <<>>, "idle", 0)
<1>1. Len(s) \in Nat /\ Len(b) \in Nat /\ (b # <<>> => Len(b) > 0) /\ Len(<<>>) = 0
  BY SeqFacts
<1> QED BY <1>1 DEF Consistent

LEMMA ConsistentInsert ==
  ASSUME NEW s \in Seq(Nat), NEW n \in Nat, NEW b \in Seq(Nat), NEW k \in Nat,
         Contiguous(s), Consistent(s, n, b, "insert", k),
         \A i \in 1..Len(s) : s[i] # b[k + 1]
  PROVE  Consistent(s, n, b, IF k + 1 = Len(b) THEN "meta" ELSE "insert", k + 1)
<1>0. Len(s) \in Nat /\ Len(b) \in Nat /\ k < Len(b) /\ n - Len(b) <= Len(s) /\ n - Len(b) >= 0
  BY SeqFacts DEF Consistent
<1>1. Len(s) = n - Len(b)
  <2>1. CASE k > 0
    BY <2>1 DEF Consistent
  <2>2. CASE k = 0
    <3>1. b[1] = n - Len(b) + 1
      BY <1>0, <2>2 DEF Consistent
    <3>2. n - Len(b) + 1 \notin 1..Len(s)
      <4>1. SUFFICES ASSUME n - Len(b) + 1 \in 1..Len(s) PROVE FALSE
        OBVIOUS
      <4>2. s[n - Len(b) + 1] = n - Len(b) + 1
        BY <4>1 DEF Contiguous
      <4> QED BY <2>2, <3>1, <4>1, <4>2
    <3>3. n - Len(b) + 1 \in Nat /\ n - Len(b) + 1 >= 1
      BY <1>0
    <3>4. ~(n - Len(b) + 1 <= Len(s))
      BY <1>0, <3>2, <3>3
    <3>5. \A x, y, z \in Nat : y - z <= x /\ ~(y - z + 1 <= x) => x = y - z
      OBVIOUS
    <3> QED BY <1>0, <3>4, <3>5
  <2> QED BY <2>1, <2>2
<1> QED BY <1>0, <1>1 DEF Consistent

LEMMA ConsistentCommit ==
  ASSUME NEW s \in Seq(Nat), NEW n \in Nat, NEW b \in Seq(Nat), NEW k \in Nat,
         Contiguous(s), Consistent(s, n, b, "commit", k)
  PROVE  /\ s \o b \in Seq(Nat) /\ Contiguous(s \o b) /\ Len(s \o b) = n
         /\ Consistent(s \o b, n, b, "announce", k)
<1>0. /\ Len(s) \in Nat /\ Len(b) \in Nat /\ Len(s) = n - Len(b)
      /\ s \o b \in Seq(Nat) /\ Len(s \o b) = Len(s) + Len(b)
      /\ \A i \in 1..Len(s) : (s \o b)[i] = s[i]
      /\ \A i \in 1..Len(b) : (s \o b)[Len(s) + i] = b[i]
  BY SeqFacts DEF Consistent
<1>1. Len(s \o b) = n
  BY <1>0
<1>2. ASSUME NEW i \in 1..n PROVE (s \o b)[i] = i
  <2>1. CASE i \in 1..Len(s)
    BY <1>0, <2>1 DEF Contiguous
  <2>2. CASE i \notin 1..Len(s)
    <3>1. i - Len(s) \in 1..Len(b) /\ Len(s) + (i - Len(s)) = i
      BY <1>0, <2>2
    <3>2. (s \o b)[i] = b[i - Len(s)]
      BY <1>0, <3>1
    <3>3. b[i - Len(s)] = n - Len(b) + (i - Len(s))
      BY <3>1 DEF Consistent
    <3> QED BY <1>0, <3>2, <3>3
  <2> QED BY <2>1, <2>2
<1> QED BY <1>0, <1>1, <1>2 DEF Contiguous, Consistent

\* A stream that begins, or that is loaded from its row.
LEMMA ConsistentLoad ==
  ASSUME NEW s \in Seq(Nat), NEW n \in Nat, n = Len(s)
  PROVE  Consistent(s, n, <<>>, "idle", 0)
  BY SeqFacts DEF Consistent

LEMMA UptoFacts ==
  /\ NoMessages = Upto(0)
  /\ \A n : Upto(n).last = n /\ Upto(n).cpt = n /\ Upto(n).first = (IF n = 0 THEN 0 ELSE 1)
  BY DEF NoMessages, Upto

LEMMA StreamTypes ==
  ASSUME TypeInv, NEW u \in Streams
  PROVE  /\ stored[u] \in Seq(Nat) /\ buffer[u] \in Seq(Nat) /\ inserted[u] \in Nat
         /\ ingested[u].last \in Nat /\ Len(stored[u]) \in Nat /\ Len(buffer[u]) \in Nat
<1>1. ingested[u] \in Info /\ stored[u] \in Seq(Nat) /\ buffer[u] \in Seq(Nat) /\ inserted[u] \in Nat
  BY DEF TypeInv, TypeOK, TypeDatabase, TypeStreams, TypeWriters
<1> QED BY <1>1, InfoType, SeqFacts

\* A step that does not concern stream u.
Same(u) ==
  /\ stored'[u] = stored[u] /\ ingested'[u] = ingested[u] /\ readable'[u] = readable[u]
  /\ buffer'[u] = buffer[u] /\ wpc'[u] = wpc[u] /\ inserted'[u] = inserted[u]
  /\ phase'[u] = "none" <=> phase[u] = "none"
  /\ u \in rows' => u \in rows /\ cache'[u] = cache[u]

LEMMA SameKeeps ==
  ASSUME NEW u \in Streams, StreamInv(u), Same(u)
  PROVE  StreamInv(u)'
  BY DEF StreamInv, Same

\* What the UPDATE of the row writes.
LEMMA MetaInfoUpto ==
  ASSUME TypeInv, NEW u \in Streams, StreamInv(u), wpc[u] # "idle"
  PROVE  MetaInfo(u) = Upto(ingested[u].last) /\ ingested[u].last > 0
<1> DEFINE n == ingested[u].last
           b == buffer[u]
<1>0. n \in Nat /\ b \in Seq(Nat) /\ Len(b) \in Nat /\ b # <<>> /\ Len(b) > 0
  BY StreamTypes, SeqFacts DEF TypeInv, CallInv
<1>1. /\ phase[u] # "none" /\ ingested[u] = Upto(n) /\ readable[u] = Upto(n - Len(b))
      /\ Consistent(stored[u], n, b, wpc[u], inserted[u])
  BY DEF StreamInv
<1>2. Last(b) = n /\ n > 0
  <2>1. Len(b) \in 1..Len(b) /\ n - Len(b) >= 0
    BY <1>0, <1>1 DEF Consistent
  <2>2. b[Len(b)] = n - Len(b) + Len(b)
    BY <1>1, <2>1 DEF Consistent
  <2> QED BY <1>0, <2>1, <2>2 DEF Last
<1>3. readable[u].cpt + Len(b) = n /\ ingested[u].first = 1
  <2>1. readable[u].cpt = n - Len(b)
    BY <1>1, UptoFacts
  <2>2. ingested[u].first = 1
    BY <1>0, <1>1, <1>2, UptoFacts
  <2> QED BY <1>0, <2>1, <2>2
<1> QED BY <1>0, <1>2, <1>3 DEF MetaInfo, Upto

\* A failed Save leaves the buffer and the information as they are.
LEMMA SaveFails ==
  ASSUME TypeInv, NEW u \in Streams, StreamInv(u), wpc[u] # "idle", SaveReturns(u, FALSE),
         UNCHANGED <<rows, cache, stored, ingested, readable>>
  PROVE  StreamInv(u)'
<1>1. /\ wpc'[u] = "idle" /\ inserted'[u] = 0 /\ buffer'[u] = buffer[u]
      /\ phase'[u] # "none" => phase[u] # "none"
  BY DEF SaveReturns, BufferAfterSave, TypeInv, TypeOK, TypeStreams, TypeWriters
<1>2. phase[u] # "none" => Consistent(stored[u], ingested[u].last, buffer[u], "idle", 0)
  BY StreamTypes, ConsistentSave DEF StreamInv
<1> QED BY <1>1, <1>2 DEF StreamInv

LEMMA SaveSame ==
  ASSUME TypeInv, NEW u \in Streams, NEW v \in Streams, v # u, WriteStep(u)
  PROVE  Same(v)
<1>1. wpc'[v] = wpc[v] /\ inserted'[v] = inserted[v] /\ buffer'[v] = buffer[v] /\ phase'[v] = phase[v]
  BY DEF WriteStep, Begin, Insert, SaveMetaInfo, Commit, Announce, SaveReturns,
     TypeInv, TypeOK, TypeStreams, TypeWriters
<1>2. /\ stored'[v] = stored[v] /\ cache'[v] = cache[v] /\ rows' = rows
      /\ readable'[v] = readable[v] /\ ingested' = ingested
  BY DEF WriteStep, Begin, Insert, SaveMetaInfo, Commit, Announce, Committed, databaseVars,
     TypeInv, TypeOK, TypeStreams, TypeDatabase
<1> QED BY <1>1, <1>2 DEF Same

LEMMA WriteKeeps ==
  ASSUME TypeInv, NEW u \in Streams, StreamInv(u), WriteStep(u)
  PROVE  StreamInv(u)'
<1> DEFINE n == ingested[u].last
           b == buffer[u]
           s == stored[u]
<1>0. /\ s \in Seq(Nat) /\ n \in Nat /\ b \in Seq(Nat) /\ inserted[u] \in Nat
      /\ wpc[u] # "idle" /\ b # <<>> /\ wpc \in [Streams -> {"idle", "begin", "insert", "meta", "commit", "announce"}]
      /\ inserted \in [Streams -> Nat]
  BY StreamTypes DEF WriteStep, Begin, Insert, SaveMetaInfo, Commit, Announce, TypeInv, TypeOK, CallInv, TypeWriters
<1>1. /\ phase[u] # "none" /\ Contiguous(s)
      /\ u \in rows => cache[u] = Upto(Len(s))
      /\ ingested[u] = Upto(n) /\ readable[u] = Upto(n - Len(b))
      /\ Consistent(s, n, b, wpc[u], inserted[u])
  BY <1>0 DEF StreamInv
<1>2. CASE Begin(u)
  <2>1. CASE SaveReturns(u, FALSE)
    BY <1>0, <1>2, <2>1, SaveFails DEF Begin, databaseVars
  <2>2. CASE wpc' = [wpc EXCEPT ![u] = "insert"] /\ UNCHANGED <<inserted, buffer, unsaved, phase, faults>>
    <3>1. Consistent(s, n, b, "insert", inserted[u])
      BY <1>0, <1>1, <1>2, ConsistentSave DEF Begin
    <3> QED BY <1>0, <1>1, <1>2, <2>2, <3>1 DEF Begin, StreamInv, databaseVars
  <2> QED BY <1>2, <2>1, <2>2 DEF Begin
<1>3. CASE Insert(u)
  <2>1. CASE SaveReturns(u, FALSE)
    BY <1>0, <1>3, <2>1, SaveFails DEF Insert, databaseVars
  <2>2. CASE ~SaveReturns(u, FALSE)
    <3>1. /\ CanInsert(u, b[inserted[u] + 1])
          /\ inserted'[u] = inserted[u] + 1
          /\ wpc'[u] = IF inserted[u] + 1 = Len(b) THEN "meta" ELSE "insert"
          /\ UNCHANGED <<buffer, phase>>
      BY <1>0, <1>3, <2>2 DEF Insert
    <3>2. Consistent(s, n, b, wpc'[u], inserted'[u])
      <4>1. Consistent(s, n, b, "insert", inserted[u])
        BY <1>1, <1>3 DEF Insert
      <4>2. \A i \in 1..Len(s) : s[i] # b[inserted[u] + 1]
        BY <3>1 DEF CanInsert
      <4>3. Consistent(s, n, b, IF inserted[u] + 1 = Len(b) THEN "meta" ELSE "insert", inserted[u] + 1)
        BY <1>0, <1>1, <4>1, <4>2, ConsistentInsert
      <4> QED BY <3>1, <4>3
    <3> QED BY <1>0, <1>1, <1>3, <3>1, <3>2 DEF Insert, StreamInv, databaseVars
  <2> QED BY <2>1, <2>2
<1>4. CASE SaveMetaInfo(u)
  <2>1. CASE SaveReturns(u, FALSE)
    BY <1>0, <1>4, <2>1, SaveFails DEF SaveMetaInfo
  <2>2. CASE ~SaveReturns(u, FALSE)
    <3>1. wpc'[u] = "commit" /\ UNCHANGED <<inserted, buffer, phase>>
      BY <1>0, <1>4, <2>2 DEF SaveMetaInfo
    <3>2. Consistent(s, n, b, "commit", inserted[u])
      BY <1>0, <1>1, <1>4, ConsistentSave DEF SaveMetaInfo
    <3> QED BY <1>0, <1>1, <1>4, <3>1, <3>2 DEF SaveMetaInfo, StreamInv
  <2> QED BY <2>1, <2>2
<1>5. CASE Commit(u)
  <2>1. CASE SaveReturns(u, FALSE) /\ UNCHANGED <<stored, cache>>
    BY <1>0, <1>5, <2>1, SaveFails DEF Commit
  <2>2. CASE Committed(u)
    <3>1. /\ stored'[u] = s \o b /\ (u \in rows => cache'[u] = Upto(n))
          /\ UNCHANGED <<rows, ingested, readable>>
      BY <1>0, <1>5, <2>2, MetaInfoUpto DEF Commit, Committed, TypeInv, TypeOK, TypeDatabase
    <3>2. /\ s \o b \in Seq(Nat) /\ Contiguous(s \o b) /\ Len(s \o b) = n
          /\ Consistent(s \o b, n, b, "announce", inserted[u])
      <4>1. Consistent(s, n, b, "commit", inserted[u])
        BY <1>1, <1>5 DEF Commit
      <4> HIDE DEF s, n, b
      <4> QED BY <1>0, <1>1, <4>1, ConsistentCommit
    <3>3. Consistent(s \o b, n, b, "idle", 0)
      BY <1>0, <3>2, ConsistentSave
    <3>4. CASE SaveReturns(u, FALSE)
      <4>1. wpc'[u] = "idle" /\ inserted'[u] = 0 /\ buffer'[u] = b
        BY <1>0, <3>4 DEF SaveReturns, BufferAfterSave, TypeInv, TypeOK, TypeStreams
      <4> QED BY <1>1, <3>1, <3>2, <3>3, <4>1 DEF StreamInv
    <3>5. CASE wpc' = [wpc EXCEPT ![u] = "announce"] /\ UNCHANGED <<inserted, buffer, phase>>
      <4>1. wpc'[u] = "announce"
        BY <1>0, <3>5
      <4> QED BY <1>1, <3>1, <3>2, <3>5, <4>1 DEF StreamInv
    <3> QED BY <1>5, <3>4, <3>5 DEF Commit
  <2> QED BY <1>5, <2>1, <2>2 DEF Commit
<1>6. CASE Announce(u)
  <2>1. /\ wpc'[u] = "idle" /\ inserted'[u] = 0 /\ buffer'[u] = <<>>
        /\ UNCHANGED <<rows, cache, stored, ingested>>
    BY <1>0, <1>6 DEF Announce, SaveReturns, BufferAfterSave, databaseVars, TypeInv, TypeOK, TypeStreams
  <2>2. readable'[u] = Upto(n)
    <3>1. MetaInfo(u) = Upto(n) /\ n > 0
      BY <1>0, MetaInfoUpto
    <3>2. readable[u].cpt # 0 => readable[u].first = 1
      BY <1>1, UptoFacts
    <3>3. readable'[u] = [MetaInfo(u) EXCEPT !.first = IF readable[u].cpt = 0 THEN @ ELSE readable[u].first]
      BY <1>6 DEF Announce, TypeInv, TypeOK, TypeStreams
    <3> QED BY <1>0, <3>1, <3>2, <3>3 DEF Upto
  <2>3. Consistent(s, n, <<>>, "idle", 0)
    BY <1>0, <1>1, <1>6, ConsistentSave DEF Announce
  <2>4. n - Len(<<>>) = n
    BY <1>0
  <2> QED BY <1>1, <2>1, <2>2, <2>3, <2>4 DEF StreamInv
<1> QED BY <1>2, <1>3, <1>4, <1>5, <1>6 DEF WriteStep

LEMMA IngestKeeps ==
  ASSUME TypeInv, NEW u \in Streams, StreamInv(u), Ingest(u)
  PROVE  StreamInv(u)'
<1> DEFINE n == ingested[u].last
           b == buffer[u]
           s == stored[u]
<1>0. s \in Seq(Nat) /\ n \in Nat /\ b \in Seq(Nat) /\ inserted[u] \in Nat /\ n + 1 # 0 /\ Len(b) \in Nat
  BY StreamTypes
<1>1. /\ Contiguous(s) /\ u \in rows => cache[u] = Upto(Len(s))
      /\ ingested[u] = Upto(n) /\ readable[u] = Upto(n - Len(b))
      /\ Consistent(s, n, b, "idle", inserted[u])
  BY DEF StreamInv, Ingest
<1>2. /\ buffer'[u] = Append(b, n + 1)
      /\ wpc'[u] \in {"idle", "begin"} /\ inserted'[u] = inserted[u]
      /\ phase' = phase /\ UNCHANGED <<rows, cache, stored, readable>>
  BY DEF Ingest, databaseVars, TypeInv, TypeOK, TypeStreams, TypeWriters
<1>3. ingested'[u] = Upto(n + 1)
  <2>1. ingested[u].cpt = n /\ ingested[u].first = (IF n = 0 THEN 0 ELSE 1)
    BY <1>1, UptoFacts
  <2>2. ingested'[u] = [cpt |-> ingested[u].cpt + 1, last |-> n + 1,
                        first |-> IF ingested[u].cpt = 0 THEN 1 ELSE ingested[u].first]
    BY DEF Ingest, TypeInv, TypeOK, TypeStreams
  <2> QED BY <1>0, <2>1, <2>2 DEF Upto
<1>4. ingested'[u].last = n + 1
  BY <1>3, UptoFacts
<1>5. /\ Consistent(s, n + 1, Append(b, n + 1), wpc'[u], inserted[u])
      /\ (n + 1) - Len(Append(b, n + 1)) = n - Len(b)
  <2> HIDE DEF n, b, s
  <2> QED BY <1>0, <1>1, <1>2, ConsistentIngest
<1>6. phase[u] # "none"
  BY DEF Ingest
<1> QED BY <1>1, <1>2, <1>3, <1>4, <1>5, <1>6 DEF StreamInv

\* The calls of Save by the timer and by Run when it ends.
LEMMA CallSaveKeeps ==
  ASSUME TypeInv, NEW u \in Streams, StreamInv(u), FlushTimer(u) \/ FinalSave(u)
  PROVE  StreamInv(u)'
<1>1. /\ wpc[u] = "idle" /\ phase[u] # "none"
      /\ UNCHANGED <<rows, cache, stored, ingested, readable, buffer, inserted>>
  BY DEF FlushTimer, FinalSave, databaseVars
<1>2. /\ wpc'[u] \in {"idle", "begin"} /\ (phase'[u] = "none" => wpc'[u] = "idle")
  BY DEF FlushTimer, FinalSave, CallSave, TypeInv, TypeOK, TypeStreams, TypeWriters
<1>3. Consistent(stored[u], ingested[u].last, buffer[u], wpc'[u], inserted[u])
  <2>1. Consistent(stored[u], ingested[u].last, buffer[u], "idle", inserted[u])
    BY <1>1 DEF StreamInv
  <2> QED BY <1>2, <2>1, StreamTypes, ConsistentSave
<1> QED BY <1>1, <1>2, <1>3 DEF StreamInv

\* A process that ends leaves the tables, and at most the row that was deleted.
LEMMA EndKeeps ==
  ASSUME NEW u \in Streams, StreamInv(u), EmptyMemory,
         StartFails \/ DropTable \/ StopEnds \/ Crash \/ \E v \in Streams : DeleteRow(v)
  PROVE  StreamInv(u)'
<1>1. rows' \subseteq rows /\ UNCHANGED <<cache, stored>>
  BY DEF StartFails, DropTable, StopEnds, Crash, DeleteRow, ProcessEnds
<1>2. phase'[u] = "none" /\ wpc'[u] = "idle"
  BY DEF EmptyMemory
<1> QED BY <1>1, <1>2 DEF StreamInv

LEMMA LoadKeeps ==
  ASSUME TypeInv, FreshInv, NEW u \in Streams, StreamInv(u), LoadStreams
  PROVE  StreamInv(u)'
<1>0. /\ stored[u] \in Seq(Nat) /\ Len(stored[u]) \in Nat
      /\ phase[u] = "none" /\ buffer[u] = <<>> /\ inserted[u] = 0 /\ wpc[u] = "idle"
  BY StreamTypes DEF LoadStreams, FreshInv, StreamInv
<1>1. UNCHANGED <<rows, cache, stored, buffer, inserted, wpc>>
  BY DEF LoadStreams, databaseVars, writerVars
<1>2. PICK loaded \in SUBSET rows :
        /\ phase' = [v \in Streams |-> IF v \in loaded THEN "running" ELSE "none"]
        /\ ingested' = [v \in Streams |-> LoadedInfo(v, loaded)]
        /\ readable' = [v \in Streams |-> LoadedInfo(v, loaded)]
  BY DEF LoadStreams
<1>3. CASE u \in loaded
  <2>1. ingested'[u] = Upto(Len(stored[u])) /\ readable'[u] = Upto(Len(stored[u]))
    BY <1>2, <1>3 DEF LoadedInfo, StreamInv
  <2>2. ingested'[u].last = Len(stored[u]) /\ Len(stored[u]) - Len(<<>>) = Len(stored[u])
    BY <1>0, <2>1, UptoFacts
  <2>3. Consistent(stored[u], Len(stored[u]), <<>>, "idle", 0)
    BY <1>0, ConsistentLoad
  <2> QED BY <1>0, <1>1, <2>1, <2>2, <2>3 DEF StreamInv
<1>4. CASE u \notin loaded
  <2>1. phase'[u] = "none"
    BY <1>2, <1>4
  <2> QED BY <1>0, <1>1, <2>1 DEF StreamInv
<1> QED BY <1>3, <1>4

\* The creation concerns only a stream that begins.
LEMMA CreateKeeps ==
  ASSUME TypeInv, FreshInv, NEW u \in Streams, StreamInv(u), CreateStream \/ CreateStep
  PROVE  StreamInv(u)'
<1>1. CASE CreateStream \/ CreateBegin \/ CreateInsert
  <2>1. Same(u)
    BY <1>1 DEF CreateStream, CreateBegin, CreateInsert, Same, databaseVars, streamVars, writerVars
  <2> QED BY <2>1, SameKeeps
<1>2. CASE CreateTable
  <2>1. UNCHANGED <<stored, phase, ingested, readable, buffer, wpc, inserted>>
    BY <1>2 DEF CreateTable, streamVars, writerVars
  <2>2. CASE u # on
    <3>1. u \in rows' => u \in rows /\ cache'[u] = cache[u]
      BY <1>2, <2>2 DEF CreateTable, RowCommitted, TypeInv, TypeOK, TypeDatabase
    <3> QED BY <2>1, <3>1, SameKeeps DEF Same
  <2>3. CASE u = on
    <3>1. Blank(u) /\ u \notin rows
      BY <1>2, <2>3 DEF CreateTable, FreshInv, Fresh
    <3>2. u \in rows' => cache'[u] = NoMessages
      BY <1>2, <2>3, <3>1 DEF CreateTable, RowCommitted, TypeInv, TypeOK, TypeDatabase
    <3>3. stored'[u] = <<>> /\ Len(<<>>) = 0
      BY <2>1, <3>1 DEF Blank
    <3> QED BY <2>1, <3>1, <3>2, <3>3, UptoFacts DEF StreamInv, Blank
  <2> QED BY <2>2, <2>3
<1>3. CASE CreateCommit
  <2>1. UNCHANGED <<rows, cache, stored, ingested, readable, buffer, wpc, inserted>>
    BY <1>3 DEF CreateCommit, databaseVars, writerVars
  <2>2. CASE phase'[u] = phase[u]
    BY <2>1, <2>2, SameKeeps DEF Same
  <2>3. CASE phase'[u] # phase[u]
    <3>1. u = on
      BY <1>3, <2>3 DEF CreateCommit, TypeInv, TypeOK, TypeStreams
    <3>2. Blank(u)
      BY <1>3, <3>1 DEF CreateCommit, FreshInv, Fresh
    <3>3. Consistent(<<>>, 0, <<>>, "idle", 0) /\ NoMessages.last = 0 /\ 0 - Len(<<>>) = 0
      <4>1. stored[u] \in Seq(Nat) /\ stored[u] = <<>> /\ Len(<<>>) = 0
        BY <3>2 DEF Blank, TypeInv, TypeOK, TypeStreams, TypeDatabase
      <4>2. Consistent(stored[u], 0, <<>>, "idle", 0)
        BY <4>1, ConsistentLoad
      <4>3. NoMessages.last = 0
        BY UptoFacts
      <4>4. \A n \in Nat : n = 0 => 0 - n = 0
        OBVIOUS
      <4>5. 0 - Len(<<>>) = 0
        BY <4>1, <4>4
      <4> QED BY <4>1, <4>2, <4>3, <4>5
    <3>4. NoMessages = Upto(0)
      BY UptoFacts
    <3> QED BY <2>1, <3>2, <3>3, <3>4 DEF StreamInv, Blank
  <2> QED BY <2>2, <2>3
<1> QED BY <1>1, <1>2, <1>3 DEF CreateStep

\* The other streams are not concerned.
LEMMA OtherStreams ==
  ASSUME TypeInv, NEW v \in Streams, NEW u \in Streams, u # v,
         Ingest(v) \/ FlushTimer(v) \/ FinalSave(v) \/ StartStream(v) \/ DeleteStream(v)
  PROVE  /\ wpc'[u] = wpc[u] /\ buffer'[u] = buffer[u]
         /\ phase'[u] = phase[u] /\ ingested'[u] = ingested[u]
<1> USE DEF TypeInv, TypeOK, TypeStreams, TypeWriters
<1>1. CASE Ingest(v)
  <2>1. ingested'[u] = ingested[u]
    BY <1>1 DEF Ingest
  <2>2. wpc'[u] = wpc[u] /\ buffer'[u] = buffer[u] /\ phase'[u] = phase[u]
    BY <1>1 DEF Ingest
  <2> QED BY <2>1, <2>2
<1>2. CASE FlushTimer(v)
  BY <1>2 DEF FlushTimer, CallSave
<1>3. CASE FinalSave(v)
  BY <1>3 DEF FinalSave, CallSave
<1>4. CASE StartStream(v) \/ DeleteStream(v)
  BY <1>4 DEF StartStream, DeleteStream, writerVars
<1> QED BY <1>1, <1>2, <1>3, <1>4

LEMMA NextKeepsStream ==
  ASSUME TypeInv, TableInv, [Next]_vars, NEW u \in Streams
  PROVE  StreamInv(u)'
<1>0. StreamInv(u) /\ FreshInv
  BY DEF TableInv
<1>1. CASE UNCHANGED vars
  BY <1>0, <1>1, SameKeeps DEF Same, vars, databaseVars, streamVars, writerVars
<1>2. CASE StartStep
  <2>1. CASE LoadStreams
    BY <1>0, <2>1, LoadKeeps
  <2>2. CASE StartServer \/ EnsureSchemaExists \/ EnsureCatalogExists
    BY <1>0, <2>2, SameKeeps DEF StartServer, EnsureSchemaExists, EnsureCatalogExists, CatalogKept, Same,
       databaseVars, streamVars, writerVars
  <2> QED BY <1>2, <2>1, <2>2 DEF StartStep
<1>3. CASE CreateStream \/ CreateStep
  BY <1>0, <1>3, CreateKeeps
<1>4. CASE StartFails \/ DropTable \/ StopEnds \/ Crash \/ \E v \in Streams : DeleteRow(v) /\ ProcessEnds
  BY <1>0, <1>4, EndCases, EndKeeps
<1>5. CASE StopServer
  BY <1>0, <1>5, SameKeeps DEF StopServer, Same, databaseVars, writerVars, TypeInv, TypeOK, TypeStreams
<1>6. ASSUME NEW v \in Streams, Ingest(v) \/ FlushTimer(v) \/ FinalSave(v) PROVE StreamInv(u)'
  <2>1. CASE u = v
    BY <1>0, <1>6, <2>1, IngestKeeps, CallSaveKeeps
  <2>2. CASE u # v
    <3>1. /\ wpc'[u] = wpc[u] /\ buffer'[u] = buffer[u]
          /\ phase'[u] = phase[u] /\ ingested'[u] = ingested[u]
      BY <1>6, <2>2, OtherStreams
    <3>2. UNCHANGED <<databaseVars, readable, inserted>>
      BY <1>6 DEF Ingest, FlushTimer, FinalSave
    <3>3. Same(u)
      BY <3>1, <3>2 DEF Same, databaseVars
    <3> QED BY <1>0, <3>3, SameKeeps
  <2> QED BY <2>1, <2>2
<1>7. ASSUME NEW v \in Streams, WriteStep(v) PROVE StreamInv(u)'
  BY <1>0, <1>7, WriteKeeps, SaveSame, SameKeeps
<1>8. ASSUME NEW v \in Streams, StartStream(v) \/ DeleteStream(v) PROVE StreamInv(u)'
  <2>1. Same(u)
    BY <1>8 DEF StartStream, DeleteStream, Same, databaseVars, writerVars, TypeInv, TypeOK, TypeStreams
  <2> QED BY <1>0, <2>1, SameKeeps
<1>9. ASSUME NEW v \in Streams, WaitTimeout(v) \/ (DeleteRow(v) /\ ~ProcessEnds) PROVE StreamInv(u)'
  <2>1. Same(u)
    BY <1>9 DEF WaitTimeout, DeleteRow, Same, streamVars, writerVars
  <2> QED BY <1>0, <2>1, SameKeeps
<1> QED BY <1>1, <1>2, <1>3, <1>4, <1>5, <1>6, <1>7, <1>8, <1>9, NextCases

\* The steps of a stream concern neither one that begins nor a process that starts.
LEMMA StreamStepsKeepFresh ==
  ASSUME TypeInv, FreshInv, NEW v \in Streams,
         \/ Ingest(v) \/ FlushTimer(v) \/ FinalSave(v) \/ WriteStep(v)
         \/ StartStream(v) \/ DeleteStream(v),
         \A u \in Streams : StreamInv(u)
  PROVE  FreshInv'
<1>1. phase[v] # "none" /\ server \notin {"down", "schema", "catalog", "load"}
  <2>1. phase[v] # "none"
    <3>1. wpc[v] # "idle" => phase[v] # "none"
      BY DEF StreamInv
    <3> QED BY <3>1 DEF Ingest, FlushTimer, FinalSave, WriteStep, Begin, Insert, SaveMetaInfo, Commit, Announce,
                 StartStream, DeleteStream
  <2> QED BY <2>1 DEF FreshInv
<1>2. UNCHANGED <<cpc, on, used, rows, server>>
  BY DEF Ingest, FlushTimer, FinalSave, WriteStep, Begin, Insert, SaveMetaInfo, Commit, Announce,
     StartStream, DeleteStream, callVars, historyVars, databaseVars
<1>3. doomed' \subseteq doomed \cup {v} /\ deleting' \subseteq doomed'
  BY DEF Ingest, FlushTimer, FinalSave, WriteStep, Begin, Insert, SaveMetaInfo, Commit, Announce,
     StartStream, DeleteStream, historyVars, FreshInv
<1>4. ASSUME NEW u \in Streams, Fresh(u)' PROVE Blank(u)' /\ u \notin doomed' /\ (u \in rows' => cpc' = "commit" /\ on' = u)
  <2>1. Fresh(u) /\ Blank(u) /\ u # v /\ u \notin doomed'
    BY <1>1, <1>2, <1>3, <1>4 DEF Fresh, FreshInv, Blank
  <2>2. CASE WriteStep(v)
    <3>1. Same(u)
      BY <2>1, <2>2, SaveSame
    <3> QED BY <1>2, <2>1, <3>1 DEF Same, Blank, FreshInv
  <2>3. CASE ~WriteStep(v)
    <3>1. /\ wpc'[u] = wpc[u] /\ buffer'[u] = buffer[u]
          /\ phase'[u] = phase[u] /\ ingested'[u] = ingested[u]
      BY <2>1, <2>3, OtherStreams
    <3>2. UNCHANGED <<stored, readable, inserted>>
      BY <2>3 DEF Ingest, FlushTimer, FinalSave, StartStream, DeleteStream, writerVars, databaseVars
    <3> QED BY <1>2, <2>1, <3>1, <3>2 DEF Blank, FreshInv
  <2> QED BY <2>2, <2>3
<1> QED BY <1>1, <1>2, <1>3, <1>4 DEF FreshInv

LEMMA CreateKeepsFresh ==
  ASSUME TypeInv, FreshInv, CreateStream \/ CreateStep
  PROVE  FreshInv'
<1>0. UNCHANGED <<server, doomed, deleting>>
  BY DEF CreateStream, CreateStep, CreateBegin, CreateInsert, CreateTable, CreateCommit, streamVars,
     historyVars
<1>1. CASE CreateStream
  <2>0. GenerateNewStreamUuid \notin used /\ GenerateNewStreamUuid \in Streams
    BY <1>1 DEF CreateStream, GenerateNewStreamUuid, TypeInv, TypeOK, TypeHistory
  <2>1. /\ server = "up" /\ cpc = "idle" /\ on' \notin used /\ on' \in used' /\ cpc' = "begin"
        /\ used \subseteq used'
        /\ UNCHANGED <<databaseVars, streamVars, writerVars>>
    BY <1>1, <2>0 DEF CreateStream, Up
  <2>2. ASSUME NEW u \in Streams, Fresh(u)' PROVE Blank(u)' /\ u \notin doomed' /\ (u \in rows' => cpc' = "commit" /\ on' = u)
    <3>1. Fresh(u)
      BY <2>1, <2>2 DEF Fresh
    <3> QED BY <1>0, <2>1, <3>1 DEF FreshInv, Blank, databaseVars, streamVars, writerVars
  <2> QED BY <1>0, <2>1, <2>2 DEF FreshInv
<1>2. CASE CreateStep
  <2>1. /\ cpc \in {"begin", "insert", "table", "commit"} /\ on \in used /\ used' = used
        /\ server \notin {"down", "schema", "catalog", "load"}
        /\ UNCHANGED <<stored, ingested, readable, buffer, writerVars>>
    BY <1>2 DEF CreateStep, CreateBegin, CreateInsert, CreateTable, CreateCommit, FreshInv, databaseVars,
       streamVars, historyVars
  <2>2. \/ cpc' = "idle"
        \/ on' = on /\ cpc' \in {"insert", "table", "commit"} /\ phase' = phase
    BY <1>2 DEF CreateStep, CreateBegin, CreateInsert, CreateTable, CreateCommit, CallReturns, streamVars
  <2>3. ASSUME NEW u \in Streams, Fresh(u)' PROVE Blank(u)' /\ u \notin doomed' /\ (u \in rows' => cpc' = "commit" /\ on' = u)
    <3>1. Fresh(u) /\ Blank(u) /\ u \notin doomed'
      BY <1>0, <2>1, <2>2, <2>3 DEF Fresh, FreshInv
    <3>2. phase'[u] = phase[u]
      BY <1>2, <2>1, <2>3 DEF Fresh, CreateStep, CreateBegin, CreateInsert, CreateTable, CreateCommit,
         CallReturns, streamVars, TypeInv, TypeOK, TypeStreams
    <3>3. CASE u \in rows
      <4>1. cpc = "commit" /\ on = u
        BY <3>1, <3>3 DEF FreshInv
      <4>2. cpc' = "idle"
        BY <1>2, <4>1 DEF CreateStep, CreateBegin, CreateInsert, CreateTable, CreateCommit, CallReturns
      <4> QED BY <2>1, <2>3, <4>1, <4>2 DEF Fresh
    <3>4. CASE u \notin rows
      <4>1. u \in rows' => u = on /\ (cpc' = "idle" \/ cpc' = "commit")
        BY <1>2, <3>4 DEF CreateStep, CreateBegin, CreateInsert, CreateTable, RowCommitted, CreateCommit,
           CallReturns, databaseVars
      <4>2. u \in rows' => cpc' = "commit" /\ on' = u
        BY <2>1, <2>2, <2>3, <4>1 DEF Fresh
      <4> QED BY <2>1, <3>1, <3>2, <4>2 DEF Blank, writerVars
    <3> QED BY <3>3, <3>4
  <2>4. cpc' # "idle" => on' \in used'
    BY <2>1, <2>2
  <2> QED BY <1>0, <2>1, <2>3, <2>4 DEF FreshInv
<1> QED BY <1>1, <1>2

LEMMA NextKeepsFresh ==
  ASSUME TypeInv, TableInv, [Next]_vars
  PROVE  FreshInv'
<1>0. FreshInv /\ \A u \in Streams : StreamInv(u)
  BY DEF TableInv
<1>1. CASE UNCHANGED vars
  BY <1>0, <1>1 DEF FreshInv, Fresh, Blank, vars, databaseVars, streamVars, writerVars, callVars, historyVars
<1>2. CASE StartStep
  <2>1. /\ server \in {"down", "schema", "catalog", "load"}
        /\ UNCHANGED <<rows, stored, cpc, on, used, doomed>>
        /\ UNCHANGED <<buffer, wpc, inserted, deleting>>
    BY <1>2 DEF StartStep, StartServer, EnsureSchemaExists, EnsureCatalogExists, CatalogKept, LoadStreams,
       databaseVars, streamVars, writerVars, callVars, historyVars
  <2>2. CASE LoadStreams
    <3>1. ASSUME NEW u \in Streams, Fresh(u)' PROVE Blank(u)' /\ u \notin doomed' /\ u \notin rows'
      <4>1. Fresh(u) /\ Blank(u) /\ u \notin doomed /\ u \notin rows
        BY <1>0, <2>1, <3>1 DEF Fresh, FreshInv
      <4>2. phase'[u] = "none" /\ ingested'[u] = NoMessages /\ readable'[u] = NoMessages
        BY <2>2, <4>1 DEF LoadStreams, LoadedInfo
      <4> QED BY <2>1, <4>1, <4>2 DEF Blank
    <3>2. server' = "up" /\ cpc' = "idle"
      BY <1>0, <2>1, <2>2 DEF LoadStreams, FreshInv
    <3> QED BY <1>0, <2>1, <3>1, <3>2 DEF FreshInv
  <2>3. CASE ~LoadStreams
    <3>1. UNCHANGED <<phase, ingested, readable>>
      BY <1>2, <2>3 DEF StartStep, StartServer, EnsureSchemaExists, EnsureCatalogExists, streamVars
    <3> QED BY <1>0, <2>1, <3>1 DEF FreshInv, Fresh, Blank
  <2> QED BY <2>2, <2>3
<1>3. CASE CreateStream \/ CreateStep
  BY <1>0, <1>3, CreateKeepsFresh
<1>4. CASE StartFails \/ DropTable \/ StopEnds \/ Crash \/ \E v \in Streams : DeleteRow(v) /\ ProcessEnds
  <2>1. EmptyMemory
    BY <1>4, EndCases
  <2>2. rows' \subseteq rows /\ UNCHANGED <<stored, used, doomed>>
    BY <1>4 DEF StartFails, DropTable, StopEnds, Crash, DeleteRow, ProcessEnds, historyVars
  <2>3. ASSUME NEW u \in Streams, Fresh(u)' PROVE Blank(u)' /\ u \notin doomed' /\ u \notin rows'
    <3>1. u \notin used
      BY <2>1, <2>2, <2>3 DEF Fresh, EmptyMemory
    <3>2. Blank(u) /\ u \notin rows /\ u \notin doomed
      BY <1>0, <3>1 DEF Fresh, FreshInv
    <3> QED BY <2>1, <2>2, <3>2 DEF EmptyMemory, Blank
  <2> QED BY <2>1, <2>3 DEF EmptyMemory, FreshInv
<1>5. CASE StopServer
  <2>1. /\ UNCHANGED <<rows, stored, cpc, on, used, ingested, readable, buffer, wpc, inserted, doomed, deleting>>
        /\ server' = "stopping" /\ \A u \in Streams : phase[u] = "none" => phase'[u] = "none"
    BY <1>5 DEF StopServer, databaseVars, writerVars, callVars, historyVars
  <2> QED BY <1>0, <2>1 DEF FreshInv, Fresh, Blank
<1>6. ASSUME NEW v \in Streams,
             \/ Ingest(v) \/ FlushTimer(v) \/ FinalSave(v) \/ WriteStep(v)
             \/ StartStream(v) \/ DeleteStream(v)
      PROVE  FreshInv'
  BY <1>0, <1>6, StreamStepsKeepFresh
<1>7. ASSUME NEW v \in Streams, WaitTimeout(v) PROVE FreshInv'
  BY <1>0, <1>7 DEF WaitTimeout, FreshInv, Fresh, Blank, streamVars, writerVars, callVars, historyVars
<1>8. ASSUME NEW v \in Streams, DeleteRow(v), ~ProcessEnds PROVE FreshInv'
  <2>1. /\ UNCHANGED <<stored, phase, ingested, readable, buffer, wpc, inserted, server, used, doomed>>
        /\ rows' = rows \ {v} /\ cpc = "idle" /\ cpc' = "drop" /\ on' = v /\ deleting' \subseteq deleting
        /\ v \in deleting
    BY <1>8 DEF DeleteRow, writerVars, historyVars
  <2>2. server \notin {"down", "schema", "catalog", "load"}
    BY <1>0, <2>1 DEF FreshInv
  <2>3. v \in used
    BY <1>0, <2>1 DEF FreshInv, Fresh, Blank
  <2> QED BY <1>0, <2>1, <2>2, <2>3 DEF FreshInv, Fresh, Blank
<1> QED BY <1>1, <1>2, <1>3, <1>4, <1>5, <1>6, <1>7, <1>8, NextCases

LEMMA TableCorrect == Spec => []TableInv
<1>1. Init => TableInv
  <2> SUFFICES ASSUME Init PROVE TableInv
    OBVIOUS
  <2>1. FreshInv
    BY DEF Init, FreshInv, Blank
  <2>2. ASSUME NEW u \in Streams PROVE StreamInv(u)
    BY DEF Init, StreamInv, Contiguous
  <2> QED BY <2>1, <2>2 DEF TableInv
<1>2. TypeInv /\ TableInv /\ [Next]_vars => TableInv'
  BY NextKeepsStream, NextKeepsFresh DEF TableInv
<1> QED BY <1>1, <1>2, TypeCorrect, PTL DEF Spec

(* RowDescribesTable: the records of a table are 1, 2, 3... and the row of *)
(* the stream describes them, through failed statements, commits in doubt  *)
(* and their retries, crashes and starts that saw only part of the rows.   *)
THEOREM RowIsTrue == Spec => []RowDescribesTable
<1>1. TypeInv /\ TableInv => RowDescribesTable
  <2> SUFFICES ASSUME TypeInv, TableInv PROVE RowDescribesTable
    OBVIOUS
  <2>1. ASSUME NEW u \in Streams
        PROVE  Contiguous(stored[u]) /\ (u \in rows => cache[u] = Describe(stored[u]))
    BY StreamTypes, DescribeContiguous DEF TableInv, StreamInv
  <2>2. rows \subseteq Streams
    BY DEF TypeInv, TypeOK, TypeDatabase
  <2> QED BY <2>1, <2>2 DEF RowDescribesTable, Contiguous
<1> QED BY <1>1, TypeCorrect, TableCorrect, PTL

(* ReadableIsCommitted: streamwriter.go updates ReadableMessages only once *)
(* the transaction is committed, and what it says describes the beginning  *)
(* of the table.                                                           *)
THEOREM ReadableIsTrue == Spec => []ReadableIsCommitted
<1>1. TypeInv /\ TableInv => ReadableIsCommitted
  <2> SUFFICES ASSUME TypeInv, TableInv, NEW u \in Streams, phase[u] # "none"
               PROVE  /\ readable[u].cpt <= Len(stored[u])
                      /\ readable[u] = Describe(SubSeq(stored[u], 1, readable[u].cpt))
    BY DEF ReadableIsCommitted
  <2> DEFINE m == ingested[u].last - Len(buffer[u])
  <2>1. readable[u] = Upto(m) /\ Contiguous(stored[u])
    BY DEF TableInv, StreamInv
  <2>2. m \in Nat /\ m <= Len(stored[u])
    BY StreamTypes DEF TableInv, StreamInv, Consistent
  <2>3. readable[u].cpt = m /\ stored[u] \in Seq(Nat)
    BY <2>1, UptoFacts, StreamTypes
  <2> HIDE DEF m
  <2>4. /\ SubSeq(stored[u], 1, m) \in Seq(Nat) /\ Len(SubSeq(stored[u], 1, m)) = m
        /\ Contiguous(SubSeq(stored[u], 1, m))
    BY <2>1, <2>2, <2>3, PrefixContiguous
  <2> QED BY <2>1, <2>2, <2>3, <2>4, DescribeContiguous
<1> QED BY <1>1, TypeCorrect, TableCorrect, PTL

(* AcceptedIsKept: a stream that runs has every message it accepted in its *)
(* table or in its buffer, whatever Save failed and at whichever step.     *)
THEOREM NothingAcceptedIsLost == Spec => []AcceptedIsKept
<1>1. TypeInv /\ TableInv => AcceptedIsKept
  <2> SUFFICES ASSUME TypeInv, TableInv, NEW u \in Streams, phase[u] # "none",
                      NEW id \in 1..ingested[u].last
               PROVE  \/ \E i \in 1..Len(stored[u]) : stored[u][i] = id
                      \/ \E i \in 1..Len(buffer[u]) : buffer[u][i] = id
    BY DEF AcceptedIsKept
  <2> DEFINE n == ingested[u].last
             l == Len(buffer[u])
             m == Len(stored[u])
  <2>1. n \in Nat /\ l \in Nat /\ m \in Nat /\ id \in Nat /\ id >= 1 /\ id <= n
    BY StreamTypes
  <2>2. /\ Contiguous(stored[u]) /\ n - l <= m
        /\ \A i \in 1..l : buffer[u][i] = n - l + i
    BY DEF TableInv, StreamInv, Consistent
  <2>3. CASE id <= m
    BY <2>1, <2>2, <2>3 DEF Contiguous
  <2>4. CASE id > m
    <3> HIDE DEF n, l, m
    <3>1. id - (n - l) \in 1..l /\ n - l + (id - (n - l)) = id
      BY <2>1, <2>2, <2>4
    <3>2. buffer[u][id - (n - l)] = id
      BY <2>2, <3>1
    <3> QED BY <3>1, <3>2 DEF l
  <2> QED BY <2>1, <2>3, <2>4
<1> QED BY <1>1, TypeCorrect, TableCorrect, PTL

(***************************************************************************)
(* The creation of a stream and its deletion                               *)
(***************************************************************************)

\* CreatedSurvives made inductive: the row and the table are there before the
\* creation is acknowledged, and only the deletion takes the row away.
SurvivesInv ==
  /\ CreatedSurvives
  /\ cpc = "commit" => on \in rows /\ GetSQLStreamTable(on) \in tables
  /\ \A u \in Streams : phase[u] = "new" =>
       u \notin doomed /\ u \in rows /\ GetSQLStreamTable(u) \in tables

LEMMA NextKeepsSurvives ==
  ASSUME TypeInv, TableInv, SurvivesInv, [Next]_vars
  PROVE  SurvivesInv'
<1>0. FreshInv /\ created \subseteq Streams
  BY DEF TableInv, TypeInv, TypeOK, TypeHistory
\* The row of a stream goes when its deletion has begun.
<1>1. tables \subseteq tables' /\ doomed \subseteq doomed'
  BY NextCases, ZenonT(60) DEF StartStep, StartServer, EnsureSchemaExists, EnsureCatalogExists, CatalogKept, LoadStreams,
     CreateStream, CreateStep, CreateBegin, CreateInsert, CreateTable, TableCreated, CreateCommit,
     StartFails, DropTable, StopEnds, Crash, StopServer, Ingest, FlushTimer, FinalSave, StartStream,
     DeleteStream, WriteStep, Begin, Insert, SaveMetaInfo, Commit, Announce, WaitTimeout, DeleteRow,
     vars, databaseVars, historyVars
<1>2. \A u \in rows : u \in rows' \/ (u \in doomed /\ cpc = "idle")
  <2>1. ASSUME NEW v \in Streams, DeleteRow(v) PROVE rows \ {v} \subseteq rows' /\ v \in doomed /\ cpc = "idle"
    BY <1>0, <2>1 DEF DeleteRow, FreshInv
  <2> QED BY <2>1, NextCases, ZenonT(60) DEF StartStep, StartServer, EnsureSchemaExists, EnsureCatalogExists, CatalogKept,
     LoadStreams, CreateStream, CreateStep, CreateBegin, CreateInsert, CreateTable, RowCommitted, CreateCommit,
     StartFails, DropTable, StopEnds, Crash, StopServer, Ingest, FlushTimer, FinalSave, StartStream,
     DeleteStream, WriteStep, Begin, Insert, SaveMetaInfo, Commit, Announce, WaitTimeout,
     vars, databaseVars
<1>3. cpc' = "commit" => on' \in rows' /\ GetSQLStreamTable(on') \in tables'
  <2>1. CASE CreateTable
    BY <2>1 DEF CreateTable, CallReturns, RowCommitted, TableCreated
  <2>2. CASE cpc' = cpc /\ on' = on
    BY <1>1, <1>2, <2>2 DEF SurvivesInv
  <2>3. CASE cpc' # "commit"
    BY <2>3
  <2> QED BY <2>1, <2>2, <2>3, NextCases, EndCases, ZenonT(60) DEF StartStep, StartServer, EnsureSchemaExists,
     EnsureCatalogExists, LoadStreams, CreateStream, CreateStep, CreateBegin, CreateInsert, CreateCommit,
     CallReturns, EmptyMemory, StopServer, Ingest, FlushTimer, FinalSave, StartStream,
     DeleteStream, WriteStep, Begin, Insert, SaveMetaInfo, Commit, Announce, WaitTimeout, DeleteRow,
     vars, callVars
<1>4. ASSUME NEW u \in Streams, phase'[u] = "new"
      PROVE  u \notin doomed' /\ u \in rows' /\ GetSQLStreamTable(u) \in tables'
  <2>1. phase[u] = "new" \/ (CreateCommit /\ on = u)
    <3> USE DEF TypeInv, TypeOK, TypeStreams
    <3>1. CASE LoadStreams
      BY <1>4, <3>1 DEF LoadStreams
    <3>2. CASE EmptyMemory
      BY <1>4, <3>2 DEF EmptyMemory
    <3>3. CASE CreateStream \/ CreateStep
      BY <1>4, <3>3 DEF CreateStream, CreateStep, CreateBegin, CreateInsert, CreateTable, CreateCommit, streamVars
    <3>4. CASE StopServer
      BY <1>4, <3>4 DEF StopServer
    <3>5. ASSUME NEW v \in Streams, Ingest(v) \/ FlushTimer(v) \/ FinalSave(v) \/ StartStream(v) \/ DeleteStream(v)
          PROVE  phase[u] = "new"
      BY <1>4, <3>5 DEF Ingest, FlushTimer, FinalSave, StartStream, DeleteStream
    <3>6. ASSUME NEW v \in Streams, WriteStep(v) PROVE phase[u] = "new"
      BY <1>4, <3>6 DEF WriteStep, Begin, Insert, SaveMetaInfo, Commit, Announce, SaveReturns
    <3>7. CASE phase' = phase
      BY <1>4, <3>7
    <3> QED BY <3>1, <3>2, <3>3, <3>4, <3>5, <3>6, <3>7, NextCases, EndCases
            DEF StartStep, StartServer, EnsureSchemaExists, EnsureCatalogExists, WaitTimeout, DeleteRow,
                vars, streamVars
  <2>2. u \notin doomed /\ u \in rows /\ GetSQLStreamTable(u) \in tables
    BY <1>0, <2>1 DEF SurvivesInv, CreateCommit, FreshInv, Fresh
  <2>3. u \notin doomed'
    <3>1. doomed' = doomed \/ \E v \in Streams : DeleteStream(v)
      BY NextCases, ZenonT(60) DEF StartStep, StartServer, EnsureSchemaExists, EnsureCatalogExists, LoadStreams,
         CreateStream, CreateStep, CreateBegin, CreateInsert, CreateTable, CreateCommit,
         StartFails, DropTable, StopEnds, Crash, StopServer, Ingest, FlushTimer, FinalSave, StartStream,
         WriteStep, Begin, Insert, SaveMetaInfo, Commit, Announce, WaitTimeout, DeleteRow, vars, historyVars
    <3>2. ASSUME NEW v \in Streams, DeleteStream(v) PROVE v # u /\ doomed' = doomed \cup {v}
      BY <1>4, <3>2 DEF DeleteStream, TypeInv, TypeOK, TypeStreams
    <3> QED BY <2>2, <3>1, <3>2
  <2> QED BY <1>1, <1>2, <2>2, <2>3
<1>5. CreatedSurvives'
  <2> SUFFICES ASSUME NEW u \in created' \ doomed' PROVE u \in rows' /\ GetSQLStreamTable(u) \in tables'
    BY DEF CreatedSurvives, GetSQLStreamTable
  <2>1. u \in created \/ (u \in Streams /\ phase[u] = "new")
    BY NextCases, ZenonT(60) DEF StartStep, StartServer, EnsureSchemaExists, EnsureCatalogExists, LoadStreams,
       CreateStream, CreateStep, CreateBegin, CreateInsert, CreateTable, CreateCommit,
       StartFails, DropTable, StopEnds, Crash, StopServer, Ingest, FlushTimer, FinalSave, StartStream,
       DeleteStream, WriteStep, Begin, Insert, SaveMetaInfo, Commit, Announce, WaitTimeout, DeleteRow,
       vars, historyVars
  <2>2. u \notin doomed /\ u \in rows /\ GetSQLStreamTable(u) \in tables
    BY <1>1, <2>1 DEF SurvivesInv, CreatedSurvives
  <2> QED BY <1>1, <1>2, <2>2
<1> QED BY <1>3, <1>4, <1>5 DEF SurvivesInv, GetSQLStreamTable

(* CreatedSurvives: a stream whose creation was acknowledged keeps its row *)
(* and its table until a request deletes it, through crashes in the middle *)
(* of OnCreateStream and of the deletion of other streams.                 *)
THEOREM CreatedIsKept == Spec => []CreatedSurvives
<1>1. Init => SurvivesInv
  BY DEF Init, SurvivesInv, CreatedSurvives
<1>2. TypeInv /\ TableInv /\ SurvivesInv /\ [Next]_vars => SurvivesInv'
  BY NextKeepsSurvives
<1>3. SurvivesInv => CreatedSurvives
  BY DEF SurvivesInv
<1> QED BY <1>1, <1>2, <1>3, TypeCorrect, TableCorrect, PTL DEF Spec
=============================================================================
