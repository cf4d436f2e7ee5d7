--------------------------- MODULE MySQLProvider ---------------------------
(***************************************************************************)
(* The streams of a service over the MySQL provider: the catalog table and *)
(* one table of records per stream, the transactions of StreamWriterMySQL  *)
(* and of OnCreateStream, the pool of connections they share, the deletion *)
(* of a stream, the start that reads the catalog table, and the ways in    *)
(* which a statement or a commit fails.  Sources: provider.go,             *)
(* streamcatalog.go and streamwriter.go of the MySQL provider, Save of     *)
(* buffering and the flush timer of Run in stream.go.                      *)
(*                                                                         *)
(* The server is external and is what the code relies on: a transaction    *)
(* that is not committed leaves nothing but locks, a key is unique, CREATE *)
(* TABLE commits the transaction it is in, and a commit that fails may     *)
(* have been done.  A message is its identifier; its way through the       *)
(* channel is in StreamIngest, here it is counted and buffered in one      *)
(* step.  Messages and properties come from JSON and can be marshalled.    *)
(***************************************************************************)
EXTENDS Integers, Sequences, FiniteSets

CONSTANTS
  Streams,       \* UUIDs; each is generated at most once
  NoStream,      \* the stream of a call that has none
  MaxOpenConns,  \* storage.mysql.maxOpenConns; 0 means unlimited
  BulkMaxSize,   \* streams.bulkMaxSize
  MaxMessages,   \* bound: messages accepted
  MaxFaults,     \* bound: failed statements and commits
  MaxEnds        \* bound: orderly shutdowns and crashes

ASSUME MySQLAssumption ==
  /\ IsFiniteSet(Streams) /\ NoStream \notin Streams
  /\ MaxOpenConns \in Nat /\ BulkMaxSize \in Nat \ {0}
  /\ MaxMessages \in Nat /\ MaxFaults \in Nat /\ MaxEnds \in Nat

VARIABLES
  database,  \* "none", "schema", or "catalog" once the catalog table exists
  rows,      \* streams with a row in the catalog table
  cache,     \* the cache_ columns of each row
  tables,    \* names of the tables of records
  stored,    \* committed identifiers in the table of each stream
  locked,    \* identifiers locked by a transaction nobody ended
  server,    \* "down", "schema", "catalog" or "load" while it starts, "up", "stopping"
  catalog,   \* StreamCatalogMySQL.streams
  phase,     \* of each stream: "none", "new", "running", "closing", "final" (its last Save)
  deleting,  \* streams a request is deleting
  ingested,  \* info.IngestedMessages
  readable,  \* info.ReadableMessages
  buffer,    \* msgBuffer
  armed,     \* streams whose flush timer runs
  wpc,       \* where each stream is in Save
  inserted,  \* records inserted by the open transaction of each stream
  leaked,    \* connections of transactions nobody ended
  cpc,       \* where the call that holds MySQLStorage.mu is
  on,        \* the stream of that call
  messages, faults, ends,
  used,      \* UUIDs generated
  created,   \* streams whose creation was acknowledged
  doomed,    \* streams whose deletion began, in this process or before
  unsaved    \* streams whose last Save failed

databaseVars == <<database, rows, cache, tables, stored, locked>>
streamVars   == <<catalog, phase, deleting, ingested, readable, buffer, armed, unsaved>>
writerVars   == <<wpc, inserted, leaked>>
callVars     == <<cpc, on>>
boundVars    == <<messages, faults, ends>>
historyVars  == <<used, created, doomed>>
vars == <<databaseVars, server, streamVars, writerVars, callVars, boundVars, historyVars>>

NoMessages == [cpt |-> 0, first |-> 0, last |-> 0]

Up == server = "up"

\* What a process that has just started has in memory.
EmptyMemory ==
  /\ catalog' = {} /\ deleting' = {}
  /\ phase' = [u \in Streams |-> "none"]
  /\ ingested' = [u \in Streams |-> NoMessages]
  /\ readable' = [u \in Streams |-> NoMessages]
  /\ buffer' = [u \in Streams |-> <<>>]
  /\ armed' = {} /\ unsaved' = {}
  /\ wpc' = [u \in Streams |-> "idle"]
  /\ inserted' = [u \in Streams |-> 0]
  /\ leaked' = 0
  /\ cpc' = "idle" /\ on' = NoStream

\* The end of the process: its connections are closed and the server ends their
\* transactions.
ProcessEnds ==
  /\ server' = "down"
  /\ EmptyMemory
  /\ locked' = [u \in Streams |-> {}]

\* A server without the schema of the streams.
Init ==
  /\ database = "none" /\ rows = {} /\ tables = {}
  /\ cache = [u \in Streams |-> NoMessages]
  /\ stored = [u \in Streams |-> <<>>]
  /\ locked = [u \in Streams |-> {}]
  /\ server = "down" /\ catalog = {} /\ deleting = {}
  /\ phase = [u \in Streams |-> "none"]
  /\ ingested = [u \in Streams |-> NoMessages]
  /\ readable = [u \in Streams |-> NoMessages]
  /\ buffer = [u \in Streams |-> <<>>]
  /\ armed = {} /\ unsaved = {}
  /\ wpc = [u \in Streams |-> "idle"]
  /\ inserted = [u \in Streams |-> 0]
  /\ leaked = 0
  /\ cpc = "idle" /\ on = NoStream
  /\ messages = 0 /\ faults = 0 /\ ends = 0
  /\ used = {} /\ created = {} /\ doomed = {}

\* A statement or a commit fails.
Fault ==
  /\ faults < MaxFaults
  /\ faults' = faults + 1

-----------------------------------------------------------------------------
(* Faulty forms of operators below, not used by the specification.         *)

BufferCleared(u, ok) == <<>>
CatalogRecreated == rows' = {}
SaveIfFull(u) == wpc' = [wpc EXCEPT ![u] = IF Len(buffer[u]) < BulkMaxSize THEN "idle" ELSE "begin"]
NotAccumulated(u) == [cpt   |-> Len(buffer[u]),
                      first |-> ingested[u].first,
                      last  |-> buffer[u][Len(buffer[u])]]

-----------------------------------------------------------------------------
(* The pool of connections and the names of tables.                        *)

InTransaction == {"insert", "meta", "commit"}

ConnectionsInUse ==
  leaked + Cardinality({u \in Streams : wpc[u] \in InTransaction})
         + (IF cpc \in {"insert", "table", "commit"} THEN 1 ELSE 0)

\* Begin and Exec wait for a connection.
HasConnection == MaxOpenConns = 0 \/ ConnectionsInUse < MaxOpenConns

\* The dashes of the UUID are replaced where a table is created and written ...
GetSQLStreamTable(u) == <<u, "_">>

\* ... and kept where it is dropped.
DroppedTable(u) == <<u, "-">>

-----------------------------------------------------------------------------
(* The start: Init of the provider, then LoadStreams.                      *)

StartServer ==
  /\ server = "down"
  /\ server' = "schema"
  /\ UNCHANGED <<databaseVars, streamVars, writerVars, callVars, boundVars, historyVars>>

EnsureSchemaExists ==
  /\ server = "schema"
  /\ database' = IF database = "none" THEN "schema" ELSE database
  /\ server' = "catalog"
  /\ UNCHANGED <<rows, cache, tables, stored, locked, streamVars, writerVars, callVars, boundVars,
                 historyVars>>

\* An existing catalog table is left as it is.
CatalogKept == rows' = rows

EnsureCatalogExists ==
  /\ server = "catalog"
  /\ database' = "catalog" /\ CatalogKept
  /\ server' = "load"
  /\ UNCHANGED <<cache, tables, stored, locked, streamVars, writerVars, callVars, boundVars,
                 historyVars>>

\* The ingested and the readable messages of a stream are what its row says.
LoadedInfo(u, loaded) == IF u \in loaded THEN cache[u] ELSE NoMessages

\* A connection lost between two rows ends the list of streams without an error (Err
\* of the rows is not read): the process then does not know the others.
LoadStreams ==
  /\ server = "load"
  /\ server' = "up"
  /\ \E loaded \in SUBSET rows :
       /\ (loaded = rows /\ UNCHANGED faults) \/ (loaded # rows /\ Fault)
       /\ catalog' = loaded
       /\ phase' = [u \in Streams |-> IF u \in loaded THEN "running" ELSE "none"]
       /\ ingested' = [u \in Streams |-> LoadedInfo(u, loaded)]
       /\ readable' = [u \in Streams |-> LoadedInfo(u, loaded)]
  /\ UNCHANGED <<databaseVars, deleting, buffer, armed, unsaved, writerVars, callVars, messages,
                 ends, historyVars>>

\* Whatever fails in the start ends it.
StartFails ==
  /\ server \in {"schema", "catalog", "load"}
  /\ Fault
  /\ ProcessEnds
  /\ UNCHANGED <<database, rows, cache, tables, stored, messages, ends, historyVars>>

-----------------------------------------------------------------------------
(* The messages of a stream, the flush timer and Save.                     *)

Last(s) == s[Len(s)]

\* PutMessage counts the message; Run buffers it, saves a full buffer, and arms the
\* timer.
Ingest(u) ==
  /\ phase[u] = "running" /\ wpc[u] = "idle" /\ messages < MaxMessages
  /\ messages' = messages + 1
  /\ ingested' = [ingested EXCEPT ![u] = [cpt |-> @.cpt + 1, last |-> @.last + 1,
                                          first |-> IF @.cpt = 0 THEN 1 ELSE @.first]]
  /\ buffer' = [buffer EXCEPT ![u] = Append(@, ingested[u].last + 1)]
  /\ armed' = armed \cup {u}
  /\ wpc' = [wpc EXCEPT ![u] = IF Len(buffer[u]) + 1 >= BulkMaxSize THEN "begin" ELSE "idle"]
  /\ UNCHANGED <<databaseVars, server, catalog, phase, deleting, readable, unsaved, inserted,
                 leaked, callVars, faults, ends, historyVars>>

\* Write returns at once when there is nothing to write.
CallSave(u) == wpc' = [wpc EXCEPT ![u] = IF buffer[u] = <<>> THEN "idle" ELSE "begin"]

\* The timer is not armed again before the next message.
FlushTimer(u) ==
  /\ u \in armed /\ wpc[u] = "idle" /\ phase[u] \in {"running", "closing"}
  /\ armed' = armed \ {u}
  /\ CallSave(u)
  /\ UNCHANGED <<databaseVars, server, catalog, phase, deleting, ingested, readable, buffer,
                 unsaved, inserted, leaked, callVars, boundVars, historyVars>>

\* Run received done: the last Save.
FinalSave(u) ==
  /\ phase[u] = "closing" /\ wpc[u] = "idle"
  /\ phase' = [phase EXCEPT ![u] = IF buffer[u] = <<>> THEN "none" ELSE "final"]
  /\ armed' = armed \ {u}
  /\ CallSave(u)
  /\ UNCHANGED <<databaseVars, server, catalog, deleting, ingested, readable, buffer, unsaved,
                 inserted, leaked, callVars, boundVars, historyVars>>

\* The buffer is cleared only when Write succeeded.
BufferAfterSave(u, ok) == IF ok THEN <<>> ELSE buffer[u]

SaveReturns(u, ok) ==
  /\ wpc' = [wpc EXCEPT ![u] = "idle"]
  /\ inserted' = [inserted EXCEPT ![u] = 0]
  /\ buffer' = [buffer EXCEPT ![u] = BufferAfterSave(u, ok)]
  /\ unsaved' = IF ok THEN unsaved \ {u} ELSE unsaved \cup {u}
  /\ phase' = [phase EXCEPT ![u] = IF @ = "final" THEN "none" ELSE @]

-----------------------------------------------------------------------------
(* Write: one transaction for the records of the buffer and the row of the *)
(* stream in the catalog.                                                  *)

Begin(u) ==
  /\ wpc[u] = "begin" /\ HasConnection
  /\ \/ /\ wpc' = [wpc EXCEPT ![u] = "insert"]
        /\ UNCHANGED <<inserted, buffer, unsaved, phase, faults>>
     \/ Fault /\ SaveReturns(u, FALSE)
  /\ UNCHANGED <<databaseVars, server, catalog, deleting, ingested, readable, armed, leaked,
                 callVars, messages, ends, historyVars>>

\* The table may be missing, its key is unique, and a row locked by a transaction
\* left open is waited for in vain.
CanInsert(u, id) ==
  /\ GetSQLStreamTable(u) \in tables
  /\ id \notin locked[u]
  /\ \A i \in 1..Len(stored[u]) : stored[u][i] # id

\* An INSERT that fails rolls the transaction back.
Insert(u) ==
  /\ wpc[u] = "insert"
  /\ \/ /\ CanInsert(u, buffer[u][inserted[u] + 1])
        /\ inserted' = [inserted EXCEPT ![u] = @ + 1]
        /\ wpc' = [wpc EXCEPT ![u] = IF inserted[u] + 1 = Len(buffer[u]) THEN "meta" ELSE "insert"]
        /\ UNCHANGED <<buffer, unsaved, phase, faults>>
     \/ /\ ~CanInsert(u, buffer[u][inserted[u] + 1])
        /\ SaveReturns(u, FALSE)
        /\ UNCHANGED faults
     \/ Fault /\ SaveReturns(u, FALSE)
  /\ UNCHANGED <<databaseVars, server, catalog, deleting, ingested, readable, armed, leaked,
                 callVars, messages, ends, historyVars>>

\* An UPDATE that fails returns without a rollback: the connection is never given
\* back, and the locks of the transaction stay unless the server ended it.
SaveMetaInfo(u) ==
  /\ wpc[u] = "meta"
  /\ \/ /\ wpc' = [wpc EXCEPT ![u] = "commit"]
        /\ UNCHANGED <<locked, leaked, inserted, buffer, unsaved, phase, faults>>
     \/ /\ Fault /\ SaveReturns(u, FALSE)
        /\ leaked' = leaked + 1
        /\ locked' \in {locked, [locked EXCEPT ![u] = {buffer[u][i] : i \in 1..Len(buffer[u])}]}
  /\ UNCHANGED <<database, rows, cache, tables, stored, server, catalog, deleting, ingested,
                 readable, armed, callVars, messages, ends, historyVars>>

\* What the transaction writes to the row, and, once committed, to the information
\* of the stream.
MetaInfo(u) == [cpt   |-> readable[u].cpt + Len(buffer[u]),
                first |-> ingested[u].first,
                last  |-> Last(buffer[u])]

Committed(u) ==
  /\ stored' = [stored EXCEPT ![u] = @ \o buffer[u]]
  /\ cache' = IF u \in rows THEN [cache EXCEPT ![u] = MetaInfo(u)] ELSE cache

\* A faulty form of Commit, not used by the specification.
CommitAfterUpdate(u) ==
  /\ wpc[u] = "commit"
  /\ readable' = [readable EXCEPT ![u] = MetaInfo(u)]
  /\ \/ /\ Committed(u)
        /\ SaveReturns(u, TRUE)
        /\ UNCHANGED faults
     \/ /\ Fault /\ SaveReturns(u, FALSE)
        /\ UNCHANGED <<stored, cache>>
  /\ UNCHANGED <<database, rows, tables, locked, server, catalog, deleting, ingested, armed,
                 leaked, callVars, messages, ends, historyVars>>

\* A commit that fails may have been done.
Commit(u) ==
  /\ wpc[u] = "commit"
  /\ \/ /\ Committed(u)
        /\ wpc' = [wpc EXCEPT ![u] = "announce"]
        /\ UNCHANGED <<inserted, buffer, unsaved, phase, faults>>
     \/ /\ Fault /\ SaveReturns(u, FALSE)
        /\ Committed(u) \/ UNCHANGED <<stored, cache>>
  /\ UNCHANGED <<database, rows, tables, locked, server, catalog, deleting, ingested, readable,
                 armed, leaked, callVars, messages, ends, historyVars>>

Announce(u) ==
  /\ wpc[u] = "announce"
  /\ readable' = [readable EXCEPT ![u] = [MetaInfo(u) EXCEPT !.first =
                    IF readable[u].cpt = 0 THEN @ ELSE readable[u].first]]
  /\ SaveReturns(u, TRUE)
  /\ UNCHANGED <<databaseVars, server, catalog, deleting, ingested, armed, leaked, callVars,
                 boundVars, historyVars>>

\* The server ends a transaction it has not heard of for a long time; its
\* connection is still not given back.
WaitTimeout(u) ==
  /\ locked[u] # {}
  /\ locked' = [locked EXCEPT ![u] = {}]
  /\ UNCHANGED <<database, rows, cache, tables, stored, server, streamVars, writerVars, callVars,
                 boundVars, historyVars>>

-----------------------------------------------------------------------------
(* CreateStream.  OnCreateStream holds MySQLStorage.mu.                    *)

CallReturns == cpc' = "idle" /\ on' = NoStream

\* A UUID that was never seen; which one does not matter.
GenerateNewStreamUuid == CHOOSE u \in Streams : u \notin used

CreateStream ==
  /\ Up /\ cpc = "idle" /\ used # Streams
  /\ cpc' = "begin" /\ on' = GenerateNewStreamUuid
  /\ used' = used \cup {GenerateNewStreamUuid}
  /\ UNCHANGED <<databaseVars, server, streamVars, writerVars, boundVars, created, doomed>>

CreateBegin ==
  /\ cpc = "begin" /\ HasConnection
  /\ \/ cpc' = "insert" /\ UNCHANGED <<on, faults>>
     \/ Fault /\ CallReturns
  /\ UNCHANGED <<databaseVars, server, streamVars, writerVars, messages, ends, historyVars>>

\* The row, in the transaction only.
CreateInsert ==
  /\ cpc = "insert"
  /\ \/ cpc' = "table" /\ UNCHANGED <<on, faults>>
     \/ Fault /\ CallReturns
  /\ UNCHANGED <<databaseVars, server, streamVars, writerVars, messages, ends, historyVars>>

RowCommitted == rows' = rows \cup {on} /\ cache' = [cache EXCEPT ![on] = NoMessages]
TableCreated == tables' = tables \cup {GetSQLStreamTable(on)}

\* CREATE TABLE first commits the row, which the rollback of a failure cannot undo.
CreateTable ==
  /\ cpc = "table"
  /\ \/ /\ RowCommitted /\ TableCreated
        /\ cpc' = "commit" /\ UNCHANGED <<on, faults>>
     \/ /\ Fault /\ CallReturns
        /\ \/ UNCHANGED <<rows, cache, tables>>
           \/ RowCommitted /\ UNCHANGED tables
           \/ RowCommitted /\ TableCreated
  /\ UNCHANGED <<database, stored, locked, server, streamVars, writerVars, messages, ends,
                 historyVars>>

\* A failure leaves the row and the table, of a stream that the process does not know.
CreateCommit ==
  /\ cpc = "commit"
  /\ \/ /\ catalog' = catalog \cup {on}
        /\ phase' = [phase EXCEPT ![on] = "new"]
        /\ UNCHANGED faults
     \/ Fault /\ UNCHANGED <<catalog, phase>>
  /\ CallReturns
  /\ UNCHANGED <<databaseVars, server, deleting, ingested, readable, buffer, armed, unsaved,
                 writerVars, messages, ends, historyVars>>

\* startStream; the writer has nothing to open.  The creation is acknowledged.
StartStream(u) ==
  /\ phase[u] = "new"
  /\ phase' = [phase EXCEPT ![u] = "running"]
  /\ created' = created \cup {u}
  /\ UNCHANGED <<databaseVars, server, catalog, deleting, ingested, readable, buffer, armed,
                 unsaved, writerVars, callVars, boundVars, used, doomed>>

-----------------------------------------------------------------------------
(* DeleteStream, the shutdown and crashes.                                 *)

DeleteStream(u) ==
  /\ Up /\ phase[u] = "running"
  /\ phase' = [phase EXCEPT ![u] = "closing"]
  /\ deleting' = deleting \cup {u} /\ doomed' = doomed \cup {u}
  /\ UNCHANGED <<databaseVars, server, catalog, ingested, readable, buffer, armed, unsaved,
                 writerVars, callVars, boundVars, used, created>>

\* The row is deleted without a transaction; a failure is fatal to the process.
DeleteRow(u) ==
  /\ u \in deleting /\ phase[u] = "none" /\ cpc = "idle" /\ HasConnection
  /\ \/ /\ catalog' = catalog \ {u} /\ deleting' = deleting \ {u}
        /\ rows' = rows \ {u}
        /\ cpc' = "drop" /\ on' = u
        /\ UNCHANGED <<server, phase, ingested, readable, buffer, armed, unsaved, writerVars,
                       locked, faults>>
     \/ Fault /\ ProcessEnds /\ rows' \in {rows, rows \ {u}}
  /\ UNCHANGED <<database, cache, tables, stored, messages, ends, historyVars>>

\* No table has the name with dashes: DROP TABLE always fails, which is fatal.
DropTable ==
  /\ cpc = "drop" /\ HasConnection /\ DroppedTable(on) \notin tables
  /\ ProcessEnds
  /\ UNCHANGED <<database, rows, cache, tables, stored, boundVars, historyVars>>

\* The shutdown closes every stream; no request is left.
StopServer ==
  /\ Up /\ cpc = "idle" /\ deleting = {} /\ \A u \in Streams : phase[u] # "new"
  /\ ends < MaxEnds
  /\ ends' = ends + 1
  /\ server' = "stopping"
  /\ phase' = [u \in Streams |-> IF phase[u] = "running" THEN "closing" ELSE phase[u]]
  /\ UNCHANGED <<databaseVars, catalog, deleting, ingested, readable, buffer, armed, unsaved,
                 writerVars, callVars, messages, faults, historyVars>>

\* A restart keeps the process: Close of the pool leaves alone the connections of
\* transactions nobody ended.
StopEnds ==
  /\ server = "stopping" /\ \A u \in Streams : phase[u] = "none"
  /\ server' = "down"
  /\ EmptyMemory
  /\ locked' \in {locked, [u \in Streams |-> {}]}
  /\ UNCHANGED <<database, rows, cache, tables, stored, boundVars, historyVars>>

Crash ==
  /\ server # "down" /\ ends < MaxEnds
  /\ ends' = ends + 1
  /\ ProcessEnds
  /\ UNCHANGED <<database, rows, cache, tables, stored, messages, faults, historyVars>>

-----------------------------------------------------------------------------
StartStep == StartServer \/ EnsureSchemaExists \/ EnsureCatalogExists \/ LoadStreams

CreateStep == CreateBegin \/ CreateInsert \/ CreateTable \/ CreateCommit

WriteStep(u) == Begin(u) \/ Insert(u) \/ SaveMetaInfo(u) \/ Commit(u) \/ Announce(u)

Next ==
  \/ StartStep \/ StartFails
  \/ CreateStream \/ CreateStep
  \/ DropTable \/ StopServer \/ StopEnds \/ Crash
  \/ \E u \in Streams :
       \/ Ingest(u) \/ FlushTimer(u) \/ FinalSave(u) \/ WriteStep(u) \/ WaitTimeout(u)
       \/ StartStream(u) \/ DeleteStream(u) \/ DeleteRow(u)

Spec == Init /\ [][Next]_vars

\* Timers fire, and a goroutine that can go on does, also one that waits for a
\* connection and finds one free.
FairSpec ==
  /\ Spec
  /\ WF_vars(CreateStep)
  /\ \A u \in Streams : WF_vars(FlushTimer(u)) /\ WF_vars(WriteStep(u))

-----------------------------------------------------------------------------
Info == [cpt : Nat, first : Nat, last : Nat]

TypeDatabase ==
  /\ database \in {"none", "schema", "catalog"} /\ rows \subseteq Streams
  /\ cache \in [Streams -> Info] /\ tables \subseteq Streams \X {"_"}
  /\ stored \in [Streams -> Seq(Nat)] /\ locked \in [Streams -> SUBSET Nat]

TypeStreams ==
  /\ catalog \subseteq Streams /\ deleting \subseteq Streams
  /\ phase \in [Streams -> {"none", "new", "running", "closing", "final"}]
  /\ ingested \in [Streams -> Info] /\ readable \in [Streams -> Info]
  /\ buffer \in [Streams -> Seq(Nat)] /\ armed \subseteq Streams /\ unsaved \subseteq Streams

TypeWriters ==
  /\ wpc \in [Streams -> {"idle", "begin", "insert", "meta", "commit", "announce"}]
  /\ inserted \in [Streams -> Nat] /\ leaked \in Nat

TypeCalls ==
  /\ cpc \in {"idle", "begin", "insert", "table", "commit", "drop"}
  /\ on \in Streams \cup {NoStream}

TypeBounds == messages \in Nat /\ faults \in Nat /\ ends \in Nat

TypeHistory == used \subseteq Streams /\ created \subseteq Streams /\ doomed \subseteq Streams

(* Types of the database, the process and its calls.                       *)
TypeOK ==
  /\ server \in {"down", "schema", "catalog", "load", "up", "stopping"}
  /\ TypeDatabase /\ TypeStreams /\ TypeWriters /\ TypeCalls /\ TypeBounds /\ TypeHistory

\* The information that describes a table of records.
Describe(s) == [cpt   |-> Len(s),
                first |-> IF s = <<>> THEN 0 ELSE s[1],
                last  |-> IF s = <<>> THEN 0 ELSE Last(s)]

(* The identifiers in a table follow each other from 1 without a gap, and  *)
(* the row of the stream in the catalog, from which a start takes the      *)
(* identifier of the next message, describes them at every moment: through *)
(* failed statements, commits in doubt, their retries with the same        *)
(* buffer, and crashes.                                                    *)
RowDescribesTable ==
  /\ \A u \in Streams : \A i \in 1..Len(stored[u]) : stored[u][i] = i
  /\ \A u \in rows : cache[u] = Describe(stored[u])

(* streamwriter.go:161: "update is done after the transaction commit to    *)
(* ensure that the data is really written": what the process says is       *)
(* readable describes records that are committed, never more.              *)
ReadableIsCommitted ==
  \A u \in Streams : phase[u] # "none" =>
    /\ readable[u].cpt <= Len(stored[u])
    /\ readable[u] = Describe(SubSeq(stored[u], 1, readable[u].cpt))

(* As long as a stream runs, every message it accepted is in its table or  *)
(* still in its buffer, to be written by a later Save, whatever Save       *)
(* failed before and at whichever step.                                    *)
AcceptedIsKept ==
  \A u \in Streams : phase[u] \in {"running", "closing", "final"} =>
    \A id \in 1..ingested[u].last :
      \/ \E i \in 1..Len(stored[u]) : stored[u][i] = id
      \/ \E i \in 1..Len(buffer[u]) : buffer[u][i] = id

(* A stream whose creation was acknowledged and whose deletion did not     *)
(* begin keeps its row and its table, so that the next start finds it;     *)
(* a creation that failed may leave a row without a table.                 *)
CreatedSurvives ==
  \A u \in created \ doomed : u \in rows /\ GetSQLStreamTable(u) \in tables

\* Transactions left open by a failed UPDATE hold every connection.
PoolExhausted == MaxOpenConns > 0 /\ leaked >= MaxOpenConns

(* Buffered messages are saved, by the flush timer if nothing else, unless *)
(* Save fails, the stream ends first, or transactions left open by failed  *)
(* updates of the catalog hold all connections: in particular streams that *)
(* wait for the connections of others, and of the creation of a stream,    *)
(* always get one.                                                         *)
BufferIsSaved ==
  \A u \in Streams :
    buffer[u] # <<>> ~> buffer[u] = <<>> \/ u \in unsaved \/ phase[u] = "none" \/ PoolExhausted
=============================================================================
