# A TLA+ development of ministream

ministream is a server of message streams over HTTP.  A stream is an append-only
sequence of JSON records.  Producers put records, a goroutine per stream saves them
through a storage provider (JSON files, memory, MySQL), and consumers read them through
iterators.  The modules of this directory model the write path, recovery, the index and the
read path of a stream, the transactions of the MySQL provider, the service, its catalog and the
server around them, and who may call it.  TLC checks them on small instances; TLAPS proves every
safety property of the passing runs, and the refinement of the abstract log, for every value of
the constants.  Liveness is model-checked only.

All paths below are relative to the repository.

## 1. Inventory

| Component | State | Operations | What makes it correct |
|---|---|---|---|
| Stream write path (`stream/stream.go`, `buffering/streamingestbuffer.go`) | state of the stream, `done`, mutex `muIncMsgId`, `info.IngestedMessages`, the channel, `msgBuffer`, the flush timer | Start, PutMessage(s), Run, Save, Close | identifiers given once and in order; no message lost, duplicated or overtaken between assignment and storage; acknowledged messages get stored; requests and Close return |
| File writer (`jsonfileprovider/streamwriter.go`) | `data.jsonl`, the index file, `stream.json`, `info.ReadableMessages` | Write, SaveFileMetaInfo | the info describes the data at every step; the saved info is never ahead of the data |
| In-memory writer (`inmemoryprovider/streamwriter.go`, `inmemorystream.go`) | the slice of records, its limit | Write, AddRecord | each record once; a limit met in a batch loses nothing |
| Recovery (`jsonfileprovider/streamcatalogfile.go`, `types/streaminfo.go`) | what is in the files at the end of a process | LoadStreamFromUUID, crash, restart | identifiers go on increasing; what is announced is there |
| Index file (`jsonfileprovider/streamindexfile.go`) | rows by rank | rows appended by Write, BuildIndex, GetOffset... | a row locates its message |
| Searches (`streamindexfile.go`, `inmemorystream.go`) | low, high and median ranks | search by identifier, by date | right, complete, ends, in range |
| Iterators (`stream/streamiterator.go`, the three iterator handlers) | request, filter, busy flag, place in the file, the slice or the table, `bufio.Reader`, page of rows | GetRecords, Seek, GetNextRecord, SaveSeek, Close | each record once and in order; bounds of a response; every request ends |
| Service (`service/service.go`) | map of streams, limits | CreateStream, DeleteStream, CreateRecordsIterator, Init, Stop | limits kept, no partial creation or deletion |
| Catalogs (`streamcatalogfile.go`, `streamcataloginmemory.go`) | the streams of a provider, the catalog file | LoadStreamCatalog, SaveStreamCatalog, OnCreateStream, OnDeleteStream | the catalog file names what is on disk |
| Request deduplicator (`web/requestdeduplicator .go`, `web/apistream.go`) | identifiers of batches with their time of expiry | Exists, Add, Remove, cleanup, Stop | a retried batch is stored once |
| MySQL provider (`mysqlprovider/`) | catalog table, a table per stream, pool of connections, transactions | start, OnCreateStream, Write, OnDeleteStream, Stop, pages of an iterator | the catalog row describes the table; a failed or doubtful transaction loses and repeats nothing; waiting for a connection ends |
| Server lifecycle (`web/webapiserver.go`, `web/webserver/webserver.go`, `cmd/ministream/ministream.go`) | phase, channel of signals | shutdown, restart, HandleSignals, RunServer | a server that is told to stop or restart does |
| Access (`web/jwt.go`, `rbac/`, `web/apiuser.go`, `web/apiaccount.go`) | signing key, date of the last revocation, roles and rules, tokens of clients | logins, JWTPostValidate, RBAC handler, RevokeAll, restart | a request is let in, forbidden or refused for reasons of the running configuration; revoked and obsolete tokens do not pass |
| Passwords, configuration, logs, rate limiter | | | not modelled, see 8 |

How they interact: an HTTP handler calls the service, which finds the stream; PutMessage(s)
sends to the channel that Run receives from; Run calls the StreamWriter of the provider, which
appends to the files that iterators read with handles of their own; Close tells Run to stop
through the channel `done` and waits for it; the rebuild of the index closes the iterators and
rewrites the index file while the writer appends to it; a new process starts from what
`stream.json` says.

Hard to get right: a client blocked on a full channel holds the mutex; Run chooses between
done, channel and timer at random; a Write fails in the middle of a batch; the process ends
between two writes; the writer, the rebuilds and the readers share files without a common
lock; an iterator is closed while a request is waiting; a commit fails after it was done; CREATE
TABLE commits a transaction that is rolled back later; a transaction that nobody ends keeps its
connection.  `PROJECT.json` lists these hazards at
their lines, with the properties that watch them.

## 2. Modules

| Module | Models |
|---|---|
| `StreamLog` | what a stream promises: an abstract log with acknowledgements |
| `StreamIngest` | write path with both writers; refines `StreamLog` |
| `StreamRecovery` | extends `StreamIngest` with restarts, crashes and torn lines |
| `StreamIngestProofs` | theorems about `StreamIngest` and `StreamRecovery` |
| `IndexSearch` | the dichotomy of both providers, one step per iteration |
| `IndexSearchProofs` | theorems about `IndexSearch` |
| `StreamIndexFile` | words of the index file, writer, BuildIndex and searches; instantiates `IndexSearch` on the rows decoded |
| `StreamIndexFileProofs` | theorems about `StreamIndexFile`; instantiates `IndexSearchProofs` on the rows decoded |
| `StreamIterator` | GetRecords, the three handlers, the writer and Close around one iterator |
| `StreamService` | service, catalog of the file provider and its file, states and iterators of the streams, starts, stops, crashes |
| `WebServer` | deduplication of batches in the put handlers, shutdown and restart requests, signals, lives of the server |
| `MySQLProvider` | streams over MySQL: start, catalog table, transactions, connections, failures, deletions, crashes |
| `AccessControl` | tokens, roles and rules, revocation, restarts with another configuration |
| `StreamIteratorProofs`, `StreamServiceProofs`, `WebServerProofs`, `MySQLProviderProofs`, `AccessControlProofs` | theorems about the module of that name |
| `MC...` | instances for TLC: symmetry sets, the set of small indexes |

### StreamIngest

A message is its identifier; dates, sizes and payload do not influence the control.  `pc`,
`left` and `got` say where each client is in PutMessage(s): the test of the state, the mutex,
one identifier, one send, the return.  PutMessage is a request of one record.  `run` is the
place of the goroutine Run: in the select, or in Save (`save`), between two records (`record`),
or between the line of the data file and the row of the index (`index`).  `after` is the branch
of the select that called Save, which decides what happens to the timer.  `cpc` is the place of
each caller of Close, whose test of the state and whose close of the channel are separate steps.
A panic ends the process: no action is enabled afterwards.

Write stores one record per step because a consumer and a crash can come between two records.  A
failed write ends Write at once, keeps the buffer, and is bounded by `MaxFaults`.  It writes
nothing here; lines written in part are in `StreamRecovery`.  `SaveFileMetaInfo` reads
`IngestedMessages` without the mutex: `CptRead` is the set of counts the read can give.

### StreamRecovery

`Live` is a step of `StreamIngest` together with its effect on the last line of the data file:
`fragment` says that the file ends with a line without end, `garbled` has the ranks of the lines
that continue such a fragment.  `Restart` follows a completed Close, `Crash` comes between any two
steps.  Both load the info from the meta info file as LoadStreamFromUUID does.  A crash is that of
the process: what the operating system accepted is kept, and a loss of power is not modelled.

### IndexSearch and StreamIndexFile

`IndexSearch` keeps the 0-based ranks of the code.  `FinalRank` is the one difference between the
two copies of the algorithm.  An empty index is the outcome `panic` in the file provider, where
getOffsetAt returns no row and no error and its caller reads the row.

`StreamIndexFile` models the file in words of 4 bytes, little endian, because the writer appends
rows of 5 words and BuildIndex and the readers use rows of 8.  BuildIndex truncates and then writes
at its own position, the writer appends.  Every request to rebuild makes a `StreamIndexFile` with a mutex
of its own, so that calls of BuildIndex overlap: `build`, `line` and `offset` are functions of the call,
numbered in the order of the truncations.  A call whose file was truncated by a later one goes on where
it was, and what lies before its next row is a hole of zeros (`WrittenAt`) until the later call comes
there.  A line of the data file keeps its place, the size of the
file when it was appended, so that the offset that BuildIndex adds up line by line can be compared
with it.  A search is `IndexSearch` on the column decoded from the file as it is at each read.

### StreamIterator

Records are 1, 2, ....  A line of the data file is two halves, so that a reader may see the first
without the second.  `opos` is the position of the open file, `buf` what the `bufio.Reader` holds
of it, `saved` the offset kept by SaveSeek; Seek moves the file and leaves the `bufio.Reader` as it
is.  `request` is the type of the iterator until it is closed and `nil` afterwards, as the field of
the code; `dropped` is a history variable for a line that was given up at the end of the file.
`start` is the place the first Seek found.  What was delivered is compared with `Ids`, the set of the
identifiers of a sequence, and `Increasing`, its order.  Close of an iterator is one step.  The places of
AT_MESSAGE_ID, AFTER_MESSAGE_ID and AT_TIMESTAMP are in `IndexSearch`; the file provider's index is
taken as up to date.  With MySQL, `buf` is the page of rows, `opos` the place in it and `next` the
rows before the next page; a row can be read (it is committed) before the writer counts it as
readable, which is what Seek looks at.  Searches in MySQL always fail: `GetFullTableName` keeps the
dashes of the UUID, which the names of the tables do not have (AT_MESSAGE_ID stands for the three).

### StreamService

A stream is its UUID and its state; its records are in `StreamIngest`.  `pc` says where each HTTP
request is in CreateStream (limit, directory, catalog, stream.json created and written, map, Start),
in DeleteStream (state, channel done, wait, RemoveAll, catalog, map), in SaveStreamCatalog (list,
truncated file, written file) or in CreateRecordsIterator.  What a new process finds is `dirs`, `meta`
(stream.json), `file` and `saved` (streams.json).  A failed call of the operating system returns an
error and undoes nothing, as in the code; a failed save of the catalog is fatal, which is a crash at
that place.  The deadlock of GetStreamsUUIDsFiltered is `mapMutex` held for ever, the double close
of `done` ends the process.  `older`, `overtaken` and `reordered` are history variables that tell when
a list was saved over a later one.

### MySQLProvider

The database outlives the process: `rows` and `cache` are the catalog table, `tables` and `stored` the
tables of records.  `wpc` is the place of each stream in Write (Begin, INSERT, the UPDATE of the
catalog row, Commit, and the update of `ReadableMessages` after it), `cpc` that of the one creation or
deletion that holds the mutex of the provider.  A transaction needs one of `MaxOpenConns` connections
until it ends.  What fails is a choice at every statement, bounded by `MaxFaults`: an INSERT that fails
is rolled back; an UPDATE that fails is not, so that its connection is `leaked` and, unless the server
noticed, its rows are `locked`; a commit that fails may have been done; CREATE TABLE commits the
row whatever happens next; a list of streams that is cut short is taken for complete.  Deleting a
stream always ends the process: `DROP TABLE` names a table with dashes, and its failure is fatal.
The way of a message from the client to the buffer is in `StreamIngest` and is one step here.

### AccessControl

Time is in seconds, as the claims.  A token keeps its holder, the names of its roles, iat, exp, the key
that signed it and the start that issued it.  A request is validated (signature, expiry, revocation,
known roles) and then passes the RBAC handler, as two steps between which another request may revoke
all tokens.  A rule allows an action, and for a list of streams gives a filter of the set `Filters`,
that of the first role and rule of the token that decides.  The operator chooses a configuration at each start: JWT, RBAC, a configured key, users,
roles, rules and a date before which tokens are revoked.  JWTRevokeAll replaces this date until the next
start.  That a password or an API key is right is an input.

### WebServer

`processed` is processedIDs with the age of each identifier.  A put tests (Exists), adds, tests the body
and the state of the stream (`PutTested`, `PutError`), and then sends on the channel of the stream, which
may be full; a failed PutRecords removes the identifier, a failed PutRecord does not.  A batch takes one
place of the channel; the steps of PutMessage(s) themselves are in `StreamIngest`.  Another request may
delete the stream at any step: it stops (`StreamStops`), Run receives until it takes `done` (`RunEnds`), and
what is in the channel then stays there.  Shutdown and
restart stop the manager (close, wait for its goroutine, clear) and send a signal to the channel of
one place that HandleSignals receives once per life.  Shutdown of the listener (fiber) is external: no
new request, and a wait for those in progress.

## 3. Passing runs

| Run | Shows |
|---|---|
| `ingest_file` | two clients, three requests of up to two records, deferred saves, one failed write, one Close: the order and the completeness of what is in flight (`InFlightContiguous`, `NothingLost`), the saved info (`MetaNeverAhead`), the identifiers returned (`DistinctIds`), `CloseFlushesBuffer`, and the refinement of `StreamLog` |
| `ingest_memory` | in-memory provider, limit of three records met inside a batch, one Close, under fairness: `StoredOnce`, which the limit could break, and `PutReturns`, `AcknowledgedEventuallyStored`, `CloseReturns` |
| `recovery` | three messages, a failed or partial write, an orderly restart, a crash: `DamageBounded`, `AnnouncedIsStored`, and for what is stored over lives that ended in order `IncreasingAfterOrderlyStops` |
| `search` | every non-decreasing index of up to 6 rows with values 1..6, every target from 0 to 7: right, complete, ends |
| `index_rebuild` | three records of two lengths and dates 0..1, two calls of BuildIndex that may overlap, searches at any time: `RebuiltIndexDescribesData`, `SeekAfterRebuild` |
| `iterator` | three providers, the types of iterators without a key and one that MySQL refuses, two failed queries or pages cut short, five records, a filter that drops one, responses of two records, long polling of two seconds, torn lines, Close at any step: `DeliveredExactly`, `DeliveredInOrder`, `GetReturns`, `EveryRecordDelivered` |
| `service` | two concurrent requests among creations, deletions, iterators and filtered lists (four in all), three streams, a limit of one, a failed call, a shutdown, a crash at any step: `RunningHasFiles`, `DeletedNeverReturns`, `QuiescentAgree`, `LimitsKept`, `CreatedIsCatalogued`, `OrderlyStopCanStart`, `RequestReturns` |
| `webserver` | two concurrent requests (three in all) that put a good or a bad batch, shut down or restart, a stream with a channel of one place that is closed at any step, identifiers that expire, signals: `StoredAtMostOnce`, `SeenHasReason`, `DrainingEnds` |
| `mysql` | two streams and one connection, three messages, a buffer of two, two failures, a shutdown or a crash at any step: `RowDescribesTable`, `ReadableIsCommitted`, `AcceptedIsKept`, `CreatedSurvives`, `BufferIsSaved` |
| `access` | two concurrent requests, tokens of the account and of two users, two starts under configurations that differ in roles, rules, key, date of revocation and what is enabled: `AccessByRoles`, `ObsoleteIsRefused` |

Deadlock is not checked: every instance is bounded and stops when its bounds are used up, and a
process that panicked stops.  That nobody waits for ever is what `PutReturns`, `CloseReturns`,
`GetReturns`, `SearchEnds`, `RequestReturns`, `DrainingEnds` and `BufferIsSaved` say.

### Why the bounds are enough

* Ingest: the channel has one place and the buffer two, so that a batch of two fills the channel
  with the mutex held, the buffer fills and overflows into the next save, and a third request
  meets a stream that is closing.  Two clients are needed for the mutex, and identifiers do not
  depend on which.
* `MaxFaults` = 1 allows the failure at every write of a batch and the retry of what was stored
  already; the theorems cover any number.
* Recovery: a restart before or after the crash, each with the next life writing again.
* Search: 6 rows give loops of up to three iterations, odd and even lengths, equal keys at both
  ends; the theorems cover any length.
* Index file: three records give at least two rows that the writer's 20 bytes and the reader's 32
  bytes cut at different places; two calls give a rebuild over a file that has been rebuilt, and one that truncates under the other; two
  dates give equal and different ones.
  `WordBase` only has to exceed the values stored.
* Iterator: read ahead of three halves leaves half a line in the `bufio.Reader` at the end of a
  request, two records per response and five records give three requests; a page of three rows
  ends inside the second.
* Service: two requests are enough for every race between two steps; with a limit of one stream,
  three streams are needed to exceed it by more than the requests in progress, and four requests to
  create, race, delete and create again around a restart.  UUIDs are taken in a fixed order: which one
  a stream gets does not matter.
* Web server: a batch, its retry and a request to restart; the bad batch fails at its body, the good
  one when the stream is closed under it.  A channel of one place is filled by one batch, and the next
  one waits.
* MySQL: one connection makes two streams and a creation wait for each other; two failures give a
  failed retry, or a commit in doubt whose retry is refused because the rows are there; three
  messages and a buffer of two give a full and a partly filled buffer; one end is enough since
  the failed deletion and the failed start give more.
* Access: two tokens, one from before and one from after a revocation or a restart; four seconds
  and a lifetime of three let a token expire, be revoked in its own second, and in a later one.

## 4. Runs that find a disagreement

Each checks what a comment of the repository says, and TLC finds a behaviour of the code that does
otherwise.  `PROJECT.json` quotes the lines under `findings`.

| Run | Behaviour |
|---|---|
| `close_loses_acked` | Close stops Run, which saves `msgBuffer` and not the channel: an acknowledged message in the channel is never saved |
| `iterator_busy` | the busy flag is loaded and stored in two steps: two requests read through one handler |

Two more can be seen by changing a configuration.  With `Provider = "InMemory"`, `search.cfg` finds
`NotFoundIsAbsent` violated: the in-memory search tests the last median instead of the low rank
(`inmemorystream.go:132`), and in a stream of two records the second is not found.  With
`WrittenMessageIsLast` as the invariant and `MaxBuilds = 0`, `index_rebuild.cfg` shows that the rows
Write appends (20 bytes, `streamwriter.go:230`) are not the rows the readers decode (32 bytes,
`streamindexfile.go:47`): until a rebuild the last row is not that of the last message.

In the MySQL provider: the deletion of a stream ends the process (`DropTable`) and leaves its
table; a failed UPDATE of the catalog row leaks a connection, and with all of them leaked no stream is
saved any more (the exception of `BufferIsSaved`); after a commit in doubt that was done, every retry
is refused by the primary key and the buffer grows until a restart; a failed creation may leave a row,
with or without a table, that the next start loads as a running stream; the searches by identifier and
by date always fail (`SearchFails`); a failed Scan in the middle of a page makes the handler give up rows
(the exception `dropped` of `DeliveredExactly`).

Of ABAC, `config-templates/secured-*/data/secrets/README.md:15` says that it is "a deeper restriction access
mecanism based on stream properties filtering", and `rule_demo` of the `rbac.json` beside it puts a filter on
PutRecords, GetRecords and other actions on one stream.  The code grants these actions whatever the
filter says: CheckRBAC authorizes when `ABACGetPropertiesHandler` is nil (`rbac/rbachandler.go:145`), and
every route of `web/webapiserver.go` passes nil.  Only the filter on lists of streams has an effect.
`RBACProtected` does as the code, and `AccessByRoles` claims nothing else.

Requests that keep the listener from shutting down, so that a server told to stop does not: one that
waits to send a second signal, and a put that tested the state before the stream was closed and waits
on its full channel (the two exceptions of `DrainingEnds`; TLC reaches each).  A filtered list
(`RequestReturns`) and a save that waits for an exhausted pool (`BufferIsSaved`) belong to other modules
and have the same effect on the listener, or on the Stop of the service after it.

Other behaviours the models have, which the passing properties state as their exceptions: identifiers
given again after a crash between the append to the data file and the save of `stream.json`
(`IncreasingAfterOrderlyStops`, which is about what is stored; an identifier is also given and
acknowledged again after an orderly stop, when its message was left in the channel and the buffer was
empty, so that Close saved no `stream.json`), a rebuild of the index that was answered as done while
another call truncated the file under it (`RebuiltIndexDescribesData` speaks of the call that truncated
last), tokens of the second of a revocation that stay valid and a revocation that a restart forgets
(`ObsoleteIsRefused`), a token refused for one role the configuration no longer has although another
of its roles has the action (`AccessByRoles`), a torn line that the retry continues and that cannot be decoded
(`DamageBounded`), a catalog file that no start can load after a crash in the middle of its save or of
a deletion (`OrderlyStopCanStart`), a created stream that an older list takes out of the catalog file
(`CreatedIsCatalogued`), every request blocked by a filtered list (`RequestReturns`), a batch stored
twice by requests that overlap between Exists and Add (`StoredAtMostOnce`), a failed PutRecord whose
retry is refused (`SeenHasReason`), records
stored again after a failed write (`StoredOnce`), a buffer that waits for the next message after a
failed flush (`AcknowledgedEventuallyStored`), a put request blocked by the full channel of a closed
stream (`PutReturns`), the panic of a second concurrent Close (`CloseDone`), of a request that waits
on an iterator that is closed (`GetReturns`) and of a search in an empty index file (`EmptyOutcome`),
a line read before its end was written and lost to the consumer (`EveryRecordDelivered`), and
LAST_MESSAGE and AFTER_LAST_MESSAGE of the in-memory provider, which start one record later than
those of the file provider (`PlaceInMemory`).

## 5. Fairness

* `StreamIngest.FairSpec`: a goroutine that can step is scheduled (weak fairness of each).  No
  client is obliged to make a request and nobody to call Close.  `sync.Mutex` hands the lock to a
  waiter that starves (strong fairness of PutLock).  A Go select picks at random among the ready
  branches, so that a branch that is ready again and again is taken (strong fairness of RunReceive,
  RunFlush and RunDone).  An armed timer fires.
* `IndexSearch.FairSearchSpec`: a call that began goes on.
* `StreamIterator.FairSpec`: a request that began goes on and the writer completes its line.
  `PollingSpec` adds a consumer that keeps asking: this is an assumption about the client, and only
  `EveryRecordDelivered` needs it.
* `StreamService.FairSpec`: a request that can go on is scheduled.  Nobody is obliged to make one, and
  nothing obliges the process to start or stop.
* `WebServer.FairSpec`: the same for requests, Run, the goroutine of the deduplicator and HandleSignals; that
  expired identifiers are cleaned up in time is not assumed.

* `MySQLProvider.FairSpec`: timers fire, and a stream or a creation that can go on does, also one that
  waits for a connection and finds one free: `database/sql` serves the waiting in their order.  A
  lost connection or an ended server gives a failed statement and not a wait for ever.

## 6. Proofs

Every theorem is about a `Spec` as it is model-checked, for all values of its constants, from the
named `ASSUME` of the module and, for two theorems about iterators, a hypothesis they state: any number of clients, requests, streams and batches
(finitely many where they are counted), any limits, sizes and bounds, any number of failures,
crashes and starts where the module has them.  Each proof has the same shape: an inductive invariant, made of
named parts of which each is inductive relative to those before it, one lemma per action or group of
actions, and the property as a consequence.  What the invariants add to the properties is why the
code is right, and is what follows.

### Write path and recovery (`StreamIngestProofs`)

From `ConstantsAssumption`: either provider, a channel of at least one place, everything else
arbitrary.  `RecoverySpec` is about the file provider, as its initial states say.

| Theorem | Statement |
|---|---|
| `TypesHold` | `Spec => []TypeOK` |
| `InFlightOrder` | `Spec => []InFlightContiguous` |
| `NoGap` | `Spec => []StoredWithoutGap` |
| `NoLoss` | `Spec => []NothingLost` |
| `MetaIsSafe` | `Spec => []MetaNeverAhead` |
| `CloseFlushes` | `Spec => []CloseFlushesBuffer` |
| `ExactlyOnceStorage` | `Spec => []StoredOnce` |
| `IdentifiersDistinct` | `Spec => []DistinctIds` |
| `Refinement` | `Spec => ImplementsStreamLog` |
| `LivesCorrect` | `RecoverySpec => []LifeInv` |
| `AnnouncedCorrect` | `RecoverySpec => []AnnouncedIsStored` |
| `OrderlyStopsKeepOrder` | `RecoverySpec => []IncreasingAfterOrderlyStops` |
| `DamageIsBounded` | `RecoverySpec => []DamageBounded` |

`TypeInv` adds to the types where a Put or a Write stands.  `MutexInv`: between PutLock and PutEnd a
client holds the mutex, so at most one message is being sent and it is `ingested.last`.  `FlowInv`: the
buffer, the channel and the message being sent are consecutive and end at `ingested.last`; it needs
the mutex for the send and the order of the channel for the receive.  `WriteInv` ties the rank
reached by Write to the buffer.  `StoreInv` relates the last record stored to the buffer: a Write in
progress continues at, and a retried Write starts at or before, what was stored; from this and
`FlowInv` follow that no identifier is skipped and none is lost.  `CountedInv`, that the count of
ingested messages covers what is in flight, and `MetaInv`, that the readable messages are those in the
data, give the saved info, whose count of ingested messages is read without the mutex.  `ClosedInv`:
Run that has left its loop has saved, and a caller of Close returns after that.  Exactly once needs one invariant more, that without failed writes (or in memory,
where the limit error stores nothing and lasts) what is stored is exactly what was cleared plus the
records the Write in progress has processed.  The refinement maps `accepted` to `ingested.last` and
`log` to `data`; PutAlloc is Accept, PutEnd is Acknowledge, StoreRecord is Store, and everything else
leaves the three unchanged.

Recovery reuses these lemmas: `LifeInv` says that the state a process loads is one in which the
invariants of a life hold, although the data may then be ahead of the counters.  `OrderInv`, with no
crash and no failed write, says that the next record to store comes after the last one, and outside a
Write so does the numbering that the next life would take from `stream.json`.  `DamageInv` is
`DamageBounded`, which counts a fragment at the end of the file with the lines that continue one, and
the finiteness of what it counts.

### Searches and index file (`IndexSearchProofs`, `StreamIndexFileProofs`)

From `SearchAssumption` (any set of non-decreasing integer sequences) and `IndexAssumption`:

| Theorem | Statement |
|---|---|
| `SearchInRange` | `SearchSpec => [](SearchTypeOK /\ NothingDiscarded)` |
| `SearchSound` | `SearchSpec => []FoundIsRight`, both providers |
| `SearchComplete` | with the file provider, `SearchSpec => []NotFoundIsAbsent` |
| `RebuiltIsExact` | `Spec => []RebuiltIndexDescribesData` |
| `RebuiltSeekIsRight` | `Spec => []SeekAfterRebuild` |

The invariant `SearchInv` is the loop invariant (rows below `low` are too small, rows above `high`
and `high` itself, unless it is the last rank, too large) with the place of the last median, which
the in-memory copy reads after the loop: this is why that copy is sound although it is not complete.

In `StreamIndexFile`, `LinesInv` has the places and the order of the lines, `CallsInv` the progress of each
call of BuildIndex: which have begun, the line each has reached, and the offset that goes with it.
`FileInv` describes the file while the writer is silent, however many calls overlap: the call that
truncated last has written, or found written, every row up to its own line, and beyond it a row is that
of its line or zeros, word by word, because every call writes the same words at the same place and none
is beyond the end of the data file.  getRowAtIndexPos decodes them to the lines (`RowDecoded`, `HoleDecoded`).
When that call has ended there is no hole left, and what the others still write changes nothing.  A search that began then reads a sorted column to its end, so that `SearchInv` holds of
it: the lemmas of `IndexSearchProofs` are instantiated on the decoded column, with their assumption
proved for it.

### Iterators (`StreamIteratorProofs`)

| Theorem | Statement |
|---|---|
| `TypeCorrect` | `Spec => []TypeOK`, any number of requests at once |
| `DeliveryCorrect` | `Spec /\ []OneReaderAtATime => []DeliveryInv` |
| `InOrder` | `Spec /\ []OneReaderAtATime => []DeliveredInOrder` |
| `EveryRecordOnce` | with a single consumer, `Spec => []DeliveredExactly` |

The hypothesis `OneReaderAtATime` is what the busy flag is there for and does not give (run
`iterator_busy`): two requests that read through one handler do repeat and lose records.  It holds of
every execution in which requests do not overlap between the load and the store of the flag; the last
theorem has it from a single consumer.  `HandlerInv` describes the handler of each provider: the halves
of lines that the `bufio.Reader` and the open file hold, or the rows of the page, continue each other
without a gap, the next one is at the place reached, and a line ends with its second half.  `Consumed`,
the records read through the handler, grows by one with each record, whichever provider; `SaveSeek`
keeps between requests the place where it stands.  `ResponseInv` and `OutInv`: what was delivered
together with the response in progress is exactly what was consumed and passes the filter.

### Service (`StreamServiceProofs`)

| Theorem | Statement |
|---|---|
| `ServiceTypes` | `Spec => []Base` |
| `RunningIsBacked` | `Spec => []RunningHasFiles` |
| `RemovedStaysRemoved` | `Spec => []DeletedNeverReturns` |
| `IdleServiceAgrees` | `Spec => []QuiescentAgree` |
| `AcknowledgedIsSaved` | `Spec => []CreatedIsCatalogued` |
| `ShutdownIsReloadable` | `Spec => []OrderlyStopCanStart` |
| `LimitsAreKept` | `Spec => []LimitsKept` |

`FilesInv`: each stream has one creator and one owner at a time, what is on disk says how far its
creation came, and a running stream has its files.  `AgreeInv`: every difference between map, catalog and
running streams is the work of a request that is at a known place.  `CatalogInv` follows each list of
streams from where it was read to the file: a list holds every created stream unless another list was
taken after it and saved before it (`older`, `overtaken`, `reordered`).  `LoadInv`: without crashes, failed
calls and reordered lists, the catalog, the lists on their way and the file name only streams whose
files can be loaded.  `StreamsLimitInv` and `IteratorsLimitInv` count with the streams and iterators the
requests that passed the test and have not added theirs.

### Web server (`WebServerProofs`)

| Theorem | Statement |
|---|---|
| `NoDuplicate` | `Spec => []StoredAtMostOnce` |
| `SeenIsJustified` | `Spec => []SeenHasReason` |

`DedupInv`, for a batch that was neither raced nor forgotten: one request at most is past Exists with
it, its identifier is kept as long as that request puts, and after a put the identifier is there and
nobody is past Exists.  Between the test of the state and the send (pc "sending") nothing is left but the
send, so that a request that waits there counts as one that puts.

### MySQL provider (`MySQLProviderProofs`)

| Theorem | Statement |
|---|---|
| `TypeCorrect` | `Spec => []TypeInv` |
| `RowIsTrue` | `Spec => []RowDescribesTable` |
| `ReadableIsTrue` | `Spec => []ReadableIsCommitted` |
| `NothingAcceptedIsLost` | `Spec => []AcceptedIsKept` |
| `CreatedIsKept` | `Spec => []CreatedSurvives` |

`StreamInv`: the table and the buffer are consecutive identifiers that may overlap and leave no gap.  A
table that ends inside the buffer comes from a commit in doubt that was done; then the first INSERT
of every retry is refused, so that a transaction that inserted something starts where the table ends
(`Consistent`).  `FreshInv`: a UUID that nobody used has no trace, but for the row that a creation in
progress has committed by CREATE TABLE.  `SurvivesInv`: a created stream keeps row and table until it is
doomed, and a row goes only with a deletion that has begun.

### Access (`AccessControlProofs`)

| Theorem | Statement |
|---|---|
| `AccessFollowsRoles` | `Spec => []AccessByRoles` |
| `ObsoleteNeverPasses` | `Spec => []ObsoleteIsRefused` |

`ServerInv` ties the signing key to the configuration and the start, `TokenInv` a token to the start that
issued it and a revoked one to the date of the revocation, `RequestInv` a request that was validated to a
token whose roles are configured; that a restart lets no request of the life before go on closes the
argument.  `FirstRule`: the two loops over roles and rules stop at the least pair that decides.

## 7. Only model-checked

* Liveness under fairness (`PutReturns`, `AcknowledgedEventuallyStored`, `CloseReturns`, `SearchEnds`,
  `GetReturns`, `EveryRecordDelivered`, `RequestReturns`, `DrainingEnds`, `BufferIsSaved`): temporal
  reasoning with fairness needs ENABLED, which TLAPS does not handle.
* Properties of data computed by recursion would need induction over data; the modules avoid it: a
  line keeps its place instead of a sum of lengths, and the records of a consumer are compared as sets
  and orders, not as a filtered sequence.
* `OneReaderAtATime` is a hypothesis of the theorems about iterators, and `iterator` checks them with one
  consumer.  The invariants of `StreamIteratorProofs` also hold in TLC with two consumers whose
  requests do not overlap.

## 8. Not modelled

* The catalog of the in-memory provider: two maps without files and failures, a special case of what
  `StreamService` does for the file provider.
* Passwords and the methods of authentication (computation over a table read at the start), the rate
  limiter (a middleware of the web framework), the registry of providers, configuration, logging,
  audit log and account (input and output).
* The rules of ABAC on single streams: no route gives the RBAC handler the properties they need, so
  that only the filter on lists of streams is reached.
* In the modelled parts: failures of opening and closing files, lines that BuildIndex cannot decode,
  `LastRecordIdRead` of an iterator, the error values of a filter, the changes of the properties of a
  stream; BuildIndex of the MySQL provider, which reads a table that does not exist and fails.

## 9. Plan

1. Done: write path, recovery, search, index file, iterators of the three providers, MySQL provider,
   service and catalog of the file provider, deduplication and server lifecycle, access; proofs of
   every safety property of the passing runs and of the refinement of `StreamLog`.
2. `StreamRecovery` as an implementation of an abstract log that survives crashes, by a refinement of
   its own.
3. Properties of a stream (SetProperties, UpdateProperties), kept in memory and saved with the next
   Write.
4. Composition: the clients of `WebServer` over `StreamLog` instead of a count of puts, to state and
   prove exactly-once storage from the request to the log.
