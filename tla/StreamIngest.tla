---------------------------- MODULE StreamIngest ----------------------------
(***************************************************************************)
(* The write path of one stream: clients calling Stream.PutMessage and     *)
(* Stream.PutMessages, the bounded Go channel of the ingest buffer, the    *)
(* goroutine Stream.Run that moves messages from the channel to the buffer *)
(* and saves the buffer through the storage provider's StreamWriter, and   *)
(* the callers of Stream.Close (DeleteStream and the shutdown of the       *)
(* service).  Sources: stream/stream.go, buffering/streamingestbuffer.go,  *)
(* the StreamWriter of jsonfileprovider and of inmemoryprovider.           *)
(*                                                                         *)
(* A message is its identifier.  What follows the assignment of the        *)
(* identifier (timestamps, sizes, payload) does not influence the control. *)
(***************************************************************************)
EXTENDS Integers, Sequences, FiniteSets

CONSTANTS
  Clients,            \* callers of PutMessage / PutMessages
  Closers,            \* callers of Stream.Close
  Free,               \* the mutex muIncMsgId is not held
  Provider,           \* "JSONFile" or "InMemory"
  Deferred,           \* bulkFlushFrequency > 0
  BulkMaxSize,        \* streams.bulkMaxSize
  ChannelBufferSize,  \* streams.channelBufferSize
  MaxRecordsByStream, \* in-memory limit; 0 means unlimited
  MaxBatch,           \* bound: records in one PutMessages
  MaxRequests,        \* bound: put requests in a behaviour
  MaxFaults           \* bound: failed writes of the operating system

ASSUME ConstantsAssumption ==
  /\ Free \notin Clients
  /\ Provider \in {"JSONFile", "InMemory"}
  /\ Deferred \in BOOLEAN
  /\ BulkMaxSize \in Nat
  /\ ChannelBufferSize \in Nat \ {0}
  /\ MaxRecordsByStream \in Nat
  /\ MaxBatch \in Nat
  /\ MaxRequests \in Nat
  /\ MaxFaults \in Nat

VARIABLES
  state,     \* Stream.state
  done,      \* the channel Stream.done
  mu,        \* holder of muIncMsgId
  pc,        \* where each client is in PutMessage(s)
  left,      \* records of the request not yet sent, per client
  got,       \* identifiers of the request in progress (msgIds), per client
  acked,     \* identifiers returned to clients
  requests,  \* put requests made so far
  ingested,  \* info.IngestedMessages
  channel,   \* ingestBuffer.channelMsg
  run,       \* where the goroutine Run is
  after,     \* the branch of Run that called Save
  timer,     \* flushC: nil, or the channel of an armed timer
  buffer,    \* ingestBuffer.msgBuffer
  wpos,      \* records of the buffer processed by the Write in progress
  readable,  \* info.ReadableMessages
  data,      \* records stored by the provider, what consumers read
  index,     \* rows appended to the index file (JSONFile)
  meta,      \* content of the meta info file (JSONFile)
  cpc,       \* where each closer is in Close
  process,   \* a panic in any goroutine ends the process
  faults     \* failed writes so far

clientVars == <<mu, pc, left, got, acked, requests, ingested>>
runVars    == <<run, after, timer, buffer, wpos>>
storeVars  == <<readable, data, index, meta, faults>>
closeVars  == <<done, cpc, process>>
vars == <<state, clientVars, channel, runVars, storeVars, closeVars>>

\* Nothing happens in a process that panicked.
Alive == process = "alive"

NoMessages == [cpt |-> 0, first |-> 0, last |-> 0]

\* NewStream over the StreamInfo of a stream just created.
Init ==
  /\ state = "NONE" /\ done = "open" /\ process = "alive"
  /\ mu = Free
  /\ pc = [c \in Clients |-> "idle"]
  /\ left = [c \in Clients |-> 0]
  /\ got = [c \in Clients |-> {}]
  /\ acked = {} /\ requests = 0
  /\ ingested = NoMessages /\ readable = NoMessages
  /\ channel = <<>> /\ buffer = <<>>
  /\ run = "off" /\ after = "none" /\ timer = "nil" /\ wpos = 0
  /\ data = <<>> /\ index = <<>>
  /\ meta = [ingested |-> NoMessages, readable |-> NoMessages]
  /\ cpc = [k \in Closers |-> "idle"]
  /\ faults = 0

-----------------------------------------------------------------------------
(* Faulty forms of operators defined below; the runs show that each one    *)
(* violates a property.  The specification does not use them.              *)

FirstMessageAlways(info) == [info EXCEPT !.first = 1, !.last = 0]
MutexIgnored == TRUE
ChannelRoomOffByOne == Len(channel) <= ChannelBufferSize
TimerForgotten == timer
ClearedOnError(ok) == <<>>
NeverCleared(ok) == buffer
RunNeverExits == "select"
RunExitsAfterSave == "exited"
InfoWithoutIngested(cpt) == [ingested |-> NoMessages, readable |-> readable]
NoWait == TRUE

-----------------------------------------------------------------------------
(* Start, called once by the service; the goroutine runs before the state  *)
(* is RUNNING.                                                             *)

Start ==
  /\ Alive /\ state = "NONE" /\ run = "off"
  /\ state' = "STARTING" /\ run' = "select"
  /\ UNCHANGED <<clientVars, channel, after, timer, buffer, wpos, storeVars, closeVars>>

StartEnd ==
  /\ Alive /\ state = "STARTING"
  /\ state' = "RUNNING"
  /\ UNCHANGED <<clientVars, channel, runVars, storeVars, closeVars>>

-----------------------------------------------------------------------------
(* PutMessage is a request of one record, PutMessages of any number.  The  *)
(* state is tested before the mutex is taken.                              *)

PutBegin(c, n) ==
  /\ Alive /\ pc[c] = "idle" /\ requests < MaxRequests
  /\ requests' = requests + 1
  /\ IF state = "RUNNING" /\ n > 0
     THEN /\ pc' = [pc EXCEPT ![c] = "lock"]
          /\ left' = [left EXCEPT ![c] = n]
     ELSE UNCHANGED <<pc, left>>
  /\ UNCHANGED <<state, mu, got, acked, ingested, channel, runVars, storeVars, closeVars>>

\* "first message ever of the stream"
FirstMessageEver(info) ==
  IF info.cpt = 0 THEN [cpt |-> 0, first |-> 1, last |-> 0] ELSE info

\* One more message, whose identifier is id.
CountMessage(info, id) == [cpt |-> info.cpt + 1, first |-> info.first, last |-> id]

MutexFree == mu = Free

PutLock(c) ==
  /\ Alive /\ pc[c] = "lock" /\ MutexFree
  /\ mu' = c
  /\ ingested' = FirstMessageEver(ingested)
  /\ pc' = [pc EXCEPT ![c] = "alloc"]
  /\ UNCHANGED <<state, left, got, acked, requests, channel, runVars, storeVars, closeVars>>

PutAlloc(c) ==
  /\ Alive /\ pc[c] = "alloc"
  /\ ingested' = CountMessage(ingested, ingested.last + 1)
  /\ got' = [got EXCEPT ![c] = @ \cup {ingested.last + 1}]
  /\ pc' = [pc EXCEPT ![c] = "send"]
  /\ UNCHANGED <<state, mu, left, acked, requests, channel, runVars, storeVars, closeVars>>

\* ingestBuffer.PutMessage blocks, with the mutex held, while the channel is full.
ChannelHasRoom == Len(channel) < ChannelBufferSize

PutSend(c) ==
  /\ Alive /\ pc[c] = "send" /\ ChannelHasRoom
  /\ channel' = Append(channel, ingested.last)
  /\ left' = [left EXCEPT ![c] = @ - 1]
  /\ pc' = [pc EXCEPT ![c] = IF left[c] > 1 THEN "alloc" ELSE "unlock"]
  /\ UNCHANGED <<state, mu, got, acked, requests, ingested, runVars, storeVars, closeVars>>

\* An identifier was assigned and is not yet in the channel.
Sending == \E c \in Clients : pc[c] = "send"
Pending == IF Sending THEN 1 ELSE 0

PutEnd(c) ==
  /\ Alive /\ pc[c] = "unlock"
  /\ mu' = Free
  /\ acked' = acked \cup got[c]
  /\ got' = [got EXCEPT ![c] = {}]
  /\ pc' = [pc EXCEPT ![c] = "idle"]
  /\ UNCHANGED <<state, left, requests, ingested, channel, runVars, storeVars, closeVars>>

-----------------------------------------------------------------------------
(* Run: a select over done, the channel and the flush timer.               *)

IsFull(b) == Len(b) >= BulkMaxSize

\* The branches of Run leave the select to call Save for one of three reasons.
CallSave(reason) == run' = "save" /\ after' = reason /\ wpos' = 0

\* A timer is created when there is none.
ArmTimer == "armed"

\* bufferizeMessage; without a save the deferred branch arms the timer at once.
RunReceive ==
  /\ Alive /\ run = "select" /\ channel # <<>>
  /\ channel' = Tail(channel)
  /\ buffer' = Append(buffer, Head(channel))
  /\ IF ~Deferred \/ IsFull(buffer')
     THEN CallSave("append") /\ UNCHANGED timer
     ELSE timer' = ArmTimer /\ UNCHANGED <<run, after, wpos>>
  /\ UNCHANGED <<state, clientVars, storeVars, closeVars>>

RunFlush ==
  /\ Alive /\ run = "select" /\ timer = "armed"
  /\ CallSave("flush")
  /\ UNCHANGED <<state, clientVars, channel, timer, buffer, storeVars, closeVars>>

RunDone ==
  /\ Alive /\ run = "select" /\ done = "closed"
  /\ CallSave("stop") /\ timer' = "nil"
  /\ UNCHANGED <<state, clientVars, channel, buffer, storeVars, closeVars>>

\* The buffer is cleared only when Write returned no error.
BufferAfterSave(ok) == IF ok THEN <<>> ELSE buffer

\* The done branch closes the writer and the iterators and ends the goroutine.
RunAfterSave == IF after = "stop" THEN "exited" ELSE "select"

\* Save returns, an error is logged, and the branch of Run that called Save is
\* completed: the deferred branch arms the timer, the flush branch disarms it.
SaveReturns(ok) ==
  /\ buffer' = BufferAfterSave(ok)
  /\ timer' = IF after = "append" /\ Deferred THEN ArmTimer
              ELSE IF after = "flush" THEN "nil" ELSE timer
  /\ run' = RunAfterSave
  /\ after' = "none" /\ wpos' = 0

\* A write of the operating system fails; Write returns the error at once.
WriteFails ==
  /\ faults < MaxFaults
  /\ faults' = faults + 1
  /\ SaveReturns(FALSE)

-----------------------------------------------------------------------------
(* StreamWriter.Write of both providers.                                   *)

\* An empty buffer is no write at all.
WriteBegin ==
  /\ Alive /\ run = "save"
  /\ IF buffer = <<>>
     THEN SaveReturns(TRUE) /\ UNCHANGED readable
     ELSE /\ readable' = IF readable.cpt = 0
                         THEN [cpt |-> 0, first |-> ingested.first, last |-> 0]
                         ELSE readable
          /\ run' = "record"
          /\ UNCHANGED <<after, timer, buffer, wpos>>
  /\ UNCHANGED <<state, clientVars, channel, data, index, meta, faults, closeVars>>

\* A record becomes readable by consumers before the rest of the buffer is written.
StoreRecord ==
  /\ data' = Append(data, buffer[wpos + 1])
  /\ readable' = CountMessage(readable, buffer[wpos + 1])

LimitReached == MaxRecordsByStream > 0 /\ Len(data) >= MaxRecordsByStream

WriteRecordInMemory ==
  /\ Alive /\ Provider = "InMemory" /\ run = "record" /\ wpos < Len(buffer)
  /\ IF LimitReached
     THEN SaveReturns(FALSE) /\ UNCHANGED <<data, readable>>
     ELSE StoreRecord /\ wpos' = wpos + 1 /\ UNCHANGED <<run, after, timer, buffer>>
  /\ UNCHANGED <<state, clientVars, channel, index, meta, faults, closeVars>>

WriteEndInMemory ==
  /\ Alive /\ Provider = "InMemory" /\ run = "record" /\ wpos = Len(buffer)
  /\ SaveReturns(TRUE)
  /\ UNCHANGED <<state, clientVars, channel, storeVars, closeVars>>

WriteRecordFile ==
  /\ Alive /\ Provider = "JSONFile" /\ run = "record" /\ wpos < Len(buffer)
  /\ \/ /\ StoreRecord
        /\ run' = "index"
        /\ UNCHANGED <<after, timer, buffer, wpos, faults>>
     \/ WriteFails /\ UNCHANGED <<data, readable>>
  /\ UNCHANGED <<state, clientVars, channel, index, meta, closeVars>>

WriteIndexFile ==
  /\ Alive /\ run = "index"
  /\ \/ /\ index' = Append(index, buffer[wpos + 1])
        /\ run' = "record" /\ wpos' = wpos + 1
        /\ UNCHANGED <<after, timer, buffer, faults>>
     \/ WriteFails /\ UNCHANGED index
  /\ UNCHANGED <<state, clientVars, channel, data, readable, meta, closeVars>>

\* The whole StreamInfo is saved, without the mutex that protects IngestedMessages:
\* CptMessages is read before LastMsgId and may miss the messages assigned meanwhile,
\* which are still in the channel or about to be sent.
CptRead == {cpt \in 0..ingested.cpt : ingested.cpt - cpt <= Len(channel) + Pending}

SavedInfo(cpt) ==
  [ingested |-> [cpt |-> cpt, first |-> ingested.first, last |-> ingested.last],
   readable |-> readable]

SaveFileMetaInfo ==
  /\ Alive /\ Provider = "JSONFile" /\ run = "record" /\ wpos = Len(buffer)
  /\ \/ /\ \E cpt \in CptRead : meta' = SavedInfo(cpt)
        /\ SaveReturns(TRUE)
        /\ UNCHANGED faults
     \/ WriteFails /\ UNCHANGED meta
  /\ UNCHANGED <<state, clientVars, channel, data, readable, index, closeVars>>

-----------------------------------------------------------------------------
(* Close.  The test of the state, its update and the close of the channel  *)
(* are not protected by any lock.                                          *)

CloseBegin(k) ==
  /\ Alive /\ cpc[k] = "idle" /\ state = "RUNNING"
  /\ cpc' = [cpc EXCEPT ![k] = "stop"]
  /\ UNCHANGED <<state, clientVars, channel, runVars, storeVars, done, process>>

CloseStop(k) ==
  /\ Alive /\ cpc[k] = "stop"
  /\ state' = "STOPPING"
  /\ cpc' = [cpc EXCEPT ![k] = "close"]
  /\ UNCHANGED <<clientVars, channel, runVars, storeVars, done, process>>

\* Closing a closed channel panics, and nothing recovers.
CloseDone(k) ==
  /\ Alive /\ cpc[k] = "close"
  /\ done' = "closed"
  /\ process' = IF done = "closed" THEN "panicked" ELSE "alive"
  /\ cpc' = [cpc EXCEPT ![k] = "wait"]
  /\ UNCHANGED <<state, clientVars, channel, runVars, storeVars>>

\* wg.Wait
RunIsOver == run = "exited"

CloseWait(k) ==
  /\ Alive /\ cpc[k] = "wait" /\ RunIsOver
  /\ state' = "NONE"
  /\ cpc' = [cpc EXCEPT ![k] = "closed"]
  /\ UNCHANGED <<clientVars, channel, runVars, storeVars, done, process>>

-----------------------------------------------------------------------------
PutStep(c) ==
  \/ \E n \in 0..MaxBatch : PutBegin(c, n)
  \/ PutLock(c)
  \/ PutAlloc(c)
  \/ PutSend(c)
  \/ PutEnd(c)

SaveStep ==
  \/ WriteBegin
  \/ WriteRecordInMemory
  \/ WriteEndInMemory
  \/ WriteRecordFile
  \/ WriteIndexFile
  \/ SaveFileMetaInfo

RunStep == RunReceive \/ RunFlush \/ RunDone \/ SaveStep

CloseStep(k) == CloseBegin(k) \/ CloseStop(k) \/ CloseDone(k) \/ CloseWait(k)

Next ==
  \/ Start
  \/ StartEnd
  \/ \E c \in Clients : PutStep(c)
  \/ RunStep
  \/ \E k \in Closers : CloseStep(k)

Spec == Init /\ [][Next]_vars

(***************************************************************************)
(* Every goroutine that can take a step is scheduled.  A request is not    *)
(* obliged to be made (PutBegin, CloseBegin), the mutex is starvation free *)
(* (sync.Mutex, strong fairness of PutLock) and a select with several      *)
(* ready branches picks one at random, so that a branch that is ready      *)
(* again and again is taken (strong fairness of the three branches).  The  *)
(* timer fires some time after it was armed.                               *)
(***************************************************************************)
Fairness ==
  /\ WF_vars(Start) /\ WF_vars(StartEnd)
  /\ \A c \in Clients :
       /\ SF_vars(PutLock(c))
       /\ WF_vars((PutAlloc(c) \/ PutSend(c) \/ PutEnd(c)))
  /\ SF_vars(RunReceive) /\ SF_vars(RunFlush) /\ SF_vars(RunDone)
  /\ WF_vars(SaveStep)
  /\ \A k \in Closers : WF_vars((CloseStop(k) \/ CloseDone(k) \/ CloseWait(k)))

FairSpec == Spec /\ Fairness

-----------------------------------------------------------------------------
MessagesInfo == [cpt : Nat, first : Nat, last : Nat]

TypeClients ==
  /\ mu \in Clients \cup {Free}
  /\ pc \in [Clients -> {"idle", "lock", "alloc", "send", "unlock"}]
  /\ left \in [Clients -> Nat]
  /\ got \in [Clients -> SUBSET Nat]
  /\ acked \in SUBSET Nat
  /\ requests \in Nat
  /\ ingested \in MessagesInfo
  /\ channel \in Seq(Nat) /\ Len(channel) <= ChannelBufferSize

TypeRun ==
  /\ run \in {"off", "select", "save", "record", "index", "exited"}
  /\ after \in {"none", "append", "flush", "stop"}
  /\ timer \in {"nil", "armed"}
  /\ buffer \in Seq(Nat)
  /\ wpos \in 0..Len(buffer)

TypeStore ==
  /\ readable \in MessagesInfo
  /\ data \in Seq(Nat) /\ index \in Seq(Nat)
  /\ meta \in [ingested : MessagesInfo, readable : MessagesInfo]
  /\ faults \in Nat

TypeClose ==
  /\ state \in {"NONE", "STARTING", "RUNNING", "STOPPING"}
  /\ done \in {"open", "closed"}
  /\ cpc \in [Closers -> {"idle", "stop", "close", "wait", "closed"}]
  /\ process \in {"alive", "panicked"}

(* Type correctness of the stream, the ingest buffer and the writer. *)
TypeOK == TypeClients /\ TypeRun /\ TypeStore /\ TypeClose

-----------------------------------------------------------------------------
\* Last identifier received by Run, and last identifier saved and cleared.
Received == ingested.last - Pending - Len(channel)
Cleared  == Received - Len(buffer)

(* From the assignment of an identifier to the end of its save no message  *)
(* is lost, duplicated or overtaken: buffer, channel and the message being *)
(* sent are the consecutive identifiers that end at LastMsgId, whatever    *)
(* the interleaving of PutMessage(s), Run, failed saves and Close.         *)
InFlightContiguous ==
  /\ \A i \in 1..Len(channel) : channel[i] = Received + i
  /\ \A i \in 1..Len(buffer) : buffer[i] = Cleared + i

(* Every identifier ever assigned is stored, or is still in the buffer, in *)
(* the channel or in the hands of the client: a failed save keeps the      *)
(* whole buffer for the next one.                                          *)
NothingLost ==
  \A id \in 1..ingested.last :
    \/ \E i \in 1..Len(data) : data[i] = id
    \/ \E i \in 1..Len(buffer) : buffer[i] = id
    \/ \E i \in 1..Len(channel) : channel[i] = id
    \/ Sending /\ id = ingested.last

(* The stored records start at 1 and never skip an identifier: a consumer  *)
(* reading forward may see a batch again after a failed Write, never a     *)
(* message before an earlier one.                                          *)
StoredWithoutGap ==
  \A i \in 1..Len(data) :
    data[i] >= 1 /\ data[i] <= (IF i = 1 THEN 0 ELSE data[i - 1]) + 1

(* As long as no write of the operating system failed, and always in the   *)
(* in-memory provider (whose limit error comes before anything is added    *)
(* again), each message is stored exactly once, at its own rank.           *)
StoredOnce ==
  (Provider = "InMemory" \/ faults = 0) => \A i \in 1..Len(data) : data[i] = i

(* The meta info file never announces more than the data file holds, and   *)
(* its IngestedMessages cover its ReadableMessages although they are read  *)
(* without muIncMsgId: a stream reloaded from it gives no identifier again *)
(* that it also announces as readable, and does not start again from 1.    *)
MetaNeverAhead ==
  /\ meta.readable.cpt <= Len(data)
  /\ meta.ingested.last >= meta.readable.last
  /\ meta.readable.cpt > 0 => /\ meta.readable.last = data[meta.readable.cpt]
                              /\ meta.ingested.cpt > 0

(* Two PutMessage(s) never return a common identifier, and PutMessages     *)
(* returns consecutive identifiers.                                        *)
DistinctIds ==
  \A c \in Clients :
    /\ got[c] \cap acked = {}
    /\ \A d \in Clients \ {c} : got[c] \cap got[d] = {}
    /\ \A i, j \in got[c] : i..j \subseteq got[c]

(* When Close has returned the goroutine Run is over, and everything it    *)
(* had received is stored unless a write failed or the limit was met.      *)
CloseFlushesBuffer ==
  \A k \in Closers : cpc[k] = "closed" =>
    /\ run = "exited"
    /\ \/ buffer = <<>>
       \/ faults > 0
       \/ Provider = "InMemory" /\ LimitReached

(* stream.go:76-78, in Close: "Save & flush messages from ingest buffer."  *)
(* The ingest buffer is the channel and msgBuffer: once Close has returned *)
(* every message acknowledged to a client would be stored.                 *)
CloseSavesAcknowledged ==
  (\E k \in Closers : cpc[k] = "closed") =>
    \A id \in acked : \E i \in 1..Len(data) : data[i] = id

(* The write path implements the abstract log: identifiers are given out   *)
(* in order, acknowledged once, and stored in order; exactly once in the   *)
(* in-memory provider and where no write of the operating system fails.    *)
Log == INSTANCE StreamLog WITH
         ExactlyOnce <- (Provider = "InMemory" \/ MaxFaults = 0),
         accepted <- ingested.last, log <- data
ImplementsStreamLog == Log!LogSpec

(* Every accepted request returns to its client: a full channel, which     *)
(* blocks it with the mutex held, only delays it and the others, also      *)
(* when saves fail and while Close waits for Run.  The one exception is a  *)
(* request that passed the test of the state before Close and finds the    *)
(* channel full after Run ended: nobody receives any more.                 *)
PutReturns ==
  \A c \in Clients :
    pc[c] = "lock" ~> \/ pc[c] = "idle"
                      \/ state # "RUNNING" /\ run = "exited" /\ ~ChannelHasRoom

(* Every acknowledged message is eventually stored, by the flush timer if  *)
(* no other message comes, unless the stream is closed before or a save    *)
(* fails (a failed save of the flush branch leaves no timer armed).        *)
AcknowledgedEventuallyStored ==
  \A id \in 1..(MaxRequests * MaxBatch) :
    id \in acked ~> \/ \E i \in 1..Len(data) : data[i] = id
                    \/ state # "RUNNING"
                    \/ faults > 0
                    \/ Provider = "InMemory" /\ LimitReached

(* Close returns: Run notices done whatever it is doing, and saves.        *)
CloseReturns == \A k \in Closers : cpc[k] = "stop" ~> cpc[k] = "closed"
=============================================================================
