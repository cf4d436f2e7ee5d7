------------------------------ MODULE WebServer ------------------------------
(***************************************************************************)
(* The HTTP server around the puts of one stream: the deduplication of     *)
(* batches (web/requestdeduplicator .go, used by PutRecord and PutRecords  *)
(* of web/apistream.go), the requests that shut down or restart the server *)
(* (web/webapiserver.go), the signal they send, and the loop that drains   *)
(* the listener and starts again (web/webserver/webserver.go, RunServer    *)
(* and main of cmd/ministream/ministream.go).                              *)
(*                                                                         *)
(* A client that got no answer sends its batch again, perhaps while the    *)
(* first request is still in progress.  Time is the age of an identifier:  *)
(* "fresh", or "old" once it is older than the time to live.  The listener *)
(* (fiber, external) accepts requests while it runs; its Shutdown refuses  *)
(* new ones and waits for those in progress.  A put tests the state of the *)
(* stream and then sends its messages on the channel that Run receives;    *)
(* here a batch takes one place of the channel.  The requests that can     *)
(* wait for ever in the service are in StreamService, not here.            *)
(***************************************************************************)
EXTENDS Integers, Sequences

CONSTANTS
  Requests,    \* concurrent HTTP requests
  Batches,     \* values of the header x-ministream-batch-id
  BadBatches,  \* those whose body cannot be parsed
  NoBatch,     \* the batch of a request that has none
  ChannelSize, \* capacity of channelMsg, in batches
  MaxCalls     \* bound: requests in a behaviour

ASSUME WebAssumption ==
  /\ BadBatches \subseteq Batches /\ NoBatch \notin Batches
  /\ ChannelSize \in Nat \ {0} /\ MaxCalls \in Nat

VARIABLES
  phase,      \* "running", "draining", "down", or "panicked"
  restart,    \* what HandleSignals returned: "yes", "no", or "none"
  signals,    \* the channel of signals, of one place
  stopChan,   \* RequestDeduplicatorManager.stopChan: "open" or "closed"
  cleaner,    \* the cleanup goroutine: "on" or "off"
  processed,  \* processedIDs: "none", "fresh" or "old" for each batch
  pc, batch, kind,  \* each request: where it is, on which batch, which handler
  stream,     \* the stream: "RUNNING", "STOPPING", or "NONE" once Run has ended
  channel,    \* batches in channelMsg
  stored,     \* how many times each batch was put
  calls,
  raced,      \* batches tested by a request while another was between Exists and Add
  forgotten,  \* batches whose identifier expired or was cleared
  kept        \* batches that failed in PutRecord, which keeps the identifier

serverVars  == <<phase, restart, signals>>
dedupVars   == <<stopChan, cleaner, processed>>
requestVars == <<pc, batch, kind>>
streamVars  == <<stream, channel>>
historyVars == <<raced, forgotten, kept>>
vars == <<serverVars, dedupVars, requestVars, streamVars, stored, calls, historyVars>>

\* The first life of the server: StartServer has called Init of the manager.
Init ==
  /\ phase = "running" /\ restart = "none" /\ signals = <<>>
  /\ stopChan = "open" /\ cleaner = "on" /\ processed = [b \in Batches |-> "none"]
  /\ pc = [t \in Requests |-> "idle"]
  /\ batch = [t \in Requests |-> NoBatch]
  /\ kind = [t \in Requests |-> "none"]
  /\ stream = "RUNNING" /\ channel = 0 /\ stored = [b \in Batches |-> 0] /\ calls = 0
  /\ raced = {} /\ forgotten = {} /\ kept = {}

Alive == phase \in {"running", "draining"}

-----------------------------------------------------------------------------
(* Faulty forms of operators below, not used by the specification.         *)

NeverSeen(b) == FALSE
KeptOnFailure(t) == processed
CleanerIgnoresStop == FALSE

-----------------------------------------------------------------------------
Goto(t, place) == pc' = [pc EXCEPT ![t] = place]

Return(t) ==
  /\ Goto(t, "idle")
  /\ batch' = [batch EXCEPT ![t] = NoBatch]
  /\ kind' = [kind EXCEPT ![t] = "none"]

Call(t, b, handler, place) ==
  /\ phase = "running" /\ pc[t] = "idle" /\ calls < MaxCalls
  /\ calls' = calls + 1
  /\ batch' = [batch EXCEPT ![t] = b]
  /\ kind' = [kind EXCEPT ![t] = handler]
  /\ Goto(t, place)

-----------------------------------------------------------------------------
(* PutRecord and PutRecords with a batch identifier.                       *)

PutBegin(t, b, handler) ==
  /\ Call(t, b, handler, "exists")
  /\ UNCHANGED <<serverVars, dedupVars, streamVars, stored, historyVars>>

Seen(b) == processed[b] # "none"

\* Exists: a batch that was seen is refused.
PutRefused(t) ==
  /\ Alive /\ pc[t] = "exists" /\ Seen(batch[t])
  /\ Return(t)
  /\ UNCHANGED <<serverVars, dedupVars, streamVars, stored, calls, historyVars>>

PutExists(t) ==
  /\ Alive /\ pc[t] = "exists" /\ ~Seen(batch[t])
  /\ raced' = IF \E q \in Requests : pc[q] = "add" /\ batch[q] = batch[t]
              THEN raced \cup {batch[t]} ELSE raced
  /\ Goto(t, "add")
  /\ UNCHANGED <<serverVars, dedupVars, batch, kind, streamVars, stored, calls, forgotten, kept>>

PutAdd(t) ==
  /\ Alive /\ pc[t] = "add"
  /\ processed' = [processed EXCEPT ![batch[t]] = "fresh"]
  /\ Goto(t, "put")
  /\ UNCHANGED <<serverVars, stopChan, cleaner, batch, kind, streamVars, stored, calls, historyVars>>

\* The body is parsed, and PutMessage(s) tests the state of the stream: both may
\* return an error.
PutFails(t) == batch[t] \in BadBatches \/ stream # "RUNNING"

PutTested(t) ==
  /\ Alive /\ pc[t] = "put" /\ ~PutFails(t)
  /\ Goto(t, "sending")
  /\ UNCHANGED <<serverVars, dedupVars, batch, kind, streamVars, stored, calls, historyVars>>

\* The send waits for room, also when the stream was closed since the test.
ChannelHasRoom == channel < ChannelSize

PutStored(t) ==
  /\ Alive /\ pc[t] = "sending" /\ ChannelHasRoom
  /\ channel' = channel + 1
  /\ stored' = [stored EXCEPT ![batch[t]] = @ + 1]
  /\ Return(t)
  /\ UNCHANGED <<serverVars, dedupVars, stream, calls, historyVars>>

\* Remove, only in PutRecords.
AfterFailure(t) ==
  IF kind[t] = "PutRecords" THEN [processed EXCEPT ![batch[t]] = "none"] ELSE processed

PutError(t) ==
  /\ Alive /\ pc[t] = "put" /\ PutFails(t)
  /\ processed' = AfterFailure(t)
  /\ kept' = IF kind[t] = "PutRecord" THEN kept \cup {batch[t]} ELSE kept
  /\ Return(t)
  /\ UNCHANGED <<serverVars, stopChan, cleaner, streamVars, stored, calls, raced, forgotten>>

\* Another request deletes the stream: Close changes the state, then closes done.
StreamStops ==
  /\ Alive /\ stream = "RUNNING"
  /\ stream' = "STOPPING"
  /\ UNCHANGED <<serverVars, dedupVars, requestVars, channel, stored, calls, historyVars>>

\* Run receives as long as it has not taken done; Close returns when it has, whatever
\* is left in the channel.
RunReceives ==
  /\ Alive /\ stream # "NONE" /\ channel > 0
  /\ channel' = channel - 1
  /\ UNCHANGED <<serverVars, dedupVars, requestVars, stream, stored, calls, historyVars>>

RunEnds ==
  /\ Alive /\ stream = "STOPPING"
  /\ stream' = "NONE"
  /\ UNCHANGED <<serverVars, dedupVars, requestVars, channel, stored, calls, historyVars>>

-----------------------------------------------------------------------------
(* The cleanup goroutine.                                                  *)

TimePasses ==
  /\ Alive
  /\ \E b \in Batches :
       processed[b] = "fresh" /\ processed' = [processed EXCEPT ![b] = "old"]
  /\ UNCHANGED <<serverVars, stopChan, cleaner, requestVars, streamVars, stored, calls, historyVars>>

Expired(b) == processed[b] = "old"

CleanupExpiredEntries ==
  /\ Alive /\ cleaner = "on" /\ \E b \in Batches : Expired(b)
  /\ processed' = [b \in Batches |-> IF Expired(b) THEN "none" ELSE processed[b]]
  /\ forgotten' = forgotten \cup {b \in Batches : Expired(b)}
  /\ UNCHANGED <<serverVars, stopChan, cleaner, requestVars, streamVars, stored, calls, raced, kept>>

StopSeen == stopChan = "closed"

CleanerEnds ==
  /\ Alive /\ cleaner = "on" /\ StopSeen
  /\ cleaner' = "off"
  /\ UNCHANGED <<serverVars, stopChan, processed, requestVars, streamVars, stored, calls, historyVars>>

-----------------------------------------------------------------------------
(* ShutdownServer and RestartServer.                                       *)

AdminBegin(t, handler) ==
  /\ Call(t, NoBatch, handler, "stop")
  /\ UNCHANGED <<serverVars, dedupVars, streamVars, stored, historyVars>>

\* Stop closes stopChan ...
AdminStop(t) ==
  /\ Alive /\ pc[t] = "stop" /\ stopChan = "open"
  /\ stopChan' = "closed"
  /\ Goto(t, "clear")
  /\ UNCHANGED <<serverVars, cleaner, processed, batch, kind, streamVars, stored, calls, historyVars>>

\* ... which panics when it is closed already: the process ends.
AdminStopTwice(t) ==
  /\ Alive /\ pc[t] = "stop" /\ stopChan = "closed"
  /\ phase' = "panicked"
  /\ UNCHANGED <<restart, signals, dedupVars, requestVars, streamVars, stored, calls, historyVars>>

\* Stop waits for the goroutine and clears; RestartServer starts the manager again.
AdminClear(t) ==
  /\ Alive /\ pc[t] = "clear" /\ cleaner = "off"
  /\ processed' = [b \in Batches |-> "none"]
  /\ forgotten' = forgotten \cup {b \in Batches : Seen(b)}
  /\ IF kind[t] = "Restart" THEN stopChan' = "open" /\ cleaner' = "on"
     ELSE UNCHANGED <<stopChan, cleaner>>
  /\ Goto(t, "send")
  /\ UNCHANGED <<serverVars, batch, kind, streamVars, stored, calls, raced, kept>>

SignalsHaveRoom == Len(signals) < 1

AdminSend(t) ==
  /\ Alive /\ pc[t] = "send" /\ SignalsHaveRoom
  /\ signals' = Append(signals, IF kind[t] = "Restart" THEN "SIGHUP" ELSE "SIGTERM")
  /\ Return(t)
  /\ UNCHANGED <<phase, restart, dedupVars, streamVars, stored, calls, historyVars>>

-----------------------------------------------------------------------------
(* HandleSignals, shutdownListener, and the loop of main.                  *)

\* SIGTERM or SIGINT of the operating system; notify drops it when there is no room.
OsSignal ==
  /\ phase = "running" /\ SignalsHaveRoom
  /\ signals' = Append(signals, "SIGTERM")
  /\ UNCHANGED <<phase, restart, dedupVars, requestVars, streamVars, stored, calls, historyVars>>

HandleSignals ==
  /\ phase = "running" /\ signals # <<>>
  /\ phase' = "draining"
  /\ restart' = IF Head(signals) = "SIGHUP" THEN "yes" ELSE "no"
  /\ signals' = Tail(signals)
  /\ UNCHANGED <<dedupVars, requestVars, streamVars, stored, calls, historyVars>>

\* The listener returned an error on errsChan.
ListenFails ==
  /\ phase = "running"
  /\ phase' = "draining" /\ restart' = "no"
  /\ UNCHANGED <<signals, dedupVars, requestVars, streamVars, stored, calls, historyVars>>

\* No request is in progress, that of the deletion included.
Drained == phase = "draining" /\ stream # "STOPPING" /\ \A t \in Requests : pc[t] = "idle"

\* RunServer returns: the deferred calls stop the service, and main starts again.
RunServerAgain ==
  /\ Drained /\ restart = "yes"
  /\ phase' = "running" /\ restart' = "none" /\ signals' = <<>>
  /\ stopChan' = "open" /\ cleaner' = "on"
  /\ processed' = [b \in Batches |-> "none"]
  /\ forgotten' = forgotten \cup {b \in Batches : Seen(b)}
  /\ channel' = 0
  /\ UNCHANGED <<requestVars, stream, stored, calls, raced, kept>>

RunServerEnds ==
  /\ Drained /\ restart = "no"
  /\ phase' = "down"
  /\ UNCHANGED <<restart, signals, dedupVars, requestVars, streamVars, stored, calls, historyVars>>

-----------------------------------------------------------------------------
RequestBegins(t) ==
  \/ \E b \in Batches, handler \in {"PutRecord", "PutRecords"} : PutBegin(t, b, handler)
  \/ \E handler \in {"Shutdown", "Restart"} : AdminBegin(t, handler)

RequestStep(t) ==
  \/ PutRefused(t) \/ PutExists(t) \/ PutAdd(t) \/ PutTested(t) \/ PutStored(t) \/ PutError(t)
  \/ AdminStop(t) \/ AdminStopTwice(t) \/ AdminClear(t) \/ AdminSend(t)

RunStep == RunReceives \/ RunEnds

ServerStep == HandleSignals \/ RunServerAgain \/ RunServerEnds

Next ==
  \/ \E t \in Requests : RequestBegins(t) \/ RequestStep(t)
  \/ StreamStops \/ RunStep \/ TimePasses \/ CleanupExpiredEntries \/ CleanerEnds
  \/ OsSignal \/ ListenFails \/ ServerStep

Spec == Init /\ [][Next]_vars

\* Goroutines that can go on are scheduled.
Fairness ==
  /\ \A t \in Requests : WF_vars(RequestStep(t))
  /\ WF_vars(RunStep) /\ WF_vars(CleanerEnds) /\ WF_vars(ServerStep)

FairSpec == Spec /\ Fairness

-----------------------------------------------------------------------------
TypeOK ==
  /\ phase \in {"running", "draining", "down", "panicked"}
  /\ restart \in {"none", "yes", "no"}
  /\ signals \in {<<>>, <<"SIGTERM">>, <<"SIGHUP">>}
  /\ stopChan \in {"open", "closed"} /\ cleaner \in {"on", "off"}
  /\ processed \in [Batches -> {"none", "fresh", "old"}]
  /\ pc \in [Requests -> {"idle", "exists", "add", "put", "sending", "stop", "clear", "send"}]
  /\ batch \in [Requests -> Batches \cup {NoBatch}]
  /\ kind \in [Requests -> {"none", "PutRecord", "PutRecords", "Shutdown", "Restart"}]
  /\ stream \in {"RUNNING", "STOPPING", "NONE"} /\ channel \in 0..ChannelSize
  /\ stored \in [Batches -> Nat] /\ calls \in Nat
  /\ raced \in SUBSET Batches /\ forgotten \in SUBSET Batches /\ kept \in SUBSET Batches

(* A batch that is sent again, while the first request is in progress or   *)
(* after it, is stored once, unless two requests were between Exists and   *)
(* Add at a time or the identifier was lost: expired, cleared by a request *)
(* to stop, or left behind by a restart.                                   *)
StoredAtMostOnce ==
  \A b \in Batches \ (raced \cup forgotten) : stored[b] <= 1

(* An identifier in processedIDs, which makes the server answer "batch id  *)
(* already processed", stands for a batch that is stored or in progress,   *)
(* or that failed in PutRecord: a failed PutRecords can be sent again.     *)
SeenHasReason ==
  \A b \in Batches : processed[b] # "none" =>
    \/ stored[b] > 0 \/ b \in kept
    \/ \E t \in Requests : pc[t] \in {"put", "sending"} /\ batch[t] = b

\* A put that tested the state before the stream was closed, and that no receiver will
\* ever make room for.
PutBlocked ==
  stream = "NONE" /\ ~ChannelHasRoom /\ \E t \in Requests : pc[t] = "sending"

(* A signal is followed by the end of this life of the server, although    *)
(* requests in progress may be waiting for the goroutine of the manager,   *)
(* for room in the channel of a stream, or for a stream that is being      *)
(* deleted.  Of the requests modelled here two kinds can hold Shutdown for *)
(* ever: one that waits to send a second signal that nobody receives, and  *)
(* a put blocked on the full channel of a closed stream.  A request that   *)
(* the service never answers (StreamService) would hold it too.            *)
DrainingEnds ==
  phase = "draining" ~> \/ phase # "draining"
                        \/ \E t \in Requests : pc[t] = "send"
                        \/ PutBlocked
=============================================================================
