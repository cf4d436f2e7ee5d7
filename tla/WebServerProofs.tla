-------------------------- MODULE WebServerProofs --------------------------
(* Theorems about WebServer, for any number of requests and batches.       *)
EXTENDS WebServer, TLAPS

(***************************************************************************)
(* Types                                                                   *)
(***************************************************************************)

\* A request inside PutRecord or PutRecords has a batch and the handler that put it.
HandlerInv ==
  \A t \in Requests : pc[t] \in {"exists", "add", "put", "sending"} =>
    batch[t] \in Batches /\ kind[t] \in {"PutRecord", "PutRecords"}

TypeInv == TypeOK /\ HandlerInv

(* The channel of signals has one place. *)
LEMMA SignalFacts ==
  ASSUME signals \in {<<>>, <<"SIGTERM">>, <<"SIGHUP">>}
  PROVE  /\ SignalsHaveRoom => \A x : Append(signals, x) = <<x>>
         /\ signals # <<>> => Tail(signals) = <<>>
<1>1. CASE signals = <<>>
  BY <1>1
<1>2. ASSUME NEW y, signals = <<y>> PROVE ~SignalsHaveRoom /\ Tail(signals) = <<>>
  BY <1>2 DEF SignalsHaveRoom
<1> QED BY <1>1, <1>2

LEMMA TypeInit == Init => TypeInv
  BY WebAssumption DEF Init, TypeInv, TypeOK, HandlerInv

LEMMA TypeRequest ==
  ASSUME TypeInv, NEW t \in Requests, RequestBegins(t) \/ RequestStep(t)
  PROVE  TypeInv'
<1> USE DEF TypeInv, TypeOK, HandlerInv, serverVars, dedupVars, historyVars, requestVars, streamVars, Goto, Return
<1>1. ASSUME NEW b \in Batches, NEW handler \in {"PutRecord", "PutRecords"}, PutBegin(t, b, handler)
      PROVE  TypeInv'
  BY <1>1, WebAssumption DEF PutBegin, Call
<1>2. ASSUME NEW handler \in {"Shutdown", "Restart"}, AdminBegin(t, handler)
      PROVE  TypeInv'
  BY <1>2, WebAssumption DEF AdminBegin, Call
<1>3. CASE PutRefused(t)
  BY <1>3 DEF PutRefused
<1>4. CASE PutExists(t)
  BY <1>4 DEF PutExists
<1>5. CASE PutAdd(t)
  BY <1>5 DEF PutAdd
<1>11. CASE PutTested(t)
  BY <1>11 DEF PutTested
<1>6. CASE PutStored(t)
  <2>1. channel' \in 0..ChannelSize
    BY <1>6, WebAssumption DEF PutStored, ChannelHasRoom
  <2> QED BY <1>6, <2>1 DEF PutStored
<1>7. CASE PutError(t)
  BY <1>7 DEF PutError, AfterFailure
<1>8. CASE AdminStop(t) \/ AdminStopTwice(t)
  BY <1>8 DEF AdminStop, AdminStopTwice
<1>9. CASE AdminClear(t)
  BY <1>9 DEF AdminClear
<1>10. CASE AdminSend(t)
  <2>1. signals' \in {<<"SIGTERM">>, <<"SIGHUP">>}
    BY <1>10, SignalFacts DEF AdminSend
  <2> QED BY <1>10, <2>1 DEF AdminSend
<1> QED BY <1>1, <1>2, <1>3, <1>4, <1>5, <1>6, <1>7, <1>8, <1>9, <1>10, <1>11
        DEF RequestBegins, RequestStep

\* The steps that are no request's.
OtherStep ==
  \/ StreamStops \/ RunStep \/ TimePasses \/ CleanupExpiredEntries \/ CleanerEnds
  \/ OsSignal \/ ListenFails \/ ServerStep \/ UNCHANGED vars

LEMMA NextCases ==
  ASSUME [Next]_vars
  PROVE  (\E t \in Requests : RequestBegins(t) \/ RequestStep(t)) \/ OtherStep
  BY DEF Next, OtherStep

LEMMA TypeOther ==
  ASSUME TypeInv, OtherStep
  PROVE  TypeInv'
<1> USE DEF TypeInv, TypeOK, HandlerInv, serverVars, dedupVars, historyVars, requestVars, streamVars
<1>1. CASE StreamStops \/ RunEnds \/ CleanerEnds \/ ListenFails \/ RunServerEnds
  BY <1>1 DEF StreamStops, RunEnds, CleanerEnds, ListenFails, RunServerEnds
<1>6. CASE RunReceives
  <2>1. channel' \in 0..ChannelSize
    BY <1>6, WebAssumption DEF RunReceives
  <2> QED BY <1>6, <2>1 DEF RunReceives
<1>2. CASE TimePasses \/ CleanupExpiredEntries
  BY <1>2 DEF TimePasses, CleanupExpiredEntries
<1>3. CASE OsSignal \/ HandleSignals
  <2>1. signals' \in {<<>>, <<"SIGTERM">>}
    BY <1>3, SignalFacts DEF OsSignal, HandleSignals
  <2> QED BY <1>3, <2>1 DEF OsSignal, HandleSignals
<1>4. CASE RunServerAgain
  <2>1. channel' \in 0..ChannelSize
    BY <1>4, WebAssumption DEF RunServerAgain
  <2> QED BY <1>4, <2>1 DEF RunServerAgain
<1>5. CASE UNCHANGED vars
  BY <1>5 DEF vars
<1> QED BY <1>1, <1>2, <1>3, <1>4, <1>5, <1>6 DEF OtherStep, ServerStep, RunStep

(* Type correctness of the server, its requests and the deduplicator. *)
THEOREM TypeCorrect == Spec => []TypeInv
<1>1. TypeInv /\ [Next]_vars => TypeInv'
  BY NextCases, TypeRequest, TypeOther
<1> QED BY <1>1, TypeInit, PTL DEF Spec

(***************************************************************************)
(* Deduplication                                                           *)
(***************************************************************************)

Passed(t, b) == pc[t] \in {"add", "put", "sending"} /\ batch[t] = b

\* As long as no two requests were between Exists and Add on a batch, and its
\* identifier was not lost: one request at most is past Exists on it; the
\* identifier is there from Add on, and a batch that was stored has it for good,
\* so that nobody passes Exists again.
Single(b) ==
  /\ \A t, q \in Requests : Passed(t, b) /\ Passed(q, b) => t = q
  /\ \A t \in Requests : pc[t] \in {"put", "sending"} /\ batch[t] = b => processed[b] # "none"
  /\ stored[b] > 0 => processed[b] # "none" /\ \A t \in Requests : ~Passed(t, b)
  /\ stored[b] <= 1

DedupInv == \A b \in Batches \ (raced \cup forgotten) : Single(b)

LEMMA DedupRequest ==
  ASSUME TypeInv, DedupInv, NEW t \in Requests, RequestBegins(t) \/ RequestStep(t)
  PROVE  DedupInv'
<1> SUFFICES ASSUME NEW b \in Batches, b \notin raced', b \notin forgotten' PROVE Single(b)'
  BY DEF DedupInv
<1> USE DEF Passed, Goto, Return
<1>0. /\ pc \in [Requests -> {"idle", "exists", "add", "put", "sending", "stop", "clear", "send"}]
      /\ batch \in [Requests -> Batches \cup {NoBatch}]
      /\ processed \in [Batches -> {"none", "fresh", "old"}]
      /\ stored \in [Batches -> Nat]
      /\ pc[t] \in {"exists", "add", "put", "sending"} => batch[t] \in Batches
  BY DEF TypeInv, TypeOK, HandlerInv
<1>a. raced \subseteq raced' /\ forgotten \subseteq forgotten'
  BY DEF RequestBegins, RequestStep, PutBegin, AdminBegin, PutRefused, PutExists, PutAdd,
     PutTested, PutStored,
     PutError, AdminStop, AdminStopTwice, AdminClear, AdminSend, historyVars
<1>b. Single(b)
  BY <1>a DEF DedupInv
<1>1. CASE RequestBegins(t)
  BY <1>0, <1>b, <1>1 DEF RequestBegins, PutBegin, AdminBegin, Call, Single, dedupVars
<1>2. CASE PutRefused(t)
  BY <1>0, <1>b, <1>2 DEF PutRefused, Single, dedupVars
<1>3. CASE PutExists(t)
  BY <1>0, <1>b, <1>3 DEF PutExists, Seen, Single, dedupVars
<1>4. CASE PutAdd(t)
  BY <1>0, <1>b, <1>4 DEF PutAdd, Single
<1>5. CASE PutStored(t)
  BY <1>0, <1>b, <1>5 DEF PutStored, Single, dedupVars
<1>9. CASE PutTested(t)
  BY <1>0, <1>b, <1>9 DEF PutTested, Single, dedupVars
<1>6. CASE PutError(t)
  BY <1>0, <1>b, <1>6 DEF PutError, AfterFailure, Single
<1>7. CASE AdminStop(t) \/ AdminStopTwice(t) \/ AdminSend(t)
  <2>1. /\ processed' = processed /\ stored' = stored
        /\ \/ pc' = pc
           \/ \E place \in {"clear", "idle"} : pc' = [pc EXCEPT ![t] = place]
        /\ \A q \in Requests : q # t => batch'[q] = batch[q]
        /\ pc[t] \in {"stop", "send"}
    BY <1>0, <1>7 DEF AdminStop, AdminStopTwice, AdminSend, dedupVars, requestVars
  <2> QED BY <1>0, <1>b, <2>1 DEF Single
<1>8. CASE AdminClear(t)
  <2>1. processed[b] = "none"
    BY <1>8 DEF AdminClear, Seen
  <2> QED BY <1>0, <1>b, <1>8, <2>1 DEF AdminClear, Single
<1> QED BY <1>1, <1>2, <1>3, <1>4, <1>5, <1>6, <1>7, <1>8, <1>9 DEF RequestStep

LEMMA DedupOther ==
  ASSUME TypeInv, DedupInv, OtherStep
  PROVE  DedupInv'
<1> SUFFICES ASSUME NEW b \in Batches, b \notin raced', b \notin forgotten' PROVE Single(b)'
  BY DEF DedupInv
<1>1. UNCHANGED <<requestVars, stored, raced>> /\ forgotten \subseteq forgotten'
  BY DEF OtherStep, ServerStep, StreamStops, RunStep, RunReceives, RunEnds,
     TimePasses, CleanupExpiredEntries, CleanerEnds, OsSignal,
     ListenFails, HandleSignals, RunServerAgain, RunServerEnds, vars, historyVars
<1>2. Single(b)
  BY <1>1 DEF DedupInv
<1>3. processed[b] # "none" => processed'[b] # "none"
  BY DEF TypeInv, TypeOK, OtherStep, ServerStep, StreamStops, RunStep, RunReceives, RunEnds,
     TimePasses, CleanupExpiredEntries,
     Expired, CleanerEnds, OsSignal, ListenFails, HandleSignals, RunServerAgain, RunServerEnds, Seen,
     vars, dedupVars
<1> QED BY <1>1, <1>2, <1>3 DEF Single, Passed, requestVars

(* What keeps a batch from being stored twice. *)
THEOREM DedupCorrect == Spec => []DedupInv
<1>1. Init => DedupInv
  BY DEF Init, DedupInv, Single, Passed
<1>2. TypeInv /\ DedupInv /\ [Next]_vars => DedupInv'
  BY NextCases, DedupRequest, DedupOther
<1> QED BY <1>1, <1>2, TypeCorrect, PTL DEF Spec

(* StoredAtMostOnce: a batch sent again is stored once, unless its         *)
(* identifier was lost or two requests tested it at a time.                *)
THEOREM NoDuplicate == Spec => []StoredAtMostOnce
<1>1. DedupInv => StoredAtMostOnce
  BY DEF DedupInv, Single, StoredAtMostOnce
<1> QED BY <1>1, DedupCorrect, PTL

(* SeenHasReason: a batch the server answers as already processed is       *)
(* stored, in progress, or failed in PutRecord.                            *)
THEOREM SeenIsJustified == Spec => []SeenHasReason
<1>1. Init => SeenHasReason
  BY DEF Init, SeenHasReason
<1>2. TypeInv /\ SeenHasReason /\ [Next]_vars => SeenHasReason'
  <2> SUFFICES ASSUME TypeInv, SeenHasReason, [Next]_vars PROVE SeenHasReason'
    OBVIOUS
  <2>0. /\ pc \in [Requests -> {"idle", "exists", "add", "put", "sending", "stop", "clear", "send"}]
        /\ batch \in [Requests -> Batches \cup {NoBatch}]
        /\ processed \in [Batches -> {"none", "fresh", "old"}]
        /\ stored \in [Batches -> Nat]
        /\ HandlerInv
    BY DEF TypeInv, TypeOK
  <2> USE DEF SeenHasReason, HandlerInv, Goto, Return
  <2>1. ASSUME NEW t \in Requests, RequestBegins(t) \/ RequestStep(t) PROVE SeenHasReason'
    <3>1. CASE RequestBegins(t)
      BY <2>0, <3>1 DEF RequestBegins, PutBegin, AdminBegin, Call, dedupVars, historyVars
    <3>2. CASE PutRefused(t)
      BY <2>0, <3>2 DEF PutRefused, dedupVars, historyVars
    <3>3. CASE PutExists(t)
      BY <2>0, <3>3 DEF PutExists, dedupVars
    <3>4. CASE PutAdd(t)
      BY <2>0, <3>4 DEF PutAdd, historyVars
    <3>5. CASE PutStored(t)
      BY <2>0, <3>5 DEF PutStored, dedupVars, historyVars
    <3>9. CASE PutTested(t)
      BY <2>0, <3>9 DEF PutTested, dedupVars, historyVars
    <3>6. CASE PutError(t)
      BY <2>0, <3>6 DEF PutError, AfterFailure
    <3>7. CASE AdminStop(t) \/ AdminStopTwice(t) \/ AdminSend(t)
      <4>1. /\ processed' = processed /\ stored' = stored /\ kept' = kept
            /\ \A q \in Requests : q # t => pc'[q] = pc[q] /\ batch'[q] = batch[q]
            /\ pc[t] \in {"stop", "send"}
        BY <2>0, <3>7 DEF AdminStop, AdminStopTwice, AdminSend, dedupVars, requestVars, historyVars
      <4> QED BY <2>0, <4>1
    <3>8. CASE AdminClear(t)
      BY <3>8 DEF AdminClear
    <3> QED BY <2>1, <3>1, <3>2, <3>3, <3>4, <3>5, <3>6, <3>7, <3>8, <3>9 DEF RequestStep
  <2>2. CASE OtherStep
    BY <2>0, <2>2 DEF OtherStep, ServerStep, StreamStops, RunStep, RunReceives, RunEnds,
     TimePasses, CleanupExpiredEntries, Expired,
       CleanerEnds, OsSignal, ListenFails, HandleSignals, RunServerAgain, RunServerEnds,
       vars, dedupVars, requestVars, historyVars
  <2> QED BY <2>1, <2>2, NextCases
<1> QED BY <1>1, <1>2, TypeCorrect, PTL DEF Spec
=============================================================================
