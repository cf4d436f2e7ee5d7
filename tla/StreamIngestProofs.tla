------------------------- MODULE StreamIngestProofs -------------------------
(***************************************************************************)
(* Theorems about the write path of a stream, for every value of the       *)
(* constants: StreamIngest, where the process lives once, then             *)
(* StreamRecovery, where it crashes and starts again.                      *)
(***************************************************************************)
EXTENDS StreamRecovery, FiniteSetTheorems, TLAPS

(***************************************************************************)
(* Facts about sequences                                                   *)
(***************************************************************************)

(* What appending one element to a sequence of naturals does. *)
LEMMA AppendFacts ==
  ASSUME NEW s \in Seq(Nat), NEW x \in Nat
  PROVE  /\ Append(s, x) \in Seq(Nat)
         /\ Len(Append(s, x)) = Len(s) + 1
         /\ \A i \in 1..Len(s) : Append(s, x)[i] = s[i]
         /\ Append(s, x)[Len(s) + 1] = x
         /\ Append(s, x) # <<>>
  OBVIOUS

(* What removing the first element of a sequence of naturals does. *)
LEMMA TailFacts ==
  ASSUME NEW s \in Seq(Nat), s # <<>>
  PROVE  /\ Len(s) \in Nat /\ Len(s) >= 1
         /\ Head(s) \in Nat /\ Head(s) = s[1]
         /\ Tail(s) \in Seq(Nat)
         /\ Len(Tail(s)) = Len(s) - 1
         /\ \A i \in 1..(Len(s) - 1) : Tail(s)[i] = s[i + 1]
  OBVIOUS

(* An element of a sequence of naturals is a natural. *)
LEMMA ElementFacts ==
  ASSUME NEW s \in Seq(Nat), NEW i \in 1..Len(s)
  PROVE  s[i] \in Nat /\ Len(s) \in Nat /\ s # <<>>
  OBVIOUS

(* The updates of IngestedMessages and ReadableMessages keep their type. *)
LEMMA InfoFacts ==
  ASSUME NEW info \in MessagesInfo, NEW x \in Nat
  PROVE  /\ info.cpt \in Nat /\ info.first \in Nat /\ info.last \in Nat
         /\ [cpt |-> 0, first |-> x, last |-> 0] \in MessagesInfo
         /\ CountMessage(info, x) \in MessagesInfo
  BY DEF MessagesInfo, CountMessage

(***************************************************************************)
(* Type correctness                                                        *)
(***************************************************************************)

\* A client that has the mutex or waits for it has a record to send.
LeftPositive ==
  \A c \in Clients : pc[c] \in {"lock", "alloc", "send"} => left[c] >= 1

\* Between the data row and the index row of a record.
InRecord == run = "index" => wpos < Len(buffer)

TypeInv == TypeOK /\ LeftPositive /\ InRecord

LEMMA TypeInit == Init => TypeInv
<1> SUFFICES ASSUME Init PROVE TypeInv
  OBVIOUS
<1> USE DEF Init
<1>1. NoMessages \in MessagesInfo
  BY DEF NoMessages, MessagesInfo
<1>2. TypeClients
  BY <1>1, ConstantsAssumption DEF TypeClients
<1>3. TypeRun
  BY DEF TypeRun
<1>4. TypeStore
  BY <1>1 DEF TypeStore
<1>5. TypeClose
  BY DEF TypeClose
<1>6. LeftPositive /\ InRecord
  BY DEF LeftPositive, InRecord
<1> QED BY <1>2, <1>3, <1>4, <1>5, <1>6 DEF TypeInv, TypeOK

\* Numeric facts of the type invariant, for arithmetic.
LEMMA TypeFacts ==
  ASSUME TypeInv
  PROVE  /\ ingested.last \in Nat /\ ingested.cpt \in Nat /\ ingested.first \in Nat
         /\ readable.last \in Nat /\ readable.cpt \in Nat /\ readable.first \in Nat
         /\ channel \in Seq(Nat) /\ Len(channel) \in Nat
         /\ buffer \in Seq(Nat) /\ Len(buffer) \in Nat
         /\ wpos \in Nat /\ wpos <= Len(buffer)
         /\ data \in Seq(Nat) /\ Len(data) \in Nat
<1>1. ingested \in MessagesInfo /\ readable \in MessagesInfo
  BY DEF TypeInv, TypeOK, TypeClients, TypeStore
<1>2. /\ ingested.last \in Nat /\ ingested.cpt \in Nat /\ ingested.first \in Nat
      /\ readable.last \in Nat /\ readable.cpt \in Nat /\ readable.first \in Nat
  BY <1>1, InfoFacts
<1>3. channel \in Seq(Nat) /\ buffer \in Seq(Nat) /\ data \in Seq(Nat) /\ wpos \in 0..Len(buffer)
  BY DEF TypeInv, TypeOK, TypeClients, TypeStore, TypeRun
<1>4. Len(channel) \in Nat /\ Len(buffer) \in Nat /\ Len(data) \in Nat
  BY <1>3
<1> QED BY <1>2, <1>3, <1>4

LEMMA TypePut ==
  ASSUME TypeInv, NEW c \in Clients, PutStep(c)
  PROVE  TypeInv'
<1>1. TypeRun' /\ TypeStore' /\ TypeClose' /\ InRecord'
  BY DEF PutStep, PutBegin, PutLock, MutexFree, PutAlloc, PutSend, ChannelHasRoom, PutEnd, TypeInv, TypeOK,
         TypeRun, TypeStore, TypeClose, InRecord, runVars, storeVars, closeVars
<1>2. TypeClients' /\ LeftPositive'
  <2> USE ConstantsAssumption DEF TypeClients, LeftPositive
  <2>0. TypeClients /\ LeftPositive
    BY DEF TypeInv, TypeOK
  <2>1. ASSUME NEW n \in 0..MaxBatch, PutBegin(c, n) PROVE TypeClients' /\ LeftPositive'
    <3>1. n \in Nat /\ (n > 0 => n >= 1)
      OBVIOUS
    <3>2. CASE state = "RUNNING" /\ n > 0
      <4>1. pc' = [pc EXCEPT ![c] = "lock"] /\ left' = [left EXCEPT ![c] = n]
        BY <2>1, <3>2 DEF PutBegin
      <4> QED BY <2>0, <2>1, <3>1, <3>2, <4>1 DEF PutBegin
    <3>3. CASE ~(state = "RUNNING" /\ n > 0)
      BY <2>0, <2>1, <3>3 DEF PutBegin
    <3> QED BY <3>2, <3>3
  <2>2. CASE PutLock(c)
    <3>1. ingested' \in MessagesInfo
      BY <2>0, <2>2, InfoFacts DEF PutLock, MutexFree, FirstMessageEver
    <3> QED BY <2>0, <2>2, <3>1 DEF PutLock, MutexFree
  <2>3. CASE PutAlloc(c)
    <3>1. ingested.last \in Nat /\ ingested' \in MessagesInfo
      <4>1. ingested.last \in Nat
        BY <2>0, InfoFacts
      <4>2. CountMessage(ingested, ingested.last + 1) \in MessagesInfo
        <5>1. ingested \in MessagesInfo /\ ingested.last + 1 \in Nat
          BY <2>0, <4>1
        <5> HIDE DEF TypeClients, LeftPositive
        <5> QED BY <5>1, InfoFacts
      <4> QED BY <2>3, <4>1, <4>2 DEF PutAlloc
    <3>2. got' \in [Clients -> SUBSET Nat]
      BY <2>0, <2>3, <3>1 DEF PutAlloc
    <3>3. LeftPositive' /\ pc' \in [Clients -> {"idle", "lock", "alloc", "send", "unlock"}]
      BY <2>0, <2>3 DEF PutAlloc
    <3> QED BY <2>0, <2>3, <3>1, <3>2, <3>3 DEF PutAlloc
  <2>4. CASE PutSend(c)
    <3>1. ingested.last \in Nat
      BY <2>0, InfoFacts
    <3> QED BY <2>0, <2>4, <3>1, AppendFacts DEF PutSend, ChannelHasRoom
  <2>5. CASE PutEnd(c)
    BY <2>0, <2>5 DEF PutEnd
  <2> QED BY <2>1, <2>2, <2>3, <2>4, <2>5 DEF PutStep
<1> QED BY <1>1, <1>2 DEF TypeInv, TypeOK

LEMMA TypeRunStep ==
  ASSUME TypeInv, RunStep
  PROVE  TypeInv'
<1>1. TypeClose'
  BY DEF RunStep, SaveStep, RunReceive, ArmTimer, RunFlush, RunDone, WriteBegin, WriteRecordInMemory,
         WriteEndInMemory, WriteRecordFile, WriteIndexFile, SaveFileMetaInfo, SavedInfo,
         TypeInv, TypeOK, TypeClose, closeVars
<1>2. TypeClients' /\ LeftPositive'
  <2>0. TypeClients /\ LeftPositive
    BY DEF TypeInv, TypeOK
  <2>1. CASE RunReceive
    <3>1. channel' \in Seq(Nat) /\ Len(channel') <= ChannelBufferSize
      BY <2>0, <2>1, TailFacts, ConstantsAssumption DEF RunReceive, ArmTimer, TypeClients
    <3> QED BY <2>0, <2>1, <3>1 DEF RunReceive, ArmTimer, TypeClients, LeftPositive, clientVars
  <2>2. CASE RunFlush \/ RunDone
    BY <2>0, <2>2 DEF RunFlush, RunDone, TypeClients, LeftPositive, clientVars
  <2>3. CASE SaveStep
    BY <2>0, <2>3 DEF SaveStep, WriteBegin, WriteRecordInMemory,
           WriteEndInMemory, WriteRecordFile, WriteIndexFile, SaveFileMetaInfo, SavedInfo,
           TypeClients, LeftPositive, clientVars
  <2> QED BY <2>1, <2>2, <2>3 DEF RunStep
<1>3. TypeRun' /\ TypeStore'
  <2>0. TypeRun /\ TypeStore /\ TypeClients
    BY DEF TypeInv, TypeOK
  <2>1. CASE RunReceive
    <3>1. buffer' \in Seq(Nat) /\ Len(buffer') = Len(buffer) + 1
      BY <2>0, <2>1, TailFacts, AppendFacts DEF RunReceive, ArmTimer, TypeClients, TypeRun
    <3>2. TypeRun'
      BY <2>0, <2>1, <3>1 DEF RunReceive, ArmTimer, CallSave, TypeRun
    <3> QED BY <2>0, <2>1, <3>2 DEF RunReceive, ArmTimer, TypeStore, storeVars
  <2>2. CASE RunFlush \/ RunDone
    BY <2>0, <2>2 DEF RunFlush, RunDone, CallSave, TypeRun, TypeStore, storeVars
  <2>3. /\ SaveReturns(TRUE) => TypeRun'
        /\ SaveReturns(FALSE) => TypeRun'
    <3>1. ASSUME NEW b \in Seq(Nat), wpos' = 0, buffer' = b PROVE wpos' \in 0..Len(buffer')
      BY <3>1
    <3>2. <<>> \in Seq(Nat)
      OBVIOUS
    <3> QED BY <2>0, <3>1, <3>2 DEF SaveReturns, BufferAfterSave, RunAfterSave, ArmTimer, TypeRun
  <2>4. ASSUME StoreRecord, wpos < Len(buffer)
        PROVE  data' \in Seq(Nat) /\ readable' \in MessagesInfo
    <3>1. buffer[wpos + 1] \in Nat
      BY <2>0, <2>4, ElementFacts DEF TypeRun
    <3>2. data' \in Seq(Nat)
      BY <2>0, <2>4, <3>1, AppendFacts DEF StoreRecord, TypeStore
    <3> QED BY <2>0, <2>4, <3>1, <3>2, InfoFacts DEF StoreRecord, TypeStore
  <2>5. CASE WriteBegin
    <3>1. readable' \in MessagesInfo
      BY <2>0, <2>5, InfoFacts DEF WriteBegin, TypeClients, TypeStore
    <3>2. TypeRun'
      BY <2>0, <2>5, <2>3 DEF WriteBegin, TypeRun
    <3> QED BY <2>0, <2>5, <3>1, <3>2 DEF WriteBegin, TypeStore
  <2>6. CASE WriteRecordInMemory
    <3>1. data' \in Seq(Nat) /\ readable' \in MessagesInfo
      BY <2>0, <2>4, <2>6 DEF WriteRecordInMemory, TypeStore
    <3>2. TypeRun'
      <4>1. CASE SaveReturns(FALSE)
        BY <2>3, <4>1
      <4>2. CASE wpos' = wpos + 1 /\ UNCHANGED <<run, after, timer, buffer>>
        BY <2>0, <2>6, <4>2 DEF WriteRecordInMemory, TypeRun
      <4> QED BY <2>6, <4>1, <4>2 DEF WriteRecordInMemory
    <3> QED BY <2>0, <2>6, <3>1, <3>2 DEF WriteRecordInMemory, TypeStore
  <2>7. CASE WriteEndInMemory
    BY <2>0, <2>7, <2>3 DEF WriteEndInMemory, TypeStore, storeVars
  <2>8. CASE WriteRecordFile
    <3>1. data' \in Seq(Nat) /\ readable' \in MessagesInfo
      BY <2>0, <2>4, <2>8 DEF WriteRecordFile, TypeStore
    <3>2. TypeRun' /\ faults' \in Nat
      <4>1. CASE WriteFails
        BY <2>0, <2>3, <4>1 DEF WriteFails, TypeStore
      <4>2. CASE ~WriteFails
        BY <2>0, <2>8, <4>2 DEF WriteRecordFile, TypeRun, TypeStore
      <4> QED BY <4>1, <4>2
    <3> QED BY <2>0, <2>8, <3>1, <3>2 DEF WriteRecordFile, TypeStore
  <2>9. CASE WriteIndexFile
    <3>1. CASE WriteFails /\ UNCHANGED index
      BY <2>0, <2>9, <3>1, <2>3 DEF WriteIndexFile, WriteFails, TypeStore
    <3>2. CASE /\ index' = Append(index, buffer[wpos + 1])
               /\ run' = "record" /\ wpos' = wpos + 1
               /\ UNCHANGED <<after, timer, buffer, faults>>
      <4>1. wpos < Len(buffer)
        BY <2>9 DEF WriteIndexFile, TypeInv, InRecord
      <4>2. buffer[wpos + 1] \in Nat
        BY <2>0, <4>1, ElementFacts DEF TypeRun
      <4>3. index' \in Seq(Nat)
        BY <2>0, <3>2, <4>2, AppendFacts DEF TypeStore
      <4>4. TypeRun'
        BY <2>0, <3>2, <4>1 DEF TypeRun
      <4> QED BY <2>0, <2>9, <3>2, <4>3, <4>4 DEF WriteIndexFile, TypeStore
    <3> QED BY <3>1, <3>2, <2>9 DEF WriteIndexFile
  <2>10. CASE SaveFileMetaInfo
    <3>1. TypeRun' /\ faults' \in Nat
      <4>1. CASE WriteFails
        BY <2>0, <2>3, <4>1 DEF WriteFails, TypeStore
      <4>2. CASE SaveReturns(TRUE) /\ UNCHANGED faults
        BY <2>0, <2>3, <4>2 DEF TypeStore
      <4> QED BY <2>10, <4>1, <4>2 DEF SaveFileMetaInfo, SavedInfo
    <3>2. meta' \in [ingested : MessagesInfo, readable : MessagesInfo]
      <4>1. CASE WriteFails /\ UNCHANGED meta
        BY <2>0, <4>1 DEF TypeStore
      <4>2. CASE \E cpt \in CptRead : meta' = SavedInfo(cpt)
        <5>1. PICK cpt \in CptRead : meta' = SavedInfo(cpt)
          BY <4>2
        <5>2. ingested \in MessagesInfo /\ readable \in MessagesInfo
          BY <2>0 DEF TypeClients, TypeStore
        <5>3. cpt \in Nat
          BY <5>2 DEF CptRead, MessagesInfo
        <5> QED BY <5>1, <5>2, <5>3 DEF SavedInfo, MessagesInfo
      <4> QED BY <2>10, <4>1, <4>2 DEF SaveFileMetaInfo, SavedInfo
    <3> QED BY <2>0, <2>10, <3>1, <3>2 DEF SaveFileMetaInfo, SavedInfo, TypeStore
  <2> QED BY <2>1, <2>2, <2>5, <2>6, <2>7, <2>8, <2>9, <2>10 DEF RunStep, SaveStep
<1>4. InRecord'
  <2> USE DEF TypeInv, InRecord
  <2>1. CASE RunReceive \/ RunFlush \/ RunDone
    BY <2>1 DEF RunReceive, ArmTimer, RunFlush, RunDone, CallSave
  <2>2. /\ SaveReturns(TRUE) => InRecord'
        /\ SaveReturns(FALSE) => InRecord'
    BY DEF SaveReturns, BufferAfterSave, RunAfterSave, ArmTimer
  <2>3. CASE SaveStep
    BY <2>2, <2>3 DEF SaveStep, WriteBegin, WriteRecordInMemory,
       WriteEndInMemory, WriteRecordFile, WriteIndexFile, SaveFileMetaInfo, SavedInfo, WriteFails
  <2> QED BY <2>1, <2>3 DEF RunStep
<1> QED BY <1>1, <1>2, <1>3, <1>4 DEF TypeInv, TypeOK

LEMMA TypeOther ==
  ASSUME TypeInv, Start \/ StartEnd \/ \E k \in Closers : CloseStep(k)
  PROVE  TypeInv'
<1> USE DEF TypeInv, TypeOK, clientVars, runVars, storeVars, closeVars
<1>1. TypeClients' /\ LeftPositive' /\ TypeStore'
  BY DEF Start, StartEnd, CloseStep, CloseBegin, CloseStop, CloseDone, CloseWait, RunIsOver,
         TypeClients, LeftPositive, TypeStore
<1>2. TypeRun' /\ InRecord'
  BY DEF Start, StartEnd, CloseStep, CloseBegin, CloseStop, CloseDone, CloseWait, RunIsOver, TypeRun, InRecord
<1>3. TypeClose'
  BY DEF Start, StartEnd, CloseStep, CloseBegin, CloseStop, CloseDone, CloseWait, RunIsOver, TypeClose
<1> QED BY <1>1, <1>2, <1>3

(* The inductive type invariant: types, and where a Put or a Write stands. *)
THEOREM TypeCorrect == Spec => []TypeInv
<1>1. TypeInv /\ [Next]_vars => TypeInv'
  <2> SUFFICES ASSUME TypeInv, [Next]_vars PROVE TypeInv'
    OBVIOUS
  <2>1. CASE UNCHANGED vars
    BY <2>1 DEF vars, clientVars, runVars, storeVars, closeVars, TypeInv, TypeOK,
       TypeClients, TypeRun, TypeStore, TypeClose, LeftPositive, InRecord
  <2> QED BY <2>1, TypePut, TypeRunStep, TypeOther DEF Next
<1> QED BY <1>1, TypeInit, PTL DEF Spec

(* Every behaviour of the write path is type correct; among the types, the *)
(* channel never holds more than ChannelBufferSize messages and the rank   *)
(* reached by Write is within the buffer.                                  *)
THEOREM TypesHold == Spec => []TypeOK
<1>1. TypeInv => TypeOK
  BY DEF TypeInv
<1> QED BY <1>1, TypeCorrect, PTL

(***************************************************************************)
(* The mutex and the order of the messages in flight                       *)
(***************************************************************************)

\* muIncMsgId is held exactly by the client between Lock and Unlock, and the
\* numbering starts only where no identifier was given out.
MutexInv ==
  /\ \A c \in Clients : pc[c] \in {"alloc", "send", "unlock"} <=> mu = c
  /\ ingested.cpt = 0 => ingested.last = 0

\* InFlightContiguous, and nothing was received that was not given out.
FlowInv == InFlightContiguous /\ Cleared >= 0

LEMMA PutKeepsMutex ==
  ASSUME TypeInv, MutexInv, NEW c \in Clients, PutStep(c)
  PROVE  MutexInv'
<1> USE DEF MutexInv
<1>0. /\ mu \in Clients \cup {Free} /\ Free \notin Clients
      /\ pc \in [Clients -> {"idle", "lock", "alloc", "send", "unlock"}]
      /\ ingested.last \in Nat /\ ingested.cpt \in Nat
  BY ConstantsAssumption, InfoFacts DEF TypeInv, TypeOK, TypeClients
<1>1. ASSUME NEW n \in 0..MaxBatch, PutBegin(c, n) PROVE MutexInv'
  BY <1>0, <1>1 DEF PutBegin
<1>2. CASE PutLock(c)
  BY <1>0, <1>2 DEF PutLock, MutexFree, FirstMessageEver
<1>3. CASE PutAlloc(c)
  BY <1>0, <1>3 DEF PutAlloc, CountMessage
<1>4. CASE PutSend(c)
  BY <1>0, <1>4 DEF PutSend, ChannelHasRoom
<1>5. CASE PutEnd(c)
  BY <1>0, <1>5 DEF PutEnd
<1> QED BY <1>1, <1>2, <1>3, <1>4, <1>5 DEF PutStep

\* The steps of Run, Start and Close leave the clients alone.
OtherStep ==
  RunStep \/ Start \/ StartEnd \/ (\E k \in Closers : CloseStep(k)) \/ UNCHANGED vars

LEMMA OthersKeepClients ==
  ASSUME OtherStep PROVE UNCHANGED clientVars
  BY DEF OtherStep, RunStep, SaveStep, RunReceive, ArmTimer, RunFlush, RunDone, WriteBegin,
     WriteRecordInMemory, WriteEndInMemory, WriteRecordFile, WriteIndexFile, SaveFileMetaInfo, SavedInfo,
     Start, StartEnd, CloseStep, CloseBegin, CloseStop, CloseDone, CloseWait, RunIsOver, vars

LEMMA NextCases ==
  ASSUME [Next]_vars
  PROVE  (\E c \in Clients : PutStep(c)) \/ OtherStep
  BY DEF Next, OtherStep

(* The mutex protects the assignment of identifiers. *)
THEOREM MutexCorrect == Spec => []MutexInv
<1>1. Init => MutexInv
  BY ConstantsAssumption DEF Init, MutexInv, NoMessages
<1>2. TypeInv /\ MutexInv /\ [Next]_vars => MutexInv'
  <2> SUFFICES ASSUME TypeInv, MutexInv, [Next]_vars PROVE MutexInv'
    OBVIOUS
  <2>1. CASE OtherStep
    BY <2>1, OthersKeepClients DEF MutexInv, clientVars
  <2> QED BY <2>1, NextCases, PutKeepsMutex
<1> QED BY <1>1, <1>2, TypeCorrect, PTL DEF Spec

\* How many messages each step moves.
LEMMA PutMoves ==
  ASSUME TypeInv, MutexInv, NEW c \in Clients, PutStep(c)
  PROVE  Received' = Received
<1>0. /\ mu \in Clients \cup {Free} /\ Free \notin Clients
      /\ pc \in [Clients -> {"idle", "lock", "alloc", "send", "unlock"}]
      /\ ingested.last \in Nat /\ ingested.cpt \in Nat
      /\ channel \in Seq(Nat) /\ Len(channel) \in Nat
  BY ConstantsAssumption, TypeFacts DEF TypeInv, TypeOK, TypeClients
<1>1. ASSUME NEW n \in 0..MaxBatch, PutBegin(c, n) PROVE Received' = Received
  <2>1. Sending' = Sending
    BY <1>0, <1>1 DEF PutBegin, Sending
  <2> QED BY <1>1, <2>1 DEF PutBegin, Received, Pending
<1>2. CASE PutLock(c)
  <2>1. Sending' = Sending
    BY <1>0, <1>2 DEF PutLock, MutexFree, Sending
  <2>2. ingested'.last = ingested.last
    BY <1>0, <1>2 DEF PutLock, MutexFree, FirstMessageEver, MutexInv
  <2> QED BY <1>2, <2>1, <2>2 DEF PutLock, MutexFree, Received, Pending
<1>3. CASE PutAlloc(c)
  <2>1. ~Sending /\ Sending'
    BY <1>0, <1>3 DEF PutAlloc, Sending, MutexInv
  <2>2. ingested'.last = ingested.last + 1
    BY <1>3 DEF PutAlloc, CountMessage
  <2>3. Pending = 0 /\ Pending' = 1 /\ channel' = channel
    BY <1>3, <2>1 DEF PutAlloc, Pending
  <2> HIDE DEF Pending
  <2> QED BY <1>0, <2>2, <2>3 DEF Received
<1>4. CASE PutSend(c)
  <2>1. Sending /\ ~Sending'
    BY <1>0, <1>4 DEF PutSend, ChannelHasRoom, Sending, MutexInv
  <2>2. Len(channel') = Len(channel) + 1
    BY <1>0, <1>4, AppendFacts DEF PutSend, ChannelHasRoom
  <2>3. Pending = 1 /\ Pending' = 0 /\ ingested' = ingested
    BY <1>4, <2>1 DEF PutSend, ChannelHasRoom, Pending
  <2> HIDE DEF Pending
  <2> QED BY <1>0, <2>2, <2>3 DEF Received
<1>5. CASE PutEnd(c)
  <2>1. Sending' = Sending
    BY <1>0, <1>5 DEF PutEnd, Sending
  <2> QED BY <1>5, <2>1 DEF PutEnd, Received, Pending
<1> QED BY <1>1, <1>2, <1>3, <1>4, <1>5 DEF PutStep

LEMMA PendingFacts == Pending \in {0, 1} /\ (Sending => Pending = 1)
  BY DEF Pending

LEMMA OthersKeepPending ==
  ASSUME OtherStep PROVE Pending' = Pending /\ ingested' = ingested
  BY OthersKeepClients DEF Pending, Sending, clientVars

LEMMA PutKeepsRun ==
  ASSUME NEW c \in Clients, PutStep(c)
  PROVE  UNCHANGED <<runVars, storeVars, closeVars, state>>
  BY DEF PutStep, PutBegin, PutLock, MutexFree, PutAlloc, PutSend, ChannelHasRoom, PutEnd

LEMMA ReceivedInt ==
  ASSUME TypeInv PROVE Received \in Int /\ Cleared \in Int
<1>1. Received \in Int
  BY TypeFacts, PendingFacts DEF Received
<1> QED BY <1>1, TypeFacts DEF Cleared

LEMMA PutKeepsFlow ==
  ASSUME TypeInv, MutexInv, FlowInv, NEW c \in Clients, PutStep(c)
  PROVE  FlowInv'
<1>1. Received' = Received
  BY PutMoves
<1>2. buffer' = buffer
  BY PutKeepsRun DEF runVars
<1>3. Cleared' = Cleared
  BY <1>1, <1>2 DEF Cleared
<1>4. ASSUME NEW i \in 1..Len(channel') PROVE channel'[i] = Received' + i
  <2>1. CASE channel' = channel
    BY <1>1, <1>4, <2>1 DEF FlowInv, InFlightContiguous
  <2>2. CASE PutSend(c)
    <3>1. /\ channel' = Append(channel, ingested.last)
          /\ Len(channel') = Len(channel) + 1
          /\ channel'[Len(channel) + 1] = ingested.last
          /\ \A j \in 1..Len(channel) : channel'[j] = channel[j]
      BY <2>2, TypeFacts, AppendFacts DEF PutSend, ChannelHasRoom
    <3>2. CASE i \in 1..Len(channel)
      BY <1>1, <3>1, <3>2 DEF FlowInv, InFlightContiguous
    <3>3. CASE i = Len(channel) + 1
      <4>1. Pending = 1
        BY <2>2, PendingFacts DEF PutSend, ChannelHasRoom, Sending
      <4>2. ingested.last = Received + Len(channel) + 1
        BY <4>1, TypeFacts DEF Received
      <4>3. channel'[i] = Received + i
        BY <3>1, <3>3, <4>2, TypeFacts, ReceivedInt
      <4> QED BY <1>1, <4>3
    <3>4. i \in 1..(Len(channel) + 1)
      BY <3>1
    <3>5. i \in 1..Len(channel) \/ i = Len(channel) + 1
      BY <3>4, TypeFacts
    <3> QED BY <3>2, <3>3, <3>5
  <2> QED BY <2>1, <2>2 DEF PutStep, PutBegin, PutLock, MutexFree, PutAlloc, PutEnd
<1> QED BY <1>1, <1>2, <1>3, <1>4 DEF FlowInv, InFlightContiguous

LEMMA ReceiveMoves ==
  ASSUME TypeInv, RunReceive
  PROVE  /\ Received' = Received + 1
         /\ Cleared' = Cleared
         /\ Len(buffer') = Len(buffer) + 1
         /\ buffer'[Len(buffer) + 1] = channel[1]
         /\ \A j \in 1..Len(buffer) : buffer'[j] = buffer[j]
         /\ Len(channel') = Len(channel) - 1
         /\ \A j \in 1..(Len(channel) - 1) : channel'[j] = channel[j + 1]
         /\ Len(channel) >= 1
<1>1. channel # <<>> /\ channel' = Tail(channel) /\ buffer' = Append(buffer, Head(channel))
  BY DEF RunReceive, ArmTimer
<1>2. /\ Len(channel') = Len(channel) - 1 /\ Len(channel) >= 1
      /\ \A j \in 1..(Len(channel) - 1) : channel'[j] = channel[j + 1]
      /\ Head(channel) = channel[1] /\ Head(channel) \in Nat
  BY <1>1, TypeFacts, TailFacts
<1>3. /\ Len(buffer') = Len(buffer) + 1
      /\ buffer'[Len(buffer) + 1] = channel[1]
      /\ \A j \in 1..Len(buffer) : buffer'[j] = buffer[j]
  BY <1>1, <1>2, TypeFacts, AppendFacts
<1>4. Received' = Received + 1
  <2>1. Pending' = Pending /\ ingested' = ingested
    BY OthersKeepPending DEF OtherStep, RunStep
  <2> QED BY <2>1, <1>2, TypeFacts, PendingFacts, SMTT(30) DEF Received
<1>5. Cleared' = Cleared
  BY <1>3, <1>4, ReceivedInt, TypeFacts DEF Cleared
<1> QED BY <1>1, <1>2, <1>3, <1>4, <1>5

(***************************************************************************)
(* What the goroutine Run does to the store                                *)
(***************************************************************************)

\* Records of the buffer stored by the Write in progress.
Written == IF run = "index" THEN wpos + 1 ELSE wpos

\* A Write in progress has records; outside Write none are processed.
WriteInv ==
  /\ run \in {"record", "index"} => buffer # <<>>
  /\ run \notin {"record", "index"} => wpos = 0
  /\ run = "index" => Provider = "JSONFile" /\ wpos < Len(buffer)

\* The four effects a step of Run can have on the store.
Kept ==
  /\ data' = data /\ Cleared' = Cleared /\ Written' = Written
  /\ Received' \in {Received, Received + 1}

Abandoned ==
  /\ data' = data /\ Cleared' = Cleared /\ Written' = 0 /\ Received' = Received
  /\ run' \in {"select", "exited"}
  /\ (Provider = "JSONFile" /\ faults' > 0) \/ (Provider = "InMemory" /\ LimitReached)

Appended ==
  /\ data' = Append(data, Cleared + Written + 1)
  /\ Cleared' = Cleared /\ Written' = Written + 1 /\ Received' = Received
  /\ Written < Len(buffer)
  /\ run' \in {"record", "index"}
  /\ Provider = "InMemory" => ~LimitReached

Flushed ==
  /\ data' = data /\ Received' = Received
  /\ Written = Len(buffer) /\ Cleared' = Cleared + Written /\ Written' = 0
  /\ run' \in {"select", "exited"}

LEMMA SaveReturnsEffect ==
  ASSUME TypeInv, OtherStep, channel' = channel
  PROVE  /\ SaveReturns(FALSE) => /\ Received' = Received /\ Cleared' = Cleared
                                 /\ Written' = 0 /\ buffer' = buffer
                                 /\ run' \in {"select", "exited"}
         /\ SaveReturns(TRUE) => /\ Received' = Received /\ Cleared' = Cleared + Len(buffer)
                                /\ Written' = 0 /\ buffer' = <<>>
                                /\ run' \in {"select", "exited"}
<1>1. Received' = Received
  BY OthersKeepPending DEF Received
<1>2. ASSUME SaveReturns(FALSE) \/ SaveReturns(TRUE)
      PROVE  Written' = 0 /\ run' \in {"select", "exited"}
  BY <1>2 DEF SaveReturns, BufferAfterSave, RunAfterSave, ArmTimer, Written
<1>3. SaveReturns(FALSE) => buffer' = buffer /\ Cleared' = Cleared
  BY <1>1 DEF SaveReturns, BufferAfterSave, RunAfterSave, ArmTimer, Cleared
<1>4. SaveReturns(TRUE) => buffer' = <<>> /\ Cleared' = Cleared + Len(buffer)
  <2> SUFFICES ASSUME SaveReturns(TRUE) PROVE buffer' = <<>> /\ Cleared' = Cleared + Len(buffer)
    OBVIOUS
  <2>1. buffer' = <<>> /\ Len(buffer') = 0
    BY DEF SaveReturns, BufferAfterSave, RunAfterSave, ArmTimer
  <2> QED BY <1>1, <2>1, ReceivedInt, TypeFacts DEF Cleared
<1> QED BY <1>1, <1>2, <1>3, <1>4

LEMMA RunEffect ==
  ASSUME TypeInv, FlowInv, WriteInv, OtherStep
  PROVE  Kept \/ Abandoned \/ Appended \/ Flushed
<1> USE DEF WriteInv
<1>0. Received \in Int /\ Cleared \in Int /\ Pending' = Pending /\ ingested' = ingested
  BY ReceivedInt, OthersKeepPending
<1>1. ASSUME channel' = channel, buffer' = buffer
      PROVE  Received' = Received /\ Cleared' = Cleared
  BY <1>0, <1>1 DEF Received, Cleared
<1>2. CASE RunReceive
  <2>1. Written = 0 /\ Written' = 0 /\ data' = data
    BY <1>2 DEF RunReceive, ArmTimer, CallSave, Written, storeVars
  <2> QED BY <1>2, <2>1, ReceiveMoves DEF Kept
<1>3. CASE RunFlush \/ RunDone
  <2>1. Written = 0 /\ Written' = 0 /\ data' = data /\ channel' = channel /\ buffer' = buffer
    BY <1>3 DEF RunFlush, RunDone, CallSave, Written, storeVars
  <2> QED BY <1>1, <2>1 DEF Kept
<1>4. CASE Start \/ StartEnd \/ (\E k \in Closers : CloseStep(k)) \/ UNCHANGED vars
  <2>1. Written' = Written /\ data' = data /\ channel' = channel /\ buffer' = buffer
    BY <1>4 DEF Start, StartEnd, CloseStep, CloseBegin, CloseStop, CloseDone, CloseWait, RunIsOver,
       Written, vars, storeVars, runVars
  <2> QED BY <1>1, <2>1 DEF Kept
<1>5. CASE WriteBegin
  <2>1. CASE buffer = <<>>
    <3>1. SaveReturns(TRUE) /\ channel' = channel /\ data' = data
      BY <1>5, <2>1 DEF WriteBegin
    <3>2. Written = 0 /\ Len(buffer) = 0
      BY <1>5, <2>1 DEF WriteBegin, Written
    <3> QED BY <1>0, <3>1, <3>2, SaveReturnsEffect DEF Kept
  <2>2. CASE buffer # <<>>
    <3>1. Written = 0 /\ Written' = 0 /\ data' = data /\ channel' = channel /\ buffer' = buffer
      BY <1>5, <2>2 DEF WriteBegin, Written
    <3> QED BY <1>1, <3>1 DEF Kept
  <2> QED BY <2>1, <2>2
<1>6. ASSUME StoreRecord, run = "record", wpos < Len(buffer), Written' = wpos + 1,
             channel' = channel, buffer' = buffer, run' \in {"record", "index"},
             Provider = "InMemory" => ~LimitReached
      PROVE  Appended
  <2>1. buffer[wpos + 1] = Cleared + Written + 1 /\ Written = wpos
    <3>1. Written = wpos /\ wpos + 1 \in 1..Len(buffer)
      BY <1>6, TypeFacts, SMTT(30) DEF Written
    <3>2. buffer[wpos + 1] = Cleared + (wpos + 1)
      BY <3>1 DEF FlowInv, InFlightContiguous
    <3> QED BY <1>0, <3>1, <3>2, TypeFacts
  <2> QED BY <1>1, <1>6, <2>1 DEF Appended, StoreRecord
<1>7. CASE WriteRecordInMemory
  <2>1. CASE LimitReached
    BY <1>7, <2>1, SaveReturnsEffect DEF WriteRecordInMemory, Abandoned
  <2>2. CASE ~LimitReached
    BY <1>6, <1>7, <2>2 DEF WriteRecordInMemory, Written
  <2> QED BY <2>1, <2>2
<1>8. ASSUME WriteFails, Provider = "JSONFile", data' = data, channel' = channel
      PROVE  Abandoned
  <2>1. faults' > 0
    BY <1>8 DEF WriteFails, TypeInv, TypeOK, TypeStore
  <2> QED BY <1>8, <2>1, SaveReturnsEffect DEF WriteFails, Abandoned
<1>9. CASE WriteEndInMemory
  <2>1. SaveReturns(TRUE) /\ channel' = channel /\ data' = data /\ Written = Len(buffer)
    BY <1>9 DEF WriteEndInMemory, storeVars, Written
  <2> QED BY <2>1, SaveReturnsEffect DEF Flushed
<1>10. CASE WriteRecordFile
  BY <1>6, <1>8, <1>10 DEF WriteRecordFile, Written
<1>11. CASE WriteIndexFile
  <2>1. CASE WriteFails
    BY <1>8, <1>11, <2>1 DEF WriteIndexFile
  <2>2. CASE ~WriteFails
    <3>1. Written' = Written /\ data' = data /\ channel' = channel /\ buffer' = buffer
      BY <1>11, <2>2 DEF WriteIndexFile, Written
    <3> QED BY <1>1, <3>1 DEF Kept
  <2> QED BY <2>1, <2>2
<1>12. CASE SaveFileMetaInfo
  <2>1. CASE WriteFails
    BY <1>8, <1>12, <2>1 DEF SaveFileMetaInfo, SavedInfo
  <2>2. CASE ~WriteFails
    <3>1. SaveReturns(TRUE) /\ channel' = channel /\ data' = data /\ Written = Len(buffer)
      BY <1>12, <2>2 DEF SaveFileMetaInfo, SavedInfo, Written
    <3> QED BY <3>1, SaveReturnsEffect DEF Flushed
  <2> QED BY <2>1, <2>2
<1> QED BY <1>2, <1>3, <1>4, <1>5, <1>7, <1>9, <1>10, <1>11, <1>12 DEF OtherStep, RunStep, SaveStep

LEMMA OthersKeepFlow ==
  ASSUME TypeInv, FlowInv, WriteInv, OtherStep
  PROVE  FlowInv'
<1>0. Received \in Int /\ Cleared \in Int
  BY ReceivedInt
<1>1. CASE RunReceive
  <2>1. Cleared' >= 0
    BY <1>1, ReceiveMoves DEF FlowInv
  <2>2. ASSUME NEW i \in 1..Len(channel') PROVE channel'[i] = Received' + i
    <3>1. i \in 1..(Len(channel) - 1) /\ i + 1 \in 1..Len(channel)
      BY <1>1, ReceiveMoves, TypeFacts
    <3>2. channel'[i] = channel[i + 1] /\ channel[i + 1] = Received + (i + 1)
      BY <1>1, <3>1, ReceiveMoves DEF FlowInv, InFlightContiguous
    <3> QED BY <1>0, <1>1, <3>1, <3>2, ReceiveMoves
  <2>3. ASSUME NEW i \in 1..Len(buffer') PROVE buffer'[i] = Cleared' + i
    <3>1. i \in 1..Len(buffer) \/ i = Len(buffer) + 1
      BY <1>1, ReceiveMoves, TypeFacts, SMTT(30)
    <3>2. CASE i \in 1..Len(buffer)
      BY <1>1, <3>2, ReceiveMoves DEF FlowInv, InFlightContiguous
    <3>3. CASE i = Len(buffer) + 1
      <4>1. 1 \in 1..Len(channel) /\ buffer'[i] = channel[1]
        BY <1>1, <3>3, ReceiveMoves, TypeFacts
      <4>2. channel[1] = Received + 1
        BY <4>1 DEF FlowInv, InFlightContiguous
      <4>3. Cleared + i = Received + 1
        BY <1>0, <3>3, TypeFacts DEF Cleared
      <4> QED BY <1>1, <4>1, <4>2, <4>3, ReceiveMoves
    <3> QED BY <3>1, <3>2, <3>3
  <2> QED BY <2>1, <2>2, <2>3 DEF FlowInv, InFlightContiguous
<1>2. ASSUME channel' = channel, SaveReturns(TRUE) PROVE FlowInv'
  <2>1. /\ Received' = Received /\ Cleared' = Cleared + Len(buffer) /\ buffer' = <<>>
    BY <1>2, SaveReturnsEffect
  <2>2. Cleared' >= 0 /\ Len(buffer') = 0
    BY <1>0, <2>1, TypeFacts DEF FlowInv
  <2> QED BY <1>2, <2>1, <2>2 DEF FlowInv, InFlightContiguous
<1>3. ASSUME channel' = channel, buffer' = buffer PROVE FlowInv'
  <2>1. Received' = Received /\ Cleared' = Cleared
    BY <1>3, OthersKeepPending DEF Received, Cleared
  <2> QED BY <1>3, <2>1 DEF FlowInv, InFlightContiguous
<1>4. CASE ~RunReceive
  <2>1. channel' = channel /\ (buffer' = buffer \/ SaveReturns(TRUE))
    <3>1. SaveReturns(FALSE) => buffer' = buffer
      BY DEF SaveReturns, BufferAfterSave, RunAfterSave, ArmTimer
    <3> QED BY <1>4, <3>1 DEF OtherStep, RunStep, SaveStep, RunFlush, RunDone, WriteBegin,
         WriteRecordInMemory, WriteEndInMemory, WriteRecordFile, WriteIndexFile,
         SaveFileMetaInfo, SavedInfo, Start, StartEnd, CloseStep, CloseBegin, CloseStop, CloseDone,
         CloseWait, RunIsOver, vars, runVars, WriteFails, CallSave
  <2> QED BY <1>2, <1>3, <2>1
<1> QED BY <1>1, <1>4

LEMMA NextKeepsWrite ==
  ASSUME TypeInv, WriteInv, [Next]_vars
  PROVE  WriteInv'
<1> USE DEF WriteInv
<1>1. ASSUME NEW c \in Clients, PutStep(c) PROVE WriteInv'
  BY <1>1, PutKeepsRun DEF runVars
<1>2. CASE RunReceive
  <2>1. run' \in {"select", "save"} /\ wpos' = 0
    BY <1>2 DEF RunReceive, ArmTimer, CallSave
  <2> QED BY <2>1
<1>3. CASE RunFlush \/ RunDone
  BY <1>3 DEF RunFlush, RunDone, CallSave
<1>4. SaveReturns(TRUE) \/ SaveReturns(FALSE) => WriteInv'
  BY DEF SaveReturns, BufferAfterSave, RunAfterSave, ArmTimer
<1>5. CASE WriteBegin
  BY <1>4, <1>5 DEF WriteBegin
<1>6. CASE WriteRecordInMemory
  BY <1>4, <1>6 DEF WriteRecordInMemory
<1>7. CASE WriteEndInMemory
  BY <1>4, <1>7 DEF WriteEndInMemory
<1>8. CASE WriteRecordFile
  BY <1>4, <1>8 DEF WriteRecordFile, WriteFails
<1>9. CASE WriteIndexFile
  BY <1>4, <1>9 DEF WriteIndexFile, WriteFails
<1>10. CASE SaveFileMetaInfo
  BY <1>4, <1>10 DEF SaveFileMetaInfo, SavedInfo, WriteFails
<1>11. CASE Start \/ StartEnd \/ (\E k \in Closers : CloseStep(k)) \/ UNCHANGED vars
  BY <1>11 DEF Start, StartEnd, CloseStep, CloseBegin, CloseStop, CloseDone, CloseWait, RunIsOver, vars, runVars
<1> QED BY <1>1, <1>2, <1>3, <1>5, <1>6, <1>7, <1>8, <1>9, <1>10, <1>11, NextCases
        DEF OtherStep, RunStep, SaveStep

(* Messages in flight are never lost, duplicated or overtaken. *)
THEOREM FlowCorrect == Spec => [](FlowInv /\ WriteInv)
<1>1. Init => FlowInv /\ WriteInv
  <2> SUFFICES ASSUME Init PROVE FlowInv /\ WriteInv
    OBVIOUS
  <2>1. Len(channel) = 0 /\ Len(buffer) = 0 /\ ingested.last = 0 /\ Pending = 0
    BY DEF Init, NoMessages, Pending, Sending
  <2>2. Received = 0 /\ Cleared = 0
    BY <2>1 DEF Received, Cleared
  <2> QED BY <2>1, <2>2 DEF Init, FlowInv, WriteInv, InFlightContiguous
<1>2. TypeInv /\ MutexInv /\ FlowInv /\ WriteInv /\ [Next]_vars => (FlowInv /\ WriteInv)'
  BY NextCases, NextKeepsWrite, PutKeepsFlow, OthersKeepFlow
<1> QED BY <1>1, <1>2, TypeCorrect, MutexCorrect, PTL DEF Spec

(* InFlightContiguous: the property the runs check. *)
THEOREM InFlightOrder == Spec => []InFlightContiguous
<1>1. FlowInv => InFlightContiguous
  BY DEF FlowInv
<1> QED BY <1>1, FlowCorrect, PTL

(***************************************************************************)
(* The stored records                                                      *)
(***************************************************************************)

LastData == IF Len(data) = 0 THEN 0 ELSE data[Len(data)]

\* StoredWithoutGap made inductive: the last stored record is never before
\* what was cleared, during a Write it is the last record written, and
\* everything cleared or written by the Write in progress is stored.
StoreInv ==
  /\ StoredWithoutGap
  /\ LastData \in Cleared..Received
  /\ Written > 0 => LastData = Cleared + Written
  /\ \A id \in 1..(Cleared + Written) : \E i \in 1..Len(data) : data[i] = id

LEMMA WrittenFacts ==
  ASSUME TypeInv, WriteInv
  PROVE  Written \in Nat /\ Written <= Len(buffer)
  BY TypeFacts DEF Written, WriteInv

LEMMA RangeWeakens ==
  ASSUME NEW a \in Int, NEW b \in Int, a <= b
  PROVE  \A id \in 1..a : id \in 1..b
  OBVIOUS

\* Steps that leave the store alone and write off nothing that was stored.
LEMMA KeepStore ==
  ASSUME TypeInv, FlowInv, WriteInv, StoreInv, data' = data,
         NEW c \in Int, c = Cleared', NEW w \in Nat, w = Written', NEW r \in Int, r = Received',
         c + w <= Cleared + Written, r >= Received,
         LastData \in c..r, w > 0 => LastData = c + w
  PROVE  StoreInv'
<1>0. Cleared \in Int /\ Received \in Int /\ Written \in Nat
  BY ReceivedInt, WrittenFacts
<1>1. LastData' = LastData
  BY DEF LastData
<1>2. StoredWithoutGap'
  BY DEF StoreInv, StoredWithoutGap
<1>3. \A id \in 1..(c + w) : \E i \in 1..Len(data) : data[i] = id
  <2>1. c + w \in Int /\ Cleared + Written \in Int
    BY <1>0
  <2>2. \A id \in 1..(c + w) : id \in 1..(Cleared + Written)
    BY <2>1, RangeWeakens
  <2> QED BY <2>2 DEF StoreInv
<1> QED BY <1>1, <1>2, <1>3 DEF StoreInv

LEMMA AppendToStore ==
  ASSUME TypeInv, FlowInv, WriteInv, StoreInv, Appended
  PROVE  StoreInv'
<1> DEFINE id0 == Cleared + Written + 1
<1>0. /\ Cleared \in Nat /\ Received \in Int /\ Written \in Nat
      /\ Len(data) \in Nat /\ Len(buffer) \in Nat /\ data \in Seq(Nat)
      /\ Received = Cleared + Len(buffer)
  BY ReceivedInt, WrittenFacts, TypeFacts DEF FlowInv, Cleared
<1>1. id0 \in Nat /\ id0 >= 1 /\ id0 <= Received
  BY <1>0 DEF Appended
<1>2. /\ Len(data') = Len(data) + 1
      /\ data'[Len(data) + 1] = id0
      /\ \A i \in 1..Len(data) : data'[i] = data[i]
  BY <1>0, <1>1, AppendFacts DEF Appended
<1>3. LastData' = id0
  BY <1>0, <1>2 DEF LastData
<1>4. LastData \in Int /\ LastData >= Cleared + Written /\ id0 <= LastData + 1
  <2>1. LastData \in Int /\ LastData >= Cleared
    BY <1>0 DEF StoreInv
  <2>2. CASE Written = 0
    BY <1>0, <2>1, <2>2
  <2>3. CASE Written > 0
    BY <1>0, <2>3 DEF StoreInv
  <2> QED BY <1>0, <2>2, <2>3
<1> HIDE DEF id0
<1>5. StoredWithoutGap'
  <2> SUFFICES ASSUME NEW i \in 1..Len(data')
               PROVE  data'[i] >= 1 /\ data'[i] <= (IF i = 1 THEN 0 ELSE data'[i - 1]) + 1
    BY DEF StoredWithoutGap
  <2>1. CASE i \in 1..Len(data)
    <3>1. data'[i] = data[i] /\ (i # 1 => data'[i - 1] = data[i - 1])
      BY <1>0, <1>2, <2>1, SMTT(30)
    <3> QED BY <2>1, <3>1 DEF StoreInv, StoredWithoutGap
  <2>2. CASE i = Len(data) + 1
    <3>1. CASE i = 1
      <4>1. LastData = 0
        BY <1>0, <2>2, <3>1 DEF LastData
      <4> QED BY <1>1, <1>2, <1>4, <2>2, <3>1, <4>1
    <3>2. CASE i # 1
      <4>1. data'[i - 1] = LastData
        BY <1>0, <1>2, <2>2, <3>2 DEF LastData
      <4> QED BY <1>1, <1>2, <1>4, <2>2, <3>2, <4>1
    <3> QED BY <3>1, <3>2
  <2> QED BY <1>0, <1>2, <2>1, <2>2
<1>6. \A id \in 1..(Cleared + Written + 1) : \E i \in 1..Len(data') : data'[i] = id
  <2> SUFFICES ASSUME NEW id \in 1..(Cleared + Written + 1)
               PROVE  \E i \in 1..Len(data') : data'[i] = id
    OBVIOUS
  <2>1. CASE id = id0
    BY <1>0, <1>2, <2>1
  <2>2. CASE id # id0
    <3>1. id \in 1..(Cleared + Written)
      BY <1>0, <2>2 DEF id0
    <3>2. PICK i \in 1..Len(data) : data[i] = id
      BY <3>1 DEF StoreInv
    <3> QED BY <1>0, <1>2, <3>2
  <2> QED BY <2>1, <2>2
<1>7. Cleared' = Cleared /\ Written' = Written + 1 /\ Received' = Received
  BY DEF Appended
<1>8. LastData' \in Cleared'..Received'
  BY <1>0, <1>1, <1>3, <1>7 DEF id0
<1>9. LastData' = Cleared' + Written'
  BY <1>0, <1>3, <1>7 DEF id0
<1>10. Cleared' + Written' = Cleared + Written + 1
  BY <1>0, <1>7
<1> QED BY <1>5, <1>6, <1>8, <1>9, <1>10 DEF StoreInv

LEMMA NextKeepsStore ==
  ASSUME TypeInv, MutexInv, FlowInv, WriteInv, StoreInv, [Next]_vars
  PROVE  StoreInv'
<1>0. /\ Cleared \in Nat /\ Received \in Int /\ Written \in Nat
      /\ Len(buffer) \in Nat /\ Received = Cleared + Len(buffer)
      /\ LastData \in Cleared..Received
      /\ Written > 0 => LastData = Cleared + Written
  BY ReceivedInt, WrittenFacts, TypeFacts DEF FlowInv, Cleared, StoreInv
<1>1. ASSUME NEW c \in Clients, PutStep(c) PROVE StoreInv'
  <2>1. data' = data /\ Received' = Received /\ Cleared' = Cleared /\ Written' = Written
    BY <1>1, PutMoves, PutKeepsRun DEF Cleared, Written, runVars, storeVars
  <2> QED BY <1>0, <2>1, KeepStore
<1>2. CASE OtherStep
  <2>1. CASE Kept
    BY <1>0, <2>1, KeepStore DEF Kept
  <2>2. CASE Abandoned
    BY <1>0, <2>2, KeepStore DEF Abandoned
  <2>3. CASE Appended
    BY <2>3, AppendToStore
  <2>4. CASE Flushed
    <3>1. LastData = Cleared + Written
      BY <1>0, <2>4 DEF Flushed
    <3> QED BY <1>0, <2>4, <3>1, KeepStore DEF Flushed
  <2> QED BY <1>2, <2>1, <2>2, <2>3, <2>4, RunEffect
<1> QED BY <1>1, <1>2, NextCases

(* The stored records never skip an identifier, whatever fails. *)
THEOREM StoreCorrect == Spec => []StoreInv
<1>1. Init => StoreInv
  <2> SUFFICES ASSUME Init PROVE StoreInv
    OBVIOUS
  <2>1. Len(channel) = 0 /\ Len(buffer) = 0 /\ Len(data) = 0 /\ ingested.last = 0 /\ Pending = 0
    BY DEF Init, NoMessages, Pending, Sending
  <2>2. Received = 0 /\ Cleared = 0
    BY <2>1 DEF Received, Cleared
  <2>3. Written = 0 /\ LastData = 0
    BY <2>1 DEF Init, Written, LastData
  <2> QED BY <2>1, <2>2, <2>3 DEF StoreInv, StoredWithoutGap
<1>2. TypeInv /\ MutexInv /\ (FlowInv /\ WriteInv) /\ StoreInv /\ [Next]_vars => StoreInv'
  BY NextKeepsStore
<1> QED BY <1>1, <1>2, TypeCorrect, MutexCorrect, FlowCorrect, PTL DEF Spec

(* StoredWithoutGap: the property the runs check. *)
THEOREM NoGap == Spec => []StoredWithoutGap
<1>1. StoreInv => StoredWithoutGap
  BY DEF StoreInv
<1> QED BY <1>1, StoreCorrect, PTL

(* NothingLost: every identifier ever given out is stored or still in flight. *)
THEOREM NoLoss == Spec => []NothingLost
<1>1. TypeInv /\ (FlowInv /\ WriteInv) /\ StoreInv => NothingLost
  <2> SUFFICES ASSUME TypeInv, FlowInv, WriteInv, StoreInv, NEW id \in 1..ingested.last
               PROVE  \/ \E i \in 1..Len(data) : data[i] = id
                      \/ \E i \in 1..Len(buffer) : buffer[i] = id
                      \/ \E i \in 1..Len(channel) : channel[i] = id
                      \/ Sending /\ id = ingested.last
    BY DEF NothingLost
  <2>0. /\ Cleared \in Nat /\ Received \in Int /\ Written \in Nat /\ Pending \in {0, 1}
        /\ Len(buffer) \in Nat /\ Len(channel) \in Nat /\ ingested.last \in Nat
        /\ Received = Cleared + Len(buffer)
        /\ ingested.last = Received + Len(channel) + Pending
    <3>1. /\ Received \in Int /\ Cleared \in Int /\ Written \in Nat /\ Pending \in {0, 1}
          /\ Len(buffer) \in Nat /\ Len(channel) \in Nat /\ ingested.last \in Nat
      BY ReceivedInt, WrittenFacts, TypeFacts, PendingFacts
    <3>2. Cleared \in Nat /\ Received = Cleared + Len(buffer)
      BY <3>1 DEF FlowInv, Cleared
    <3>3. ingested.last = Received + Len(channel) + Pending
      BY <3>1 DEF Received
    <3> QED BY <3>1, <3>2, <3>3
  <2>1. CASE id <= Cleared
    <3>1. id \in 1..(Cleared + Written)
      BY <2>0, <2>1
    <3> QED BY <3>1 DEF StoreInv
  <2>2. CASE Cleared < id /\ id <= Received
    <3>1. id - Cleared \in 1..Len(buffer)
      BY <2>0, <2>2
    <3>2. buffer[id - Cleared] = Cleared + (id - Cleared)
      BY <3>1 DEF FlowInv, InFlightContiguous
    <3> QED BY <2>0, <3>1, <3>2
  <2>3. CASE Received < id /\ id <= Received + Len(channel)
    <3>1. id - Received \in 1..Len(channel)
      BY <2>0, <2>3
    <3>2. channel[id - Received] = Received + (id - Received)
      BY <3>1 DEF FlowInv, InFlightContiguous
    <3> QED BY <2>0, <3>1, <3>2
  <2>4. CASE Received + Len(channel) < id
    <3>1. Pending = 1 /\ id = ingested.last
      BY <2>0, <2>4
    <3> QED BY <3>1 DEF Pending
  <2> QED BY <2>0, <2>1, <2>2, <2>3, <2>4
<1> QED BY <1>1, TypeCorrect, FlowCorrect, StoreCorrect, PTL

(***************************************************************************)
(* The information about the stream, in memory and in the meta info file   *)
(***************************************************************************)

\* IngestedMessages counts at least what was received and not yet cleared, and
\* what is on its way.
CountedInv == ingested.last - ingested.cpt <= Cleared

LEMMA ReceivedWasAssigned ==
  ASSUME TypeInv PROVE Received <= ingested.last
  BY TypeFacts, PendingFacts DEF Received

LEMMA NextKeepsCounted ==
  ASSUME TypeInv, MutexInv, FlowInv, WriteInv, CountedInv, [Next]_vars
  PROVE  CountedInv' /\ ingested'.last >= ingested.last
<1>0. /\ ingested.last \in Nat /\ ingested.cpt \in Nat /\ Cleared \in Nat /\ Written \in Nat
  BY TypeFacts, ReceivedInt, WrittenFacts DEF FlowInv
<1>1. ASSUME NEW c \in Clients, PutStep(c) PROVE CountedInv' /\ ingested'.last >= ingested.last
  <2>1. Cleared' = Cleared
    BY <1>1, PutMoves, PutKeepsRun DEF Cleared, runVars
  <2>2. \/ ingested'.last = ingested.last /\ ingested'.cpt = ingested.cpt
        \/ ingested'.last = ingested.last + 1 /\ ingested'.cpt = ingested.cpt + 1
    BY <1>1 DEF PutStep, PutBegin, PutLock, FirstMessageEver, PutAlloc, CountMessage, PutSend, PutEnd,
       MutexInv
  <2> QED BY <1>0, <2>1, <2>2 DEF CountedInv
<1>2. CASE OtherStep
  <2>1. ingested' = ingested
    BY <1>2, OthersKeepPending
  <2>2. Cleared' = Cleared \/ Cleared' = Cleared + Written
    BY <1>2, RunEffect DEF Kept, Abandoned, Appended, Flushed
  <2> QED BY <1>0, <2>1, <2>2 DEF CountedInv
<1> QED BY <1>1, <1>2, NextCases

\* What a step does to the stored records, to ReadableMessages and to the meta
\* info file.
LEMMA StoreEffect ==
  ASSUME TypeInv, FlowInv, WriteInv, CountedInv, [Next]_vars
  PROVE  /\ \/ data' = data /\ readable' = readable
            \/ /\ data' = data /\ readable.cpt = 0
               /\ readable' = [cpt |-> 0, first |-> ingested.first, last |-> 0]
            \/ \E id \in 1..Received : data' = Append(data, id) /\ readable' = CountMessage(readable, id)
         /\ \/ meta' = meta
            \/ /\ data' = data /\ readable' = readable /\ ingested' = ingested
               /\ \E cpt \in Nat \ {0} : meta' = SavedInfo(cpt)
<1>1. ASSUME NEW c \in Clients, PutStep(c) PROVE data' = data /\ readable' = readable /\ meta' = meta
  BY <1>1, PutKeepsRun DEF storeVars
<1>2. CASE RunReceive \/ RunFlush \/ RunDone \/ WriteEndInMemory
  BY <1>2 DEF RunReceive, RunFlush, RunDone, WriteEndInMemory, storeVars
<1>3. CASE Start \/ StartEnd \/ (\E k \in Closers : CloseStep(k)) \/ UNCHANGED vars
  BY <1>3 DEF Start, StartEnd, CloseStep, CloseBegin, CloseStop, CloseDone, CloseWait, storeVars, vars
<1>4. CASE WriteBegin
  BY <1>4 DEF WriteBegin
<1>5. ASSUME StoreRecord, wpos < Len(buffer)
      PROVE  \E id \in 1..Received : data' = Append(data, id) /\ readable' = CountMessage(readable, id)
  <2>0. /\ Cleared \in Nat /\ Received \in Int /\ Len(buffer) \in Nat /\ wpos \in Nat
        /\ Received = Cleared + Len(buffer)
    BY ReceivedInt, TypeFacts DEF FlowInv, Cleared
  <2>1. wpos + 1 \in 1..Len(buffer)
    BY <1>5, <2>0
  <2>2. buffer[wpos + 1] = Cleared + (wpos + 1)
    BY <2>1 DEF FlowInv, InFlightContiguous
  <2>3. buffer[wpos + 1] \in 1..Received
    BY <2>0, <2>1, <2>2
  <2> QED BY <1>5, <2>3 DEF StoreRecord
<1>6. CASE WriteRecordInMemory \/ WriteRecordFile
  BY <1>5, <1>6 DEF WriteRecordInMemory, WriteRecordFile
<1>7. CASE WriteIndexFile
  BY <1>7 DEF WriteIndexFile
<1>8. CASE SaveFileMetaInfo
  <2>1. CASE meta' = meta
    BY <1>8, <2>1 DEF SaveFileMetaInfo
  <2>2. CASE \E cpt \in CptRead : meta' = SavedInfo(cpt)
    <3>1. PICK cpt \in CptRead : meta' = SavedInfo(cpt)
      BY <2>2
    <3>2. buffer # <<>>
      BY <1>8 DEF SaveFileMetaInfo, WriteInv
    <3>3. Len(buffer) >= 1
      BY <3>2, TypeFacts
    <3>4. cpt \in Nat /\ ingested.cpt - cpt <= Len(channel) + Pending
      BY TypeFacts DEF CptRead
    <3>5. cpt >= 1
      <4>1. ingested.cpt \in Nat /\ ingested.last \in Nat /\ Len(channel) \in Nat /\ Len(buffer) \in Nat
        BY TypeFacts
      <4>2. Pending \in {0, 1}
        BY PendingFacts
      <4>3. Cleared = ingested.last - Pending - Len(channel) - Len(buffer)
        BY DEF Cleared, Received
      <4> HIDE DEF Pending
      <4> QED BY <3>3, <3>4, <4>1, <4>2, <4>3 DEF CountedInv
    <3>6. data' = data /\ readable' = readable /\ ingested' = ingested
      BY <1>8 DEF SaveFileMetaInfo, clientVars
    <3> QED BY <3>1, <3>4, <3>5, <3>6
  <2> QED BY <1>8, <2>1, <2>2 DEF SaveFileMetaInfo
<1> QED BY <1>1, <1>2, <1>3, <1>4, <1>6, <1>7, <1>8, NextCases DEF OtherStep, RunStep, SaveStep

\* ReadableMessages describes the stored records, and MetaNeverAhead.
MetaInv ==
  /\ readable.cpt = Len(data) /\ readable.last = LastData
  /\ MetaNeverAhead

LEMMA NextKeepsMeta ==
  ASSUME TypeInv, MutexInv, FlowInv, WriteInv, StoreInv, CountedInv, MetaInv, [Next]_vars
  PROVE  MetaInv'
<1>0. /\ data \in Seq(Nat) /\ Len(data) \in Nat /\ Received \in Int /\ ingested.last \in Nat
      /\ LastData <= Received /\ Received <= ingested.last /\ LastData \in Int
      /\ meta.readable.cpt \in Nat /\ meta.readable.last \in Nat /\ meta.ingested.last \in Nat
  <2>1. meta \in [ingested : MessagesInfo, readable : MessagesInfo]
    BY DEF TypeInv, TypeOK, TypeStore
  <2>2. Cleared \in Int /\ Received \in Int
    BY ReceivedInt
  <2>3. LastData <= Received /\ LastData \in Int
    BY <2>2 DEF StoreInv
  <2> QED BY <2>1, <2>2, <2>3, TypeFacts, ReceivedWasAssigned, InfoFacts
<1>1. CASE data' = data /\ readable' = readable
  <2>1. LastData' = LastData
    BY <1>1 DEF LastData
  <2>2. CASE meta' = meta
    BY <1>1, <2>1, <2>2 DEF MetaInv, MetaNeverAhead
  <2>3. ASSUME NEW cpt \in Nat \ {0}, meta' = SavedInfo(cpt) PROVE MetaInv'
    <3>1. /\ meta'.readable = readable /\ meta'.ingested.last = ingested.last
          /\ meta'.ingested.cpt = cpt
      BY <2>3 DEF SavedInfo
    <3>2. Len(data) > 0 => LastData = data[Len(data)]
      BY DEF LastData
    <3> QED BY <1>0, <1>1, <2>1, <3>1, <3>2 DEF MetaInv, MetaNeverAhead
  <2> QED BY <2>2, <2>3, StoreEffect
<1>2. CASE /\ data' = data /\ readable.cpt = 0 /\ meta' = meta
           /\ readable' = [cpt |-> 0, first |-> ingested.first, last |-> 0]
  <2>1. LastData = 0 /\ LastData' = LastData
    BY <1>0, <1>2 DEF LastData, MetaInv
  <2> QED BY <1>2, <2>1 DEF MetaInv, MetaNeverAhead
<1>3. ASSUME NEW id \in 1..Received, data' = Append(data, id), readable' = CountMessage(readable, id),
             meta' = meta
      PROVE  MetaInv'
  <2>1. id \in Nat
    BY <1>0
  <2>2. /\ Len(data') = Len(data) + 1 /\ data'[Len(data) + 1] = id
        /\ \A i \in 1..Len(data) : data'[i] = data[i]
    BY <1>0, <1>3, <2>1, AppendFacts
  <2>3. LastData' = id
    BY <1>0, <2>2 DEF LastData
  <2>4. readable'.cpt = Len(data') /\ readable'.last = id
    BY <1>3, <2>2 DEF CountMessage, MetaInv
  <2>5. MetaNeverAhead'
    BY <1>0, <1>3, <2>2 DEF MetaInv, MetaNeverAhead
  <2> QED BY <2>3, <2>4, <2>5 DEF MetaInv
<1>4. data' # data => meta' = meta
  BY StoreEffect
<1>5. readable' # readable => meta' = meta
  BY StoreEffect
<1> QED BY <1>0, <1>1, <1>2, <1>3, <1>4, <1>5, StoreEffect

LEMMA MetaCorrect == Spec => [](CountedInv /\ MetaInv)
<1>1. Init => CountedInv /\ MetaInv
  <2> SUFFICES ASSUME Init PROVE CountedInv /\ MetaInv
    OBVIOUS
  <2>1. /\ Len(channel) = 0 /\ Len(buffer) = 0 /\ Len(data) = 0 /\ Pending = 0
        /\ ingested.last = 0 /\ ingested.cpt = 0
    BY DEF Init, NoMessages, Pending, Sending
  <2>2. Cleared = 0
    BY <2>1 DEF Received, Cleared
  <2>3. LastData = 0
    BY <2>1 DEF LastData
  <2> QED BY <2>1, <2>2, <2>3 DEF Init, NoMessages, CountedInv, MetaInv, MetaNeverAhead
<1>2. TypeInv /\ MutexInv /\ (FlowInv /\ WriteInv) /\ StoreInv /\ (CountedInv /\ MetaInv) /\ [Next]_vars
        => (CountedInv /\ MetaInv)'
  BY NextKeepsCounted, NextKeepsMeta
<1> QED BY <1>1, <1>2, TypeCorrect, MutexCorrect, FlowCorrect, StoreCorrect, PTL DEF Spec

(* MetaNeverAhead: what a reload of the stream finds in the meta info file *)
(* is in the data file, and its IngestedMessages cover its                 *)
(* ReadableMessages although Write reads them without the mutex.           *)
THEOREM MetaIsSafe == Spec => []MetaNeverAhead
<1>1. MetaInv => MetaNeverAhead
  BY DEF MetaInv
<1> QED BY <1>1, MetaCorrect, PTL

(***************************************************************************)
(* Close                                                                   *)
(***************************************************************************)

Saved ==
  \/ buffer = <<>>
  \/ faults > 0
  \/ Provider = "InMemory" /\ LimitReached

\* CloseFlushesBuffer made inductive: Run ends with a save, and never runs again.
ClosedInv ==
  /\ run = "exited" => Saved
  /\ \A k \in Closers : cpc[k] = "closed" => run = "exited"

LEMMA NextKeepsClosed ==
  ASSUME TypeInv, FlowInv, WriteInv, ClosedInv, [Next]_vars
  PROVE  ClosedInv'
<1>0. /\ cpc \in [Closers -> {"idle", "stop", "close", "wait", "closed"}] /\ faults \in Nat
  BY DEF TypeInv, TypeOK, TypeClose, TypeStore
<1>1. CASE UNCHANGED <<run, buffer, faults, data>>
  <2>1. \A k \in Closers : cpc'[k] = "closed" => cpc[k] = "closed" \/ run = "exited"
    <3>1. ASSUME NEW c \in Clients, PutStep(c) PROVE cpc' = cpc
      BY <3>1, PutKeepsRun DEF closeVars
    <3>2. CASE RunStep
      BY <3>2 DEF RunStep, SaveStep, RunReceive, RunFlush, RunDone, WriteBegin, WriteRecordInMemory,
         WriteEndInMemory, WriteRecordFile, WriteIndexFile, SaveFileMetaInfo, closeVars
    <3>3. CASE Start \/ StartEnd \/ UNCHANGED vars
      BY <3>3 DEF Start, StartEnd, vars, closeVars
    <3>4. ASSUME NEW k \in Closers, CloseStep(k)
          PROVE  \A j \in Closers : cpc'[j] = "closed" => cpc[j] = "closed" \/ run = "exited"
      BY <1>0, <3>4 DEF CloseStep, CloseBegin, CloseStop, CloseDone, CloseWait, RunIsOver
    <3> QED BY <3>1, <3>2, <3>3, <3>4 DEF Next
  <2> QED BY <1>1, <2>1 DEF ClosedInv, Saved, LimitReached
<1>2. CASE run = "exited"
  <2>1. UNCHANGED <<run, buffer, faults, data>>
    BY <1>2, PutKeepsRun DEF Next, RunStep, SaveStep, RunReceive, RunFlush, RunDone, WriteBegin,
       WriteRecordInMemory, WriteEndInMemory, WriteRecordFile, WriteIndexFile, SaveFileMetaInfo,
       Start, StartEnd, CloseStep, CloseBegin, CloseStop, CloseDone, CloseWait, vars, runVars, storeVars
  <2> QED BY <1>1, <2>1
<1>3. CASE run # "exited" /\ (RunStep \/ Start)
  <2>1. cpc' = cpc
    BY <1>3 DEF RunStep, SaveStep, RunReceive, RunFlush, RunDone, WriteBegin, WriteRecordInMemory,
       WriteEndInMemory, WriteRecordFile, WriteIndexFile, SaveFileMetaInfo, Start, closeVars
  <2>2. run' = "exited" => Saved'
    <3>1. CASE SaveReturns(TRUE)
      BY <3>1 DEF SaveReturns, BufferAfterSave, Saved
    <3>2. CASE WriteFails
      BY <1>0, <3>2 DEF WriteFails, Saved
    <3>3. CASE Provider = "InMemory" /\ LimitReached /\ data' = data
      BY <3>3 DEF Saved, LimitReached
    <3>4. CASE run' # "exited"
      BY <3>4
    <3> QED BY <1>3, <3>1, <3>2, <3>3, <3>4
            DEF RunStep, SaveStep, RunReceive, CallSave, RunFlush, RunDone, WriteBegin,
                WriteRecordInMemory, WriteEndInMemory, WriteRecordFile, WriteIndexFile,
                SaveFileMetaInfo, Start
  <2> QED BY <1>3, <2>1, <2>2 DEF ClosedInv
<1>4. ~(RunStep \/ Start) => UNCHANGED <<run, buffer, faults, data>>
  BY PutKeepsRun DEF Next, StartEnd, CloseStep, CloseBegin, CloseStop, CloseDone, CloseWait,
     vars, runVars, storeVars
<1> QED BY <1>1, <1>2, <1>3, <1>4

(* CloseFlushesBuffer: once Close has returned the goroutine Run is over   *)
(* and has saved what it had received, unless a write failed or the limit  *)
(* of the in-memory provider was met.                                      *)
THEOREM CloseFlushes == Spec => []CloseFlushesBuffer
<1>1. Init => ClosedInv
  BY DEF Init, ClosedInv
<1>2. TypeInv /\ (FlowInv /\ WriteInv) /\ ClosedInv /\ [Next]_vars => ClosedInv'
  BY NextKeepsClosed
<1>3. ClosedInv => CloseFlushesBuffer
  BY DEF ClosedInv, Saved, CloseFlushesBuffer
<1> QED BY <1>1, <1>2, <1>3, TypeCorrect, FlowCorrect, PTL DEF Spec

(***************************************************************************)
(* Exactly once                                                            *)
(***************************************************************************)

Once == Provider = "InMemory" \/ faults = 0

\* StoredOnce made inductive: the store ends where the Write in progress is,
\* unless the in-memory limit stops every further record.
OnceInv ==
  /\ faults <= MaxFaults
  /\ Once => /\ \A i \in 1..Len(data) : data[i] = i
             /\ \/ Len(data) = Cleared + Written
                \/ Provider = "InMemory" /\ LimitReached

\* Writes fail one at a time.
LEMMA FaultsStep ==
  ASSUME [Next]_vars
  PROVE  faults' = faults \/ (faults' = faults + 1 /\ faults < MaxFaults)
<1>1. ASSUME NEW c \in Clients, PutStep(c) PROVE faults' = faults
  BY <1>1, PutKeepsRun DEF storeVars
<1>2. CASE OtherStep
  BY <1>2 DEF OtherStep, RunStep, SaveStep, RunReceive, RunFlush, RunDone, WriteBegin,
     WriteRecordInMemory, WriteEndInMemory, WriteRecordFile, WriteIndexFile, SaveFileMetaInfo,
     Start, StartEnd, CloseStep, CloseBegin, CloseStop, CloseDone, CloseWait, vars, storeVars,
     WriteFails
<1> QED BY <1>1, <1>2, NextCases

LEMMA FaultsGrow ==
  ASSUME TypeInv, OnceInv, [Next]_vars
  PROVE  /\ faults \in Nat /\ faults' \in Nat
         /\ faults' >= faults /\ faults' <= MaxFaults
         /\ Once' => Once
<1>1. faults \in Nat /\ faults <= MaxFaults /\ MaxFaults \in Nat
  BY ConstantsAssumption DEF TypeInv, TypeOK, TypeStore, OnceInv
<1> QED BY <1>1, FaultsStep DEF Once

LEMMA NextKeepsOnce ==
  ASSUME TypeInv, MutexInv, FlowInv, WriteInv, OnceInv, [Next]_vars
  PROVE  OnceInv'
<1>0. /\ Cleared \in Nat /\ Written \in Nat /\ data \in Seq(Nat) /\ Len(data) \in Nat
  BY ReceivedInt, WrittenFacts, TypeFacts DEF FlowInv
<1> SUFFICES ASSUME Once'
             PROVE  /\ \A i \in 1..Len(data') : data'[i] = i
                    /\ \/ Len(data') = Cleared' + Written'
                       \/ Provider = "InMemory" /\ LimitReached'
  BY FaultsGrow DEF OnceInv
<1>1. /\ \A i \in 1..Len(data) : data[i] = i
      /\ Len(data) = Cleared + Written \/ (Provider = "InMemory" /\ LimitReached)
  BY FaultsGrow DEF OnceInv
<1>2. ASSUME NEW c \in Clients, PutStep(c)
      PROVE  data' = data /\ Cleared' = Cleared /\ Written' = Written
  BY <1>2, PutMoves, PutKeepsRun DEF Cleared, Written, runVars, storeVars
<1>3. CASE OtherStep
  <2>1. CASE Kept
    BY <1>1, <2>1 DEF Kept, LimitReached
  <2>2. CASE Abandoned
    BY <1>1, <2>2, ConstantsAssumption DEF Abandoned, LimitReached, Once
  <2>3. CASE Appended
    <3>1. Len(data) = Cleared + Written
      BY <1>1, <2>3 DEF Appended
    <3>2. /\ Len(data') = Len(data) + 1
          /\ data'[Len(data) + 1] = Cleared + Written + 1
          /\ \A i \in 1..Len(data) : data'[i] = data[i]
      BY <1>0, <2>3, AppendFacts DEF Appended
    <3>3. ASSUME NEW i \in 1..Len(data') PROVE data'[i] = i
      <4>1. i \in 1..Len(data) \/ i = Len(data) + 1
        BY <1>0, <3>2
      <4> QED BY <1>1, <3>1, <3>2, <4>1
    <3>4. Len(data') = Cleared' + Written'
      BY <1>0, <2>3, <3>1, <3>2 DEF Appended
    <3> QED BY <3>3, <3>4
  <2>4. CASE Flushed
    BY <1>0, <1>1, <2>4 DEF Flushed, LimitReached
  <2> QED BY <1>3, <2>1, <2>2, <2>3, <2>4, RunEffect
<1> QED BY <1>1, <1>2, <1>3, NextCases DEF LimitReached

LEMMA OnceCorrect == Spec => []OnceInv
<1>1. Init => OnceInv
  <2> SUFFICES ASSUME Init PROVE OnceInv
    OBVIOUS
  <2>1. Len(channel) = 0 /\ Len(buffer) = 0 /\ Len(data) = 0 /\ ingested.last = 0 /\ Pending = 0
    BY DEF Init, NoMessages, Pending, Sending
  <2>2. Cleared = 0
    BY <2>1 DEF Received, Cleared
  <2>3. Written = 0
    BY DEF Init, Written
  <2>4. faults <= MaxFaults
    BY ConstantsAssumption DEF Init
  <2> QED BY <2>1, <2>2, <2>3, <2>4 DEF OnceInv
<1>2. TypeInv /\ MutexInv /\ (FlowInv /\ WriteInv) /\ OnceInv /\ [Next]_vars => OnceInv'
  BY NextKeepsOnce
<1> QED BY <1>1, <1>2, TypeCorrect, MutexCorrect, FlowCorrect, PTL DEF Spec

(* StoredOnce: without a failed write, and always in memory, the record of *)
(* identifier i is stored once, at rank i.                                 *)
THEOREM ExactlyOnceStorage == Spec => []StoredOnce
<1>1. OnceInv => StoredOnce
  BY DEF OnceInv, StoredOnce, Once
<1> QED BY <1>1, OnceCorrect, PTL

(***************************************************************************)
(* The identifiers returned to the clients                                 *)
(***************************************************************************)

\* DistinctIds made inductive: only the holder of the mutex has identifiers
\* not yet returned, and they are the last ones given out.
IdInv ==
  /\ acked \subseteq 1..ingested.last
  /\ \A c \in Clients :
       /\ got[c] \subseteq 1..ingested.last
       /\ mu # c => got[c] = {}
       /\ got[c] \cap acked = {}
       /\ \A i \in got[c] : i..ingested.last \subseteq got[c]

LEMMA PutKeepsIds ==
  ASSUME TypeInv, MutexInv, IdInv, NEW c \in Clients, PutStep(c)
  PROVE  IdInv'
<1>0. /\ mu \in Clients \cup {Free} /\ Free \notin Clients
      /\ pc \in [Clients -> {"idle", "lock", "alloc", "send", "unlock"}]
      /\ got \in [Clients -> SUBSET Nat]
      /\ ingested.last \in Nat /\ ingested.cpt \in Nat
  BY ConstantsAssumption, TypeFacts DEF TypeInv, TypeOK, TypeClients
<1>1. ASSUME NEW n \in 0..MaxBatch, PutBegin(c, n) PROVE IdInv'
  BY <1>1 DEF PutBegin, IdInv
<1>2. CASE PutLock(c)
  <2>1. ingested'.last = ingested.last /\ got' = got /\ acked' = acked /\ mu' = c /\ got[c] = {}
    BY <1>0, <1>2 DEF PutLock, MutexFree, FirstMessageEver, MutexInv, IdInv
  <2>2. \A d \in Clients : got[d] = {}
    BY <1>0, <1>2 DEF PutLock, MutexFree, IdInv
  <2> QED BY <2>1, <2>2 DEF IdInv
<1>3. CASE PutAlloc(c)
  <2> DEFINE n == ingested.last
  <2>1. ingested'.last = n + 1 /\ acked' = acked /\ mu' = mu /\ mu = c
    BY <1>0, <1>3 DEF PutAlloc, CountMessage, MutexInv
  <2>2. got'[c] = got[c] \cup {n + 1} /\ \A d \in Clients : d # c => got'[d] = got[d] /\ got[d] = {}
    BY <1>0, <1>3, <2>1 DEF PutAlloc, IdInv
  <2>3. n \in Nat /\ got[c] \subseteq 1..n /\ acked \subseteq 1..n /\ got[c] \cap acked = {}
    BY <1>0 DEF IdInv
  <2>4. \A i \in got[c] : i..n \subseteq got[c]
    BY DEF IdInv
  <2> HIDE DEF n
  <2>5. acked' \subseteq 1..(n + 1) /\ got'[c] \subseteq 1..(n + 1) /\ got'[c] \cap acked = {}
    BY <2>1, <2>2, <2>3
  <2>6. ASSUME NEW i \in got'[c], NEW j \in i..(n + 1) PROVE j \in got'[c]
    <3>1. CASE j = n + 1
      BY <2>2, <3>1
    <3>2. CASE j # n + 1
      <4>1. i \in Nat /\ j \in i..n /\ i # n + 1
        BY <2>2, <2>3, <3>2
      <4> QED BY <2>2, <2>4, <4>1
    <3> QED BY <3>1, <3>2
  <2> QED BY <2>1, <2>2, <2>5, <2>6 DEF IdInv
<1>4. CASE PutSend(c)
  BY <1>4 DEF PutSend, IdInv
<1>5. CASE PutEnd(c)
  <2>1. ingested' = ingested /\ acked' = acked \cup got[c]
    BY <1>5 DEF PutEnd
  <2>2. mu = c
    BY <1>0, <1>5 DEF PutEnd, MutexInv
  <2>3. \A d \in Clients : got'[d] = {}
    BY <1>0, <1>5, <2>2 DEF PutEnd, IdInv
  <2> QED BY <2>1, <2>3 DEF IdInv
<1> QED BY <1>1, <1>2, <1>3, <1>4, <1>5 DEF PutStep

LEMMA IdsCorrect == Spec => []IdInv
<1>1. Init => IdInv
  BY DEF Init, IdInv, NoMessages
<1>2. TypeInv /\ MutexInv /\ IdInv /\ [Next]_vars => IdInv'
  <2> SUFFICES ASSUME TypeInv, MutexInv, IdInv, [Next]_vars PROVE IdInv'
    OBVIOUS
  <2>1. CASE OtherStep
    BY <2>1, OthersKeepClients DEF IdInv, clientVars
  <2> QED BY <2>1, NextCases, PutKeepsIds
<1> QED BY <1>1, <1>2, TypeCorrect, MutexCorrect, PTL DEF Spec

(* DistinctIds: no two put requests return a common identifier, and the    *)
(* identifiers of one batch are consecutive.                               *)
THEOREM IdentifiersDistinct == Spec => []DistinctIds
<1>1. TypeInv /\ IdInv => DistinctIds
  <2> SUFFICES ASSUME TypeInv, IdInv, NEW c \in Clients
               PROVE  /\ got[c] \cap acked = {}
                      /\ \A d \in Clients \ {c} : got[c] \cap got[d] = {}
                      /\ \A i, j \in got[c] : i..j \subseteq got[c]
    BY DEF DistinctIds
  <2>1. \A d \in Clients \ {c} : got[c] \cap got[d] = {}
    BY DEF IdInv
  <2>2. ASSUME NEW i \in got[c], NEW j \in got[c], NEW k \in i..j PROVE k \in got[c]
    <3>1. i \in Nat /\ j \in Nat /\ j <= ingested.last /\ ingested.last \in Nat
      BY TypeFacts DEF IdInv
    <3>2. k \in i..ingested.last
      BY <3>1
    <3> QED BY <3>2 DEF IdInv
  <2> QED BY <2>1, <2>2 DEF IdInv
<1> QED BY <1>1, TypeCorrect, IdsCorrect, PTL

(***************************************************************************)
(* Refinement of the abstract log                                          *)
(***************************************************************************)

LEMMA PutRefines ==
  ASSUME TypeInv, MutexInv, IdInv, NEW c \in Clients, PutStep(c)
  PROVE  [Log!LogNext]_(Log!logVars)
<1>0. data' = data
  BY PutKeepsRun DEF storeVars
<1>1. CASE PutAlloc(c)
  BY <1>0, <1>1 DEF PutAlloc, CountMessage, Log!LogNext, Log!Accept
<1>2. CASE PutEnd(c)
  <2>1. got[c] \in SUBSET (1..ingested.last) /\ got[c] \cap acked = {}
    BY DEF IdInv
  <2> QED BY <1>0, <1>2, <2>1 DEF PutEnd, Log!LogNext, Log!Acknowledge
<1>3. CASE PutLock(c)
  <2>1. ingested'.last = ingested.last /\ acked' = acked
    BY <1>3 DEF PutLock, FirstMessageEver, MutexInv
  <2> QED BY <1>0, <2>1 DEF Log!logVars
<1>4. CASE PutSend(c) \/ \E n \in 0..MaxBatch : PutBegin(c, n)
  BY <1>0, <1>4 DEF PutSend, PutBegin, Log!logVars
<1> QED BY <1>1, <1>2, <1>3, <1>4 DEF PutStep

LEMMA StoredRefines ==
  ASSUME TypeInv, FlowInv, WriteInv, StoreInv, OnceInv, Appended, OtherStep
  PROVE  Log!LogNext
<1> DEFINE id0 == Cleared + Written + 1
<1>0. /\ Cleared \in Nat /\ Written \in Nat /\ data \in Seq(Nat) /\ Len(data) \in Nat
      /\ Len(buffer) \in Nat /\ Received \in Int /\ Received = Cleared + Len(buffer)
  BY ReceivedInt, WrittenFacts, TypeFacts DEF FlowInv, Cleared
<1>1. ingested' = ingested /\ acked' = acked /\ data' = Append(data, id0)
  BY OthersKeepClients DEF clientVars, Appended
<1>2. id0 \in 1..ingested.last
  <2>1. Received <= ingested.last /\ ingested.last \in Nat
    BY TypeFacts, PendingFacts DEF Received
  <2> QED BY <1>0, <2>1 DEF Appended
<1>3. id0 <= LastData + 1
  <2>1. LastData \in Int /\ LastData >= Cleared
    BY <1>0 DEF StoreInv
  <2>2. CASE Written > 0
    BY <1>0, <2>2 DEF StoreInv
  <2>3. CASE Written = 0
    BY <1>0, <2>1, <2>3
  <2> QED BY <1>0, <2>2, <2>3
<1>4. Log!LastStored = LastData
  BY <1>0 DEF Log!LastStored, LastData
<1>5. ASSUME Provider = "InMemory" \/ MaxFaults = 0 PROVE id0 = Len(data) + 1
  <2>1. Once
    BY <1>5, ConstantsAssumption DEF Once, OnceInv, TypeInv, TypeOK, TypeStore
  <2>2. Len(data) = Cleared + Written
    BY <2>1 DEF OnceInv, Appended
  <2> QED BY <1>0, <2>2
<1> HIDE DEF id0
<1>6. Log!Store(id0)
  BY <1>1, <1>3, <1>4, <1>5 DEF Log!Store
<1> QED BY <1>2, <1>6 DEF Log!LogNext

(* ImplementsStreamLog: every step of the write path is a step of the      *)
(* abstract log or changes nothing in it.                                  *)
THEOREM Refinement == Spec => ImplementsStreamLog
<1>1. Init => Log!LogInit
  BY DEF Init, Log!LogInit, NoMessages
<1>2. TypeInv /\ MutexInv /\ (FlowInv /\ WriteInv) /\ StoreInv /\ OnceInv /\ IdInv /\ [Next]_vars
        => [Log!LogNext]_(Log!logVars)
  <2> SUFFICES ASSUME TypeInv, MutexInv, FlowInv, WriteInv, StoreInv, OnceInv, IdInv, [Next]_vars
               PROVE  [Log!LogNext]_(Log!logVars)
    OBVIOUS
  <2>1. CASE OtherStep
    <3>1. ingested' = ingested /\ acked' = acked
      BY <2>1, OthersKeepClients DEF clientVars
    <3>2. CASE Appended
      BY <2>1, <3>2, StoredRefines
    <3>3. CASE data' = data
      BY <3>1, <3>3 DEF Log!logVars
    <3> QED BY <2>1, <3>2, <3>3, RunEffect DEF Kept, Abandoned, Flushed
  <2> QED BY <2>1, PutRefines, NextCases
<1> QED BY <1>1, <1>2, TypeCorrect, MutexCorrect, FlowCorrect, StoreCorrect, OnceCorrect, IdsCorrect,
           PTL DEF Spec, ImplementsStreamLog, Log!LogSpec

(***************************************************************************)
(* Recovery: what the files of a stream say after any number of crashes    *)
(* and restarts                                                            *)
(***************************************************************************)

(***************************************************************************)
(* The invariants of the write path hold in every life of the process      *)
(***************************************************************************)

\* The meta info file never gives the numbering back to its beginning.
MetaCount == meta.ingested.cpt = 0 => meta.ingested.last = 0

\* What the steps of one life need of the state a life begins in.
LifeInv ==
  /\ TypeInv /\ MutexInv /\ FlowInv /\ WriteInv
  /\ CountedInv /\ ClosedInv /\ MetaCount
  /\ Provider = "JSONFile" /\ restarts \in Nat /\ crashes \in Nat

LEMMA MetaTyped ==
  ASSUME TypeInv
  PROVE  /\ meta.ingested \in MessagesInfo /\ meta.readable \in MessagesInfo
         /\ meta.ingested.last \in Nat /\ meta.ingested.cpt \in Nat
         /\ meta.readable.last \in Nat /\ meta.readable.cpt \in Nat
<1>1. meta \in [ingested : MessagesInfo, readable : MessagesInfo]
  BY DEF TypeInv, TypeOK, TypeStore
<1> QED BY <1>1, InfoFacts

\* Nothing is in flight in the state a process starts in.
LEMMA NothingInFlight ==
  ASSUME Reload
  PROVE  /\ Len(channel') = 0 /\ Len(buffer') = 0 /\ Pending' = 0 /\ Written' = 0
         /\ ingested' = meta.ingested /\ readable' = meta.readable
  BY DEF Reload, Reloaded, Pending, Sending, Written

LEMMA ReloadKeepsType ==
  ASSUME TypeInv, Reload PROVE TypeInv'
<1> USE DEF Reload
<1>1. TypeClients'
  BY MetaTyped, ConstantsAssumption DEF TypeInv, TypeOK, TypeClients, Reloaded
<1>2. TypeRun'
  BY DEF TypeRun
<1>3. TypeStore'
  BY MetaTyped DEF TypeInv, TypeOK, TypeStore, Reloaded
<1>4. TypeClose'
  BY DEF TypeClose
<1>5. LeftPositive' /\ InRecord'
  BY DEF LeftPositive, InRecord
<1> QED BY <1>1, <1>2, <1>3, <1>4, <1>5 DEF TypeInv, TypeOK

LEMMA ReloadKeepsFlow ==
  ASSUME TypeInv, MetaCount, Reload
  PROVE  /\ MutexInv' /\ FlowInv' /\ WriteInv' /\ CountedInv' /\ ClosedInv' /\ MetaCount'
         /\ Received' = meta.ingested.last /\ Cleared' = meta.ingested.last
<1>0. meta.ingested.last \in Nat /\ meta.ingested.cpt \in Nat
  BY MetaTyped
<1>1. Received' = meta.ingested.last /\ Cleared' = meta.ingested.last
  BY <1>0, NothingInFlight DEF Received, Cleared
<1>2. MutexInv'
  BY ConstantsAssumption DEF Reload, Reloaded, MutexInv, MetaCount
<1>3. FlowInv' /\ WriteInv'
  BY <1>0, <1>1, NothingInFlight DEF Reload, FlowInv, InFlightContiguous, WriteInv
<1>4. CountedInv'
  BY <1>0, <1>1, NothingInFlight DEF CountedInv
<1>5. ClosedInv' /\ MetaCount'
  BY DEF Reload, ClosedInv, MetaCount
<1> QED BY <1>1, <1>2, <1>3, <1>4, <1>5

LEMMA LiveKeepsType ==
  ASSUME TypeInv, [Next]_vars PROVE TypeInv'
<1>1. CASE UNCHANGED vars
  BY <1>1 DEF vars, clientVars, runVars, storeVars, closeVars, TypeInv, TypeOK,
     TypeClients, TypeRun, TypeStore, TypeClose, LeftPositive, InRecord
<1> QED BY <1>1, TypePut, TypeRunStep, TypeOther DEF Next

LEMMA LiveKeepsLife ==
  ASSUME LifeInv, [Next]_vars, UNCHANGED <<restarts, crashes>>
  PROVE  LifeInv'
<1> USE DEF LifeInv
<1>1. TypeInv'
  BY LiveKeepsType
<1>2. MutexInv'
  <2>1. CASE OtherStep
    BY <2>1, OthersKeepClients DEF MutexInv, clientVars
  <2> QED BY <2>1, NextCases, PutKeepsMutex
<1>3. FlowInv' /\ WriteInv'
  BY NextCases, NextKeepsWrite, PutKeepsFlow, OthersKeepFlow
<1>4. CountedInv' /\ ClosedInv'
  BY NextKeepsCounted, NextKeepsClosed
<1>5. MetaCount'
  BY StoreEffect DEF MetaCount, SavedInfo
<1> QED BY <1>1, <1>2, <1>3, <1>4, <1>5

\* A step of RecoverySpec is a step of one life or the beginning of the next one.
LEMMA RecoveryCases ==
  ASSUME [RecoveryNext]_allVars
  PROVE  \/ [Next]_vars /\ UNCHANGED <<restarts, crashes>>
         \/ Restart \/ Crash
  BY DEF RecoveryNext, Live, allVars, recoveryVars

LEMMA LifeInit == RecoveryInit => LifeInv
<1> SUFFICES ASSUME RecoveryInit PROVE LifeInv
  OBVIOUS
<1> USE DEF RecoveryInit
<1>1. TypeInv
  BY TypeInit
<1>2. /\ Len(channel) = 0 /\ Len(buffer) = 0 /\ Pending = 0
      /\ ingested.last = 0 /\ ingested.cpt = 0
  BY DEF Init, NoMessages, Pending, Sending
<1>3. Received = 0 /\ Cleared = 0
  BY <1>2 DEF Received, Cleared
<1>4. FlowInv /\ WriteInv /\ CountedInv
  BY <1>2, <1>3 DEF Init, FlowInv, WriteInv, InFlightContiguous, CountedInv
<1>5. MutexInv /\ ClosedInv /\ MetaCount
  BY ConstantsAssumption DEF Init, MutexInv, NoMessages, ClosedInv, MetaCount
<1> QED BY <1>1, <1>4, <1>5 DEF LifeInv

LEMMA NextKeepsLife ==
  ASSUME LifeInv, [RecoveryNext]_allVars PROVE LifeInv'
<1>1. CASE Restart \/ Crash
  <2>1. Reload /\ restarts' \in Nat /\ crashes' \in Nat
    BY <1>1 DEF Restart, Crash, LifeInv
  <2> QED BY <2>1, ReloadKeepsType, ReloadKeepsFlow DEF LifeInv
<1> QED BY <1>1, LiveKeepsLife, RecoveryCases

(* The invariants of the write path, types and order of the messages in    *)
(* flight included, hold in every life of the process.                     *)
THEOREM LivesCorrect == RecoverySpec => []LifeInv
<1>1. LifeInv /\ [RecoveryNext]_allVars => LifeInv'
  BY NextKeepsLife
<1> QED BY <1>1, LifeInit, PTL DEF RecoverySpec

(***************************************************************************)
(* What the files announce                                                 *)
(***************************************************************************)

\* The three facts of AnnouncedIsStored, about one StreamInfo.
Announced(i, r) ==
  /\ r.cpt <= Len(data)
  /\ r.cpt > 0 => r.last \in Stored
  /\ r.last <= i.last

LEMMA AnnouncedSplit ==
  AnnouncedIsStored <=>
    Announced(meta.ingested, meta.readable) /\ Announced(ingested, readable)
  BY DEF AnnouncedIsStored, Announced

LEMMA LiveKeepsAnnounced ==
  ASSUME LifeInv, AnnouncedIsStored, [Next]_vars
  PROVE  AnnouncedIsStored'
<1>0. /\ data \in Seq(Nat) /\ Len(data) \in Nat
      /\ ingested.last \in Nat /\ ingested'.last \in Nat /\ ingested'.last >= ingested.last
      /\ readable.last \in Nat /\ readable.cpt \in Nat
      /\ meta.readable.cpt \in Nat /\ meta.readable.last \in Nat /\ meta.ingested.last \in Nat
      /\ Received \in Int /\ Received <= ingested.last
  <2>1. TypeInv'
    BY LiveKeepsType DEF LifeInv
  <2>2. ingested' \in MessagesInfo
    BY <2>1 DEF TypeInv, TypeOK, TypeClients
  <2> QED BY <2>2, InfoFacts, TypeFacts, MetaTyped, ReceivedInt, ReceivedWasAssigned, NextKeepsCounted
          DEF LifeInv
<1>1. Announced(meta.ingested, meta.readable) /\ Announced(ingested, readable)
  BY AnnouncedSplit
<1>2. Len(data') >= Len(data) /\ Stored \subseteq Stored'
  <2>1. CASE data' = data
    BY <1>0, <2>1 DEF Stored
  <2>2. ASSUME NEW id \in 1..Received, data' = Append(data, id)
        PROVE  Len(data') >= Len(data) /\ Stored \subseteq Stored'
    <3>1. id \in Nat /\ Len(data') = Len(data) + 1 /\ \A i \in 1..Len(data) : data'[i] = data[i]
      BY <1>0, <2>2, AppendFacts
    <3>2. \A i \in 1..Len(data) : i \in 1..Len(data')
      BY <1>0, <3>1
    <3> QED BY <1>0, <3>1, <3>2 DEF Stored
  <2> QED BY <2>1, <2>2, StoreEffect DEF LifeInv
<1>3. Announced(ingested, readable)'
  <2>1. CASE data' = data /\ readable' = readable
    BY <1>0, <1>1, <1>2, <2>1 DEF Announced
  <2>2. CASE readable' = [cpt |-> 0, first |-> ingested.first, last |-> 0]
    BY <1>0, <1>2, <2>2 DEF Announced
  <2>3. ASSUME NEW id \in 1..Received, data' = Append(data, id), readable' = CountMessage(readable, id)
        PROVE  Announced(ingested, readable)'
    <3>1. id \in Nat /\ Len(data') = Len(data) + 1 /\ data'[Len(data) + 1] = id
      BY <1>0, <2>3, AppendFacts
    <3>2. id \in Stored'
      BY <1>0, <3>1, SMTT(30) DEF Stored
    <3>3. readable'.cpt = readable.cpt + 1 /\ readable'.last = id
      BY <2>3 DEF CountMessage
    <3>4. readable'.cpt <= Len(data') /\ readable'.last <= ingested'.last
      BY <1>0, <1>1, <3>1, <3>3 DEF Announced
    <3> QED BY <3>2, <3>3, <3>4 DEF Announced
  <2> QED BY <2>1, <2>2, <2>3, StoreEffect DEF LifeInv
<1>4. Announced(meta.ingested, meta.readable)'
  <2>1. CASE meta' = meta
    BY <1>0, <1>1, <1>2, <2>1 DEF Announced
  <2>2. ASSUME NEW cpt \in Nat, meta' = SavedInfo(cpt), data' = data
        PROVE  Announced(meta.ingested, meta.readable)'
    BY <1>1, <2>2 DEF Announced, SavedInfo, Stored
  <2> QED BY <2>1, <2>2, StoreEffect DEF LifeInv
<1> QED BY <1>3, <1>4 DEF AnnouncedIsStored, Announced

(* AnnouncedIsStored: however often the process crashed or was restarted,  *)
(* the StreamInfo in memory and the one of the meta info file announce     *)
(* only lines of the data file.                                            *)
THEOREM AnnouncedCorrect == RecoverySpec => []AnnouncedIsStored
<1>1. RecoveryInit => AnnouncedIsStored
  BY DEF RecoveryInit, Init, NoMessages, AnnouncedIsStored
<1>2. LifeInv /\ AnnouncedIsStored /\ [RecoveryNext]_allVars => AnnouncedIsStored'
  <2> SUFFICES ASSUME LifeInv, AnnouncedIsStored, [RecoveryNext]_allVars PROVE AnnouncedIsStored'
    OBVIOUS
  <2>1. CASE Restart \/ Crash
    <3>1. /\ ingested' = meta.ingested /\ readable' = meta.readable
          /\ data' = data /\ meta' = meta
      BY <2>1 DEF Restart, Crash, Reload, Reloaded
    <3> QED BY <3>1 DEF AnnouncedIsStored, Stored
  <2> QED BY <2>1, LiveKeepsAnnounced, RecoveryCases
<1> QED BY <1>1, <1>2, LivesCorrect, PTL DEF RecoverySpec

(***************************************************************************)
(* Identifiers over orderly stops                                          *)
(***************************************************************************)

Increasing(s) == \A i, j \in 1..Len(s) : i < j => s[i] < s[j]

\* IncreasingAfterOrderlyStops made inductive: the next record to store is
\* after the last one, and so is, outside a Write, the numbering that the
\* next life would take from the meta info file.
OrderInv ==
  crashes = 0 /\ faults = 0 =>
    /\ Increasing(data)
    /\ LastData <= Cleared + Written
    /\ Written = 0 => LastData <= meta.ingested.last

\* The last record written is followed by the meta info file or by a failure.
LEMMA WriteEndsWithMeta ==
  ASSUME Provider = "JSONFile", TypeInv, WriteInv, OtherStep, Written # 0, Written' = 0
  PROVE  faults' > 0 \/ \E cpt \in CptRead : meta' = SavedInfo(cpt)
<1>1. run \in {"record", "index"} /\ Provider = "JSONFile" /\ wpos \in Nat /\ faults \in Nat
  BY TypeFacts DEF WriteInv, Written, TypeInv, TypeOK, TypeStore
<1>2. WriteFails => faults' > 0
  BY <1>1 DEF WriteFails
<1>3. CASE WriteRecordFile
  BY <1>1, <1>2, <1>3 DEF WriteRecordFile, Written
<1>4. CASE WriteIndexFile
  BY <1>1, <1>2, <1>4 DEF WriteIndexFile, Written
<1>5. CASE SaveFileMetaInfo
  BY <1>2, <1>5 DEF SaveFileMetaInfo
<1>6. CASE Start \/ StartEnd \/ (\E k \in Closers : CloseStep(k)) \/ UNCHANGED vars
  BY <1>1, <1>6 DEF Start, StartEnd, CloseStep, CloseBegin, CloseStop, CloseDone, CloseWait, Written,
     vars, runVars
<1> QED BY <1>1, <1>3, <1>4, <1>5, <1>6
        DEF OtherStep, RunStep, SaveStep, RunReceive, RunFlush, RunDone, WriteBegin,
            WriteRecordInMemory, WriteEndInMemory

LEMMA AppendIncreasing ==
  ASSUME NEW s \in Seq(Nat), Increasing(s), NEW x \in Nat,
         Len(s) > 0 => s[Len(s)] < x
  PROVE  Increasing(Append(s, x))
<1>0. /\ Len(s) \in Nat /\ Len(Append(s, x)) = Len(s) + 1
      /\ \A i \in 1..Len(s) : Append(s, x)[i] = s[i] /\ s[i] \in Nat
      /\ Append(s, x)[Len(s) + 1] = x
  BY AppendFacts, ElementFacts
<1>1. \A i \in 1..Len(s) : s[i] < x
  <2> SUFFICES ASSUME NEW i \in 1..Len(s) PROVE s[i] < x
    OBVIOUS
  <2>1. Len(s) > 0 /\ Len(s) \in 1..Len(s)
    BY <1>0
  <2>2. s[i] <= s[Len(s)]
    BY <1>0, <2>1 DEF Increasing
  <2> QED BY <1>0, <2>1, <2>2
<1> SUFFICES ASSUME NEW i \in 1..(Len(s) + 1), NEW j \in 1..(Len(s) + 1), i < j
             PROVE  Append(s, x)[i] < Append(s, x)[j]
  BY <1>0 DEF Increasing
<1>2. i \in 1..Len(s)
  BY <1>0
<1>3. j \in 1..Len(s) \/ j = Len(s) + 1
  BY <1>0
<1> QED BY <1>0, <1>1, <1>2, <1>3 DEF Increasing

LEMMA LiveKeepsOrder ==
  ASSUME LifeInv, OrderInv, [Next]_vars, crashes' = crashes
  PROVE  OrderInv'
<1> SUFFICES ASSUME crashes' = 0, faults' = 0
             PROVE  /\ Increasing(data')
                    /\ LastData' <= Cleared' + Written'
                    /\ Written' = 0 => LastData' <= meta'.ingested.last
  BY DEF OrderInv
<1>0. /\ Cleared \in Nat /\ Received \in Int /\ Written \in Nat /\ Written <= Len(buffer)
      /\ Len(buffer) \in Nat /\ Received = Cleared + Len(buffer)
      /\ data \in Seq(Nat) /\ Len(data) \in Nat /\ LastData \in Nat
      /\ ingested.last \in Nat /\ Received <= ingested.last /\ meta.ingested.last \in Nat
  <2>1. LastData \in Nat
    BY TypeFacts, ElementFacts DEF LifeInv, LastData
  <2> QED BY <2>1, ReceivedInt, WrittenFacts, TypeFacts, ReceivedWasAssigned, MetaTyped
          DEF LifeInv, FlowInv, Cleared
<1>1. faults = 0
  <2>1. faults \in Nat
    BY DEF LifeInv, TypeInv, TypeOK, TypeStore
  <2> QED BY <2>1, FaultsStep
<1>2. /\ Increasing(data) /\ LastData <= Cleared + Written
      /\ Written = 0 => LastData <= meta.ingested.last
  BY <1>1 DEF OrderInv
<1>3. data' = data => LastData' = LastData
  BY DEF LastData
<1>4. ASSUME data' = data, NEW cpt, meta' = SavedInfo(cpt) PROVE LastData' <= meta'.ingested.last
  <2>1. meta'.ingested.last = ingested.last
    BY <1>4 DEF SavedInfo
  <2> QED BY <1>0, <1>2, <1>3, <1>4, <2>1
<1>5. meta' = meta \/ \E cpt \in Nat : meta' = SavedInfo(cpt)
  BY StoreEffect DEF LifeInv
<1>6. ASSUME NEW c \in Clients, PutStep(c)
      PROVE  data' = data /\ Cleared' = Cleared /\ Written' = Written /\ meta' = meta
  BY <1>6, PutMoves, PutKeepsRun DEF LifeInv, Cleared, Written, runVars, storeVars
<1>7. CASE OtherStep
  <2>1. CASE Kept
    BY <1>2, <1>3, <1>4, <1>5, <2>1 DEF Kept
  <2>2. CASE Abandoned
    BY <2>2 DEF Abandoned, LifeInv
  <2>3. CASE Appended
    <3>1. /\ data' = Append(data, Cleared + Written + 1)
          /\ Len(data') = Len(data) + 1 /\ data'[Len(data) + 1] = Cleared + Written + 1
      BY <1>0, <2>3, AppendFacts DEF Appended
    <3>2. LastData' = Cleared + Written + 1
      BY <1>0, <3>1 DEF LastData
    <3>3. Len(data) > 0 => data[Len(data)] < Cleared + Written + 1
      BY <1>0, <1>2 DEF LastData
    <3>4. Increasing(data')
      BY <1>0, <1>2, <3>1, <3>3, AppendIncreasing
    <3> QED BY <1>0, <2>3, <3>2, <3>4 DEF Appended
  <2>4. CASE Flushed
    <3>1. data' = data /\ Cleared' = Cleared + Written /\ Written' = 0
      BY <2>4 DEF Flushed
    <3>2. LastData' <= meta'.ingested.last
      <4>1. CASE Written = 0
        BY <1>2, <1>3, <1>4, <1>5, <3>1, <4>1
      <4>2. CASE Written # 0
        BY <1>4, <1>7, <3>1, <4>2, WriteEndsWithMeta DEF LifeInv
      <4> QED BY <4>1, <4>2
    <3> QED BY <1>0, <1>2, <1>3, <3>1, <3>2
  <2> QED BY <1>7, <2>1, <2>2, <2>3, <2>4, RunEffect DEF LifeInv
<1> QED BY <1>2, <1>3, <1>6, <1>7, NextCases

(* IncreasingAfterOrderlyStops: without a crash or a failed write the      *)
(* identifiers in the data file increase over all the lives of the         *)
(* process, although Close skips the save of the meta info file when the   *)
(* buffer is empty.  An identifier that was acknowledged and never stored  *)
(* may be given again.                                                     *)
THEOREM OrderlyStopsKeepOrder == RecoverySpec => []IncreasingAfterOrderlyStops
<1>1. RecoveryInit => OrderInv
  <2> SUFFICES ASSUME RecoveryInit PROVE OrderInv
    OBVIOUS
  <2>1. /\ Len(channel) = 0 /\ Len(buffer) = 0 /\ Len(data) = 0 /\ ingested.last = 0
        /\ Pending = 0 /\ Written = 0 /\ meta.ingested.last = 0
    BY DEF RecoveryInit, Init, NoMessages, Pending, Sending, Written
  <2>2. Cleared = 0 /\ LastData = 0
    BY <2>1 DEF Received, Cleared, LastData
  <2> QED BY <2>1, <2>2 DEF OrderInv, Increasing
<1>2. LifeInv /\ OrderInv /\ [RecoveryNext]_allVars => OrderInv'
  <2> SUFFICES ASSUME LifeInv, OrderInv, [RecoveryNext]_allVars PROVE OrderInv'
    OBVIOUS
  <2>1. CASE Crash
    BY <2>1 DEF Crash, LifeInv, OrderInv
  <2>2. CASE Restart
    <3>1. Written = 0
      BY <2>2 DEF Restart, LifeInv, ClosedInv, WriteInv, Written
    <3>2. /\ data' = data /\ faults' = faults /\ crashes' = crashes /\ meta' = meta
          /\ LastData' = LastData /\ Written' = 0 /\ Cleared' = meta.ingested.last
          /\ meta.ingested.last \in Nat
      BY <2>2, NothingInFlight, ReloadKeepsFlow, MetaTyped DEF Restart, Reload, LifeInv, LastData
    <3> QED BY <3>1, <3>2 DEF OrderInv
  <2> QED BY <2>1, <2>2, LiveKeepsOrder, RecoveryCases
<1>3. OrderInv => IncreasingAfterOrderlyStops
  BY DEF OrderInv, Increasing, IncreasingAfterOrderlyStops
<1> QED BY <1>1, <1>2, <1>3, LivesCorrect, PTL DEF RecoverySpec

(***************************************************************************)
(* Damage by interrupted writes                                            *)
(***************************************************************************)

DamageInv ==
  /\ IsFiniteSet(garbled)
  /\ fragment \in {"none", "torn"}
  /\ DamageBounded

\* One more line that cannot be decoded.
LEMMA GarbledGrows ==
  ASSUME IsFiniteSet(garbled), NEW x
  PROVE  /\ Cardinality(garbled) \in Nat
         /\ IsFiniteSet(garbled \cup {x})
         /\ Cardinality(garbled \cup {x}) \in Nat
         /\ Cardinality(garbled \cup {x}) <= Cardinality(garbled) + 1
<1>1. Cardinality(garbled) \in Nat
  BY FS_CardinalityType
<1> QED BY <1>1, FS_AddElement

LEMMA LiveKeepsDamage ==
  ASSUME LifeInv, DamageInv, Live
  PROVE  DamageInv'
<1>0. faults \in Nat /\ crashes \in Nat /\ crashes' = crashes
  BY DEF LifeInv, TypeInv, TypeOK, TypeStore, Live
<1>1. faults' = faults \/ faults' = faults + 1
  BY FaultsStep DEF Live
<1>2. CASE data' # data /\ fragment = "torn"
  <2>1. garbled' = garbled \cup {Len(data')} /\ fragment' = "none"
    BY <1>2 DEF Live, DataFile
  <2>2. IsFiniteSet(garbled') /\ Cardinality(garbled) \in Nat /\ Cardinality(garbled') \in Nat
        /\ Cardinality(garbled') <= Cardinality(garbled) + 1
    BY <2>1, GarbledGrows DEF DamageInv
  <2> QED BY <1>0, <1>1, <1>2, <2>1, <2>2 DEF DamageInv, DamageBounded
<1>3. CASE ~(data' # data /\ fragment = "torn")
  <2>1. /\ garbled' = garbled
        /\ fragment' = fragment \/ fragment' = "none" \/ (fragment' = "torn" /\ faults' # faults)
    BY <1>3 DEF Live, DataFile
  <2>2. Cardinality(garbled) \in Nat
    BY GarbledGrows DEF DamageInv
  <2> QED BY <1>0, <1>1, <2>1, <2>2 DEF DamageInv, DamageBounded
<1> QED BY <1>2, <1>3

(* DamageBounded: every line of the data file that cannot be decoded, and  *)
(* every fragment at its end, is due to a failed write or a crash of its   *)
(* own.                                                                    *)
THEOREM DamageIsBounded == RecoverySpec => []DamageBounded
<1>1. RecoveryInit => DamageInv
  BY FS_EmptySet DEF RecoveryInit, Init, DamageInv, DamageBounded
<1>2. LifeInv /\ DamageInv /\ [RecoveryNext]_allVars => DamageInv'
  <2> SUFFICES ASSUME LifeInv, DamageInv, [RecoveryNext]_allVars PROVE DamageInv'
    OBVIOUS
  <2>0. /\ faults \in Nat /\ crashes \in Nat /\ Cardinality(garbled) \in Nat
    BY GarbledGrows DEF LifeInv, TypeInv, TypeOK, TypeStore, DamageInv
  <2>1. CASE Crash
    <3>1. /\ garbled' = garbled /\ fragment' \in {fragment, "torn"}
          /\ faults' = faults /\ crashes' = crashes + 1
      BY <2>1 DEF Crash, Reload
    <3> QED BY <2>0, <3>1 DEF DamageInv, DamageBounded
  <2>2. CASE Restart \/ UNCHANGED allVars
    <3>1. UNCHANGED <<garbled, fragment, faults, crashes>>
      BY <2>2 DEF Restart, Reload, allVars, recoveryVars, fileVars, vars, storeVars
    <3> QED BY <3>1 DEF DamageInv, DamageBounded
  <2> QED BY <2>1, <2>2, LiveKeepsDamage DEF RecoveryNext
<1>3. DamageInv => DamageBounded
  BY DEF DamageInv
<1> QED BY <1>1, <1>2, <1>3, LivesCorrect, PTL DEF RecoverySpec
=============================================================================
