------------------------ MODULE StreamIteratorProofs ------------------------
(***************************************************************************)
(* Types, and the safety invariants of StreamIterator, for every number of *)
(* records, every read ahead, every size of a response and every filter.   *)
(* What is delivered is proved for the executions in which at most one     *)
(* request is past the busy flag: with two requests at once the code can   *)
(* let both through (run iterator_busy).                                   *)
(***************************************************************************)
EXTENDS StreamIterator, TLAPS, WellFoundedInduction, NaturalsInduction

-----------------------------------------------------------------------------
(* What TypeOK needs, for any number of requests at once.                  *)

BoundInv ==
  /\ written + half <= MaxWritten
  /\ provider = "InMemory" => half = 0
  /\ \A i \in 1..Len(buf) : buf[i] \in 1..(2 * MaxWritten)
  /\ provider = "MySQL" => /\ saved = 0 /\ Len(buf) <= MaxWritten
                           /\ \A i \in 1..Len(buf) : buf[i] <= MaxWritten
  /\ \A r \in Readers : rpc[r] = "advance" => cur[r] > 0

TypeInv == TypeOK /\ BoundInv

-----------------------------------------------------------------------------
(* With one request at a time.                                             *)

Active(r) == rpc[r] \notin {"idle", "claim"}

\* The last half of a line, or the last row, that the handler gave to GetRecords.
Base == IF provider = "MySQL" THEN next - Len(buf) ELSE opos - Len(buf)

\* What the handler holds is what follows.
HeldInv == provider # "InMemory" => Base >= 0 /\ \A i \in 1..Len(buf) : buf[i] = Base + i

\* The file: a line is given up at its end only, and the place is saved between requests.
FileInv == provider = "JSONFile" =>
  /\ opos <= FileSize
  /\ ~dropped => Base % 2 = 0
  /\ (initialized /\ request # "nil" /\ \A r \in Readers : rpc[r] \in {"idle", "claim", "seek"}) =>
       saved = opos

\* The rows of the page are in the table.
PageInv == provider = "MySQL" /\ buf # <<>> => next <= Rows

\* The record found is the one at the index.
FoundInv == \A r \in Readers :
  rpc[r] = "advance" => provider = "InMemory" /\ cur[r] = next + 1 /\ next < written

HandlerInv == HeldInv /\ FileInv /\ PageInv /\ FoundInv

\* Before its first record a request has none; before the first Seek nobody has any.
ResponseInv ==
  /\ \A r \in Readers :
       /\ rpc[r] \in {"idle", "claim", "seek"} => resp[r] = <<>>
       /\ rpc[r] \in {"read", "advance", "end"} => initialized
  /\ ~initialized => delivered = <<>>

\* The ids of a sequence of records are complete and were consumed.
Ordered(out, complete, consumed) ==
  Increasing(out) /\ \A i \in 1..Len(out) : out[i] <= complete /\ out[i] <= consumed

\* They are the records consumed from a place on that pass the filter.
Exact(out, from, to) == from <= to /\ Ids(out) = ((from + 1)..to) \ Skipped

Exactly == request # "nil" /\ initialized /\ ~dropped

Nobody == \A r \in Readers : ~Active(r)

\* What was delivered, with what the request past the flag has.
OutInv ==
  /\ \A r \in Readers : Active(r) =>
       /\ Ordered(delivered \o resp[r], Complete, Consumed)
       /\ Exactly => Exact(delivered \o resp[r], start, Consumed)
  /\ Nobody =>
       /\ Ordered(delivered, Complete, Consumed)
       /\ Exactly => Exact(delivered, start, Consumed)

-----------------------------------------------------------------------------
(* Sequences.                                                              *)

LEMMA AppendFacts ==
  ASSUME NEW S, NEW s \in Seq(S), NEW x \in S
  PROVE  /\ Len(s) \in Nat /\ (s = <<>> <=> Len(s) = 0)
         /\ \A i \in 1..Len(s) : s[i] \in S
         /\ Append(s, x) \in Seq(S) /\ Len(Append(s, x)) = Len(s) + 1
         /\ \A i \in 1..Len(s) : Append(s, x)[i] = s[i]
         /\ Append(s, x)[Len(s) + 1] = x
  OBVIOUS

LEMMA ConcatFacts ==
  ASSUME NEW S, NEW s \in Seq(S), NEW t \in Seq(S)
  PROVE  /\ s \o t \in Seq(S) /\ Len(s \o t) = Len(s) + Len(t)
         /\ \A i \in 1..Len(s) : (s \o t)[i] = s[i]
         /\ \A i \in 1..Len(t) : (s \o t)[Len(s) + i] = t[i]
  OBVIOUS

\* What is read ahead: the n numbers after k.
LEMMA RunFacts ==
  ASSUME NEW n \in Nat, NEW k \in Nat
  PROVE  /\ [i \in 1..n |-> k + i] \in Seq(Nat) /\ Len([i \in 1..n |-> k + i]) = n
         /\ \A i \in 1..n : [j \in 1..n |-> k + j][i] = k + i
  OBVIOUS

LEMMA RestFacts ==
  ASSUME NEW s \in Seq(Nat), NEW k \in 1..Len(s)
  PROVE  /\ SubSeq(s, k + 1, Len(s)) \in Seq(Nat)
         /\ Len(SubSeq(s, k + 1, Len(s))) = Len(s) - k
         /\ \A i \in 1..(Len(s) - k) : SubSeq(s, k + 1, Len(s))[i] = s[k + i]
  OBVIOUS

LEMMA LeastElement ==
  ASSUME NEW S, S \subseteq Nat, S # {}
  PROVE  \E m \in S : \A n \in S : m <= n
<1>1. PICK m \in S : \A n \in S : ~(<<n, m>> \in OpToRel(<, Nat))
  BY NatLessThanWellFounded, WFMin
<1>2. ASSUME NEW n \in S PROVE m <= n
  <2>1. m \in Nat /\ n \in Nat
    OBVIOUS
  <2>2. ~(n < m)
    BY <1>1, <2>1, Zenon DEF OpToRel
  <2> QED BY <2>1, <2>2
<1> QED BY <1>2

\* The first end of line of the buffer.
LEMMA EndOfLineFacts ==
  ASSUME buf \in Seq(Nat)
  PROVE  /\ EndOfLine \in 0..Len(buf)
         /\ EndOfLine = 0 => \A i \in 1..Len(buf) : buf[i] % 2 # 0
         /\ EndOfLine > 0 => /\ buf[EndOfLine] % 2 = 0
                             /\ \A i \in 1..Len(buf) : buf[i] % 2 = 0 => EndOfLine <= i
<1> DEFINE ends == {i \in 1..Len(buf) : buf[i] % 2 = 0}
<1>0. Len(buf) \in Nat /\ ends \subseteq Nat
  OBVIOUS
<1>1. CASE ends = {}
  <2>1. EndOfLine = 0
    BY <1>1 DEF EndOfLine
  <2> QED BY <1>0, <1>1, <2>1
<1>2. CASE ends # {}
  <2>1. \E i \in ends : \A j \in ends : i <= j
    BY <1>0, <1>2, LeastElement
  <2>2. EndOfLine = CHOOSE i \in ends : \A j \in ends : i <= j
    BY <1>2 DEF EndOfLine
  <2>3. EndOfLine \in ends /\ \A j \in ends : EndOfLine <= j
    BY <2>1, <2>2
  <2> QED BY <1>0, <2>3
<1> QED BY <1>1, <1>2

-----------------------------------------------------------------------------
(* Types.                                                                  *)

LEMMA GotoFacts ==
  ASSUME NEW r \in Readers, NEW place, rpc \in [Readers -> {"idle", "claim", "seek", "read", "advance", "end"}],
         place \in {"idle", "claim", "seek", "read", "advance", "end"}, Goto(r, place)
  PROVE  /\ rpc' \in [Readers -> {"idle", "claim", "seek", "read", "advance", "end"}]
         /\ rpc'[r] = place
         /\ \A q \in Readers : q # r => rpc'[q] = rpc[q]
  BY DEF Goto

\* What Deliver leaves: the record is skipped or appended, and the request goes on.
LEMMA DeliverFacts ==
  ASSUME TypeReaders, NEW r \in Readers, NEW id \in 1..MaxWritten, Deliver(r, id), MaxWritten \in Nat
  PROVE  /\ resp' \in [Readers -> Seq(1..MaxWritten)]
         /\ rpc' \in [Readers -> {"idle", "claim", "seek", "read", "advance", "end"}]
         /\ rpc'[r] \in {"read", "end"}
         /\ \A q \in Readers : q # r => rpc'[q] = rpc[q] /\ resp'[q] = resp[q]
         /\ resp'[r] = IF id \in Skipped /\ request # "nil" THEN resp[r] ELSE Append(resp[r], id)
<1>1. resp \in [Readers -> Seq(1..MaxWritten)]
  BY DEF TypeReaders
<1>2. resp[r] \in Seq(1..MaxWritten)
  BY <1>1
<1>3. Append(resp[r], id) \in Seq(1..MaxWritten)
  BY <1>2, AppendFacts
<1>4. resp' = IF id \in Skipped /\ request # "nil" THEN resp
              ELSE [resp EXCEPT ![r] = Append(resp[r], id)]
  BY DEF Deliver
<1>5. /\ resp' \in [Readers -> Seq(1..MaxWritten)]
      /\ \A q \in Readers : q # r => resp'[q] = resp[q]
      /\ resp'[r] = IF id \in Skipped /\ request # "nil" THEN resp[r] ELSE Append(resp[r], id)
  BY <1>1, <1>3, <1>4
<1>6. PICK place \in {"read", "end"} : Goto(r, place)
  BY DEF Deliver
<1>7. place \in {"idle", "claim", "seek", "read", "advance", "end"}
  BY <1>6
<1>8. /\ rpc' \in [Readers -> {"idle", "claim", "seek", "read", "advance", "end"}]
      /\ rpc'[r] = place
      /\ \A q \in Readers : q # r => rpc'[q] = rpc[q]
  BY <1>6, <1>7, GotoFacts DEF TypeReaders
<1> QED BY <1>5, <1>6, <1>8

\* What NotFound leaves: the process panics, or the request waits, or it ends.
LEMMA NotFoundFacts ==
  ASSUME TypeReaders, NEW r \in Readers, NotFound(r), process \in {"alive", "panicked"},
         MaxWait \in Nat
  PROVE  /\ elapsed' \in [Readers -> 0..MaxWait]
         /\ rpc' \in [Readers -> {"idle", "claim", "seek", "read", "advance", "end"}]
         /\ process' \in {"alive", "panicked"}
         /\ rpc' = rpc \/ rpc'[r] = "end"
         /\ \A q \in Readers : q # r => rpc'[q] = rpc[q]
<1>0. rpc \in [Readers -> {"idle", "claim", "seek", "read", "advance", "end"}] /\ elapsed \in [Readers -> 0..MaxWait]
  BY DEF TypeReaders
<1>1. CASE Panic /\ UNCHANGED <<rpc, elapsed>>
  BY <1>0, <1>1 DEF Panic
<1>2. CASE /\ KeepsPolling(r) /\ elapsed' = [elapsed EXCEPT ![r] = OneSecondMore(@)] /\ UNCHANGED rpc
           /\ UNCHANGED process
  <2>1. OneSecondMore(elapsed[r]) \in 0..MaxWait
    BY <1>0 DEF OneSecondMore
  <2>2. elapsed' \in [Readers -> 0..MaxWait]
    BY <1>0, <1>2, <2>1
  <2> QED BY <1>0, <1>2, <2>2
<1>3. CASE Goto(r, "end") /\ UNCHANGED elapsed /\ UNCHANGED process
  BY <1>0, <1>3, GotoFacts
<1> QED BY <1>1, <1>2, <1>3 DEF NotFound

\* The place of the first Seek.
LEMMA PlaceFacts ==
  ASSUME TypeOK, ~PlaceFails
  PROVE  /\ Place \in 0..(written + 1)
         /\ provider # "InMemory" => Place <= written
<1>1. written \in Nat /\ provider \in {"JSONFile", "InMemory", "MySQL"}
  BY IteratorAssumption DEF TypeOK, TypeStream
<1>2. CASE provider = "JSONFile"
  <2>1. request # "FIRST_MESSAGE" => written > 0
    BY <1>1, <1>2 DEF PlaceFails
  <2>2. Place = PlaceFile
    BY <1>2 DEF Place
  <2> QED BY <1>1, <2>1, <2>2 DEF PlaceFile
<1>3. CASE provider = "InMemory"
  <2>1. Place = PlaceInMemory
    BY <1>3 DEF Place
  <2> QED BY <1>1, <1>3, <2>1 DEF PlaceInMemory
<1>4. CASE provider = "MySQL"
  <2>1. Place = PlaceMySQL
    BY <1>4 DEF Place
  <2> QED BY <1>1, <2>1 DEF PlaceMySQL
<1> QED BY <1>1, <1>2, <1>3, <1>4

\* A page of rows: they follow next and the query finds them.
LEMMA PageFacts ==
  ASSUME TypeOK, NEW n \in 0..PageSize
  PROVE  /\ PageSize \in Nat /\ n \in Nat
         /\ Page(n) \in Seq(Nat) /\ Len(Page(n)) = n
         /\ \A i \in 1..n : Page(n)[i] = next + i
         /\ n > 0 => next + n <= Rows
<1>1. next \in Nat /\ written \in Nat /\ half \in {0, 1} /\ ReadAhead \in Nat
  BY IteratorAssumption DEF TypeOK, TypeStream, TypeHandler
<1>2. PageSize \in Nat /\ (PageSize > 0 => next + PageSize <= Rows)
  BY <1>1 DEF PageSize, Rows
<1>3. n \in Nat /\ n <= PageSize
  BY <1>2
<1>4. n > 0 => next + n <= Rows
  BY <1>1, <1>2, <1>3 DEF Rows
<1> QED BY <1>1, <1>2, <1>3, <1>4, RunFacts DEF Page

LEMMA TypeInit == Init => TypeInv
<1> SUFFICES ASSUME Init PROVE TypeInv
  OBVIOUS
<1> USE IteratorAssumption
<1>1. TypeStream
  BY DEF Init, TypeStream
<1>2. TypeHandler
  <2>1. buf \in Seq(Nat)
    BY DEF Init
  <2>2. 0 \in 0..(2 * MaxWritten + 2) /\ 0 \in 0..0 /\ 0 \in Nat
    OBVIOUS
  <2> QED BY <2>1, <2>2, Zenon DEF Init, TypeHandler
<1>3. TypeReaders
  BY DEF Init, TypeReaders
<1>4. BoundInv
  <2>1. buf = <<>> /\ Len(buf) = 0
    BY DEF Init
  <2> QED BY <2>1 DEF Init, BoundInv
<1> QED BY <1>1, <1>2, <1>3, <1>4 DEF TypeInv, TypeOK

\* The writer, and the request that closes the iterator.
LEMMA TypeWriter ==
  ASSUME TypeInv, WriteRecord \/ WriteFirstHalf \/ WriteSecondHalf \/ CloseIterator
  PROVE  TypeInv'
<1> USE IteratorAssumption DEF TypeInv, TypeOK, TypeStream, TypeHandler, TypeReaders, BoundInv, streamVars, handlerVars, readerVars
<1>1. CASE WriteRecord
  BY <1>1 DEF WriteRecord
<1>2. CASE WriteFirstHalf
  BY <1>2 DEF WriteFirstHalf
<1>3. CASE WriteSecondHalf
  BY <1>3 DEF WriteSecondHalf
<1>4. CASE CloseIterator
  BY <1>4 DEF CloseIterator
<1> QED BY <1>1, <1>2, <1>3, <1>4

\* A request up to the place where the reading starts.
LEMMA TypeBegins ==
  ASSUME TypeInv, NEW r \in Readers, GetBegin(r) \/ GetClaim(r) \/ GetFirstSeek(r) \/ GetSeek(r)
  PROVE  TypeInv'
<1> USE IteratorAssumption
<1>0. /\ TypeStream /\ TypeHandler /\ TypeReaders /\ BoundInv
      /\ \A q \in Readers : rpc[q] = "advance" => cur[q] > 0
  BY DEF TypeInv, TypeOK, BoundInv
<1>1. CASE GetBegin(r)
  <2>1. /\ rpc' \in [Readers -> {"idle", "claim", "seek", "read", "advance", "end"}]
        /\ \A q \in Readers : rpc'[q] = "advance" => rpc[q] = "advance"
    BY <1>0, <1>1, GotoFacts DEF GetBegin, TypeReaders
  <2>2. resp' \in [Readers -> Seq(1..MaxWritten)] /\ elapsed' \in [Readers -> 0..MaxWait]
    BY <1>0, <1>1 DEF GetBegin, TypeReaders
  <2> QED BY <1>0, <1>1, <2>1, <2>2
          DEF GetBegin, TypeInv, TypeOK, TypeStream, TypeHandler, TypeReaders, BoundInv, streamVars, handlerVars
<1>2. CASE GetClaim(r)
  <2>1. /\ rpc' \in [Readers -> {"idle", "claim", "seek", "read", "advance", "end"}]
        /\ \A q \in Readers : rpc'[q] = "advance" => rpc[q] = "advance"
    BY <1>0, <1>2, GotoFacts DEF GetClaim, TypeReaders
  <2> QED BY <1>0, <1>2, <2>1
          DEF GetClaim, TypeInv, TypeOK, TypeStream, TypeHandler, TypeReaders, BoundInv, streamVars, handlerVars
<1>3. CASE GetFirstSeek(r)
  <2>1. /\ rpc' \in [Readers -> {"idle", "claim", "seek", "read", "advance", "end"}]
        /\ \A q \in Readers : rpc'[q] = "advance" => rpc[q] = "advance"
    BY <1>0, <1>3, GotoFacts DEF GetFirstSeek, Return, TypeReaders
  <2>2. TypeReaders'
    BY <1>0, <1>3, <2>1 DEF GetFirstSeek, TypeReaders
  <2>3. TypeStream'
    BY <1>0, <1>3 DEF GetFirstSeek, TypeStream, streamVars, Panic
  <2>4. CASE UNCHANGED handlerVars
    BY <1>0, <1>3, <2>1, <2>2, <2>3, <2>4
       DEF GetFirstSeek, Return, TypeInv, TypeOK, TypeHandler, BoundInv, handlerVars, streamVars
  <2>5. CASE ~UNCHANGED handlerVars
    <3>1. /\ ~PlaceFails /\ initialized' = TRUE /\ start' = Place /\ next' = Place /\ buf' = <<>>
          /\ opos' = (IF provider = "MySQL" THEN 0 ELSE 2 * Place) /\ saved' = opos'
          /\ dropped' = dropped /\ busy' = busy /\ request' = request
          /\ UNCHANGED streamVars /\ cur' = cur
      BY <1>3, <2>5 DEF GetFirstSeek
    <3>2. Place \in 0..(written + 1) /\ (provider # "InMemory" => Place <= written)
      BY <3>1, <1>0, PlaceFacts DEF TypeOK
    <3>3. opos' \in 0..(2 * MaxWritten + 2)
      BY <1>0, <3>1, <3>2 DEF TypeStream
    <3>4. TypeHandler'
      BY <1>0, <3>1, <3>2, <3>3 DEF TypeHandler
    <3>5. BoundInv'
      BY <1>0, <2>1, <3>1 DEF BoundInv, streamVars
    <3> QED BY <2>2, <2>3, <3>4, <3>5 DEF TypeInv, TypeOK
  <2> QED BY <2>4, <2>5
<1>4. CASE GetSeek(r)
  <2>1. /\ rpc' \in [Readers -> {"idle", "claim", "seek", "read", "advance", "end"}]
        /\ \A q \in Readers : rpc'[q] = "advance" => rpc[q] = "advance"
    BY <1>0, <1>4, GotoFacts DEF GetSeek, Return, TypeReaders
  <2>2. TypeReaders'
    BY <1>0, <1>4, <2>1 DEF GetSeek, TypeReaders
  <2>3. TypeStream'
    BY <1>0, <1>4 DEF GetSeek, TypeStream, streamVars
  <2>4. TypeHandler'
    <3>1. /\ opos' \in {opos, saved} /\ saved' = saved
          /\ request' = request /\ initialized' = initialized /\ dropped' = dropped /\ next' = next
          /\ buf' = buf /\ start' = start /\ busy' \in {busy, FALSE}
      BY <1>4 DEF GetSeek, Return
    <3>2. opos' \in 0..(2 * MaxWritten + 2) /\ saved' \in 0..opos'
      BY <1>0, <3>1 DEF TypeHandler
    <3> QED BY <1>0, <3>1, <3>2 DEF TypeHandler
  <2>5. BoundInv'
    BY <1>0, <1>4, <2>1 DEF GetSeek, BoundInv, streamVars
  <2> QED BY <2>2, <2>3, <2>4, <2>5 DEF TypeInv, TypeOK
<1> QED BY <1>1, <1>2, <1>3, <1>4

\* The in-memory provider's reads.
LEMMA TypeMemory ==
  ASSUME TypeInv, NEW r \in Readers, ReadInMemory(r) \/ AdvanceInMemory(r)
  PROVE  TypeInv'
<1> USE IteratorAssumption
<1>0. /\ TypeStream /\ TypeHandler /\ TypeReaders /\ BoundInv
      /\ \A q \in Readers : rpc[q] = "advance" => cur[q] > 0
  BY DEF TypeInv, TypeOK, BoundInv
<1>1. CASE ReadInMemory(r)
  <2>1. CASE RecordAtIndex /\ cur' = [cur EXCEPT ![r] = next + 1] /\ Goto(r, "advance") /\ UNCHANGED <<elapsed, process>>
    <3>1. next + 1 \in 1..MaxWritten
      BY <1>0, <2>1 DEF RecordAtIndex, TypeStream, TypeHandler
    <3>2. cur' \in [Readers -> 0..MaxWritten] /\ cur'[r] = next + 1 /\ \A q \in Readers : q # r => cur'[q] = cur[q]
      BY <1>0, <2>1, <3>1 DEF TypeReaders
    <3>3. /\ rpc' \in [Readers -> {"idle", "claim", "seek", "read", "advance", "end"}]
          /\ \A q \in Readers : q # r => rpc'[q] = rpc[q]
      BY <1>0, <2>1, GotoFacts DEF TypeReaders
    <3>4. \A q \in Readers : rpc'[q] = "advance" => cur'[q] > 0
      BY <1>0, <3>1, <3>2, <3>3
    <3>5. TypeReaders'
      BY <1>0, <1>1, <2>1, <3>2, <3>3 DEF ReadInMemory, TypeReaders
    <3> QED BY <1>0, <1>1, <2>1, <3>4, <3>5
            DEF ReadInMemory, TypeInv, TypeOK, TypeStream, TypeHandler, BoundInv, streamVars, handlerVars
  <2>2. CASE NotFound(r) /\ UNCHANGED cur
    <3>1. /\ elapsed' \in [Readers -> 0..MaxWait] /\ process' \in {"alive", "panicked"}
          /\ rpc' \in [Readers -> {"idle", "claim", "seek", "read", "advance", "end"}]
          /\ rpc' = rpc \/ rpc'[r] = "end"
          /\ \A q \in Readers : q # r => rpc'[q] = rpc[q]
      BY <1>0, <2>2, NotFoundFacts DEF TypeStream
    <3>2. TypeReaders'
      BY <1>0, <1>1, <2>2, <3>1 DEF ReadInMemory, TypeReaders
    <3>3. \A q \in Readers : rpc'[q] = "advance" => cur'[q] > 0
      BY <1>0, <2>2, <3>1
    <3> QED BY <1>0, <1>1, <2>2, <3>1, <3>2, <3>3
            DEF ReadInMemory, TypeInv, TypeOK, TypeStream, TypeHandler, BoundInv, streamVars, handlerVars
  <2> QED BY <1>1, <2>1, <2>2 DEF ReadInMemory
<1>2. CASE AdvanceInMemory(r)
  <2>1. cur[r] \in 1..MaxWritten
    BY <1>0, <1>2 DEF AdvanceInMemory, TypeReaders, TypeStream
  <2>2. /\ resp' \in [Readers -> Seq(1..MaxWritten)]
        /\ rpc' \in [Readers -> {"idle", "claim", "seek", "read", "advance", "end"}]
        /\ rpc'[r] \in {"read", "end"}
        /\ \A q \in Readers : q # r => rpc'[q] = rpc[q]
    BY <1>0, <1>2, <2>1, DeliverFacts DEF AdvanceInMemory
  <2>3. next' \in Nat
    BY <1>0, <1>2 DEF AdvanceInMemory, NextIndex, TypeHandler
  <2>4. TypeReaders'
    BY <1>0, <1>2, <2>2 DEF AdvanceInMemory, TypeReaders
  <2>5. \A q \in Readers : rpc'[q] = "advance" => cur'[q] > 0
    BY <1>0, <1>2, <2>2 DEF AdvanceInMemory
  <2> QED BY <1>0, <1>2, <2>3, <2>4, <2>5
          DEF AdvanceInMemory, TypeInv, TypeOK, TypeStream, TypeHandler, BoundInv, streamVars
<1> QED BY <1>1, <1>2

\* The file provider's reads.
LEMMA TypeFile ==
  ASSUME TypeInv, NEW r \in Readers, ReadFileFill(r) \/ ReadFileLine(r) \/ ReadFileEnd(r)
  PROVE  TypeInv'
<1> USE IteratorAssumption
<1>0. /\ TypeStream /\ TypeHandler /\ TypeReaders /\ BoundInv /\ provider = "JSONFile"
      /\ \A q \in Readers : rpc[q] = "advance" => cur[q] > 0
      /\ written + half <= MaxWritten /\ written \in Nat /\ half \in {0, 1}
      /\ opos \in Nat /\ saved \in 0..opos /\ opos <= 2 * MaxWritten + 2
      /\ buf \in Seq(Nat) /\ Len(buf) \in Nat
      /\ \A i \in 1..Len(buf) : buf[i] \in 1..(2 * MaxWritten)
  BY DEF TypeInv, TypeOK, BoundInv, ReadFileFill, ReadFileLine, ReadFileEnd, TypeStream, TypeHandler
<1>1. CASE ReadFileFill(r)
  <2> DEFINE n == IF FileSize - opos < ReadAhead THEN FileSize - opos ELSE ReadAhead
             run == [i \in 1..n |-> opos + i]
  <2>1. n \in Nat /\ opos + n <= FileSize /\ FileSize <= 2 * MaxWritten /\ FileSize \in Nat
    <3>1. FileSize \in Nat /\ FileSize <= 2 * MaxWritten
      BY <1>0 DEF FileSize
    <3>2. opos < FileSize /\ ReadAhead \in Nat
      BY <1>1 DEF ReadFileFill
    <3> QED BY <1>0, <3>1, <3>2
  <2>2. run \in Seq(Nat) /\ Len(run) = n /\ \A i \in 1..n : run[i] = opos + i
    BY <1>0, <2>1, RunFacts
  <2>3. buf' = buf \o run /\ opos' = opos + n
    BY <1>1 DEF ReadFileFill
  <2> HIDE DEF n, run
  <2>4. /\ buf' \in Seq(Nat) /\ Len(buf') = Len(buf) + n
        /\ \A i \in 1..Len(buf) : buf'[i] = buf[i]
        /\ \A i \in 1..n : buf'[Len(buf) + i] = run[i]
    <3>1. /\ buf \o run \in Seq(Nat) /\ Len(buf \o run) = Len(buf) + Len(run)
          /\ \A i \in 1..Len(buf) : (buf \o run)[i] = buf[i]
          /\ \A i \in 1..Len(run) : (buf \o run)[Len(buf) + i] = run[i]
      <4>1. buf \in Seq(Nat) /\ run \in Seq(Nat)
        BY <1>0, <2>2
      <4> QED BY <4>1, ConcatFacts
    <3> QED BY <2>2, <2>3, <3>1
  <2>5. \A i \in 1..Len(buf') : buf'[i] \in 1..(2 * MaxWritten)
    <3> SUFFICES ASSUME NEW i \in 1..Len(buf') PROVE buf'[i] \in 1..(2 * MaxWritten)
      OBVIOUS
    <3>1. CASE i <= Len(buf)
      BY <1>0, <2>4, <3>1
    <3>2. CASE i > Len(buf)
      <4>1. i - Len(buf) \in 1..n /\ i = Len(buf) + (i - Len(buf))
        BY <1>0, <2>1, <2>4, <3>2
      <4>2. buf'[i] = opos + (i - Len(buf))
        BY <2>2, <2>4, <4>1
      <4> QED BY <1>0, <2>1, <4>1, <4>2
    <3> QED BY <1>0, <2>1, <2>4, <3>1, <3>2
  <2>6. opos' \in 0..(2 * MaxWritten + 2) /\ saved' \in 0..opos'
    BY <1>0, <1>1, <2>1, <2>3 DEF ReadFileFill
  <2>7. TypeHandler'
    BY <1>0, <1>1, <2>4, <2>6 DEF ReadFileFill, TypeHandler
  <2>8. TypeReaders' /\ TypeStream'
    BY <1>0, <1>1 DEF ReadFileFill, TypeReaders, TypeStream, readerVars, streamVars
  <2>9. BoundInv'
    BY <1>0, <1>1, <2>5 DEF ReadFileFill, BoundInv, readerVars, streamVars
  <2> QED BY <2>7, <2>8, <2>9 DEF TypeInv, TypeOK
<1>2. CASE ReadFileLine(r)
  <2>1. EndOfLine \in 1..Len(buf) /\ buf[EndOfLine] % 2 = 0
    BY <1>0, <1>2, EndOfLineFacts DEF ReadFileLine
  <2>2. buf' = SubSeq(buf, EndOfLine + 1, Len(buf))
    BY <1>2 DEF ReadFileLine
  <2>3. /\ buf' \in Seq(Nat) /\ Len(buf') = Len(buf) - EndOfLine
        /\ \A i \in 1..(Len(buf) - EndOfLine) : buf'[i] = buf[EndOfLine + i]
    BY <1>0, <2>1, <2>2, RestFacts
  <2>4. \A i \in 1..Len(buf') : buf'[i] \in 1..(2 * MaxWritten)
    <3> SUFFICES ASSUME NEW i \in 1..Len(buf') PROVE buf'[i] \in 1..(2 * MaxWritten)
      OBVIOUS
    <3>1. EndOfLine + i \in 1..Len(buf) /\ i \in 1..(Len(buf) - EndOfLine)
      BY <1>0, <2>1, <2>3
    <3> QED BY <1>0, <2>3, <3>1
  <2>5. /\ resp' \in [Readers -> Seq(1..MaxWritten)]
        /\ rpc' \in [Readers -> {"idle", "claim", "seek", "read", "advance", "end"}]
        /\ \A q \in Readers : rpc'[q] = "advance" => rpc[q] = "advance"
    <3>1. CASE UNCHANGED <<resp, rpc>>
      BY <1>0, <3>1 DEF TypeReaders
    <3>2. CASE EndOfLine = 2 /\ Deliver(r, buf[2] \div 2)
      <4>1. buf[2] \in 1..(2 * MaxWritten) /\ buf[2] % 2 = 0
        BY <1>0, <2>1, <3>2
      <4>2. buf[2] \div 2 \in 1..MaxWritten
        BY <4>1
      <4> QED BY <1>0, <3>2, <4>2, DeliverFacts
    <3> QED BY <1>2, <3>1, <3>2 DEF ReadFileLine
  <2>6. TypeReaders'
    BY <1>0, <1>2, <2>5 DEF ReadFileLine, TypeReaders
  <2>7. TypeHandler' /\ TypeStream'
    BY <1>0, <1>2, <2>3 DEF ReadFileLine, TypeHandler, TypeStream, streamVars
  <2>8. BoundInv'
    BY <1>0, <1>2, <2>4, <2>5 DEF ReadFileLine, BoundInv, streamVars
  <2> QED BY <2>6, <2>7, <2>8 DEF TypeInv, TypeOK
<1>3. CASE ReadFileEnd(r)
  <2>1. /\ elapsed' \in [Readers -> 0..MaxWait] /\ process' \in {"alive", "panicked"}
        /\ rpc' \in [Readers -> {"idle", "claim", "seek", "read", "advance", "end"}]
        /\ rpc' = rpc \/ rpc'[r] = "end"
        /\ \A q \in Readers : q # r => rpc'[q] = rpc[q]
    BY <1>0, <1>3, NotFoundFacts DEF ReadFileEnd, TypeStream
  <2>2. TypeReaders'
    BY <1>0, <1>3, <2>1 DEF ReadFileEnd, TypeReaders
  <2>3. TypeStream'
    BY <1>0, <1>3, <2>1 DEF ReadFileEnd, TypeStream, streamVars
  <2>4. saved' \in 0..opos'
    BY <1>0, <1>3 DEF ReadFileEnd, SavedOffset
  <2>5. buf' \in Seq(Nat) /\ Len(buf') = 0
    BY <1>3 DEF ReadFileEnd
  <2>6. TypeHandler'
    BY <1>0, <1>3, <2>4, <2>5 DEF ReadFileEnd, TypeHandler
  <2>7. \A q \in Readers : rpc'[q] = "advance" => cur'[q] > 0
    BY <1>0, <1>3, <2>1 DEF ReadFileEnd
  <2>8. BoundInv'
    BY <1>0, <1>3, <2>5, <2>7 DEF ReadFileEnd, BoundInv, streamVars
  <2> QED BY <2>2, <2>3, <2>6, <2>8 DEF TypeInv, TypeOK
<1> QED BY <1>1, <1>2, <1>3

\* The MySQL provider's reads.
LEMMA TypeMySQL ==
  ASSUME TypeInv, NEW r \in Readers, ReadPage(r) \/ ReadPageFails(r) \/ ReadRow(r)
  PROVE  TypeInv'
<1> USE IteratorAssumption
<1>0. /\ TypeStream /\ TypeHandler /\ TypeReaders /\ BoundInv /\ TypeOK /\ provider = "MySQL"
      /\ \A q \in Readers : rpc[q] = "advance" => cur[q] > 0
      /\ written + half <= MaxWritten /\ written \in Nat /\ half \in {0, 1}
      /\ opos \in Nat /\ saved = 0 /\ opos <= 2 * MaxWritten + 2 /\ next \in Nat /\ faults \in 0..MaxFaults
      /\ buf \in Seq(Nat) /\ Len(buf) \in Nat /\ Len(buf) <= MaxWritten
      /\ \A i \in 1..Len(buf) : buf[i] \in 1..MaxWritten
  BY DEF TypeInv, TypeOK, BoundInv, ReadPage, ReadPageFails, ReadRow, TypeStream, TypeHandler
<1>1. ASSUME NEW n \in 0..PageSize
      PROVE  /\ n \in Nat /\ Page(n) \in Seq(Nat) /\ Len(Page(n)) = n /\ n <= MaxWritten
             /\ \A i \in 1..n : Page(n)[i] \in 1..MaxWritten
  <2>1. /\ PageSize \in Nat /\ n \in Nat /\ Page(n) \in Seq(Nat) /\ Len(Page(n)) = n
        /\ \A i \in 1..n : Page(n)[i] = next + i
        /\ n > 0 => next + n <= Rows
    BY <1>0, PageFacts
  <2>2. n > 0 => next + n <= MaxWritten
    BY <1>0, <2>1 DEF Rows
  <2> QED BY <1>0, <2>1, <2>2
<1>2. ASSUME NEW n \in 0..PageSize, buf' = Page(n), next' = next + n, saved' = saved, opos' \in {0, opos},
             UNCHANGED <<streamVars, request, busy, initialized, start>>, dropped' \in BOOLEAN
      PROVE  /\ TypeHandler'
             /\ \A i \in 1..Len(buf') : buf'[i] \in 1..MaxWritten
             /\ Len(buf') <= MaxWritten
  <2>1. /\ n \in Nat /\ buf' \in Seq(Nat) /\ Len(buf') = n /\ n <= MaxWritten
        /\ \A i \in 1..n : buf'[i] \in 1..MaxWritten
    BY <1>1, <1>2
  <2>2. opos' \in 0..(2 * MaxWritten + 2) /\ saved' \in 0..opos' /\ next' \in Nat
    BY <1>0, <1>2, <2>1
  <2> QED BY <1>0, <1>2, <2>1, <2>2 DEF TypeHandler
<1>3. ASSUME UNCHANGED streamVars, saved' = saved, Len(buf') <= MaxWritten,
             \A i \in 1..Len(buf') : buf'[i] \in 1..MaxWritten,
             \A q \in Readers : rpc'[q] = "advance" => cur'[q] > 0
      PROVE  BoundInv'
  <2>1. \A i \in 1..Len(buf') : buf'[i] \in 1..(2 * MaxWritten) /\ buf'[i] <= MaxWritten
    BY <1>3
  <2> QED BY <1>0, <1>3, <2>1 DEF BoundInv, streamVars
<1>4. ASSUME NotFound(r) \/ UNCHANGED <<rpc, elapsed, process>>, UNCHANGED <<resp, cur, delivered>>
      PROVE  /\ TypeReaders' /\ process' \in {"alive", "panicked"}
             /\ \A q \in Readers : rpc'[q] = "advance" => cur'[q] > 0
  <2>1. CASE NotFound(r)
    <3>1. /\ elapsed' \in [Readers -> 0..MaxWait] /\ process' \in {"alive", "panicked"}
          /\ rpc' \in [Readers -> {"idle", "claim", "seek", "read", "advance", "end"}]
          /\ rpc' = rpc \/ rpc'[r] = "end"
          /\ \A q \in Readers : q # r => rpc'[q] = rpc[q]
      BY <1>0, <2>1, NotFoundFacts DEF TypeStream
    <3> QED BY <1>0, <1>4, <3>1 DEF TypeReaders
  <2>2. CASE UNCHANGED <<rpc, elapsed, process>>
    BY <1>0, <1>4, <2>2 DEF TypeReaders, TypeStream
  <2> QED BY <1>4, <2>1, <2>2
<1>5. CASE ReadPage(r)
  <2>1. PICK n \in 0..PageSize :
          /\ n < PageSize => faults < MaxFaults
          /\ faults' = IF n < PageSize THEN faults + 1 ELSE faults
          /\ buf' = Page(n) /\ next' = next + n /\ opos' = 0
          /\ IF n = 0 THEN NotFound(r) ELSE UNCHANGED <<rpc, elapsed, process>>
    BY <1>5 DEF ReadPage
  <2>2. UNCHANGED <<streamVars, request, busy, initialized, saved, dropped, start, resp, cur, delivered>>
    BY <1>5 DEF ReadPage
  <2>3. dropped' \in BOOLEAN
    BY <1>0, <2>2 DEF TypeHandler
  <2>4. /\ TypeHandler' /\ Len(buf') <= MaxWritten
        /\ \A i \in 1..Len(buf') : buf'[i] \in 1..MaxWritten
    BY <1>2, <2>1, <2>2, <2>3
  <2>5. /\ TypeReaders' /\ process' \in {"alive", "panicked"}
        /\ \A q \in Readers : rpc'[q] = "advance" => cur'[q] > 0
    BY <1>4, <2>1, <2>2
  <2>6. faults' \in 0..MaxFaults
    BY <1>0, <2>1
  <2>7. TypeStream'
    BY <1>0, <2>2, <2>5, <2>6 DEF TypeStream, streamVars
  <2>8. BoundInv'
    BY <1>3, <2>2, <2>4, <2>5
  <2> QED BY <2>4, <2>5, <2>7, <2>8 DEF TypeInv, TypeOK
<1>6. CASE ReadPageFails(r)
  <2>1. /\ NotFound(r) /\ faults < MaxFaults /\ faults' = faults + 1 /\ opos' = opos
        /\ UNCHANGED <<streamVars, request, busy, initialized, opos, saved, start, resp, cur, delivered>>
    BY <1>6 DEF ReadPageFails
  <2>2. /\ TypeReaders' /\ process' \in {"alive", "panicked"}
        /\ \A q \in Readers : rpc'[q] = "advance" => cur'[q] > 0
    BY <1>4, <2>1
  <2>3. TypeStream'
    BY <1>0, <2>1, <2>2 DEF TypeStream, streamVars
  <2>4. /\ TypeHandler' /\ Len(buf') <= MaxWritten
        /\ \A i \in 1..Len(buf') : buf'[i] \in 1..MaxWritten
    <3>1. CASE UNCHANGED <<buf, next, dropped>>
      BY <1>0, <2>1, <3>1 DEF TypeHandler
    <3>2. ASSUME NEW n \in 0..(PageSize - 1), buf' = Page(n), next' = next + n,
                 dropped' = (dropped \/ (n > 0 /\ opos > 0))
          PROVE  /\ TypeHandler' /\ Len(buf') <= MaxWritten
                 /\ \A i \in 1..Len(buf') : buf'[i] \in 1..MaxWritten
      <4>1. PageSize \in Int
        BY <1>0 DEF PageSize, Rows
      <4>2. n \in 0..PageSize
        BY <4>1
      <4>3. dropped' \in BOOLEAN
        BY <1>0, <3>2, Zenon DEF TypeHandler
      <4> QED BY <1>2, <2>1, <3>2, <4>2, <4>3
    <3> QED BY <1>6, <3>1, <3>2 DEF ReadPageFails
  <2>5. BoundInv'
    BY <1>3, <2>1, <2>2, <2>4
  <2> QED BY <2>2, <2>3, <2>4, <2>5 DEF TypeInv, TypeOK
<1>7. CASE ReadRow(r)
  <2>1. opos + 1 \in 1..Len(buf) /\ buf[opos + 1] \in 1..MaxWritten
    BY <1>0, <1>7 DEF ReadRow
  <2>2. /\ resp' \in [Readers -> Seq(1..MaxWritten)]
        /\ rpc' \in [Readers -> {"idle", "claim", "seek", "read", "advance", "end"}]
        /\ rpc'[r] \in {"read", "end"}
        /\ \A q \in Readers : q # r => rpc'[q] = rpc[q]
    BY <1>0, <1>7, <2>1, DeliverFacts DEF ReadRow
  <2>3. TypeReaders'
    BY <1>0, <1>7, <2>2 DEF ReadRow, TypeReaders
  <2>4. opos' \in 0..(2 * MaxWritten + 2) /\ saved' \in 0..opos'
    BY <1>0, <1>7, <2>1 DEF ReadRow
  <2>5. TypeHandler' /\ TypeStream'
    BY <1>0, <1>7, <2>4 DEF ReadRow, TypeHandler, TypeStream, streamVars
  <2>6. \A q \in Readers : rpc'[q] = "advance" => cur'[q] > 0
    BY <1>0, <1>7, <2>2 DEF ReadRow
  <2>7. UNCHANGED <<streamVars, saved, buf>>
    BY <1>7 DEF ReadRow
  <2>8. BoundInv'
    BY <1>0, <1>3, <2>6, <2>7
  <2> QED BY <2>3, <2>5, <2>8 DEF TypeInv, TypeOK
<1> QED BY <1>5, <1>6, <1>7

\* The end of a request.
LEMMA TypeEnd ==
  ASSUME TypeInv, NEW r \in Readers, GetEnd(r)
  PROVE  TypeInv'
<1> USE IteratorAssumption
<1>0. /\ TypeStream /\ TypeHandler /\ TypeReaders /\ BoundInv
      /\ \A q \in Readers : rpc[q] = "advance" => cur[q] > 0
      /\ delivered \in Seq(1..MaxWritten) /\ resp \in [Readers -> Seq(1..MaxWritten)] /\ opos \in Nat
  BY DEF TypeInv, TypeOK, BoundInv, TypeReaders, TypeHandler
<1>1. /\ rpc' \in [Readers -> {"idle", "claim", "seek", "read", "advance", "end"}]
      /\ \A q \in Readers : rpc'[q] = "advance" => rpc[q] = "advance"
  BY <1>0, GotoFacts DEF GetEnd, Return, TypeReaders
<1>2. delivered \o resp[r] \in Seq(1..MaxWritten)
  BY <1>0, ConcatFacts
<1>3. resp' \in [Readers -> Seq(1..MaxWritten)]
  BY <1>0 DEF GetEnd
<1>4. delivered' \in Seq(1..MaxWritten)
  BY <1>0, <1>2 DEF GetEnd
<1>5. TypeReaders'
  BY <1>0, <1>1, <1>3, <1>4 DEF GetEnd, TypeReaders
<1>6. TypeStream'
  BY <1>0 DEF GetEnd, TypeStream, streamVars
<1>7. /\ saved' \in 0..opos' /\ busy' \in BOOLEAN
      /\ provider = "MySQL" => saved' = saved
  <2>1. saved \in 0..opos /\ busy \in BOOLEAN
    BY <1>0 DEF TypeHandler
  <2>2. saved' \in {saved, opos} /\ opos' = opos /\ busy' = FALSE
    BY DEF GetEnd, Return, SavedOffset
  <2>3. provider = "MySQL" => saved' = saved
    BY DEF GetEnd
  <2>4. saved' \in 0..opos'
    BY <1>0, <2>1, <2>2
  <2>5. busy' \in BOOLEAN
    BY <2>2
  <2> QED BY <2>3, <2>4, <2>5
<1>8. UNCHANGED <<streamVars, request, initialized, next, opos, buf, dropped, start, cur>>
  BY DEF GetEnd
<1>9. TypeHandler'
  BY <1>0, <1>7, <1>8 DEF TypeHandler
<1>10. BoundInv'
  BY <1>0, <1>1, <1>7, <1>8 DEF BoundInv, streamVars
<1> QED BY <1>5, <1>6, <1>9, <1>10 DEF TypeInv, TypeOK

LEMMA TypeStep ==
  ASSUME TypeInv, [Next]_vars
  PROVE  TypeInv'
<1>1. CASE UNCHANGED vars
  BY <1>1 DEF vars, streamVars, handlerVars, readerVars, TypeInv, TypeOK, TypeStream, TypeHandler,
              TypeReaders, BoundInv
<1>2. CASE WriteRecord \/ WriteFirstHalf \/ WriteSecondHalf \/ CloseIterator
  BY <1>2, TypeWriter
<1>3. ASSUME NEW r \in Readers, GetBegin(r) \/ GetStep(r)
      PROVE  TypeInv'
  BY <1>3, TypeBegins, TypeMemory, TypeFile, TypeMySQL, TypeEnd DEF GetStep
<1> QED BY <1>1, <1>2, <1>3 DEF Next

(* The stream, the iterator, its handler and the requests keep their types *)
(* for any number of requests at once: positions never pass what the       *)
(* writer wrote, and a response holds records only.                        *)
THEOREM TypeCorrect == Spec => []TypeOK
<1>1. TypeInv /\ [Next]_vars => TypeInv'
  BY TypeStep
<1>2. TypeInv => TypeOK
  BY DEF TypeInv
<1> QED BY TypeInit, <1>1, <1>2, PTL DEF Spec

-----------------------------------------------------------------------------
(* Sequences of delivered records.                                         *)

\* The beginning of a sequence is as ordered, and limits may grow.
LEMMA OrderedBeginning ==
  ASSUME NEW out \in Seq(Nat), NEW out2 \in Seq(Nat),
         Len(out2) <= Len(out), \A i \in 1..Len(out2) : out2[i] = out[i],
         NEW c, NEW k, Ordered(out, c, k)
  PROVE  Ordered(out2, c, k)
<1>1. Len(out) \in Nat /\ Len(out2) \in Nat
  OBVIOUS
<1>2. \A i \in 1..Len(out2) : out2[i] <= c /\ out2[i] <= k
  <2> SUFFICES ASSUME NEW i \in 1..Len(out2) PROVE out2[i] <= c /\ out2[i] <= k
    OBVIOUS
  <2>1. i \in 1..Len(out) /\ out2[i] = out[i]
    BY <1>1
  <2> QED BY <2>1 DEF Ordered
<1>3. \A i \in 2..Len(out2) : out2[i - 1] < out2[i]
  <2> SUFFICES ASSUME NEW i \in 2..Len(out2) PROVE out2[i - 1] < out2[i]
    OBVIOUS
  <2>1. i \in 2..Len(out) /\ i - 1 \in 1..Len(out2) /\ i \in 1..Len(out2)
    BY <1>1
  <2>2. out2[i] = out[i] /\ out2[i - 1] = out[i - 1]
    BY <2>1
  <2> QED BY <2>1, <2>2 DEF Ordered, Increasing
<1> QED BY <1>2, <1>3 DEF Ordered, Increasing

LEMMA OrderedGrows ==
  ASSUME NEW out \in Seq(Nat), NEW c \in Nat, NEW k \in Nat, NEW c2 \in Nat, NEW k2 \in Nat,
         c <= c2, k <= k2, Ordered(out, c, k)
  PROVE  Ordered(out, c2, k2)
<1>1. \A i \in 1..Len(out) : out[i] <= c2 /\ out[i] <= k2
  <2> SUFFICES ASSUME NEW i \in 1..Len(out) PROVE out[i] <= c2 /\ out[i] <= k2
    OBVIOUS
  <2>1. out[i] \in Nat /\ out[i] <= c /\ out[i] <= k
    BY DEF Ordered
  <2> QED BY <2>1
<1> QED BY <1>1 DEF Ordered

\* The next record is after the others.
LEMMA OrderedMore ==
  ASSUME NEW out \in Seq(Nat), NEW out2 \in Seq(Nat), Len(out2) = Len(out) + 1,
         \A i \in 1..Len(out) : out2[i] = out[i],
         NEW c \in Int, NEW k \in Nat, out2[Len(out) + 1] = k + 1, k + 1 <= c,
         Ordered(out, c, k)
  PROVE  Ordered(out2, c, k + 1)
<1>1. Len(out) \in Nat /\ Len(out2) \in Nat
  OBVIOUS
<1>2. \A i \in 1..Len(out) : out[i] \in Nat /\ out[i] <= c /\ out[i] <= k
  BY SMTT(30) DEF Ordered
<1>3. \A i \in 1..Len(out2) : out2[i] <= c /\ out2[i] <= k + 1
  <2> SUFFICES ASSUME NEW i \in 1..Len(out2) PROVE out2[i] <= c /\ out2[i] <= k + 1
    OBVIOUS
  <2>1. CASE i = Len(out) + 1
    BY <2>1
  <2>2. CASE i # Len(out) + 1
    <3>1. i \in 1..Len(out)
      BY <1>1, <2>2
    <3> QED BY <1>2, <3>1, SMTT(30)
  <2> QED BY <2>1, <2>2
<1>4. \A i \in 2..Len(out2) : out2[i - 1] < out2[i]
  <2> SUFFICES ASSUME NEW i \in 2..Len(out2) PROVE out2[i - 1] < out2[i]
    OBVIOUS
  <2>0. i - 1 \in 1..Len(out)
    BY <1>1
  <2>1. i - 1 \in 1..Len(out) /\ out2[i - 1] = out[i - 1]
    BY <2>0
  <2>2. CASE i = Len(out) + 1
    BY <1>2, <2>1, <2>2, SMTT(30)
  <2>3. CASE i # Len(out) + 1
    <3>1. i \in 2..Len(out) /\ i \in 1..Len(out)
      BY <1>1, <2>3
    <3> QED BY <2>1, <3>1 DEF Ordered, Increasing
  <2> QED BY <2>2, <2>3
<1> QED BY <1>3, <1>4 DEF Ordered, Increasing

\* The next record is there, or the filter does not let it through.
LEMMA ExactMore ==
  ASSUME NEW out \in Seq(Nat), NEW out2 \in Seq(Nat), Len(out2) = Len(out) + 1,
         \A i \in 1..Len(out) : out2[i] = out[i],
         NEW f \in Nat, NEW k \in Nat, out2[Len(out) + 1] = k + 1, k + 1 \notin Skipped,
         Exact(out, f, k)
  PROVE  Exact(out2, f, k + 1)
<1>1. Len(out) \in Nat
  OBVIOUS
<1>2. Ids(out2) = Ids(out) \cup {k + 1}
  <2>1. \A id : id \in Ids(out2) => id \in Ids(out) \cup {k + 1}
    <3> SUFFICES ASSUME NEW i \in 1..Len(out2) PROVE out2[i] \in Ids(out) \cup {k + 1}
      BY DEF Ids
    <3>1. CASE i = Len(out) + 1
      BY <3>1
    <3>2. CASE i # Len(out) + 1
      <4>1. i \in 1..Len(out)
        BY <1>1, <3>2
      <4> QED BY <4>1 DEF Ids
    <3> QED BY <3>1, <3>2
  <2>2. \A i \in 1..Len(out) : out[i] \in Ids(out2)
    <3> SUFFICES ASSUME NEW i \in 1..Len(out) PROVE out[i] \in Ids(out2)
      OBVIOUS
    <3>1. i \in 1..Len(out2) /\ out2[i] = out[i]
      BY <1>1
    <3> QED BY <3>1 DEF Ids
  <2>3. k + 1 \in Ids(out2)
    <3>1. Len(out) + 1 \in 1..Len(out2)
      BY <1>1
    <3> QED BY <3>1 DEF Ids
  <2> QED BY <2>1, <2>2, <2>3 DEF Ids
<1>3. f <= k /\ Ids(out) = ((f + 1)..k) \ Skipped
  BY DEF Exact
<1>4. ((f + 1)..(k + 1)) \ Skipped = (((f + 1)..k) \ Skipped) \cup {k + 1}
  BY <1>3
<1> QED BY <1>2, <1>3, <1>4 DEF Exact

LEMMA ExactSkips ==
  ASSUME NEW out \in Seq(Nat), NEW f \in Nat, NEW k \in Nat, k + 1 \in Skipped, Exact(out, f, k)
  PROVE  Exact(out, f, k + 1)
<1>1. ((f + 1)..(k + 1)) \ Skipped = ((f + 1)..k) \ Skipped
  OBVIOUS
<1> QED BY <1>1 DEF Exact

\* Nothing is delivered yet.
LEMMA NothingYet ==
  ASSUME NEW c \in Int, NEW k \in Nat
  PROVE  Ordered(<<>>, c, k) /\ Exact(<<>>, k, k)
<1>1. Ids(<<>>) = {} /\ Len(<<>>) = 0
  BY DEF Ids
<1>2. ((k + 1)..k) \ Skipped = {}
  OBVIOUS
<1> QED BY <1>1, <1>2 DEF Ordered, Increasing, Exact

-----------------------------------------------------------------------------
(* The records consumed.                                                   *)

LEMMA ConsumedFacts ==
  ASSUME TypeInv, HandlerInv
  PROVE  /\ Consumed \in Nat /\ Complete \in Nat
         /\ provider = "JSONFile" => Consumed = Base \div 2
         /\ provider = "InMemory" => Consumed = next
         /\ provider = "MySQL" => Consumed = IF opos < Len(buf) THEN Base + opos ELSE next
<1>1. /\ provider \in {"JSONFile", "InMemory", "MySQL"} /\ opos \in Nat /\ next \in Nat
      /\ Len(buf) \in Nat /\ written \in Nat /\ half \in {0, 1}
  BY IteratorAssumption DEF TypeInv, TypeOK, TypeStream, TypeHandler
<1>2. provider # "InMemory" => Base >= 0
  BY DEF HandlerInv, HeldInv
<1>3. Complete \in Nat
  BY <1>1 DEF Complete, Rows
<1>4. CASE provider = "JSONFile"
  <2>1. Base = opos - Len(buf) /\ Base \in Nat
    BY <1>1, <1>2, <1>4 DEF Base
  <2>2. Consumed = (opos - Len(buf)) \div 2
    BY <1>4 DEF Consumed
  <2> QED BY <1>3, <1>4, <2>1, <2>2
<1>5. CASE provider = "InMemory"
  <2>1. Consumed = next
    BY <1>5 DEF Consumed
  <2> QED BY <1>1, <1>3, <1>5, <2>1
<1>6. CASE provider = "MySQL"
  <2>1. Consumed = IF opos < Len(buf) THEN next - Len(buf) + opos ELSE next
    BY <1>6 DEF Consumed
  <2>2. Base = next - Len(buf) /\ Base \in Nat
    BY <1>1, <1>2, <1>6 DEF Base
  <2> QED BY <1>1, <1>3, <1>6, <2>1, <2>2
<1> QED BY <1>1, <1>4, <1>5, <1>6

LEMMA ConsumedNat == TypeInv /\ HandlerInv => Consumed \in Nat /\ Complete \in Nat
  BY ConsumedFacts

LEMMA DeliveredFacts ==
  ASSUME TypeInv
  PROVE  delivered \in Seq(Nat) /\ Len(delivered) \in Nat
<1>1. delivered \in Seq(1..MaxWritten)
  BY DEF TypeInv, TypeOK, TypeReaders
<1>2. \A s \in Seq(1..MaxWritten) : s \in Seq(Nat) /\ Len(s) \in Nat
  BY IteratorAssumption
<1> QED BY <1>1, <1>2

\* What a request has is a sequence of records.
LEMMA OutFacts ==
  ASSUME TypeInv, NEW r \in Readers
  PROVE  /\ delivered \in Seq(Nat) /\ resp[r] \in Seq(Nat) /\ delivered \o resp[r] \in Seq(Nat)
         /\ Len(delivered) \in Nat /\ Len(resp[r]) \in Nat
         /\ Len(delivered \o resp[r]) = Len(delivered) + Len(resp[r])
         /\ \A i \in 1..Len(delivered) : (delivered \o resp[r])[i] = delivered[i]
         /\ \A i \in 1..Len(resp[r]) : (delivered \o resp[r])[Len(delivered) + i] = resp[r][i]
         /\ resp[r] = <<>> => delivered \o resp[r] = delivered
<1>1. delivered \in Seq(Nat) /\ resp[r] \in Seq(Nat)
  <2>1. delivered \in Seq(1..MaxWritten) /\ resp[r] \in Seq(1..MaxWritten)
    BY DEF TypeInv, TypeOK, TypeReaders
  <2>2. \A s \in Seq(1..MaxWritten) : s \in Seq(Nat)
    BY IteratorAssumption
  <2> QED BY <2>1, <2>2
<1>2. delivered \o <<>> = delivered
  BY <1>1
<1> QED BY <1>1, <1>2, ConcatFacts

\* Nothing more is consumed, or only records that the handler gives up.
LEMMA OutKept ==
  ASSUME TypeInv, TypeInv', HandlerInv, HandlerInv', OutInv, delivered' = delivered,
         \A q \in Readers : Active(q)' <=> Active(q),
         \A q \in Readers : Active(q) => resp'[q] = resp[q],
         Complete <= Complete', Consumed <= Consumed',
         Exactly' => Exactly /\ Consumed' = Consumed /\ start' = start
  PROVE  OutInv'
<1>1. Consumed \in Nat /\ Complete \in Nat
  BY ConsumedFacts
<1>2. (Consumed \in Nat /\ Complete \in Nat)'
  <2>1. (TypeInv /\ HandlerInv => Consumed \in Nat /\ Complete \in Nat)'
    BY ConsumedNat, PTL
  <2> QED BY <2>1
<1>3. ASSUME NEW q \in Readers, Active(q)'
      PROVE  /\ Ordered(delivered \o resp[q], Complete, Consumed)'
             /\ Exactly' => Exact(delivered \o resp[q], start, Consumed)'
  <2>1. Active(q) /\ resp'[q] = resp[q] /\ delivered \o resp[q] \in Seq(Nat)
    BY <1>3, OutFacts
  <2>2. /\ Ordered(delivered \o resp[q], Complete, Consumed)
        /\ Exactly => Exact(delivered \o resp[q], start, Consumed)
    BY <2>1 DEF OutInv
  <2>3. Ordered(delivered \o resp[q], Complete', Consumed')
    BY <1>1, <1>2, <2>1, <2>2, OrderedGrows
  <2> QED BY <2>1, <2>2, <2>3
<1>4. ASSUME Nobody'
      PROVE  /\ Ordered(delivered, Complete, Consumed)'
             /\ Exactly' => Exact(delivered, start, Consumed)'
  <2>1. Nobody
    BY <1>4 DEF Nobody
  <2>2. /\ Ordered(delivered, Complete, Consumed)
        /\ Exactly => Exact(delivered, start, Consumed)
    BY <2>1 DEF OutInv
  <2>3. delivered \in Seq(Nat)
    BY DeliveredFacts
  <2>4. Ordered(delivered, Complete', Consumed')
    BY <1>1, <1>2, <2>2, <2>3, OrderedGrows
  <2> QED BY <2>2, <2>4
<1> QED BY <1>3, <1>4 DEF OutInv

LEMMA AppendedFacts ==
  ASSUME NEW d \in Seq(Nat), NEW s \in Seq(Nat), NEW id \in Nat
  PROVE  /\ d \o s \in Seq(Nat) /\ d \o Append(s, id) \in Seq(Nat)
         /\ Len(d \o Append(s, id)) = Len(d \o s) + 1
         /\ \A i \in 1..Len(d \o s) : (d \o Append(s, id))[i] = (d \o s)[i]
         /\ (d \o Append(s, id))[Len(d \o s) + 1] = id
  OBVIOUS

\* The one request past the flag gets the next record, or the filter does not let it through.
LEMMA OutMore ==
  ASSUME TypeInv, HandlerInv, OutInv, NEW r \in Readers, Active(r), Active(r)',
         \A q \in Readers : q # r => ~Active(q)',
         resp'[r] = IF Consumed + 1 \in Skipped /\ request # "nil" THEN resp[r]
                    ELSE Append(resp[r], Consumed + 1),
         Consumed' = Consumed + 1, Complete' = Complete, Consumed + 1 <= Complete,
         UNCHANGED <<delivered, request, initialized, dropped, start>>
  PROVE  OutInv'
<1> DEFINE out == delivered \o resp[r]
           more == delivered \o Append(resp[r], Consumed + 1)
<1>1. Consumed \in Nat /\ Complete \in Nat /\ start \in Nat /\ Consumed + 1 \in Nat
  BY ConsumedFacts DEF TypeInv, TypeOK, TypeHandler
<1>2. delivered \in Seq(Nat) /\ resp[r] \in Seq(Nat)
  BY OutFacts
<1>3. /\ out \in Seq(Nat) /\ more \in Seq(Nat) /\ Len(more) = Len(out) + 1
      /\ \A i \in 1..Len(out) : more[i] = out[i]
      /\ more[Len(out) + 1] = Consumed + 1
  BY <1>1, <1>2, AppendedFacts
<1>4. Ordered(out, Complete, Consumed) /\ (Exactly => Exact(out, start, Consumed))
  BY DEF OutInv
<1>5. Exactly' <=> Exactly
  BY DEF Exactly
<1>6. /\ Ordered(delivered \o resp'[r], Complete, Consumed + 1)
      /\ Exactly => Exact(delivered \o resp'[r], start, Consumed + 1)
  <2>1. CASE Consumed + 1 \in Skipped /\ request # "nil"
    <3>1. delivered \o resp'[r] = out
      BY <2>1
    <3> HIDE DEF out, more
    <3>2. Ordered(out, Complete, Consumed + 1)
      BY <1>1, <1>3, <1>4, OrderedGrows
    <3>3. Exactly => Exact(out, start, Consumed + 1)
      BY <1>1, <1>3, <1>4, <2>1, ExactSkips
    <3> QED BY <3>1, <3>2, <3>3
  <2>2. CASE ~(Consumed + 1 \in Skipped /\ request # "nil")
    <3>1. delivered \o resp'[r] = more
      BY <2>2
    <3>2. Exactly => Consumed + 1 \notin Skipped
      BY <2>2 DEF Exactly
    <3> HIDE DEF out, more
    <3>3. Ordered(more, Complete, Consumed + 1)
      BY <1>1, <1>3, <1>4, OrderedMore, SMTT(30)
    <3>4. Exactly => Exact(more, start, Consumed + 1)
      BY <1>1, <1>3, <1>4, <3>2, ExactMore
    <3> QED BY <3>1, <3>3, <3>4
  <2> QED BY <2>1, <2>2
<1>7. ~Nobody'
  BY DEF Nobody
<1> QED BY <1>5, <1>6, <1>7 DEF OutInv

\* A request past the flag without a record.
LEMMA OutOfEmpty ==
  ASSUME TypeInv, OutInv, NEW r \in Readers, Active(r), resp[r] = <<>>
  PROVE  /\ Ordered(delivered, Complete, Consumed)
         /\ Exactly => Exact(delivered, start, Consumed)
<1>1. delivered \o resp[r] = delivered
  BY OutFacts
<1> QED BY <1>1 DEF OutInv

LEMMA OutEmpty ==
  ASSUME TypeInv, Ordered(delivered, Complete', Consumed'),
         Exactly' => Exact(delivered, start', Consumed'),
         delivered' = delivered, \A q \in Readers : Active(q)' => resp'[q] = <<>>
  PROVE  OutInv'
<1>1. delivered \o <<>> = delivered
  BY DeliveredFacts
<1>2. \A q \in Readers : Active(q)' => delivered' \o resp'[q] = delivered
  BY <1>1
<1> QED BY <1>2 DEF OutInv

\* The one request past the flag ends, with or without a response.
LEMMA OutEnds ==
  ASSUME TypeInv, OutInv, NEW r \in Readers, Active(r), \A q \in Readers : ~Active(q)',
         Complete' = Complete, Consumed' = Consumed,
         UNCHANGED <<request, initialized, dropped, start>>,
         \/ delivered' = delivered \o resp[r]
         \/ request = "nil" /\ delivered' = delivered
  PROVE  OutInv'
<1>1. /\ Ordered(delivered \o resp[r], Complete, Consumed)
      /\ Exactly => Exact(delivered \o resp[r], start, Consumed)
  BY DEF OutInv
<1>2. Exactly' <=> Exactly
  BY DEF Exactly
<1>3. Ordered(delivered, Complete, Consumed)
  <2> DEFINE out == delivered \o resp[r]
  <2>1. /\ delivered \in Seq(Nat) /\ out \in Seq(Nat) /\ Len(delivered) <= Len(out)
        /\ \A i \in 1..Len(delivered) : delivered[i] = out[i]
    BY OutFacts
  <2>2. Ordered(out, Complete, Consumed)
    BY <1>1
  <2> HIDE DEF out
  <2> QED BY <2>1, <2>2, OrderedBeginning
<1>4. request = "nil" => ~Exactly
  BY DEF Exactly
<1>5. Ordered(delivered', Complete', Consumed') /\ (Exactly' => Exact(delivered', start', Consumed'))
  BY <1>1, <1>2, <1>3, <1>4
<1> QED BY <1>5 DEF OutInv

-----------------------------------------------------------------------------
(* The steps, while at most one request is past the flag.                  *)

DeliveryInv == HandlerInv /\ ResponseInv /\ OutInv

\* The other requests have not begun, and have nothing.
LEMMA OthersIdle ==
  ASSUME OneReaderAtATime, ResponseInv, NEW r \in Readers, Active(r)
  PROVE  \A q \in Readers : q # r => ~Active(q) /\ rpc[q] \in {"idle", "claim"} /\ resp[q] = <<>>
<1> SUFFICES ASSUME NEW q \in Readers, q # r
    PROVE  ~Active(q) /\ rpc[q] \in {"idle", "claim"} /\ resp[q] = <<>>
  OBVIOUS
<1>1. rpc[q] \in {"idle", "claim"}
  BY DEF OneReaderAtATime, Active
<1> QED BY <1>1 DEF ResponseInv, Active

\* A step of the request past the flag.
LEMMA ResponseKept ==
  ASSUME ResponseInv, NEW r \in Readers,
         \A q \in Readers : q # r => rpc'[q] = rpc[q] /\ resp'[q] = resp[q],
         rpc'[r] \in {"idle", "claim", "seek"} => resp'[r] = <<>>,
         rpc'[r] \in {"read", "advance", "end"} => initialized',
         initialized => initialized', initialized \/ initialized' \/ delivered' = delivered
  PROVE  ResponseInv'
<1>1. \A q \in Readers : rpc'[q] \in {"idle", "claim", "seek"} => resp'[q] = <<>>
  BY DEF ResponseInv
<1>2. \A q \in Readers : rpc'[q] \in {"read", "advance", "end"} => initialized'
  BY DEF ResponseInv
<1>3. ~initialized' => delivered' = <<>>
  BY DEF ResponseInv
<1> QED BY <1>1, <1>2, <1>3 DEF ResponseInv

\* Halves of lines, and rows, when the writer has taken a step or not.
LEMMA SizeGrows ==
  ASSUME NEW w \in Nat, NEW h \in {0, 1}, NEW w2 \in Nat, NEW h2 \in {0, 1},
         \/ w2 = w /\ h2 = h
         \/ w2 = w + 1 /\ h2 = h
         \/ w2 = w /\ h = 0 /\ h2 = 1
         \/ w2 = w + 1 /\ h = 1 /\ h2 = 0
  PROVE  /\ 2 * w + h \in Nat /\ 2 * w2 + h2 \in Nat /\ w + h \in Nat /\ w2 + h2 \in Nat
         /\ 2 * w + h <= 2 * w2 + h2 /\ w + h <= w2 + h2 /\ w <= w2
  OBVIOUS

LEMMA DeliveryWriter ==
  ASSUME TypeInv, TypeInv', DeliveryInv, WriteRecord \/ WriteFirstHalf \/ WriteSecondHalf \/ CloseIterator
  PROVE  DeliveryInv'
<1>0. /\ written \in Nat /\ half \in {0, 1}
      /\ written' \in Nat /\ half' \in {0, 1} /\ opos \in Nat /\ next \in Nat
  <2>1. TypeStream /\ TypeStream' /\ TypeHandler
    BY DEF TypeInv, TypeOK
  <2> QED BY <2>1 DEF TypeStream, TypeHandler
<1>1. /\ UNCHANGED <<provider, handlerVars, readerVars, delivered>>
      /\ FileSize \in Nat /\ FileSize' \in Nat /\ Rows \in Nat /\ Rows' \in Nat
      /\ FileSize <= FileSize' /\ Rows <= Rows' /\ written <= written' /\ Complete <= Complete'
      /\ request' = request \/ request' = "nil"
  <2>1. UNCHANGED <<provider, handlerVars, readerVars, delivered>> /\ request' \in {request, "nil"}
    BY DEF WriteRecord, WriteFirstHalf, WriteSecondHalf, CloseIterator, streamVars
  <2>2. \/ written' = written /\ half' = half
        \/ written' = written + 1 /\ half' = half
        \/ written' = written /\ half = 0 /\ half' = 1
        \/ written' = written + 1 /\ half = 1 /\ half' = 0
    BY DEF WriteRecord, WriteFirstHalf, WriteSecondHalf, CloseIterator, streamVars
  <2>3. /\ FileSize \in Nat /\ FileSize' \in Nat /\ Rows \in Nat /\ Rows' \in Nat
        /\ FileSize <= FileSize' /\ Rows <= Rows' /\ written <= written'
    BY <1>0, <2>2, SizeGrows DEF FileSize, Rows
  <2> QED BY <2>1, <2>3 DEF Complete
<1>2. UNCHANGED <<provider, initialized, next, opos, saved, buf, dropped, start, rpc, resp, cur, delivered>>
  BY <1>1 DEF handlerVars, readerVars
<1>3. Base' = Base /\ Consumed' = Consumed
  BY <1>2 DEF Base, Consumed
<1>4. HandlerInv
  BY DEF DeliveryInv
<1>5. HeldInv'
  BY <1>2, <1>3, <1>4 DEF HandlerInv, HeldInv
<1>6. FileInv'
  BY <1>1, <1>2, <1>3, <1>0, <1>4 DEF HandlerInv, FileInv
<1>7. PageInv'
  BY <1>1, <1>2, <1>0, <1>4 DEF HandlerInv, PageInv
<1>8. FoundInv'
  BY <1>1, <1>2, <1>0, <1>4 DEF HandlerInv, FoundInv
<1>9. HandlerInv'
  BY <1>5, <1>6, <1>7, <1>8 DEF HandlerInv
<1>10. ResponseInv'
  BY <1>2 DEF DeliveryInv, ResponseInv
<1>11. OutInv'
  <2>1. \A q \in Readers : Active(q)' <=> Active(q)
    BY <1>2 DEF Active
  <2>2. Exactly' => Exactly
    BY <1>1, <1>2 DEF Exactly
  <2>3. Consumed \in Nat
    BY <1>4, ConsumedFacts
  <2>4. Consumed <= Consumed'
    BY <1>3, <2>3
  <2>5. OutInv
    BY DEF DeliveryInv
  <2> QED BY <1>1, <1>2, <1>3, <1>4, <1>9, <2>1, <2>2, <2>4, <2>5, OutKept
<1> QED BY <1>9, <1>10, <1>11 DEF DeliveryInv

\* A request that begins, and one that gets past the flag.
LEMMA DeliveryBegins ==
  ASSUME TypeInv, TypeInv', DeliveryInv, OneReaderAtATime, OneReaderAtATime',
         NEW r \in Readers, GetBegin(r) \/ GetClaim(r)
  PROVE  DeliveryInv'
<1>0. HandlerInv /\ ResponseInv /\ OutInv /\ Consumed \in Nat
  BY ConsumedFacts DEF DeliveryInv
<1>1. UNCHANGED <<provider, written, half, request, initialized, next, opos, saved, buf, dropped, start, cur, delivered>>
  BY DEF GetBegin, GetClaim, streamVars, handlerVars
<1>2. Base' = Base /\ Consumed' = Consumed /\ Complete' = Complete /\ FileSize' = FileSize /\ Rows' = Rows
  BY <1>1 DEF Base, Consumed, Complete, FileSize, Rows
<1>3. /\ rpc[r] \in {"idle", "claim"} /\ rpc'[r] \in {"claim", "seek"} /\ resp'[r] = <<>>
      /\ \A q \in Readers : q # r => rpc'[q] = rpc[q] /\ resp'[q] = resp[q]
  <2>1. rpc \in [Readers -> {"idle", "claim", "seek", "read", "advance", "end"}] /\ resp \in [Readers -> Seq(1..MaxWritten)]
    BY DEF TypeInv, TypeOK, TypeReaders
  <2>2. CASE GetBegin(r)
    BY <2>1, <2>2, GotoFacts DEF GetBegin
  <2>3. CASE GetClaim(r)
    <3>1. rpc[r] = "claim" /\ Goto(r, "seek") /\ resp' = resp
      BY <2>3 DEF GetClaim
    <3>2. rpc'[r] = "seek" /\ \A q \in Readers : q # r => rpc'[q] = rpc[q]
      BY <2>1, <3>1, GotoFacts
    <3> QED BY <1>0, <3>1, <3>2 DEF ResponseInv
  <2> QED BY <2>2, <2>3
<1>4. HandlerInv'
  <2>1. HeldInv' /\ PageInv'
    BY <1>0, <1>1, <1>2 DEF HandlerInv, HeldInv, PageInv
  <2>2. (\A q \in Readers : rpc'[q] \in {"idle", "claim", "seek"}) => \A q \in Readers : rpc[q] \in {"idle", "claim", "seek"}
    BY <1>3
  <2>3. FileInv'
    BY <1>0, <1>1, <1>2, <2>2 DEF HandlerInv, FileInv
  <2>4. FoundInv'
    BY <1>0, <1>1, <1>3 DEF HandlerInv, FoundInv
  <2> QED BY <2>1, <2>3, <2>4 DEF HandlerInv
<1>5. ResponseInv'
  BY <1>0, <1>1, <1>3, ResponseKept
<1>6. Exactly' <=> Exactly
  BY <1>1 DEF Exactly
<1>7. CASE GetBegin(r)
  <2>1. rpc'[r] = "claim" /\ rpc[r] = "idle"
    <3>1. rpc \in [Readers -> {"idle", "claim", "seek", "read", "advance", "end"}]
      BY DEF TypeInv, TypeOK, TypeReaders
    <3> QED BY <1>7, <3>1, GotoFacts DEF GetBegin
  <2>2. \A q \in Readers : Active(q)' <=> Active(q)
    BY <1>3, <2>1 DEF Active
  <2>3. \A q \in Readers : Active(q) => resp'[q] = resp[q]
    BY <1>3, <2>1 DEF Active
  <2>4. Complete \in Nat
    BY <1>0, ConsumedFacts
  <2>5. Complete <= Complete' /\ Consumed <= Consumed'
    BY <1>0, <1>2, <2>4
  <2>6. OutInv'
    BY <1>0, <1>1, <1>2, <1>4, <1>6, <2>2, <2>3, <2>5, OutKept
  <2> QED BY <1>4, <1>5, <2>6 DEF DeliveryInv
<1>8. CASE GetClaim(r)
  <2>1. rpc[r] = "claim" /\ rpc'[r] = "seek"
    <3>1. rpc \in [Readers -> {"idle", "claim", "seek", "read", "advance", "end"}]
      BY DEF TypeInv, TypeOK, TypeReaders
    <3> QED BY <1>8, <3>1, GotoFacts DEF GetClaim
  <2>2. \A q \in Readers : q # r => ~Active(q)' /\ ~Active(q)
    BY <1>3, <2>1 DEF OneReaderAtATime, Active
  <2>3. Nobody
    BY <2>1, <2>2 DEF Nobody, Active
  <2>4. /\ Ordered(delivered, Complete', Consumed')
        /\ Exactly' => Exact(delivered, start', Consumed')
    BY <1>0, <1>1, <1>2, <1>6, <2>3 DEF OutInv
  <2>5. \A q \in Readers : Active(q)' => resp'[q] = <<>>
    BY <1>3, <2>2
  <2>6. OutInv'
    BY <1>1, <2>4, <2>5, OutEmpty
  <2> QED BY <1>4, <1>5, <2>6 DEF DeliveryInv
<1> QED BY <1>7, <1>8

\* The handler stays where it is.
LEMMA HandlerKept ==
  ASSUME HandlerInv, UNCHANGED <<provider, written, half, request, initialized, next, buf, dropped, cur>>,
         provider = "InMemory" \/ UNCHANGED <<opos, saved>>,
         initialized /\ (\A q \in Readers : rpc'[q] \in {"idle", "claim", "seek"}) =>
           \A q \in Readers : rpc[q] \in {"idle", "claim", "seek"},
         \A q \in Readers : rpc'[q] = "advance" => rpc[q] = "advance"
  PROVE  HandlerInv' /\ Consumed' = Consumed /\ Complete' = Complete
<1>1. Consumed' = Consumed /\ Complete' = Complete
  <2>1. CASE provider = "InMemory"
    BY <2>1 DEF Consumed, Complete
  <2>2. CASE UNCHANGED <<opos, saved>>
    BY <2>2 DEF Consumed, Complete, Rows
  <2> QED BY <2>1, <2>2
<1>2. FileSize' = FileSize /\ Rows' = Rows
  BY DEF FileSize, Rows
<1>3. HeldInv' /\ FileInv'
  <2>1. CASE provider = "InMemory"
    BY <2>1 DEF HeldInv, FileInv
  <2>2. CASE UNCHANGED <<opos, saved>>
    <3>1. Base' = Base
      BY <2>2 DEF Base
    <3> QED BY <1>2, <2>2, <3>1 DEF HandlerInv, HeldInv, FileInv
  <2> QED BY <2>1, <2>2
<1>4. PageInv' /\ FoundInv'
  BY <1>2 DEF HandlerInv, PageInv, FoundInv
<1> QED BY <1>1, <1>3, <1>4 DEF HandlerInv

\* The first Seek: the process panics, the request fails, or the place is found.
LEMMA DeliveryFirstSeek ==
  ASSUME TypeInv, TypeInv', DeliveryInv, OneReaderAtATime, NEW r \in Readers, GetFirstSeek(r)
  PROVE  DeliveryInv'
<1>0. HandlerInv /\ ResponseInv /\ OutInv /\ Consumed \in Nat /\ Complete \in Nat
  BY ConsumedFacts DEF DeliveryInv
<1>1. /\ UNCHANGED <<provider, written, half, request, resp, cur, delivered>>
      /\ rpc[r] = "seek" /\ ~initialized /\ Active(r) /\ resp[r] = <<>> /\ delivered = <<>>
  BY <1>0 DEF GetFirstSeek, streamVars, Active, ResponseInv
<1>2. rpc \in [Readers -> {"idle", "claim", "seek", "read", "advance", "end"}]
  BY DEF TypeInv, TypeOK, TypeReaders
<1>3. \A q \in Readers : q # r => ~Active(q) /\ rpc[q] \in {"idle", "claim"} /\ resp[q] = <<>>
  BY <1>0, <1>1, OthersIdle
<1>4. CASE UNCHANGED handlerVars
  <2>1. \/ rpc' = rpc
        \/ rpc'[r] = "idle" /\ \A q \in Readers : q # r => rpc'[q] = rpc[q]
    BY <1>2, <1>4, GotoFacts DEF GetFirstSeek, Return, handlerVars
  <2>2. \A q \in Readers : rpc'[q] = rpc[q] \/ (q = r /\ rpc'[q] = "idle")
    BY <2>1
  <2>3. HandlerInv' /\ Consumed' = Consumed /\ Complete' = Complete
    BY <1>0, <1>1, <1>4, <2>2, HandlerKept DEF handlerVars
  <2>4. ResponseInv'
    BY <1>0, <1>1, <1>4, <2>2, ResponseKept DEF handlerVars
  <2>5. /\ Ordered(delivered, Complete', Consumed')
        /\ Exactly' => Exact(delivered, start', Consumed')
    <3>1. start' = start /\ (Exactly' <=> Exactly)
      BY <1>1, <1>4 DEF handlerVars, Exactly
    <3> QED BY <1>0, <1>1, <2>3, <3>1, OutOfEmpty
  <2>6. OutInv'
    <3>1. \A q \in Readers : Active(q)' => resp'[q] = <<>>
      BY <1>1, <1>3
    <3> QED BY <1>1, <2>5, <3>1, OutEmpty
  <2> QED BY <2>3, <2>4, <2>6 DEF DeliveryInv
<1>5. CASE ~UNCHANGED handlerVars
  <2>1. /\ ~PlaceFails /\ initialized' = TRUE /\ start' = Place /\ next' = Place /\ buf' = <<>>
        /\ opos' = (IF provider = "MySQL" THEN 0 ELSE 2 * Place) /\ saved' = opos'
        /\ dropped' = dropped /\ Goto(r, "read")
    BY <1>5 DEF GetFirstSeek
  <2>2. Place \in Nat /\ (provider # "InMemory" => Place <= written) /\ written \in Nat /\ half \in {0, 1}
    BY <2>1, PlaceFacts DEF TypeInv, TypeOK, TypeStream
  <2>3. rpc'[r] = "read" /\ \A q \in Readers : q # r => rpc'[q] = rpc[q]
    BY <1>2, <2>1, GotoFacts
  <2>4. Len(buf') = 0
    BY <2>1
  <2>5. /\ provider = "JSONFile" => Base' = 2 * Place
        /\ provider = "MySQL" => Base' = Place
    BY <1>1, <2>1, <2>2, <2>4 DEF Base
  <2>6. HeldInv'
    BY <1>1, <2>2, <2>4, <2>5, IteratorAssumption DEF HeldInv, TypeInv, TypeOK, TypeStream
  <2>7. FileInv'
    <3>1. ~(\A q \in Readers : rpc'[q] \in {"idle", "claim", "seek"})
      BY <2>3
    <3>2. ASSUME provider = "JSONFile" PROVE opos' <= FileSize' /\ Base' % 2 = 0
      <4>1. FileSize' = 2 * written + half /\ opos' = 2 * Place
        BY <1>1, <2>1, <3>2 DEF FileSize
      <4>2. opos' <= FileSize'
        BY <2>2, <3>2, <4>1
      <4>3. (2 * Place) % 2 = 0
        BY <2>2
      <4> QED BY <2>5, <3>2, <4>2, <4>3
    <3> QED BY <1>1, <3>1, <3>2 DEF FileInv
  <2>8. PageInv' /\ FoundInv'
    BY <1>3, <2>1, <2>3 DEF PageInv, FoundInv
  <2>9. HandlerInv'
    BY <2>6, <2>7, <2>8 DEF HandlerInv
  <2>10. ResponseInv'
    BY <1>0, <1>1, <2>1, <2>3, ResponseKept
  <2>11. Consumed' = Place
    <3>1. CASE provider = "JSONFile"
      <4>1. Consumed' = (opos' - Len(buf')) \div 2
        BY <1>1, <3>1 DEF Consumed
      <4>2. (2 * Place - 0) \div 2 = Place
        BY <2>2
      <4> QED BY <2>1, <2>4, <3>1, <4>1, <4>2
    <3>2. CASE provider = "InMemory"
      BY <1>1, <2>1, <3>2 DEF Consumed
    <3>3. CASE provider = "MySQL"
      BY <1>1, <2>1, <2>4, <3>3 DEF Consumed
    <3> QED BY <3>1, <3>2, <3>3, IteratorAssumption DEF TypeInv, TypeOK, TypeStream
  <2>12. Complete' = Complete
    BY <1>1 DEF Complete, Rows
  <2>13. /\ Ordered(delivered, Complete', Consumed')
         /\ Exact(delivered, start', Consumed')
    BY <1>0, <1>1, <2>1, <2>2, <2>11, <2>12, NothingYet
  <2>14. OutInv'
    <3>1. \A q \in Readers : Active(q)' => resp'[q] = <<>>
      BY <1>1, <1>3
    <3> QED BY <1>1, <2>13, <3>1, OutEmpty
  <2> QED BY <2>9, <2>10, <2>14 DEF DeliveryInv
<1> QED BY <1>4, <1>5

\* The place where the last request left the handler.
LEMMA DeliverySeek ==
  ASSUME TypeInv, TypeInv', DeliveryInv, OneReaderAtATime, NEW r \in Readers, GetSeek(r)
  PROVE  DeliveryInv'
<1>0. HandlerInv /\ ResponseInv /\ OutInv /\ Consumed \in Nat /\ Complete \in Nat
  BY ConsumedFacts DEF DeliveryInv
<1>1. /\ UNCHANGED <<provider, written, half, request, initialized, next, saved, buf, dropped, start, resp, cur, delivered>>
      /\ rpc[r] = "seek" /\ initialized /\ Active(r) /\ resp[r] = <<>>
  BY <1>0 DEF GetSeek, streamVars, Active, ResponseInv
<1>2. rpc \in [Readers -> {"idle", "claim", "seek", "read", "advance", "end"}]
  BY DEF TypeInv, TypeOK, TypeReaders
<1>3. \A q \in Readers : q # r => ~Active(q) /\ rpc[q] \in {"idle", "claim"} /\ resp[q] = <<>>
  BY <1>0, <1>1, OthersIdle
<1>4. /\ rpc'[r] \in {"idle", "read"} /\ \A q \in Readers : q # r => rpc'[q] = rpc[q]
      /\ provider = "JSONFile" => opos' = opos \/ (request # "nil" /\ opos' = saved)
      /\ provider = "MySQL" => opos' = opos
  BY <1>2, GotoFacts DEF GetSeek, Return
<1>5. provider = "InMemory" \/ UNCHANGED <<opos, saved>>
  <2>1. \A q \in Readers : rpc[q] \in {"idle", "claim", "seek"}
    BY <1>1, <1>3
  <2>2. provider = "JSONFile" /\ request # "nil" => saved = opos
    BY <1>0, <1>1, <2>1 DEF HandlerInv, FileInv
  <2> QED BY <1>1, <1>4, <2>2, IteratorAssumption DEF TypeInv, TypeOK, TypeStream
<1>6. HandlerInv' /\ Consumed' = Consumed /\ Complete' = Complete
  <2>1. \A q \in Readers : rpc[q] \in {"idle", "claim", "seek"}
    BY <1>1, <1>3
  <2>2. \A q \in Readers : rpc'[q] = "advance" => rpc[q] = "advance"
    BY <1>4
  <2> QED BY <1>0, <1>1, <1>5, <2>1, <2>2, HandlerKept
<1>7. ResponseInv'
  BY <1>0, <1>1, <1>4, ResponseKept
<1>8. /\ Ordered(delivered, Complete', Consumed')
      /\ Exactly' => Exact(delivered, start', Consumed')
  <2>1. start' = start /\ (Exactly' <=> Exactly)
    BY <1>1 DEF Exactly
  <2> QED BY <1>0, <1>1, <1>6, <2>1, OutOfEmpty
<1>9. OutInv'
  <2>1. \A q \in Readers : Active(q)' => resp'[q] = <<>>
    BY <1>1, <1>3
  <2> QED BY <1>1, <1>8, <2>1, OutEmpty
<1> QED BY <1>6, <1>7, <1>9 DEF DeliveryInv

\* A step of the request past the flag that finds no record.
LEMMA RequestStays ==
  ASSUME TypeInv, DeliveryInv, OneReaderAtATime, NEW r \in Readers,
         rpc[r] = "read", rpc' = rpc \/ rpc'[r] = "end", \A q \in Readers : q # r => rpc'[q] = rpc[q],
         UNCHANGED <<resp, initialized, delivered, start>>
  PROVE  /\ ResponseInv' /\ rpc'[r] \in {"read", "end"}
         /\ \A q \in Readers : Active(q)' <=> Active(q)
         /\ \A q \in Readers : rpc'[q] # "advance" /\ rpc[q] # "advance"
         /\ ~(\A q \in Readers : rpc'[q] \in {"idle", "claim", "seek"})
<1>1. ResponseInv /\ Active(r) /\ initialized /\ rpc'[r] \in {"read", "end"}
  BY DEF DeliveryInv, ResponseInv, Active
<1>2. \A q \in Readers : q # r => rpc[q] \in {"idle", "claim"}
  BY <1>1, OthersIdle
<1>3. ResponseInv'
  BY <1>1, ResponseKept
<1>4. \A q \in Readers : Active(q)' <=> Active(q)
  BY <1>1 DEF Active
<1>5. \A q \in Readers : rpc'[q] # "advance" /\ rpc[q] # "advance"
  BY <1>1, <1>2
<1> QED BY <1>1, <1>3, <1>4, <1>5

\* The in-memory provider: a record is found, then taken.
LEMMA DeliveryMemory ==
  ASSUME TypeInv, TypeInv', DeliveryInv, OneReaderAtATime, NEW r \in Readers,
         ReadInMemory(r) \/ AdvanceInMemory(r)
  PROVE  DeliveryInv'
<1>0. HandlerInv /\ ResponseInv /\ OutInv /\ Consumed \in Nat /\ Complete \in Nat
  BY ConsumedFacts DEF DeliveryInv
<1>1. TypeReaders /\ rpc \in [Readers -> {"idle", "claim", "seek", "read", "advance", "end"}] /\ MaxWait \in Nat
      /\ process \in {"alive", "panicked"} /\ MaxWritten \in Nat /\ written \in 0..MaxWritten /\ next \in Nat
      /\ cur \in [Readers -> 0..MaxWritten]
  BY IteratorAssumption DEF TypeInv, TypeOK, TypeReaders, TypeStream, TypeHandler
<1>2. Active(r) /\ initialized
  BY <1>0 DEF ReadInMemory, AdvanceInMemory, Active, ResponseInv
<1>3. \A q \in Readers : q # r => ~Active(q) /\ rpc[q] \in {"idle", "claim"} /\ resp[q] = <<>>
  BY <1>0, <1>2, OthersIdle
<1>4. CASE ReadInMemory(r)
  <2>1. /\ UNCHANGED <<provider, written, half, request, initialized, next, opos, saved, buf, dropped, start, resp, delivered>>
        /\ provider = "InMemory" /\ rpc[r] = "read"
    BY <1>4 DEF ReadInMemory, streamVars, handlerVars
  <2>2. /\ Consumed' = Consumed /\ Complete' = Complete /\ Exactly' = Exactly
    BY <2>1 DEF Consumed, Complete, Exactly
  <2>3. HeldInv' /\ FileInv' /\ PageInv'
    BY <2>1 DEF HeldInv, FileInv, PageInv
  <2>4. CASE RecordAtIndex /\ cur' = [cur EXCEPT ![r] = next + 1] /\ Goto(r, "advance")
    <3>1. rpc'[r] = "advance" /\ \A q \in Readers : q # r => rpc'[q] = rpc[q]
      BY <1>1, <2>4, GotoFacts
    <3>2. cur'[r] = next + 1 /\ next < written
      BY <1>1, <2>4 DEF RecordAtIndex
    <3>3. FoundInv'
      BY <1>3, <2>1, <3>1, <3>2 DEF FoundInv
    <3>4. HandlerInv'
      BY <2>3, <3>3 DEF HandlerInv
    <3>5. ResponseInv'
      BY <1>0, <1>2, <2>1, <3>1, ResponseKept
    <3>6. \A q \in Readers : Active(q)' <=> Active(q)
      BY <1>2, <3>1 DEF Active
    <3>7. Complete <= Complete' /\ Consumed <= Consumed'
      BY <1>0, <2>2
    <3>8. OutInv'
      BY <1>0, <2>1, <2>2, <3>4, <3>6, <3>7, OutKept
    <3> QED BY <3>4, <3>5, <3>8 DEF DeliveryInv
  <2>5. CASE NotFound(r) /\ UNCHANGED cur
    <3>1. rpc' = rpc \/ rpc'[r] = "end"
      BY <1>1, <2>5, NotFoundFacts
    <3>2. \A q \in Readers : q # r => rpc'[q] = rpc[q]
      BY <1>1, <2>5, NotFoundFacts
    <3>3. /\ ResponseInv' /\ rpc'[r] \in {"read", "end"}
          /\ \A q \in Readers : Active(q)' <=> Active(q)
          /\ \A q \in Readers : rpc'[q] # "advance" /\ rpc[q] # "advance"
      BY <2>1, <3>1, <3>2, RequestStays
    <3>4. HandlerInv'
      BY <2>3, <3>3 DEF HandlerInv, FoundInv
    <3>5. Complete <= Complete' /\ Consumed <= Consumed'
      BY <1>0, <2>2
    <3>6. OutInv'
      BY <1>0, <2>1, <2>2, <3>3, <3>4, <3>5, OutKept
    <3> QED BY <3>3, <3>4, <3>6 DEF DeliveryInv
  <2> QED BY <1>4, <2>4, <2>5 DEF ReadInMemory
<1>5. CASE AdvanceInMemory(r)
  <2>1. /\ UNCHANGED <<provider, written, half, request, initialized, opos, saved, buf, dropped, start, cur, delivered>>
        /\ rpc[r] = "advance" /\ next' = next + 1 /\ Deliver(r, cur[r])
    BY <1>5 DEF AdvanceInMemory, NextIndex, streamVars
  <2>2. provider = "InMemory" /\ cur[r] = next + 1 /\ next < written
    BY <1>0, <2>1 DEF HandlerInv, FoundInv
  <2>3. cur[r] \in 1..MaxWritten
    BY <1>1, <2>2
  <2>4. /\ rpc'[r] \in {"read", "end"} /\ \A q \in Readers : q # r => rpc'[q] = rpc[q] /\ resp'[q] = resp[q]
        /\ resp'[r] = IF cur[r] \in Skipped /\ request # "nil" THEN resp[r] ELSE Append(resp[r], cur[r])
    BY <1>1, <2>1, <2>3, DeliverFacts
  <2>5. Consumed = next /\ Consumed' = Consumed + 1 /\ Complete' = Complete /\ Complete = written
    BY <2>1, <2>2 DEF Consumed, Complete
  <2>6. HandlerInv'
    BY <1>3, <2>1, <2>2, <2>4 DEF HandlerInv, HeldInv, FileInv, PageInv, FoundInv
  <2>7. ResponseInv'
    BY <1>0, <1>2, <2>1, <2>4, ResponseKept
  <2>8. Active(r)' /\ \A q \in Readers : q # r => ~Active(q)'
    BY <1>3, <2>4 DEF Active
  <2>9. Consumed + 1 <= Complete
    BY <1>1, <2>2, <2>5
  <2>10. resp'[r] = IF Consumed + 1 \in Skipped /\ request # "nil" THEN resp[r] ELSE Append(resp[r], Consumed + 1)
    BY <2>2, <2>4, <2>5
  <2>11. OutInv'
    BY <1>0, <1>2, <2>1, <2>5, <2>8, <2>9, <2>10, OutMore
  <2> QED BY <2>6, <2>7, <2>11 DEF DeliveryInv
<1> QED BY <1>4, <1>5

\* What is held of the file: the end of a line is the first even half.
LEMMA LineFacts ==
  ASSUME TypeInv, HandlerInv, provider = "JSONFile", EndOfLine > 0
  PROVE  /\ EndOfLine \in {1, 2} /\ EndOfLine <= Len(buf) /\ (Base + EndOfLine) % 2 = 0
         /\ ~dropped => EndOfLine = 2
         /\ EndOfLine = 2 => /\ buf[1] = Base + 1 /\ buf[2] = Base + 2 /\ Base % 2 = 0
<1>1. buf \in Seq(Nat) /\ Len(buf) \in Nat /\ opos \in Nat /\ Base = opos - Len(buf) /\ Base \in Nat
  BY DEF TypeInv, TypeOK, TypeHandler, HandlerInv, HeldInv, Base
<1>2. \A i \in 1..Len(buf) : buf[i] = Base + i
  BY DEF HandlerInv, HeldInv
<1>3. /\ EndOfLine \in 1..Len(buf) /\ buf[EndOfLine] % 2 = 0
      /\ \A i \in 1..Len(buf) : buf[i] % 2 = 0 => EndOfLine <= i
  BY <1>1, EndOfLineFacts
<1>4. (Base + EndOfLine) % 2 = 0
  BY <1>2, <1>3
<1>5. EndOfLine <= 2
  <2> SUFFICES ASSUME EndOfLine > 2 PROVE FALSE
    BY <1>1, <1>3
  <2>1. 1 \in 1..Len(buf) /\ 2 \in 1..Len(buf)
    BY <1>1, <1>3
  <2>2. (Base + 1) % 2 # 0 /\ (Base + 2) % 2 # 0
    BY <1>1, <1>2, <1>3, <2>1
  <2> QED BY <1>1, <2>2
<1>6. ~dropped => Base % 2 = 0
  BY DEF HandlerInv, FileInv
<1>7. EndOfLine \in {1, 2}
  BY <1>1, <1>3, <1>5
<1>8. Base % 2 = 0 => EndOfLine # 1
  BY <1>1, <1>4
<1>9. EndOfLine = 2 => Base % 2 = 0
  BY <1>1, <1>4
<1>10. EndOfLine = 2 => buf[1] = Base + 1 /\ buf[2] = Base + 2
  BY <1>1, <1>2, <1>3
<1> QED BY <1>1, <1>3, <1>4, <1>6, <1>7, <1>8, <1>9, <1>10

\* ReadString reads on.
LEMMA DeliveryFill ==
  ASSUME TypeInv, TypeInv', DeliveryInv, OneReaderAtATime, NEW r \in Readers, ReadFileFill(r)
  PROVE  DeliveryInv'
<1>0. HandlerInv /\ ResponseInv /\ OutInv /\ Consumed \in Nat /\ Complete \in Nat
  BY ConsumedFacts DEF DeliveryInv
<1> DEFINE n == IF FileSize - opos < ReadAhead THEN FileSize - opos ELSE ReadAhead
           run == [i \in 1..n |-> opos + i]
<1>1. /\ UNCHANGED <<provider, written, half, request, initialized, next, saved, dropped, start, rpc, resp, cur, delivered>>
      /\ provider = "JSONFile" /\ rpc[r] = "read" /\ opos < FileSize
      /\ buf' = buf \o run /\ opos' = opos + n
  BY DEF ReadFileFill, streamVars, readerVars
<1>2. /\ buf \in Seq(Nat) /\ Len(buf) \in Nat /\ opos \in Nat /\ Base = opos - Len(buf) /\ Base \in Nat
      /\ \A i \in 1..Len(buf) : buf[i] = Base + i
  BY <1>1, <1>0 DEF TypeInv, TypeOK, TypeHandler, HandlerInv, HeldInv, Base
<1>3. n \in Nat /\ opos + n <= FileSize /\ FileSize' = FileSize
  <2>1. written \in Nat /\ half \in {0, 1} /\ ReadAhead \in Nat
    BY IteratorAssumption DEF TypeInv, TypeOK, TypeStream
  <2>2. FileSize \in Nat
    BY <2>1 DEF FileSize
  <2>3. n \in Nat /\ opos + n <= FileSize
    BY <1>1, <1>2, <2>1, <2>2
  <2>4. FileSize' = FileSize
    BY <1>1 DEF FileSize
  <2> QED BY <2>3, <2>4
<1> HIDE DEF n
<1>4. run \in Seq(Nat) /\ Len(run) = n /\ \A i \in 1..n : run[i] = opos + i
  BY <1>2, <1>3, RunFacts
<1> HIDE DEF run
<1>5. /\ buf \o run \in Seq(Nat) /\ Len(buf \o run) = Len(buf) + Len(run)
      /\ \A i \in 1..Len(buf) : (buf \o run)[i] = buf[i]
      /\ \A i \in 1..Len(run) : (buf \o run)[Len(buf) + i] = run[i]
  <2>1. buf \in Seq(Nat) /\ run \in Seq(Nat)
    BY <1>2, <1>4
  <2> QED BY <2>1, ConcatFacts
<1>6. Len(buf') = Len(buf) + n /\ opos' - Len(buf') = opos - Len(buf)
  BY <1>1, <1>2, <1>3, <1>4, <1>5
<1>7. Base' = Base /\ Consumed' = Consumed /\ Complete' = Complete /\ Exactly' = Exactly
  BY <1>1, <1>2, <1>6 DEF Base, Consumed, Complete, Rows, Exactly
<1>8. HeldInv'
  <2>1. ASSUME NEW i \in 1..Len(buf') PROVE buf'[i] = Base + i
    <3>1. CASE i <= Len(buf)
      BY <1>1, <1>2, <1>5, <3>1
    <3>2. CASE i > Len(buf)
      <4>1. i - Len(buf) \in 1..n /\ i = Len(buf) + (i - Len(buf))
        BY <1>2, <1>3, <1>6, <3>2
      <4>2. buf'[i] = opos + (i - Len(buf))
        BY <1>1, <1>4, <1>5, <4>1
      <4> QED BY <1>2, <4>1, <4>2
    <3> QED BY <1>2, <1>3, <1>6, <3>1, <3>2
  <2> QED BY <1>2, <1>7, <2>1 DEF HeldInv
<1>9. HandlerInv'
  <2>1. FileInv'
    BY <1>0, <1>1, <1>3, <1>7 DEF HandlerInv, FileInv
  <2>2. PageInv' /\ FoundInv'
    BY <1>0, <1>1 DEF HandlerInv, PageInv, FoundInv
  <2> QED BY <1>8, <2>1, <2>2 DEF HandlerInv
<1>10. ResponseInv'
  BY <1>0, <1>1 DEF ResponseInv
<1>11. \A q \in Readers : Active(q)' <=> Active(q)
  BY <1>1 DEF Active
<1>12. Complete <= Complete' /\ Consumed <= Consumed'
  BY <1>0, <1>7
<1>13. OutInv'
  BY <1>0, <1>1, <1>7, <1>9, <1>11, <1>12, OutKept
<1> QED BY <1>9, <1>10, <1>13 DEF DeliveryInv

\* A line: the next record, or the end of a line that was given up.
LEMMA DeliveryLine ==
  ASSUME TypeInv, TypeInv', DeliveryInv, OneReaderAtATime, NEW r \in Readers, ReadFileLine(r)
  PROVE  DeliveryInv'
<1>0. HandlerInv /\ ResponseInv /\ OutInv /\ Consumed \in Nat /\ Complete \in Nat
  BY ConsumedFacts DEF DeliveryInv
<1>1. /\ UNCHANGED <<provider, written, half, request, initialized, next, opos, saved, dropped, start, cur, delivered>>
      /\ provider = "JSONFile" /\ rpc[r] = "read" /\ EndOfLine > 0
      /\ buf' = SubSeq(buf, EndOfLine + 1, Len(buf))
      /\ IF EndOfLine = 2 /\ buf[1] = buf[2] - 1 THEN Deliver(r, buf[2] \div 2) ELSE UNCHANGED <<resp, rpc>>
  BY DEF ReadFileLine, streamVars
<1>2. /\ buf \in Seq(Nat) /\ Len(buf) \in Nat /\ opos \in Nat /\ Base = opos - Len(buf) /\ Base \in Nat
      /\ \A i \in 1..Len(buf) : buf[i] = Base + i
  BY <1>1, <1>0 DEF TypeInv, TypeOK, TypeHandler, HandlerInv, HeldInv, Base
<1>3. /\ EndOfLine \in {1, 2} /\ EndOfLine <= Len(buf) /\ (Base + EndOfLine) % 2 = 0
      /\ ~dropped => EndOfLine = 2
      /\ EndOfLine = 2 => /\ buf[1] = Base + 1 /\ buf[2] = Base + 2 /\ Base % 2 = 0
  BY <1>0, <1>1, LineFacts
<1>4. Active(r) /\ initialized /\ \A q \in Readers : q # r => ~Active(q) /\ rpc[q] \in {"idle", "claim"} /\ resp[q] = <<>>
  <2>1. Active(r) /\ initialized
    BY <1>0, <1>1 DEF Active, ResponseInv
  <2> QED BY <1>0, <2>1, OthersIdle
<1>5. /\ Len(buf') = Len(buf) - EndOfLine
      /\ \A i \in 1..(Len(buf) - EndOfLine) : buf'[i] = buf[EndOfLine + i]
  <2>1. EndOfLine \in 1..Len(buf)
    BY <1>2, <1>3
  <2> QED BY <1>1, <1>2, <2>1, RestFacts
<1>6. Base' = Base + EndOfLine /\ FileSize' = FileSize /\ Complete' = Complete /\ Exactly' = Exactly
  <2>1. Base' = opos' - Len(buf')
    BY <1>1 DEF Base
  <2>2. Base' = Base + EndOfLine
    BY <1>1, <1>2, <1>3, <1>5, <2>1
  <2> QED BY <1>1, <2>2 DEF FileSize, Complete, Rows, Exactly
<1>7. HeldInv'
  <2>1. ASSUME NEW i \in 1..Len(buf') PROVE buf'[i] = Base + EndOfLine + i
    <3>1. EndOfLine + i \in 1..Len(buf) /\ i \in 1..(Len(buf) - EndOfLine)
      BY <1>2, <1>3, <1>5
    <3>2. buf'[i] = Base + (EndOfLine + i)
      BY <1>2, <1>5, <3>1
    <3> QED BY <1>2, <1>3, <3>2
  <2>2. Base + EndOfLine >= 0
    BY <1>2, <1>3
  <2> QED BY <1>6, <2>1, <2>2 DEF HeldInv
<1>8. /\ rpc'[r] \in {"read", "end"} /\ \A q \in Readers : q # r => rpc'[q] = rpc[q] /\ resp'[q] = resp[q]
      /\ IF EndOfLine = 2
         THEN resp'[r] = IF Base \div 2 + 1 \in Skipped /\ request # "nil" THEN resp[r]
                         ELSE Append(resp[r], Base \div 2 + 1)
         ELSE resp' = resp /\ rpc' = rpc
  <2>1. CASE EndOfLine = 2
    <3>1. buf[2] \div 2 = Base \div 2 + 1 /\ buf[1] = buf[2] - 1
      <4>1. buf[1] = Base + 1 /\ buf[2] = Base + 2
        BY <1>3, <2>1
      <4>2. (Base + 2) \div 2 = Base \div 2 + 1
        BY <1>2
      <4> QED BY <1>2, <4>1, <4>2
    <3>2. Deliver(r, Base \div 2 + 1)
      BY <1>1, <2>1, <3>1
    <3>3. Base \div 2 + 1 \in 1..MaxWritten
      <4>1. 2 \in 1..Len(buf)
        BY <1>2, <1>3, <2>1
      <4>2. buf[2] \in 1..(2 * MaxWritten)
        BY <4>1 DEF TypeInv, BoundInv
      <4> QED BY <1>2, <1>3, <2>1, <4>2, IteratorAssumption
    <3>4. TypeReaders /\ MaxWritten \in Nat
      BY IteratorAssumption DEF TypeInv, TypeOK
    <3> QED BY <2>1, <3>2, <3>3, <3>4, DeliverFacts
  <2>2. CASE EndOfLine # 2
    BY <1>1, <2>2
  <2> QED BY <2>1, <2>2
<1>9. HandlerInv'
  <2>1. ~(\A q \in Readers : rpc'[q] \in {"idle", "claim", "seek"})
    BY <1>8
  <2>2. opos <= FileSize
    BY <1>0, <1>1 DEF HandlerInv, FileInv
  <2>3. FileInv'
    BY <1>1, <1>3, <1>6, <2>1, <2>2 DEF FileInv
  <2>4. PageInv' /\ FoundInv'
    BY <1>1, <1>4, <1>8 DEF PageInv, FoundInv
  <2> QED BY <1>7, <2>3, <2>4 DEF HandlerInv
<1>10. ResponseInv'
  BY <1>0, <1>1, <1>4, <1>8, ResponseKept
<1>11. Active(r)' /\ \A q \in Readers : q # r => ~Active(q)'
  BY <1>4, <1>8 DEF Active
<1>12. Consumed = Base \div 2 /\ Consumed' = (Base + EndOfLine) \div 2
  <2>1. Consumed' = (opos' - Len(buf')) \div 2 /\ Base' = opos' - Len(buf')
    BY <1>1 DEF Consumed, Base
  <2> QED BY <1>0, <1>1, <1>6, <2>1, ConsumedFacts
<1>13. OutInv'
  <2>1. CASE EndOfLine = 2
    <3>1. Consumed' = Consumed + 1
      BY <1>2, <1>12, <2>1
    <3>2. Consumed + 1 <= Complete
      <4>1. Complete = written /\ opos <= 2 * written + half /\ written \in Nat /\ half \in {0, 1}
        <5>1. Complete = written /\ opos <= FileSize /\ FileSize = 2 * written + half
          BY <1>0, <1>1 DEF Complete, HandlerInv, FileInv, FileSize
        <5>2. written \in Nat /\ half \in {0, 1}
          BY IteratorAssumption DEF TypeInv, TypeOK, TypeStream
        <5> QED BY <5>1, <5>2
      <4>2. Base + 2 <= opos
        BY <1>2, <1>3, <2>1
      <4> QED BY <1>2, <1>3, <1>12, <2>1, <4>1, <4>2
    <3>3. resp'[r] = IF Consumed + 1 \in Skipped /\ request # "nil" THEN resp[r] ELSE Append(resp[r], Consumed + 1)
      BY <1>8, <1>12, <2>1
    <3> QED BY <1>0, <1>1, <1>4, <1>6, <1>11, <3>1, <3>2, <3>3, OutMore
  <2>2. CASE EndOfLine # 2
    <3>1. dropped /\ dropped'
      BY <1>1, <1>3, <2>2
    <3>2. ~Exactly'
      BY <3>1 DEF Exactly
    <3>3. resp' = resp /\ \A q \in Readers : Active(q)' <=> Active(q)
      BY <1>8, <2>2 DEF Active
    <3>4. Consumed <= Consumed' /\ Complete <= Complete'
      BY <1>0, <1>2, <1>3, <1>6, <1>12
    <3> QED BY <1>0, <1>1, <1>9, <3>2, <3>3, <3>4, OutKept
  <2> QED BY <2>1, <2>2
<1> QED BY <1>9, <1>10, <1>13 DEF DeliveryInv

\* The end of the file.
LEMMA DeliveryFileEnd ==
  ASSUME TypeInv, TypeInv', DeliveryInv, OneReaderAtATime, NEW r \in Readers, ReadFileEnd(r)
  PROVE  DeliveryInv'
<1>0. HandlerInv /\ ResponseInv /\ OutInv /\ Consumed \in Nat /\ Complete \in Nat
  BY ConsumedFacts DEF DeliveryInv
<1>1. /\ UNCHANGED <<provider, written, half, request, initialized, next, opos, start, resp, cur, delivered>>
      /\ provider = "JSONFile" /\ rpc[r] = "read" /\ buf' = <<>> /\ NotFound(r)
      /\ dropped' = (dropped \/ buf # <<>>)
  BY DEF ReadFileEnd, streamVars
<1>2. /\ buf \in Seq(Nat) /\ Len(buf) \in Nat /\ opos \in Nat /\ Base = opos - Len(buf) /\ Base \in Nat
      /\ dropped \in BOOLEAN
  BY <1>1, <1>0 DEF TypeInv, TypeOK, TypeHandler, HandlerInv, HeldInv, Base
<1>3. rpc' = rpc \/ rpc'[r] = "end"
  BY <1>1, NotFoundFacts, IteratorAssumption DEF TypeInv, TypeOK, TypeStream
<1>4. \A q \in Readers : q # r => rpc'[q] = rpc[q]
  BY <1>1, NotFoundFacts, IteratorAssumption DEF TypeInv, TypeOK, TypeStream
<1>5. /\ ResponseInv' /\ rpc'[r] \in {"read", "end"}
      /\ \A q \in Readers : Active(q)' <=> Active(q)
      /\ \A q \in Readers : rpc'[q] # "advance" /\ rpc[q] # "advance"
      /\ ~(\A q \in Readers : rpc'[q] \in {"idle", "claim", "seek"})
  BY <1>1, <1>3, <1>4, RequestStays
<1>6. Len(buf') = 0 /\ Base' = opos /\ FileSize' = FileSize /\ Complete' = Complete
  <2>1. Len(buf') = 0
    BY <1>1
  <2>2. Base' = opos' - Len(buf')
    BY <1>1 DEF Base
  <2> QED BY <1>1, <1>2, <2>1, <2>2 DEF FileSize, Complete, Rows
<1>7. ~dropped' => ~dropped /\ Base' = Base
  <2>1. ~dropped' => ~dropped /\ buf = <<>>
    BY <1>1, Zenon
  <2>2. buf = <<>> => Base' = Base
    BY <1>2, <1>6
  <2> QED BY <2>1, <2>2
<1>8. HandlerInv'
  <2>1. HeldInv'
    BY <1>2, <1>6 DEF HeldInv
  <2>2. opos <= FileSize /\ (~dropped => Base % 2 = 0)
    BY <1>0, <1>1 DEF HandlerInv, FileInv
  <2>3. FileInv'
    BY <1>1, <1>5, <1>6, <1>7, <2>2 DEF FileInv
  <2>4. PageInv' /\ FoundInv'
    BY <1>1, <1>5 DEF PageInv, FoundInv
  <2> QED BY <2>1, <2>3, <2>4 DEF HandlerInv
<1>9. Consumed = Base \div 2 /\ Consumed' = Base' \div 2
  <2>1. Consumed' = (opos' - Len(buf')) \div 2 /\ Base' = opos' - Len(buf')
    BY <1>1 DEF Consumed, Base
  <2> QED BY <1>0, <1>1, <2>1, ConsumedFacts
<1>10. Consumed <= Consumed' /\ Complete <= Complete'
  BY <1>0, <1>2, <1>6, <1>9
<1>11. Exactly' => Exactly /\ Consumed' = Consumed /\ start' = start
  BY <1>1, <1>7, <1>9 DEF Exactly
<1>12. OutInv'
  BY <1>0, <1>1, <1>5, <1>8, <1>10, <1>11, OutKept
<1> QED BY <1>5, <1>8, <1>12 DEF DeliveryInv

\* A query finds a page of rows, or fails.
LEMMA DeliveryPage ==
  ASSUME TypeInv, TypeInv', DeliveryInv, OneReaderAtATime, NEW r \in Readers, ReadPage(r) \/ ReadPageFails(r)
  PROVE  DeliveryInv'
<1>0. HandlerInv /\ ResponseInv /\ OutInv /\ Consumed \in Nat /\ Complete \in Nat
  BY ConsumedFacts DEF DeliveryInv
<1>1. /\ UNCHANGED <<provider, written, half, request, initialized, start, resp, cur, delivered>>
      /\ provider = "MySQL" /\ rpc[r] = "read" /\ opos >= Len(buf)
  BY DEF ReadPage, ReadPageFails, streamVars
<1>2. /\ buf \in Seq(Nat) /\ Len(buf) \in Nat /\ opos \in Nat /\ next \in Nat /\ Base = next - Len(buf) /\ Base \in Nat
      /\ dropped \in BOOLEAN
  BY <1>1, <1>0 DEF TypeInv, TypeOK, TypeHandler, HandlerInv, HeldInv, Base
<1>3. PageSize \in Int
  <2>1. written \in Nat /\ half \in {0, 1} /\ ReadAhead \in Nat
    BY IteratorAssumption DEF TypeInv, TypeOK, TypeStream
  <2> QED BY <1>2, <2>1 DEF PageSize, Rows
\* The rows of the page, some of which the handler may be past already.
<1>4. \/ UNCHANGED <<buf, next, dropped, opos>>
      \/ \E n \in 0..PageSize :
           /\ buf' = Page(n) /\ next' = next + n
           /\ \/ opos' = 0 /\ dropped' = dropped
              \/ opos' = opos /\ dropped' = (dropped \/ (n > 0 /\ opos > 0))
  <2>1. CASE ReadPage(r)
    BY <2>1 DEF ReadPage
  <2>2. CASE ReadPageFails(r)
    <3>1. opos' = opos
      BY <2>2 DEF ReadPageFails
    <3>2. CASE UNCHANGED <<buf, next, dropped>>
      BY <3>1, <3>2
    <3>3. CASE \E n \in 0..(PageSize - 1) :
                 /\ buf' = Page(n) /\ next' = next + n
                 /\ dropped' = (dropped \/ (n > 0 /\ opos > 0))
      <4>1. PICK n \in 0..(PageSize - 1) :
                 /\ buf' = Page(n) /\ next' = next + n
                 /\ dropped' = (dropped \/ (n > 0 /\ opos > 0))
        BY <3>3
      <4>2. n \in 0..PageSize
        BY <1>3
      <4> QED BY <3>1, <4>1, <4>2
    <3> QED BY <2>2, <3>2, <3>3 DEF ReadPageFails
  <2> QED BY <2>1, <2>2
<1>5. NotFound(r) \/ rpc' = rpc
  BY DEF ReadPage, ReadPageFails
<1>6. TypeReaders /\ process \in {"alive", "panicked"} /\ MaxWait \in Nat
  BY IteratorAssumption DEF TypeInv, TypeOK, TypeStream
<1>7. rpc' = rpc \/ rpc'[r] = "end"
  BY <1>5, <1>6, NotFoundFacts
<1>8. \A q \in Readers : q # r => rpc'[q] = rpc[q]
  BY <1>5, <1>6, NotFoundFacts
<1>9. /\ ResponseInv' /\ rpc'[r] \in {"read", "end"}
      /\ \A q \in Readers : Active(q)' <=> Active(q)
      /\ \A q \in Readers : rpc'[q] # "advance" /\ rpc[q] # "advance"
  BY <1>1, <1>7, <1>8, RequestStays
<1>10. FileInv' /\ FoundInv' /\ Complete' = Complete /\ Rows' = Rows
  BY <1>1, <1>9 DEF FileInv, FoundInv, Complete, Rows
<1>11. Consumed = next
  BY <1>0, <1>1, <1>2, ConsumedFacts
<1>12. HeldInv' /\ PageInv' /\ Consumed <= Consumed' /\ (~dropped' => ~dropped /\ Consumed' = Consumed)
  <2>1. CASE UNCHANGED <<buf, next, dropped, opos>>
    <3>1. Base' = Base /\ Consumed' = Consumed
      BY <1>1, <2>1 DEF Base, Consumed
    <3>2. HeldInv' /\ PageInv'
      BY <1>0, <1>1, <1>10, <2>1, <3>1 DEF HandlerInv, HeldInv, PageInv
    <3> QED BY <1>0, <2>1, <3>1, <3>2
  <2>2. ASSUME NEW n \in 0..PageSize, buf' = Page(n), next' = next + n,
               \/ opos' = 0 /\ dropped' = dropped
               \/ opos' = opos /\ dropped' = (dropped \/ (n > 0 /\ opos > 0))
        PROVE  HeldInv' /\ PageInv' /\ Consumed <= Consumed' /\ (~dropped' => ~dropped /\ Consumed' = Consumed)
    <3>1. /\ n \in Nat /\ Len(buf') = n /\ \A i \in 1..n : buf'[i] = next + i
          /\ n > 0 => next + n <= Rows
      BY <2>2, PageFacts DEF TypeInv
    <3>2. Base' = next
      <4>1. Base' = next' - Len(buf')
        BY <1>1 DEF Base
      <4> QED BY <1>2, <2>2, <3>1, <4>1
    <3>3. HeldInv'
      BY <1>2, <3>1, <3>2 DEF HeldInv
    <3>4. buf' # <<>> => n > 0
      BY <3>1, <2>2, PageFacts, AppendFacts DEF TypeInv
    <3>5. PageInv'
      BY <1>10, <2>2, <3>1, <3>4 DEF PageInv
    <3>6. Consumed' = IF opos' < n THEN next + opos' ELSE next + n
      <4>1. Consumed' = IF opos' < Len(buf') THEN next' - Len(buf') + opos' ELSE next'
        BY <1>1 DEF Consumed
      <4>2. opos' \in Nat
        BY <1>2, <2>2
      <4> QED BY <1>2, <2>2, <3>1, <4>1, <4>2
    <3>7. Consumed <= Consumed'
      BY <1>2, <1>11, <2>2, <3>1, <3>6
    <3>8. ~dropped' => ~dropped /\ (opos' = 0 \/ n = 0)
      <4>1. CASE opos' = 0 /\ dropped' = dropped
        BY <4>1
      <4>2. CASE opos' = opos /\ dropped' = (dropped \/ (n > 0 /\ opos > 0))
        <5>1. ~dropped' => ~dropped /\ ~(n > 0 /\ opos > 0)
          BY <4>2, Zenon
        <5> QED BY <1>2, <3>1, <4>2, <5>1
      <4> QED BY <2>2, <4>1, <4>2
    <3>9. opos' = 0 \/ n = 0 => Consumed' = Consumed
      BY <1>2, <1>11, <2>2, <3>1, <3>6
    <3> QED BY <3>3, <3>5, <3>7, <3>8, <3>9
  <2> QED BY <1>4, <2>1, <2>2
<1>13. HandlerInv'
  BY <1>10, <1>12 DEF HandlerInv
<1>14. Complete <= Complete'
  BY <1>0, <1>10
<1>15. Exactly' => Exactly /\ Consumed' = Consumed /\ start' = start
  BY <1>1, <1>12 DEF Exactly
<1>16. OutInv'
  BY <1>0, <1>1, <1>9, <1>12, <1>13, <1>14, <1>15, OutKept
<1> QED BY <1>9, <1>13, <1>16 DEF DeliveryInv

\* A row of the page.
LEMMA DeliveryRow ==
  ASSUME TypeInv, TypeInv', DeliveryInv, OneReaderAtATime, NEW r \in Readers, ReadRow(r)
  PROVE  DeliveryInv'
<1>0. HandlerInv /\ ResponseInv /\ OutInv /\ Consumed \in Nat /\ Complete \in Nat
  BY ConsumedFacts DEF DeliveryInv
<1>1. /\ UNCHANGED <<provider, written, half, request, initialized, next, saved, buf, dropped, start, cur, delivered>>
      /\ provider = "MySQL" /\ rpc[r] = "read" /\ opos < Len(buf) /\ opos' = opos + 1 /\ Deliver(r, buf[opos + 1])
  BY DEF ReadRow, streamVars
<1>2. /\ buf \in Seq(Nat) /\ Len(buf) \in Nat /\ opos \in Nat /\ next \in Nat /\ Base = next - Len(buf) /\ Base \in Nat
      /\ \A i \in 1..Len(buf) : buf[i] = Base + i
      /\ opos + 1 \in 1..Len(buf)
  BY <1>1, <1>0 DEF TypeInv, TypeOK, TypeHandler, HandlerInv, HeldInv, Base
<1>3. /\ Consumed = Base + opos /\ buf[opos + 1] = Consumed + 1
  <2>1. Consumed = Base + opos
    BY <1>0, <1>1, ConsumedFacts
  <2>2. buf[opos + 1] = Base + (opos + 1)
    BY <1>2
  <2> QED BY <1>2, <2>1, <2>2
<1>4. buf[opos + 1] \in 1..MaxWritten
  BY <1>0, <1>1, <1>2, <1>3, IteratorAssumption DEF TypeInv, BoundInv
<1>5. Active(r) /\ initialized /\ \A q \in Readers : q # r => ~Active(q) /\ rpc[q] \in {"idle", "claim"} /\ resp[q] = <<>>
  <2>1. Active(r) /\ initialized
    BY <1>0, <1>1 DEF Active, ResponseInv
  <2> QED BY <1>0, <2>1, OthersIdle
<1>6. /\ rpc'[r] \in {"read", "end"} /\ \A q \in Readers : q # r => rpc'[q] = rpc[q] /\ resp'[q] = resp[q]
      /\ resp'[r] = IF Consumed + 1 \in Skipped /\ request # "nil" THEN resp[r] ELSE Append(resp[r], Consumed + 1)
  <2>1. TypeReaders /\ MaxWritten \in Nat
    BY IteratorAssumption DEF TypeInv, TypeOK
  <2> QED BY <1>1, <1>3, <1>4, <2>1, DeliverFacts
<1>7. Base' = Base /\ Rows' = Rows /\ Complete' = Complete
  BY <1>1 DEF Base, Rows, Complete
<1>8. Consumed' = Consumed + 1
  <2>1. Consumed' = IF opos + 1 < Len(buf) THEN next - Len(buf) + (opos + 1) ELSE next
    BY <1>1 DEF Consumed
  <2>2. CASE opos + 1 < Len(buf)
    BY <1>2, <1>3, <2>1, <2>2
  <2>3. CASE ~(opos + 1 < Len(buf))
    <3>1. opos + 1 = Len(buf) /\ Consumed' = next
      BY <1>2, <2>1, <2>3
    <3> QED BY <1>2, <1>3, <3>1
  <2> QED BY <2>2, <2>3
<1>9. Consumed + 1 <= Complete
  <2>1. next <= Rows
    <3>1. buf # <<>>
      BY <1>2
    <3> QED BY <1>0, <1>1, <3>1 DEF HandlerInv, PageInv
  <2>2. Complete = Rows
    BY <1>1 DEF Complete
  <2>3. Consumed + 1 <= next
    BY <1>2, <1>3
  <2> QED BY <1>0, <1>2, <2>1, <2>2, <2>3
<1>10. HandlerInv'
  <2>1. HeldInv' /\ PageInv'
    BY <1>0, <1>1, <1>7 DEF HandlerInv, HeldInv, PageInv
  <2>2. FileInv' /\ FoundInv'
    BY <1>1, <1>5, <1>6 DEF FileInv, FoundInv
  <2> QED BY <2>1, <2>2 DEF HandlerInv
<1>11. ResponseInv'
  BY <1>0, <1>1, <1>5, <1>6, ResponseKept
<1>12. Active(r)' /\ \A q \in Readers : q # r => ~Active(q)'
  BY <1>5, <1>6 DEF Active
<1>13. OutInv'
  BY <1>0, <1>1, <1>5, <1>6, <1>7, <1>8, <1>9, <1>12, OutMore
<1> QED BY <1>10, <1>11, <1>13 DEF DeliveryInv

\* The end of a request: the place is saved with the response.
LEMMA DeliveryEnd ==
  ASSUME TypeInv, TypeInv', DeliveryInv, OneReaderAtATime, NEW r \in Readers, GetEnd(r)
  PROVE  DeliveryInv'
<1>0. HandlerInv /\ ResponseInv /\ OutInv /\ Consumed \in Nat /\ Complete \in Nat
  BY ConsumedFacts DEF DeliveryInv
<1>1. /\ UNCHANGED <<provider, written, half, request, initialized, next, opos, buf, dropped, start, cur>>
      /\ rpc[r] = "end" /\ Goto(r, "idle") /\ resp' = [resp EXCEPT ![r] = <<>>]
      /\ saved' = IF provider = "JSONFile" /\ request # "nil" THEN opos ELSE saved
      /\ \/ delivered' = delivered \o resp[r]
         \/ request = "nil" /\ delivered' = delivered
  BY DEF GetEnd, Return, FileOpen, SavedOffset, streamVars
<1>2. Active(r) /\ initialized /\ \A q \in Readers : q # r => ~Active(q) /\ rpc[q] \in {"idle", "claim"} /\ resp[q] = <<>>
  <2>1. Active(r) /\ initialized
    BY <1>0, <1>1 DEF Active, ResponseInv
  <2> QED BY <1>0, <2>1, OthersIdle
<1>3. rpc'[r] = "idle" /\ \A q \in Readers : q # r => rpc'[q] = rpc[q]
  BY <1>1, GotoFacts DEF TypeInv, TypeOK, TypeReaders
<1>4. resp'[r] = <<>> /\ \A q \in Readers : q # r => resp'[q] = resp[q]
  BY <1>1 DEF TypeInv, TypeOK, TypeReaders
<1>5. /\ Base' = Base /\ FileSize' = FileSize /\ Rows' = Rows /\ Complete' = Complete /\ Consumed' = Consumed
  BY <1>1 DEF Base, FileSize, Rows, Complete, Consumed
<1>6. HandlerInv'
  <2>1. HeldInv' /\ PageInv'
    BY <1>0, <1>1, <1>5 DEF HandlerInv, HeldInv, PageInv
  <2>2. FileInv'
    BY <1>0, <1>1, <1>5 DEF HandlerInv, FileInv
  <2>3. FoundInv'
    BY <1>2, <1>3 DEF FoundInv
  <2> QED BY <2>1, <2>2, <2>3 DEF HandlerInv
<1>7. ResponseInv'
  BY <1>0, <1>1, <1>2, <1>3, <1>4, ResponseKept
<1>8. \A q \in Readers : ~Active(q)'
  BY <1>2, <1>3 DEF Active
<1>9. OutInv'
  BY <1>0, <1>1, <1>2, <1>5, <1>8, OutEnds
<1> QED BY <1>6, <1>7, <1>9 DEF DeliveryInv

LEMMA DeliveryInit == Init => DeliveryInv
<1> SUFFICES ASSUME Init PROVE DeliveryInv
  OBVIOUS
<1>1. /\ buf = <<>> /\ Len(buf) = 0 /\ opos = 0 /\ next = 0 /\ written = 0 /\ half = 0 /\ ~initialized /\ delivered = <<>>
      /\ saved = 0
      /\ \A r \in Readers : rpc[r] = "idle" /\ resp[r] = <<>>
      /\ provider \in {"JSONFile", "InMemory", "MySQL"}
  BY IteratorAssumption DEF Init
<1>2. HandlerInv
  <2>1. Base = 0 /\ FileSize = 0
    <3>1. Base = 0 - 0
      <4>1. Base = (IF provider = "MySQL" THEN next - Len(buf) ELSE opos - Len(buf))
        BY DEF Base
      <4>2. next - Len(buf) = 0 - 0 /\ opos - Len(buf) = 0 - 0
        BY <1>1, Zenon
      <4> QED BY <4>1, <4>2
    <3>2. FileSize = 2 * written + half /\ written = 0 /\ half = 0
      BY <1>1 DEF FileSize
    <3>3. FileSize = 2 * 0 + 0
      BY <3>2, Zenon
    <3> QED BY <3>1, <3>3
  <2> QED BY <1>1, <2>1 DEF HandlerInv, HeldInv, FileInv, PageInv, FoundInv
<1>3. ResponseInv
  BY <1>1 DEF ResponseInv
<1>4. Consumed \in Nat /\ Complete \in Nat
  BY <1>2, TypeInit, ConsumedFacts
<1>5. OutInv
  <2>1. Ordered(<<>>, Complete, Consumed)
    BY <1>4, NothingYet
  <2>2. ~Exactly /\ \A r \in Readers : ~Active(r)
    BY <1>1 DEF Exactly, Active
  <2> QED BY <1>1, <2>1, <2>2 DEF OutInv
<1> QED BY <1>2, <1>3, <1>5 DEF DeliveryInv

LEMMA DeliveryStep ==
  ASSUME TypeInv, TypeInv', DeliveryInv, OneReaderAtATime, OneReaderAtATime', [Next]_vars
  PROVE  DeliveryInv'
<1>1. CASE UNCHANGED vars
  BY <1>1 DEF vars, streamVars, handlerVars, readerVars, DeliveryInv, HandlerInv, HeldInv, FileInv, PageInv,
     FoundInv, ResponseInv, OutInv, Exactly, Nobody, Active, Consumed, Complete, Rows, FileSize, Base
<1>2. CASE WriteRecord \/ WriteFirstHalf \/ WriteSecondHalf \/ CloseIterator
  BY <1>2, DeliveryWriter
<1>3. ASSUME NEW r \in Readers, GetBegin(r) \/ GetStep(r)
      PROVE  DeliveryInv'
  BY <1>3, DeliveryBegins, DeliveryFirstSeek, DeliverySeek, DeliveryMemory, DeliveryFill, DeliveryLine,
     DeliveryFileEnd, DeliveryPage, DeliveryRow, DeliveryEnd DEF GetStep
<1> QED BY <1>1, <1>2, <1>3 DEF Next

(* While the busy flag lets one request through at a time, for any number  *)
(* of requests: what is delivered, with what the request past the flag     *)
(* has, is in order and complete, and is every record the handler consumed *)
(* that passes the filter as long as no line or page was given up.         *)
THEOREM DeliveryCorrect == Spec /\ []OneReaderAtATime => []DeliveryInv
<1>1. TypeInv /\ TypeInv' /\ DeliveryInv /\ OneReaderAtATime /\ OneReaderAtATime' /\ [Next]_vars => DeliveryInv'
  BY DeliveryStep
<1>2. TypeInv /\ [Next]_vars => TypeInv'
  BY TypeStep
<1> QED BY TypeInit, DeliveryInit, <1>1, <1>2, PTL DEF Spec

\* The other requests have nothing: the order of what the active one has is everyone's.
LEMMA OrderOfAll ==
  ASSUME TypeInv, DeliveryInv, OneReaderAtATime
  PROVE  DeliveredInOrder
<1>0. OutInv /\ ResponseInv
  BY DEF DeliveryInv
<1>1. ASSUME NEW c, NEW k, Ordered(delivered, c, k), NEW r \in Readers, resp[r] = <<>>
      PROVE  Ordered(delivered \o resp[r], c, k)
  BY <1>1, OutFacts
<1>2. ASSUME NEW r \in Readers PROVE Ordered(delivered \o resp[r], Complete, Consumed)
  <2>1. CASE Active(r)
    BY <1>0, <2>1 DEF OutInv
  <2>2. CASE ~Active(r) /\ Nobody
    <3>1. resp[r] = <<>> /\ Ordered(delivered, Complete, Consumed)
      BY <1>0, <2>2 DEF Active, OutInv, ResponseInv
    <3> QED BY <1>1, <3>1
  <2>3. CASE ~Active(r) /\ ~Nobody
    <3>1. PICK q \in Readers : Active(q)
      BY <2>3 DEF Nobody
    <3>2. resp[r] = <<>>
      BY <1>0, <2>3 DEF Active, ResponseInv
    <3>3. Ordered(delivered, Complete, Consumed)
      <4> DEFINE out == delivered \o resp[q]
      <4>1. /\ delivered \in Seq(Nat) /\ out \in Seq(Nat) /\ Len(delivered) <= Len(out)
            /\ \A i \in 1..Len(delivered) : delivered[i] = out[i]
        BY OutFacts
      <4>2. Ordered(out, Complete, Consumed)
        BY <1>0, <3>1 DEF OutInv
      <4> HIDE DEF out
      <4> QED BY <4>1, <4>2, OrderedBeginning
    <3> QED BY <1>1, <3>2, <3>3
  <2> QED BY <2>1, <2>2, <2>3
<1> QED BY <1>2 DEF DeliveredInOrder, Ordered, Ids

(* While at most one request at a time is past the busy flag, whatever the *)
(* number of requests, the halves of lines seen and the queries that fail, *)
(* records are delivered once, in order, and completely written.           *)
THEOREM InOrder == Spec /\ []OneReaderAtATime => []DeliveredInOrder
<1>1. TypeInv /\ DeliveryInv /\ OneReaderAtATime => DeliveredInOrder
  BY OrderOfAll
<1>2. TypeInv /\ [Next]_vars => TypeInv'
  BY TypeStep
<1> QED BY TypeInit, DeliveryCorrect, <1>1, <1>2, PTL DEF Spec

(* One consumer that asks again and again gets every record after the      *)
(* place of its iterator that passes the filter, once, until a line or a   *)
(* page is given up or the iterator is closed.                             *)
THEOREM EveryRecordOnce ==
  ASSUME \A q, r \in Readers : q = r
  PROVE  Spec => []DeliveredExactly
<1>1. OneReaderAtATime
  BY DEF OneReaderAtATime
<1>2. ASSUME TypeInv, DeliveryInv PROVE DeliveredExactly
  <2> SUFFICES ASSUME Exactly, NEW r \in Readers
               PROVE  /\ Increasing(delivered \o resp[r])
                      /\ Ids(delivered \o resp[r]) = ((start + 1)..Consumed) \ Skipped
    BY DEF DeliveredExactly, Exactly
  <2>0. OutInv /\ ResponseInv
    BY <1>2 DEF DeliveryInv
  <2>1. CASE Active(r)
    BY <2>0, <2>1 DEF OutInv, Ordered, Exact
  <2>2. CASE ~Active(r)
    <3>1. Nobody /\ resp[r] = <<>>
      BY <2>0, <2>2 DEF Nobody, Active, ResponseInv
    <3>2. delivered \o resp[r] = delivered
      BY <1>2, <3>1, OutFacts
    <3> QED BY <2>0, <3>1, <3>2 DEF OutInv, Ordered, Exact
  <2> QED BY <2>1, <2>2
<1>3. TypeInv /\ DeliveryInv => DeliveredExactly
  BY <1>2
<1>4. TypeInv /\ [Next]_vars => TypeInv'
  BY TypeStep
<1> QED BY TypeInit, DeliveryCorrect, <1>1, <1>3, <1>4, PTL DEF Spec
=============================================================================
