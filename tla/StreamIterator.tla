--------------------------- MODULE StreamIterator ---------------------------
(***************************************************************************)
(* One iterator of a stream: requests calling StreamIterator.GetRecords,   *)
(* with long polling, the busy flag and the iterator handler of the file,  *)
(* the in-memory or the MySQL provider, while the writer appends records   *)
(* and another request closes the iterator (its DELETE, the rebuild of the *)
(* index, or the end of the stream).                                       *)
(*                                                                         *)
(* The records are 1, 2, ..., written (StreamIngest).  In the data file a  *)
(* line is two halves, 2i-1 and 2i, the second with the end of line: a     *)
(* reader may see the first before the second.  The file handler reads     *)
(* through a bufio.Reader, which keeps what it read ahead when the file is *)
(* positioned again.  The MySQL handler reads pages of rows; a row is      *)
(* there once its transaction is committed, and counted by the writer a    *)
(* moment later: half = 1 in between.                                      *)
(***************************************************************************)
EXTENDS Integers, Sequences

CONSTANTS
  Readers,       \* concurrent requests on the iterator
  Providers,     \* storage providers considered
  IteratorTypes, \* types of iterators considered
  Skipped,       \* records the jq filter does not let through
  MaxRecords,    \* maxRecords of a request
  MaxWait,       \* MaxWaitTimeSeconds; 0 means no long polling
  ReadAhead,     \* halves of lines read at once by the bufio.Reader, or rows of a page
  TornReads,     \* a reader may see half a line, or a row not counted yet
  MayClose,      \* the iterator may be closed
  MaxWritten,    \* bound: records written
  MaxFaults      \* bound: queries that fail

ASSUME IteratorAssumption ==
  /\ Providers \subseteq {"JSONFile", "InMemory", "MySQL"}
  /\ IteratorTypes \subseteq {"FIRST_MESSAGE", "LAST_MESSAGE", "AFTER_LAST_MESSAGE", "AT_MESSAGE_ID"}
  /\ Skipped \subseteq Nat
  /\ MaxRecords \in Nat \ {0} /\ MaxWait \in Nat /\ ReadAhead \in Nat \ {0}
  /\ TornReads \in BOOLEAN /\ MayClose \in BOOLEAN /\ MaxWritten \in Nat /\ MaxFaults \in Nat

VARIABLES
  provider,     \* the provider of the stream, "JSONFile", "InMemory" or "MySQL"
  written,      \* records complete in the data file, in memory, or counted as readable
  half,         \* halves of the next line already in the data file, or 1 row not counted
  request,      \* it.request, by its type, with it.jqFilter; "nil" once closed
  busy,         \* getRecordsBusyFlag
  initialized,  \* the handler found its place
  next,         \* nextReadRecordIndex (InMemory); records before bufferNextId (MySQL)
  opos,         \* position of the open file, in halves (JSONFile); bufferIndex (MySQL)
  saved,        \* FileOffset (JSONFile)
  buf,          \* halves held by the bufio.Reader (JSONFile); buffer (MySQL)
  rpc,          \* where each request is in GetRecords
  resp,         \* response.Records of each request
  cur,          \* the record found by GetNextRecord, per request (InMemory)
  elapsed,      \* seconds waited, per request
  dropped,      \* the handler gave up a line without its end (JSONFile) or rows (MySQL)
  delivered,    \* records of the successful responses, in order
  start,        \* records before the place found by the first Seek
  process,      \* a nil dereference ends the process
  faults

streamVars  == <<provider, written, half>>
handlerVars == <<initialized, next, opos, saved, buf, dropped, start>>
readerVars  == <<rpc, resp, cur, elapsed>>
vars == <<streamVars, request, busy, handlerVars, readerVars, delivered, process, faults>>

Alive == process = "alive"

Init ==
  /\ provider \in Providers /\ request \in IteratorTypes
  /\ request = "AT_MESSAGE_ID" => provider = "MySQL"  \* else it is IndexSearch
  /\ written = 0 /\ half = 0 /\ busy = FALSE
  /\ initialized = FALSE /\ next = 0 /\ opos = 0 /\ saved = 0 /\ buf = <<>>
  /\ dropped = FALSE /\ start = 0
  /\ rpc = [r \in Readers |-> "idle"]
  /\ resp = [r \in Readers |-> <<>>]
  /\ cur = [r \in Readers |-> 0]
  /\ elapsed = [r \in Readers |-> 0]
  /\ delivered = <<>> /\ process = "alive" /\ faults = 0

-----------------------------------------------------------------------------
(* Faulty forms of operators below, not used by the specification.         *)

ConsumedOffset == opos - Len(buf)
PollsForever(r) == resp[r] = <<>>
SameIndex == next
LastRecordUnseen == next + 1 < written

-----------------------------------------------------------------------------
(* The writer.                                                             *)

WriteRecord ==
  /\ Alive /\ half = 0 /\ written < MaxWritten
  /\ written' = written + 1
  /\ UNCHANGED <<provider, half, request, busy, handlerVars, readerVars, delivered, process, faults>>

WriteFirstHalf ==
  /\ Alive /\ TornReads /\ provider # "InMemory" /\ half = 0 /\ written < MaxWritten
  /\ half' = 1
  /\ UNCHANGED <<provider, written, request, busy, handlerVars, readerVars, delivered, process, faults>>

WriteSecondHalf ==
  /\ Alive /\ half = 1
  /\ half' = 0 /\ written' = written + 1
  /\ UNCHANGED <<provider, request, busy, handlerVars, readerVars, delivered, process, faults>>

\* StreamIterator.Close and the handler's Close, whoever calls it.
CloseIterator ==
  /\ Alive /\ MayClose /\ request # "nil"
  /\ request' = "nil"
  /\ UNCHANGED <<streamVars, busy, handlerVars, readerVars, delivered, process, faults>>

-----------------------------------------------------------------------------
(* GetRecords, up to the place where the reading starts.                   *)

Goto(r, place) == rpc' = [rpc EXCEPT ![r] = place]

\* The request returns; the deferred call resets the flag.
Return(r) == Goto(r, "idle") /\ busy' = FALSE

Panic == process' = "panicked"

\* The flag is loaded, and stored by a later statement.  A closed iterator is no
\* longer known to the stream.
GetBegin(r) ==
  /\ Alive /\ rpc[r] = "idle" /\ request # "nil" /\ ~busy
  /\ Goto(r, "claim")
  /\ resp' = [resp EXCEPT ![r] = <<>>]
  /\ elapsed' = [elapsed EXCEPT ![r] = 0]
  /\ UNCHANGED <<streamVars, request, busy, handlerVars, cur, delivered, process, faults>>

GetClaim(r) ==
  /\ Alive /\ rpc[r] = "claim"
  /\ busy' = TRUE
  /\ Goto(r, "seek")
  /\ UNCHANGED <<streamVars, request, handlerVars, resp, cur, elapsed, delivered, process, faults>>

\* Records before the first one to read, by the type of the iterator.  The file
\* provider answers from its index, taken as up to date (StreamIndexFile).
PlaceFile == IF request = "FIRST_MESSAGE" THEN 0
             ELSE IF request = "LAST_MESSAGE" THEN written - 1 ELSE written
PlaceInMemory == IF request = "FIRST_MESSAGE" THEN 0
                 ELSE IF request = "LAST_MESSAGE" THEN written ELSE written + 1
PlaceMySQL == IF request = "FIRST_MESSAGE" \/ written = 0 THEN 0
              ELSE IF request = "LAST_MESSAGE" THEN written - 1 ELSE written
Place == CASE provider = "JSONFile" -> PlaceFile
           [] provider = "InMemory" -> PlaceInMemory
           [] provider = "MySQL"    -> PlaceMySQL

\* The MySQL index searches a table of a name that no stream has: GetFullTableName
\* keeps the dashes of the UUID, and each query of a message id or a time fails.
SearchFails == provider = "MySQL" /\ request = "AT_MESSAGE_ID"

\* No last row in an empty index: getOffsetMessage returns an error.
PlaceFails ==
  \/ provider = "JSONFile" /\ request # "FIRST_MESSAGE" /\ written = 0
  \/ SearchFails

\* The first Seek of the iterator reads it.request, nil once it was closed.
GetFirstSeek(r) ==
  /\ Alive /\ rpc[r] = "seek" /\ ~initialized
  /\ \/ /\ request = "nil"
        /\ Panic
        /\ UNCHANGED <<handlerVars, busy, rpc>>
     \/ /\ request # "nil" /\ PlaceFails
        /\ Return(r)
        /\ UNCHANGED <<handlerVars, process>>
     \/ /\ request # "nil" /\ ~PlaceFails
        /\ initialized' = TRUE /\ start' = Place
        /\ next' = Place /\ buf' = <<>>
        /\ opos' = IF provider = "MySQL" THEN 0 ELSE 2 * Place
        /\ saved' = opos'
        /\ UNCHANGED dropped
        /\ Goto(r, "read")
        /\ UNCHANGED <<busy, process>>
  /\ UNCHANGED <<streamVars, request, resp, cur, elapsed, delivered, faults>>

\* The file is positioned where the last request left it, ahead of what the
\* bufio.Reader holds.  A closed file is an error.
GetSeek(r) ==
  /\ Alive /\ rpc[r] = "seek" /\ initialized
  /\ IF provider = "JSONFile" /\ request = "nil"
     THEN Return(r) /\ UNCHANGED opos
     ELSE Goto(r, "read") /\ UNCHANGED busy
          /\ opos' = IF provider = "MySQL" THEN opos ELSE saved
  /\ UNCHANGED <<streamVars, request, initialized, next, saved, buf, dropped, start, resp, cur, elapsed,
                 delivered, process, faults>>

-----------------------------------------------------------------------------
(* The loop of GetRecords.                                                 *)

\* The request has as many records as it may have.
IsComplete(r) == Len(resp'[r]) >= MaxRecords

\* A record was found and decoded: the filter is applied, if it is still there.
Deliver(r, id) ==
  /\ resp' = IF id \in Skipped /\ request # "nil" THEN resp
             ELSE [resp EXCEPT ![r] = Append(@, id)]
  /\ Goto(r, IF IsComplete(r) THEN "end" ELSE "read")

\* Long polling goes on while the response is empty and time remains.
KeepsPolling(r) == resp[r] = <<>> /\ elapsed[r] < MaxWait

\* Seconds are counted up to MaxWait.
OneSecondMore(t) == IF t < MaxWait THEN t + 1 ELSE t

\* No record was found.  With an empty response it.request is read.
NotFound(r) ==
  \/ /\ resp[r] = <<>> /\ request = "nil"
     /\ Panic
     /\ UNCHANGED <<rpc, elapsed>>
  \/ /\ ~(resp[r] = <<>> /\ request = "nil")
     /\ IF KeepsPolling(r)
        THEN elapsed' = [elapsed EXCEPT ![r] = OneSecondMore(@)] /\ UNCHANGED rpc
        ELSE Goto(r, "end") /\ UNCHANGED elapsed
     /\ UNCHANGED process

\* GetRecordAtIndex
RecordAtIndex == next < written
NextIndex == next + 1

\* GetNextRecord of the in-memory provider: the record at the index, then index + 1.
ReadInMemory(r) ==
  /\ Alive /\ provider = "InMemory" /\ rpc[r] = "read"
  /\ \/ /\ RecordAtIndex
        /\ cur' = [cur EXCEPT ![r] = next + 1]
        /\ Goto(r, "advance")
        /\ UNCHANGED <<elapsed, process>>
     \/ /\ ~RecordAtIndex
        /\ NotFound(r)
        /\ UNCHANGED cur
  /\ UNCHANGED <<streamVars, request, busy, handlerVars, resp, delivered, faults>>

AdvanceInMemory(r) ==
  /\ Alive /\ rpc[r] = "advance"
  /\ next' = NextIndex
  /\ Deliver(r, cur[r])
  /\ UNCHANGED <<streamVars, request, busy, initialized, opos, saved, buf, dropped, start, cur, elapsed,
                 delivered, process, faults>>

\* Halves of the lines in the data file.
FileSize == 2 * written + half

\* The first end of line held by the bufio.Reader; 0 if there is none.
EndOfLine == LET ends == {i \in 1..Len(buf) : buf[i] % 2 = 0}
             IN  IF ends = {} THEN 0 ELSE CHOOSE i \in ends : \A j \in ends : i <= j

FileOpen == request # "nil"

\* ReadString reads on; nothing can be read from a closed file.
ReadFileFill(r) ==
  /\ Alive /\ provider = "JSONFile" /\ rpc[r] = "read" /\ EndOfLine = 0
  /\ FileOpen /\ opos < FileSize
  /\ LET n == IF FileSize - opos < ReadAhead THEN FileSize - opos ELSE ReadAhead IN
       /\ buf' = buf \o [i \in 1..n |-> opos + i]
       /\ opos' = opos + n
  /\ UNCHANGED <<streamVars, request, busy, initialized, next, saved, dropped, start, readerVars,
                 delivered, process, faults>>

\* A line is complete.  It is a record if it is its two halves, else it cannot be
\* decoded, is counted as an error and skipped.
ReadFileLine(r) ==
  /\ Alive /\ provider = "JSONFile" /\ rpc[r] = "read" /\ EndOfLine > 0
  /\ buf' = SubSeq(buf, EndOfLine + 1, Len(buf))
  /\ IF EndOfLine = 2 /\ buf[1] = buf[2] - 1
     THEN Deliver(r, buf[2] \div 2)
     ELSE UNCHANGED <<resp, rpc>>
  /\ UNCHANGED <<streamVars, request, busy, initialized, next, opos, saved, dropped, start, cur, elapsed,
                 delivered, process, faults>>

\* Where SaveSeek finds the file.
SavedOffset == opos

\* End of file: ReadString gives up what it holds of a line, and the place is saved.
ReadFileEnd(r) ==
  /\ Alive /\ provider = "JSONFile" /\ rpc[r] = "read" /\ EndOfLine = 0
  /\ ~FileOpen \/ opos >= FileSize
  /\ buf' = <<>>
  /\ dropped' = (dropped \/ buf # <<>>)
  /\ saved' = IF FileOpen THEN SavedOffset ELSE saved
  /\ NotFound(r)
  /\ UNCHANGED <<streamVars, request, busy, initialized, next, opos, start, resp, cur, delivered, faults>>

\* Rows a query finds.
Rows == written + half

\* The page is used up: SELECT ... WHERE id >= bufferNextId ORDER BY id LIMIT
\* bufferSize.  A connection lost between two rows ends the page without an error
\* (Err of the rows is not read).
Page(n) == [i \in 1..n |-> next + i]

PageSize == IF Rows <= next THEN 0 ELSE IF Rows - next < ReadAhead THEN Rows - next ELSE ReadAhead

ReadPage(r) ==
  /\ Alive /\ provider = "MySQL" /\ rpc[r] = "read" /\ opos >= Len(buf)
  /\ \E n \in 0..PageSize :
       /\ n < PageSize => faults < MaxFaults
       /\ faults' = IF n < PageSize THEN faults + 1 ELSE faults
       /\ buf' = Page(n) /\ next' = next + n /\ opos' = 0
       /\ IF n = 0 THEN NotFound(r) ELSE UNCHANGED <<rpc, elapsed, process>>
  /\ UNCHANGED <<streamVars, request, busy, initialized, saved, dropped, start, resp, cur,
                 delivered>>

\* The query fails, which GetRecords takes for the end of the stream; or Scan fails
\* after n rows, and then bufferIndex is not reset: rows it is past are given up.
ReadPageFails(r) ==
  /\ Alive /\ provider = "MySQL" /\ rpc[r] = "read" /\ opos >= Len(buf)
  /\ faults < MaxFaults
  /\ faults' = faults + 1
  /\ \/ UNCHANGED <<buf, next, dropped>>
     \/ \E n \in 0..(PageSize - 1) :
          /\ buf' = Page(n) /\ next' = next + n
          /\ dropped' = (dropped \/ (n > 0 /\ opos > 0))
  /\ NotFound(r)
  /\ UNCHANGED <<streamVars, request, busy, initialized, opos, saved, start, resp, cur, delivered>>

\* A row of the page.
ReadRow(r) ==
  /\ Alive /\ provider = "MySQL" /\ rpc[r] = "read" /\ opos < Len(buf)
  /\ opos' = opos + 1
  /\ Deliver(r, buf[opos + 1])
  /\ UNCHANGED <<streamVars, request, busy, initialized, next, saved, buf, dropped, start, cur,
                 elapsed, delivered, process, faults>>

\* SaveSeek, then the response; SaveSeek of a closed file is an error and the
\* records read are not sent.
GetEnd(r) ==
  /\ Alive /\ rpc[r] = "end"
  /\ Return(r)
  /\ IF provider = "JSONFile" /\ ~FileOpen
     THEN UNCHANGED <<saved, delivered>>
     ELSE /\ saved' = IF provider = "JSONFile" THEN SavedOffset ELSE saved
          /\ delivered' = delivered \o resp[r]
  /\ resp' = [resp EXCEPT ![r] = <<>>]
  /\ UNCHANGED <<streamVars, request, initialized, next, opos, buf, dropped, start, cur, elapsed, process, faults>>

-----------------------------------------------------------------------------
GetStep(r) ==
  \/ GetClaim(r)
  \/ GetFirstSeek(r)
  \/ GetSeek(r)
  \/ ReadInMemory(r)
  \/ AdvanceInMemory(r)
  \/ ReadFileFill(r)
  \/ ReadFileLine(r)
  \/ ReadFileEnd(r)
  \/ ReadPage(r)
  \/ ReadPageFails(r)
  \/ ReadRow(r)
  \/ GetEnd(r)

Next ==
  \/ WriteRecord
  \/ WriteFirstHalf
  \/ WriteSecondHalf
  \/ CloseIterator
  \/ \E r \in Readers : GetBegin(r) \/ GetStep(r)

Spec == Init /\ [][Next]_vars

\* A request that began goes on, and the writer completes its line.
FairSpec ==
  /\ Spec
  /\ WF_vars(WriteSecondHalf)
  /\ \A r \in Readers : WF_vars(GetStep(r))

\* A consumer that asks again and again.
PollingSpec == FairSpec /\ \A r \in Readers : SF_vars(GetBegin(r))

-----------------------------------------------------------------------------
(* Types of the stream, the iterator, its handler and the requests.        *)
TypeStream ==
  /\ provider \in Providers /\ written \in 0..MaxWritten /\ half \in {0, 1}
  /\ process \in {"alive", "panicked"} /\ faults \in 0..MaxFaults
TypeHandler ==
  /\ request \in IteratorTypes \cup {"nil"} /\ busy \in BOOLEAN
  /\ initialized \in BOOLEAN /\ dropped \in BOOLEAN
  /\ next \in Nat /\ opos \in 0..(2 * MaxWritten + 2) /\ saved \in 0..opos
  /\ buf \in Seq(Nat) /\ start \in Nat
TypeReaders ==
  /\ rpc \in [Readers -> {"idle", "claim", "seek", "read", "advance", "end"}]
  /\ resp \in [Readers -> Seq(1..MaxWritten)]
  /\ cur \in [Readers -> 0..MaxWritten]
  /\ elapsed \in [Readers -> 0..MaxWait]
  /\ delivered \in Seq(1..MaxWritten)

TypeOK == TypeStream /\ TypeHandler /\ TypeReaders

\* Records the handler has given to GetRecords.
Consumed == CASE provider = "JSONFile" -> (opos - Len(buf)) \div 2
              [] provider = "InMemory" -> next
              [] provider = "MySQL"    -> IF opos < Len(buf) THEN next - Len(buf) + opos ELSE next

Ids(s) == {s[i] : i \in 1..Len(s)}
Increasing(s) == \A i \in 2..Len(s) : s[i - 1] < s[i]

(* With one request at a time the consumer gets every record after the     *)
(* place of the iterator that passes the filter, once and in order, over   *)
(* any number of requests, whatever the read ahead of the bufio.Reader and *)
(* the records written meanwhile: what was delivered and what the request  *)
(* in progress has are exactly the records the handler has consumed.  The  *)
(* one thing that breaks this is a line seen without its end, which the    *)
(* file handler gives up.                                                  *)
DeliveredExactly ==
  request # "nil" /\ initialized /\ ~dropped =>
    \A r \in Readers :
      LET out == delivered \o resp[r] IN
        Increasing(out) /\ Ids(out) = ((start + 1)..Consumed) \ Skipped

\* Records that may be delivered.
Complete == IF provider = "MySQL" THEN Rows ELSE written

(* Also when lines are seen by halves, records are lost to a consumer or   *)
(* reported as errors but never delivered twice or out of order, and only  *)
(* records that were completely written are delivered.                     *)
DeliveredInOrder ==
  \A r \in Readers :
    LET out == delivered \o resp[r] IN
      Increasing(out) /\ \A id \in Ids(out) : id <= Complete

(* A request of a consumer ends, long polling included, also when the      *)
(* iterator is closed while it waits: with a response, an error, or the    *)
(* panic of the process that reads the request of a closed iterator.       *)
GetReturns == \A r \in Readers : rpc[r] = "claim" ~> rpc[r] = "idle" \/ process = "panicked"

(* A consumer that keeps asking gets every record that is written after    *)
(* the place of its iterator and passes the filter, unless the iterator is *)
(* closed or a line was seen without its end.                              *)
EveryRecordDelivered ==
  \A id \in (1..MaxWritten) \ Skipped :
    written >= id /\ initialized /\ start < id
      ~> \/ \E i \in 1..Len(delivered) : delivered[i] = id
         \/ request = "nil"
         \/ dropped

(* streamiterator.go:99-102: "if the flag is already set, then the         *)
(* iterator is busy, therefore, return a busy status": at most one request *)
(* is past the flag.                                                       *)
OneReaderAtATime ==
  \A q, r \in Readers : rpc[q] \notin {"idle", "claim"} /\ rpc[r] \notin {"idle", "claim"} => q = r
=============================================================================
