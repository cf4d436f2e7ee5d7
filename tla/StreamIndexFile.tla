--------------------------- MODULE StreamIndexFile ---------------------------
(***************************************************************************)
(* The index file of a stream of the JSON file provider: the rows appended *)
(* by StreamWriterFile.Write, the rows written by BuildIndex (the API call *)
(* that rebuilds the index while the stream is running), and the readers   *)
(* GetOffset..., which find the place of a message in the data file.       *)
(*                                                                         *)
(* The file is a sequence of words of 4 bytes.  The writer appends rows of *)
(* 20 bytes (id, length, date in seconds), BuildIndex writes rows of 32    *)
(* bytes (id, length, offset, date in nanoseconds), and the readers decode *)
(* rows of 32 bytes.  The writer's handle appends; BuildIndex truncates    *)
(* the file and then writes at the position of its own handle.  The mutex  *)
(* of a StreamIndexFile excludes nobody: every call of BuildIndex and      *)
(* every iterator make their own, and the writer has none.  So calls of    *)
(* BuildIndex overlap: a call may truncate the file under another, which   *)
(* goes on where it was and leaves a hole of zeros before its next row.    *)
(***************************************************************************)
EXTENDS Integers, Sequences

CONSTANTS
  WordBase,    \* values of a word (2^32 in the code)
  Second,      \* nanoseconds in a second
  Lengths,     \* lengths of a line of the data file
  MaxRecords,  \* bound: records written
  MaxBuilds,   \* bound: calls of BuildIndex
  MaxDate      \* bound: the clock, in nanoseconds

ASSUME IndexAssumption ==
  /\ WordBase \in Nat \ {0} /\ Second \in Nat \ {0}
  /\ Lengths \subseteq Nat \ {0}
  /\ MaxRecords \in Nat /\ MaxBuilds \in Nat /\ MaxDate \in Nat

VARIABLES
  data,    \* lines of the data file: [id, len, date, at], at being the place of the line
  index,   \* words of the index file
  write,   \* where the writer is: "idle", or "index" between data and index
  builds,  \* calls of BuildIndex so far, numbered in the order they truncate the file
  build,   \* where each call of BuildIndex is: "none", "reading", "built"
  line,    \* lines read by each call
  offset,  \* msgOffset of each call
  quiet,   \* the writer wrote nothing since the file was last truncated
  exact,   \* the last search began on a rebuilt index, unchanged since
  column, target, low, high, median, pc, rank  \* a search, see IndexSearch

fileVars   == <<data, index, write>>
buildVars  == <<builds, build, line, offset, quiet>>
searchVars == <<column, target, low, high, median, pc, rank, exact>>
vars       == <<fileVars, buildVars, searchVars>>

\* The calls of BuildIndex, each with a StreamIndexFile and a mutex of its own.
Calls == 1..MaxBuilds

\* A search in an empty index ends the process, see EmptyOutcome of IndexSearch.
Alive == pc # "panic"

-----------------------------------------------------------------------------
(* Faulty forms of operators below, not used by the specification.         *)

AtTheEnd(row, p) == index \o row
RowWithOffsetOfEnd(r, off) == <<r.id, 0, r.len, 0, off + r.len, 0, r.date, 0>>

-----------------------------------------------------------------------------
RowWords == 8

\* streamRowIndex: 8 + 4 + 8 bytes, little endian.
WriterRow(r) == <<r.id, 0, r.len, r.date \div Second, 0>>

\* streamIndexRowMsg: 4 times 8 bytes, little endian.
BuilderRow(r, off) == <<r.id, 0, r.len, 0, off, 0, r.date, 0>>

Field(p) == index[p + 1] + WordBase * index[p + 2]

\* The row decoded from the 32 bytes at word position p.
RowAt(p) == [id |-> Field(p), len |-> Field(p + 2), offset |-> Field(p + 4), date |-> Field(p + 6)]

\* getIndexRowsCount: a last incomplete row is not counted.
RowsCount == Len(index) \div RowWords

\* getRowAtIndexPos
Row(r) == RowAt(RowWords * r)

\* getOffsetMessage(-sizeOfStreamIndexRowMsg, io.SeekEnd)
LastRowPosition == Len(index) - RowWords

Column == [i \in 1..RowsCount |-> IF column = "id" THEN Row(i - 1).id ELSE Row(i - 1).date]

Search == INSTANCE IndexSearch WITH
            Provider <- "JSONFile", KeySeqs <- {}, Targets <- {}, keys <- Column

-----------------------------------------------------------------------------
Init ==
  /\ data = <<>> /\ index = <<>> /\ write = "idle"
  /\ builds = 0 /\ build = [b \in Calls |-> "none"]
  /\ line = [b \in Calls |-> 0] /\ offset = [b \in Calls |-> 0] /\ quiet = FALSE
  /\ column = "id" /\ target = 0 /\ low = 0 /\ high = 0 /\ median = 0
  /\ pc = "idle" /\ rank = 0 /\ exact = FALSE

LastDate == IF data = <<>> THEN 0 ELSE data[Len(data)].date

\* The size of the data file, where the next line is appended.
DataSize == IF data = <<>> THEN 0 ELSE data[Len(data)].at + data[Len(data)].len

\* One record of Write: the line of the data file, then the row of the index file.
WriteData(len, date) ==
  /\ Alive /\ write = "idle" /\ Len(data) < MaxRecords
  /\ date >= LastDate
  /\ data' = Append(data, [id |-> Len(data) + 1, len |-> len, date |-> date, at |-> DataSize])
  /\ write' = "index" /\ quiet' = FALSE /\ exact' = FALSE
  /\ UNCHANGED <<index, build, line, offset, builds, column, target, low, high, median, pc, rank>>

WriteIndex ==
  /\ Alive /\ write = "index"
  /\ index' = index \o WriterRow(data[Len(data)])
  /\ write' = "idle" /\ quiet' = FALSE
  /\ UNCHANGED <<data, build, line, offset, builds, searchVars>>

\* O_TRUNC: whatever other calls have written is gone.
Truncated == <<>>

BuildBegin ==
  /\ Alive /\ builds < MaxBuilds
  /\ builds' = builds + 1
  /\ build' = [build EXCEPT ![builds + 1] = "reading"]
  /\ index' = Truncated
  /\ quiet' = (write = "idle") /\ exact' = FALSE
  /\ UNCHANGED <<data, write, line, offset, column, target, low, high, median, pc, rank>>

\* The file with row written at word position p, over what was there; a hole between
\* the end of the file and p reads as zeros.
WrittenAt(row, p) ==
  [i \in 1..(IF Len(index) > p + RowWords THEN Len(index) ELSE p + RowWords) |->
     IF i > p /\ i <= p + RowWords THEN row[i - p] ELSE IF i <= Len(index) THEN index[i] ELSE 0]

BuildRow(b) ==
  /\ Alive /\ build[b] = "reading" /\ line[b] < Len(data)
  /\ index' = WrittenAt(BuilderRow(data[line[b] + 1], offset[b]), RowWords * line[b])
  /\ line' = [line EXCEPT ![b] = @ + 1]
  /\ offset' = [offset EXCEPT ![b] = @ + data[line[b] + 1].len]
  /\ UNCHANGED <<data, write, build, builds, quiet, searchVars>>

\* The end of the data file: the request is answered, whatever other calls do.
BuildEnd(b) ==
  /\ Alive /\ build[b] = "reading" /\ line[b] = Len(data)
  /\ build' = [build EXCEPT ![b] = "built"]
  /\ UNCHANGED <<fileVars, line, offset, builds, quiet, searchVars>>

\* The call that truncated the file last has ended and nothing was written since it
\* began.  Other calls may still be writing.
IndexReady == builds > 0 /\ build[builds] = "built" /\ quiet

-----------------------------------------------------------------------------
(* getOffsetAt with a message identifier or a date.  Between two reads of  *)
(* a search BuildIndex may truncate the file: the read fails.              *)

SeekCall(c, t) ==
  /\ Search!Call(c, t)
  /\ exact' = IndexReady
  /\ UNCHANGED <<fileVars, buildVars>>

\* The rank read by the next step of the search.
NextRank == IF low < high THEN (low + high) \div 2 ELSE low

SeekRead ==
  /\ NextRank < RowsCount
  /\ Search!Probe \/ Search!Finish
  /\ UNCHANGED <<fileVars, buildVars, exact>>

SeekReadFails ==
  /\ pc = "loop" /\ NextRank >= RowsCount
  /\ pc' = "error"
  /\ UNCHANGED <<fileVars, buildVars, column, target, low, high, median, rank, exact>>

Next ==
  \/ \E len \in Lengths, date \in 0..MaxDate : WriteData(len, date)
  \/ WriteIndex
  \/ BuildBegin
  \/ \E b \in Calls : BuildRow(b)
  \/ \E b \in Calls : BuildEnd(b)
  \/ \E c \in {"id", "timestamp"}, t \in 0..(MaxRecords + 1) : SeekCall(c, t)
  \/ SeekRead
  \/ SeekReadFails

Spec == Init /\ [][Next]_vars

-----------------------------------------------------------------------------
\* What a row of the index file should say of a line of the data file.
RowOf(i) ==
  [id |-> data[i].id, len |-> data[i].len, offset |-> data[i].at, date |-> data[i].date]

\* A row of a hole.
HoleRow == [id |-> 0, len |-> 0, offset |-> 0, date |-> 0]

(* As long as the writer writes nothing after a truncation, calls of       *)
(* BuildIndex that overlap, however many, write rows that agree: every row *)
(* of the index file is that of the line of its rank, with the place of    *)
(* the line, or zeros that the call that truncated last has yet to write   *)
(* over.  Once that call has ended the index file is the data file, row by *)
(* row, even if other calls are still writing; that an earlier call has    *)
(* ended does not suffice.                                                 *)
RebuiltIndexDescribesData ==
  quiet =>
    /\ RowsCount <= Len(data)
    /\ \A i \in 1..RowsCount : Row(i - 1) = RowOf(i) \/ (i > line[builds] /\ Row(i - 1) = HoleRow)
    /\ build[builds] = "built" =>
         /\ Len(index) = RowWords * Len(data)
         /\ \A i \in 1..Len(data) : Row(i - 1) = RowOf(i)

(* A search that began when the call of BuildIndex that truncated last had *)
(* ended, and during which nothing is written by the writer and no call    *)
(* truncates, finds the line of the data file asked for, though earlier    *)
(* calls of BuildIndex may be writing over the rows it reads: its          *)
(* identifier, or a first date at or after the date; it reports a message  *)
(* as absent only if the data file does not have it, and no read fails.    *)
SeekAfterRebuild ==
  exact =>
    /\ pc = "found" =>
         /\ Row(rank) = RowOf(rank + 1)
         /\ IF column = "id" THEN data[rank + 1].id = target
            ELSE /\ data[rank + 1].date >= target
                 /\ \A i \in 1..rank : data[i].date < target \/ data[i].date = data[rank + 1].date
    /\ pc = "notfound" =>
         \A i \in 1..Len(data) : IF column = "id" THEN data[i].id # target ELSE data[i].date < target
    /\ pc # "error"

(* streamwriter.go:228-229: Write must "update the index file", "row       *)
(* format is: (<msg id>, <msg length in bytes>, <date>)"; the readers      *)
(* decode "4 fields x 8 bytes per field" (streamindexfile.go:47).  The row *)
(* of a message just written would be the last row of the index.           *)
WrittenMessageIsLast ==
  write = "idle" /\ data # <<>> /\ builds = 0 =>
    /\ LastRowPosition >= 0
    /\ RowAt(LastRowPosition).id = data[Len(data)].id
=============================================================================
