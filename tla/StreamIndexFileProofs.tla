------------------------ MODULE StreamIndexFileProofs ------------------------
(***************************************************************************)
(* Theorems about StreamIndexFile, for every number of records and of      *)
(* calls of BuildIndex that overlap, every length of line and every clock: *)
(* the rows that calls of BuildIndex write over each other agree, an index *)
(* that was rebuilt and not written since is the data file row by row, and *)
(* a search in it is a search in sorted columns, to which the lemmas of    *)
(* IndexSearchProofs apply.                                                *)
(***************************************************************************)
EXTENDS StreamIndexFile, TLAPS

SortedSeqs == {s \in Seq(Int) : Search!NonDecreasing(s)}

Sound == INSTANCE IndexSearchProofs WITH
           Provider <- "JSONFile", KeySeqs <- SortedSeqs, Targets <- Int, keys <- Column

Lines == [id : Nat, len : Nat, date : Nat, at : Nat]

TypeInv ==
  /\ data \in Seq(Lines) /\ index \in Seq(Int)
  /\ write \in {"idle", "index"}
  /\ builds \in 0..MaxBuilds /\ build \in [Calls -> {"none", "reading", "built"}]
  /\ line \in [Calls -> Nat] /\ offset \in [Calls -> Nat]
  /\ quiet \in BOOLEAN /\ exact \in BOOLEAN
  /\ column \in {"id", "timestamp"}
  /\ write = "index" => data # <<>>

\* The place in the data file after its first n lines.
PlaceAfter(n) == IF n = 0 THEN 0 ELSE data[n].at + data[n].len

\* The lines follow each other, with increasing identifiers and dates that never decrease.
LinesInv ==
  /\ \A i \in 1..Len(data) : data[i].id = i /\ data[i].at = PlaceAfter(i - 1)
  /\ \A i, j \in 1..Len(data) : i <= j => data[i].date <= data[j].date

\* Row i of the index file is that of line i of the data file, word by word.
RowWritten(i) ==
  \A k \in 1..RowWords : index[RowWords * (i - 1) + k] = BuilderRow(data[i], data[i].at)[k]

\* Row i of the index file is part of a hole.
RowHole(i) == \A k \in 1..RowWords : index[RowWords * (i - 1) + k] = 0

\* Every call of BuildIndex, whichever others do, is at a line of the data file and knows
\* its place.
CallsInv ==
  /\ \A b \in Calls : line[b] <= Len(data) /\ offset[b] = PlaceAfter(line[b])
  /\ \A b \in Calls : b > builds => line[b] = 0 /\ build[b] = "none"
  /\ quiet =>
       /\ write = "idle" /\ builds \in Calls
       /\ build[builds] = "built" => line[builds] = Len(data)

\* While the writer is silent, the file has only whole rows: those the last call has
\* written, and behind them rows of other calls and holes.
FileInv ==
  quiet =>
    /\ Len(index) = RowWords * RowsCount
    /\ line[builds] <= RowsCount /\ RowsCount <= Len(data)
    /\ \A i \in 1..RowsCount : RowWritten(i) \/ (i > line[builds] /\ RowHole(i))

BuildInv == CallsInv /\ FileInv

\* A search that began on a rebuilt index reads the same rows to its end.
ExactInv == exact => IndexReady /\ Sound!SearchInv

IndexInv == TypeInv /\ LinesInv /\ BuildInv /\ ExactInv

(***************************************************************************)
(* What is read back from an index that was rebuilt                        *)
(***************************************************************************)

LEMMA LineTypes ==
  ASSUME TypeInv, NEW i \in 1..Len(data)
  PROVE  /\ data[i] \in Lines
         /\ data[i].id \in Nat /\ data[i].len \in Nat /\ data[i].date \in Nat /\ data[i].at \in Nat
<1>1. data[i] \in Lines
  BY DEF TypeInv
<1> QED BY <1>1 DEF Lines

\* A row that was written is decoded to what the line of the data file says.
LEMMA RowDecoded ==
  ASSUME TypeInv, NEW i \in 1..Len(data), RowWritten(i) PROVE Row(i - 1) = RowOf(i)
<1>1. i \in Nat /\ WordBase \in Nat
  BY IndexAssumption DEF TypeInv
<1>2. BuilderRow(data[i], data[i].at) = <<data[i].id, 0, data[i].len, 0, data[i].at, 0, data[i].date, 0>>
  BY DEF BuilderRow
<1> DEFINE p == 8 * (i - 1)
<1>3. \A k \in 1..8 : index[p + k] = <<data[i].id, 0, data[i].len, 0, data[i].at, 0, data[i].date, 0>>[k]
  BY <1>2 DEF RowWritten, RowWords
<1> HIDE DEF p
<1>4. /\ index[p + 1] = data[i].id /\ index[p + 2] = 0 /\ index[p + 3] = data[i].len /\ index[p + 4] = 0
      /\ index[p + 5] = data[i].at /\ index[p + 6] = 0 /\ index[p + 7] = data[i].date /\ index[p + 8] = 0
  BY <1>3
<1>5. p \in Nat /\ Row(i - 1) = RowAt(p)
  BY <1>1 DEF Row, RowWords, p
<1>6. WordBase * 0 = 0
  BY <1>1
<1>8. /\ p + 2 + 1 = p + 3 /\ p + 2 + 2 = p + 4 /\ p + 4 + 1 = p + 5
      /\ p + 4 + 2 = p + 6 /\ p + 6 + 1 = p + 7 /\ p + 6 + 2 = p + 8
  BY <1>5
<1>9. \A q : Field(q) = index[q + 1] + WordBase * index[q + 2]
  BY DEF Field
<1>10. \A n \in Nat : n + WordBase * 0 = n
  BY <1>6
<1>7. Field(p) = data[i].id /\ Field(p + 2) = data[i].len /\ Field(p + 4) = data[i].at /\ Field(p + 6) = data[i].date
  BY <1>4, <1>8, <1>9, <1>10, LineTypes, SMTT(30)
<1> QED BY <1>5, <1>7 DEF RowAt, RowOf

\* A row of a hole is decoded to zeros.
LEMMA HoleDecoded ==
  ASSUME NEW i \in Nat \ {0}, RowHole(i) PROVE Row(i - 1) = HoleRow
<1> DEFINE p == 8 * (i - 1)
<1>1. \A k \in 1..8 : index[p + k] = 0
  BY DEF RowHole, RowWords
<1>2. p \in Nat /\ Row(i - 1) = RowAt(p)
  BY DEF Row, RowWords
<1> HIDE DEF p
<1>3. /\ index[p + 1] = 0 /\ index[p + 2] = 0 /\ index[p + 3] = 0 /\ index[p + 4] = 0
      /\ index[p + 5] = 0 /\ index[p + 6] = 0 /\ index[p + 7] = 0 /\ index[p + 8] = 0
  BY <1>1
<1>4. /\ p + 2 + 1 = p + 3 /\ p + 2 + 2 = p + 4 /\ p + 4 + 1 = p + 5
      /\ p + 4 + 2 = p + 6 /\ p + 6 + 1 = p + 7 /\ p + 6 + 2 = p + 8
  BY <1>2
<1>5. 0 + WordBase * 0 = 0
  BY IndexAssumption
<1>6. Field(p) = 0 /\ Field(p + 2) = 0 /\ Field(p + 4) = 0 /\ Field(p + 6) = 0
  BY <1>3, <1>4, <1>5 DEF Field
<1> QED BY <1>2, <1>6 DEF RowAt, HoleRow

\* The index file as a reader decodes it while the writer is silent.
LEMMA QuietFacts ==
  ASSUME TypeInv, LinesInv, BuildInv, quiet
  PROVE  /\ RowsCount \in Nat /\ Len(data) \in Nat /\ RowsCount <= Len(data)
         /\ \A i \in 1..RowsCount : Row(i - 1) = RowOf(i) \/ (i > line[builds] /\ Row(i - 1) = HoleRow)
         /\ build[builds] = "built" =>
              /\ Len(index) = RowWords * Len(data) /\ RowsCount = Len(data)
              /\ \A i \in 1..Len(data) : Row(i - 1) = RowOf(i)
<1>1. Len(data) \in Nat /\ RowsCount \in Nat /\ RowsCount <= Len(data) /\ Len(index) = RowWords * RowsCount
  BY DEF TypeInv, BuildInv, FileInv, RowsCount, RowWords
<1>2. /\ line[builds] \in Nat /\ line[builds] <= RowsCount
      /\ build[builds] = "built" => line[builds] = Len(data)
  BY DEF TypeInv, BuildInv, CallsInv, FileInv
<1>3. ASSUME NEW i \in 1..RowsCount
      PROVE  Row(i - 1) = RowOf(i) \/ (i > line[builds] /\ Row(i - 1) = HoleRow)
  <2>1. RowWritten(i) \/ (i > line[builds] /\ RowHole(i))
    BY DEF BuildInv, FileInv
  <2>2. i \in 1..Len(data) /\ i \in Nat \ {0}
    BY <1>1
  <2> QED BY <2>1, <2>2, RowDecoded, HoleDecoded
<1>4. ASSUME build[builds] = "built" PROVE RowsCount = Len(data) /\ \A i \in 1..Len(data) : ~(i > line[builds])
  BY <1>1, <1>2, <1>4
<1> QED BY <1>1, <1>3, <1>4

\* The index file as a reader decodes it after a rebuild.
LEMMA ReadyFacts ==
  ASSUME TypeInv, LinesInv, BuildInv, IndexReady
  PROVE  /\ RowsCount = Len(data) /\ Len(data) \in Nat
         /\ \A i \in 1..Len(data) : Row(i - 1) = RowOf(i)
  BY QuietFacts DEF IndexReady

\* Column c as the readers decode it.
ColumnOf(c) == [i \in 1..RowsCount |-> IF c = "id" THEN Row(i - 1).id ELSE Row(i - 1).date]

LEMMA ReadyColumn ==
  ASSUME TypeInv, LinesInv, BuildInv, IndexReady, NEW c
  PROVE  /\ ColumnOf(c) = [i \in 1..Len(data) |-> IF c = "id" THEN data[i].id ELSE data[i].date]
         /\ ColumnOf(c) \in SortedSeqs /\ Len(ColumnOf(c)) = Len(data)
<1> DEFINE keys == [i \in 1..Len(data) |-> IF c = "id" THEN data[i].id ELSE data[i].date]
<1>1. Len(data) \in Nat
  BY ReadyFacts
<1>2. \A i \in 1..Len(data) : Row(i - 1).id = data[i].id /\ Row(i - 1).date = data[i].date
  <2> TAKE i \in 1..Len(data)
  <2>1. Row(i - 1) = RowOf(i)
    BY ReadyFacts
  <2>2. RowOf(i).id = data[i].id /\ RowOf(i).date = data[i].date
    BY DEF RowOf
  <2> QED BY <2>1, <2>2
<1>3. ColumnOf(c) = keys
  <2>1. RowsCount = Len(data)
    BY ReadyFacts
  <2>2. ColumnOf(c) = [i \in 1..Len(data) |-> IF c = "id" THEN Row(i - 1).id ELSE Row(i - 1).date]
    BY <2>1 DEF ColumnOf
  <2> QED BY <1>2, <2>2
<1>4. keys \in Seq(Int) /\ Len(keys) = Len(data)
  <2>1. \A i \in 1..Len(data) : data[i].id \in Int /\ data[i].date \in Int
    BY LineTypes
  <2>2. keys \in [1..Len(data) -> Int]
    BY <2>1
  <2> HIDE DEF keys
  <2> QED BY <1>1, <2>2
<1>5. \A i, j \in 1..Len(data) : i <= j => keys[i] <= keys[j]
  BY DEF LinesInv
<1>6. Search!NonDecreasing(keys)
  BY <1>4, <1>5 DEF Search!NonDecreasing
<1> QED BY <1>3, <1>4, <1>6 DEF SortedSeqs

\* The same without assumptions, for the state after a step.
LEMMA ReadyColumns ==
  TypeInv /\ LinesInv /\ BuildInv /\ IndexReady =>
    ColumnOf(column) = [i \in 1..Len(data) |-> IF column = "id" THEN data[i].id ELSE data[i].date]
  BY ReadyColumn

LEMMA SearchUnchanged ==
  ASSUME Sound!SearchInv, Column' = Column, column' = column, target' = target,
         low' = low, high' = high, median' = median, pc' = pc, rank' = rank
  PROVE  Sound!SearchInv'
  BY DEF Sound!SearchInv, Sound!SearchTypeOK, Sound!Sorted, Sound!NothingDiscarded,
     Sound!MedianPlace, Sound!FoundIsRight, Sound!NotFoundIsAbsent, Sound!Ranks, Sound!Key,
     Sound!Matches, Sound!LastRank

LEMMA SoundAssumption == Sound!SearchAssumption
  BY DEF Sound!NonDecreasing, Search!NonDecreasing, SortedSeqs, Sound!SearchAssumption

LEMMA SameSearch ==
  /\ Search!Probe => Sound!Probe
  /\ Search!Finish => Sound!Finish
  /\ \A c, t : Search!Call(c, t) => Sound!Call(c, t)
<1>1. Search!Probe => Sound!Probe
  BY DEF Sound!Probe, Search!Probe, Sound!InLoop, Search!InLoop, Sound!Key, Search!Key,
         Sound!AboveMedian, Search!AboveMedian
<1>2. Search!Finish => Sound!Finish
  BY DEF Sound!Finish, Search!Finish, Sound!InLoop, Search!InLoop, Sound!Key, Search!Key,
         Sound!FinalRank, Search!FinalRank, Sound!Matches, Search!Matches
<1>3. \A c, t : Search!Call(c, t) => Sound!Call(c, t)
  BY DEF Sound!Call, Search!Call, Sound!EmptyOutcome, Search!EmptyOutcome, Sound!LastRank, Search!LastRank
<1> QED BY <1>1, <1>2, <1>3

(***************************************************************************)
(* The invariant, step by step                                             *)
(***************************************************************************)

LEMMA IndexInvInit == Init => IndexInv
<1> SUFFICES ASSUME Init PROVE IndexInv
  OBVIOUS
<1>1. Len(data) = 0 /\ data \in Seq(Lines) /\ index \in Seq(Int)
  <2>1. <<>> \in Seq(Lines) /\ <<>> \in Seq(Int) /\ Len(<<>>) = 0
    OBVIOUS
  <2> QED BY <2>1 DEF Init
<1>2. TypeInv
  <2>1. /\ line \in [Calls -> Nat] /\ offset \in [Calls -> Nat]
        /\ build \in [Calls -> {"none", "reading", "built"}] /\ builds \in 0..MaxBuilds
    BY IndexAssumption DEF Init
  <2>2. write = "idle" /\ column = "id" /\ quiet = FALSE /\ exact = FALSE
    BY DEF Init
  <2>3. quiet \in BOOLEAN /\ exact \in BOOLEAN
    BY <2>2
  <2> QED BY <1>1, <2>1, <2>2, <2>3 DEF TypeInv
<1>3. LinesInv
  BY <1>1 DEF LinesInv
<1>4. BuildInv
  BY <1>1 DEF Init, BuildInv, CallsInv, FileInv, PlaceAfter
<1> QED BY <1>2, <1>3, <1>4 DEF Init, IndexInv, ExactInv

LEMMA WriteDataKeepsInv ==
  ASSUME IndexInv, NEW len \in Lengths, NEW date \in 0..MaxDate, WriteData(len, date)
  PROVE  IndexInv'
<1> DEFINE n == Len(data)
           new == [id |-> n + 1, len |-> len, date |-> date, at |-> DataSize]
<1>1. TypeInv /\ LinesInv /\ BuildInv /\ n \in Nat
  BY DEF IndexInv, TypeInv
<1>2. DataSize = PlaceAfter(n) /\ DataSize \in Nat
  <2>1. CASE data = <<>>
    BY <2>1 DEF DataSize, PlaceAfter
  <2>2. CASE data # <<>>
    <3>1. n # 0 /\ n \in 1..Len(data)
      BY <1>1, <2>2 DEF TypeInv
    <3> QED BY <1>1, <2>2, <3>1, LineTypes DEF DataSize, PlaceAfter
  <2> QED BY <2>1, <2>2
<1>3. new \in Lines
  BY <1>1, <1>2, IndexAssumption DEF Lines
<1>4. /\ data' = Append(data, new) /\ index' = index /\ build' = build /\ line' = line /\ offset' = offset
      /\ builds' = builds
      /\ write' = "index" /\ quiet' = FALSE /\ exact' = FALSE /\ column' = column /\ date >= LastDate
  BY DEF WriteData
<1> HIDE DEF new, n
<1>5. /\ Len(data') = n + 1 /\ data'[n + 1] = new /\ data' \in Seq(Lines) /\ data' # <<>>
      /\ \A i \in 1..n : data'[i] = data[i]
  <2>1. data \in Seq(Lines) /\ n = Len(data)
    BY <1>1 DEF TypeInv, n
  <2> QED BY <1>3, <1>4, <2>1, SMTT(30)
<1>6. TypeInv'
  BY <1>1, <1>4, <1>5 DEF TypeInv
<1>9. \A i \in 0..n : PlaceAfter(i)' = PlaceAfter(i)
  <2>1. \A i \in 1..n : PlaceAfter(i)' = PlaceAfter(i) /\ i # 0
    BY <1>1, <1>5 DEF PlaceAfter
  <2>2. PlaceAfter(0)' = 0 /\ PlaceAfter(0) = 0
    BY DEF PlaceAfter
  <2> QED BY <1>1, <2>1, <2>2
<1>7. LinesInv'
  <2>4. ASSUME NEW i \in 1..(n + 1)
        PROVE  data'[i].id = i /\ data'[i].at = PlaceAfter(i - 1)'
    <3>1. CASE i \in 1..n
      <4>1. i - 1 \in 0..n /\ data[i].id = i /\ data[i].at = PlaceAfter(i - 1)
        BY <1>1, <3>1 DEF LinesInv, n
      <4> QED BY <1>5, <1>9, <3>1, <4>1
    <3>2. CASE i = n + 1
      <4>1. i - 1 = n /\ n \in 0..n
        BY <1>1, <3>2
      <4> QED BY <1>2, <1>5, <1>9, <3>2, <4>1 DEF new
    <3> QED BY <1>1, <2>4, <3>1, <3>2
  <2>5. ASSUME NEW i \in 1..(n + 1), NEW j \in 1..(n + 1), i <= j
        PROVE  data'[i].date <= data'[j].date
    <3>1. CASE j \in 1..n
      <4>1. i \in 1..n /\ data[i].date <= data[j].date
        BY <1>1, <2>5, <3>1 DEF LinesInv, n
      <4> QED BY <1>5, <3>1, <4>1
    <3>2. CASE j = n + 1 /\ i \in 1..n
      <4>1. n \in 1..n /\ i <= n /\ data # <<>>
        BY <1>1, <3>2 DEF n
      <4>2. data[i].date <= data[n].date
        BY <1>1, <3>2, <4>1 DEF LinesInv, n
      <4>3. data[n].date <= date
        BY <1>4, <4>1 DEF LastDate, n
      <4>4. data[i].date \in Nat /\ data[n].date \in Nat /\ date \in Nat
        BY <1>1, <3>2, <4>1, LineTypes, IndexAssumption DEF n
      <4> QED BY <1>5, <3>2, <4>2, <4>3, <4>4 DEF new
    <3>3. CASE i = n + 1 /\ j = n + 1
      BY <1>3, <1>5, <3>3 DEF Lines
    <3> QED BY <1>1, <2>5, <3>1, <3>2, <3>3
  <2> QED BY <1>5, <2>4, <2>5 DEF LinesInv
<1>8. BuildInv'
  <2>1. ASSUME NEW b \in Calls
        PROVE  line'[b] <= Len(data') /\ offset'[b] = PlaceAfter(line[b])'
    <3>1. line[b] \in Nat /\ line[b] <= n /\ offset[b] = PlaceAfter(line[b])
      BY <1>1 DEF BuildInv, CallsInv, TypeInv, n
    <3>2. line[b] \in 0..n /\ line[b] <= n + 1
      BY <1>1, <3>1
    <3>4. PlaceAfter(line[b])' = PlaceAfter(line[b])
      BY <1>4, <1>5, <1>9, <3>2 DEF PlaceAfter
    <3> QED BY <1>4, <1>5, <3>1, <3>2, <3>4
  <2> QED BY <1>1, <1>4, <2>1 DEF BuildInv, CallsInv, FileInv
<1> QED BY <1>4, <1>6, <1>7, <1>8 DEF IndexInv, ExactInv

\* A row of the writer is appended only to an index that is no longer the rebuilt one.
LEMMA WriteIndexKeepsInv ==
  ASSUME IndexInv, WriteIndex PROVE IndexInv'
<1>1. TypeInv /\ LinesInv /\ BuildInv /\ ~quiet /\ ~exact
  BY DEF IndexInv, WriteIndex, BuildInv, CallsInv, ExactInv, IndexReady
<1>2. /\ data' = data /\ builds' = builds /\ build' = build /\ line' = line /\ offset' = offset /\ column' = column
      /\ write' = "idle" /\ quiet' = FALSE /\ exact' = exact
      /\ index' = index \o WriterRow(data[Len(data)])
  BY DEF WriteIndex, searchVars
<1>3. data # <<>> /\ Len(data) \in 1..Len(data)
  BY <1>1 DEF WriteIndex, TypeInv
<1>4. WriterRow(data[Len(data)]) \in Seq(Int)
  <2>1. data[Len(data)].date \div Second \in Int
    BY <1>1, <1>3, LineTypes, IndexAssumption
  <2> QED BY <1>1, <1>3, <2>1, LineTypes DEF WriterRow
<1>5. index' \in Seq(Int) /\ Len(index') >= Len(index)
  BY <1>1, <1>2, <1>4 DEF TypeInv
<1>6. TypeInv'
  BY <1>1, <1>2, <1>3, <1>5 DEF TypeInv
<1>7. LinesInv'
  BY <1>1, <1>2 DEF LinesInv, PlaceAfter
<1>8. BuildInv'
  <2>1. \A b \in Calls : PlaceAfter(line[b])' = PlaceAfter(line[b])
    BY <1>2 DEF PlaceAfter
  <2> QED BY <1>1, <1>2, <2>1 DEF BuildInv, CallsInv, FileInv
<1> QED BY <1>1, <1>2, <1>6, <1>7, <1>8 DEF IndexInv, ExactInv

LEMMA BuildBeginKeepsInv ==
  ASSUME IndexInv, BuildBegin PROVE IndexInv'
<1>1. TypeInv /\ LinesInv /\ BuildInv
  BY DEF IndexInv
<1>2. /\ data' = data /\ write' = write /\ column' = column /\ line' = line /\ offset' = offset
      /\ builds < MaxBuilds /\ builds' = builds + 1
      /\ build' = [build EXCEPT ![builds + 1] = "reading"] /\ index' = <<>>
      /\ quiet' = (write = "idle") /\ exact' = FALSE
  BY DEF BuildBegin, Truncated
<1>3. builds \in Nat /\ builds' \in Calls /\ builds' \in 0..MaxBuilds /\ builds' > builds
  BY <1>1, <1>2, IndexAssumption DEF TypeInv, Calls
<1>4. build' \in [Calls -> {"none", "reading", "built"}] /\ build'[builds'] = "reading" /\ line'[builds'] = 0
  BY <1>1, <1>2, <1>3 DEF TypeInv, BuildInv, CallsInv
<1>5. index' \in Seq(Int) /\ Len(index') = 0 /\ RowsCount' = 0 /\ Len(data') \in Nat
  BY <1>1, <1>2 DEF TypeInv, RowsCount, RowWords
<1>6. TypeInv'
  BY <1>1, <1>2, <1>3, <1>4, <1>5 DEF TypeInv
<1>7. LinesInv'
  BY <1>1, <1>2 DEF LinesInv, PlaceAfter
<1>8. CallsInv'
  <2>1. \A b \in Calls : PlaceAfter(line[b])' = PlaceAfter(line[b])
    BY <1>2 DEF PlaceAfter
  <2>2. ASSUME NEW b \in Calls, b > builds' PROVE line[b] = 0 /\ build'[b] = "none"
    <3>1. b > builds /\ b # builds + 1 /\ line[b] = 0 /\ build[b] = "none"
      BY <1>1, <1>2, <1>3, <2>2, IndexAssumption DEF Calls, BuildInv, CallsInv
    <3> QED BY <1>1, <1>2, <3>1 DEF TypeInv
  <2> QED BY <1>1, <1>2, <1>3, <1>4, <2>1, <2>2 DEF BuildInv, CallsInv
<1>9. FileInv'
  BY <1>4, <1>5 DEF FileInv, RowWords
<1> QED BY <1>2, <1>6, <1>7, <1>8, <1>9 DEF IndexInv, BuildInv, ExactInv

\* What one row of BuildIndex does to the words of the file.
LEMMA WordsWritten ==
  ASSUME NEW row \in Seq(Int), Len(row) = RowWords, NEW p \in Nat, index \in Seq(Int)
  PROVE  /\ WrittenAt(row, p) \in Seq(Int)
         /\ Len(WrittenAt(row, p)) = IF Len(index) > p + 8 THEN Len(index) ELSE p + 8
         /\ \A k \in 1..8 : WrittenAt(row, p)[p + k] = row[k]
         /\ \A i \in 1..Len(WrittenAt(row, p)) : (i <= p \/ i > p + 8) =>
              WrittenAt(row, p)[i] = IF i <= Len(index) THEN index[i] ELSE 0
<1> DEFINE size == IF Len(index) > p + 8 THEN Len(index) ELSE p + 8
           Word(i) == IF i > p /\ i <= p + 8 THEN row[i - p] ELSE IF i <= Len(index) THEN index[i] ELSE 0
           written == [i \in 1..size |-> Word(i)]
<1>1. WrittenAt(row, p) = written
  BY DEF WrittenAt, RowWords
<1>2. size \in Nat /\ size >= p + 8
  OBVIOUS
<1>3. (\A k \in 1..8 : row[k] \in Int) /\ \A i \in 1..Len(index) : index[i] \in Int
  <2>1. Len(row) = 8 /\ DOMAIN row = 1..8
    BY DEF RowWords
  <2>2. \A i \in DOMAIN row : row[i] \in Int
    OBVIOUS
  <2>3. \A i \in 1..Len(index) : index[i] \in Int
    OBVIOUS
  <2> QED BY <2>1, <2>2, <2>3
<1>4. \A i \in 1..size : Word(i) \in Int
  <2> SUFFICES ASSUME NEW i \in 1..size PROVE Word(i) \in Int
    OBVIOUS
  <2>1. i \in Nat \ {0} /\ (i > p /\ i <= p + 8 => i - p \in 1..8) /\ (i <= Len(index) => i \in 1..Len(index))
    BY <1>2
  <2>2. CASE i > p /\ i <= p + 8
    BY <1>3, <2>1, <2>2
  <2>3. CASE ~(i > p /\ i <= p + 8) /\ i <= Len(index)
    <3>1. Word(i) = index[i]
      BY <2>3
    <3> QED BY <1>3, <2>1, <2>3, <3>1
  <2>4. CASE ~(i > p /\ i <= p + 8) /\ ~(i <= Len(index))
    BY <2>4
  <2> QED BY <2>2, <2>3, <2>4
<1>5. \A k \in 1..8 : p + k \in 1..size /\ Word(p + k) = row[k]
  <2> TAKE k \in 1..8
  <2>1. p + k > p /\ p + k <= p + 8 /\ p + k - p = k /\ p + k \in 1..size
    BY <1>2
  <2> QED BY <2>1
<1>6. \A i \in 1..size : (i <= p \/ i > p + 8) => Word(i) = IF i <= Len(index) THEN index[i] ELSE 0
  <2> TAKE i \in 1..size
  <2>1. (i <= p \/ i > p + 8) => ~(i > p /\ i <= p + 8)
    BY <1>2
  <2> QED BY <2>1
<1> HIDE DEF size, Word
<1>7. written \in [1..size -> Int] /\ \A i \in 1..size : written[i] = Word(i)
  BY <1>4
<1> HIDE DEF written
<1>8. written \in Seq(Int) /\ Len(written) = size
  BY <1>2, <1>7
<1> QED BY <1>1, <1>5, <1>6, <1>7, <1>8 DEF size

\* The same in rows, in a file of m whole rows: row n is written, rows behind the end
\* and before n are holes, the others stay.
LEMMA RowsWritten ==
  ASSUME NEW row \in Seq(Int), Len(row) = RowWords, NEW n \in Nat \ {0}, NEW m \in Nat,
         index \in Seq(Int), Len(index) = 8 * m, index' = WrittenAt(row, 8 * (n - 1))
  PROVE  /\ Len(index') = 8 * (IF m > n THEN m ELSE n)
         /\ \A k \in 1..8 : index'[8 * (n - 1) + k] = row[k]
         /\ \A i \in 1..m : i # n => \A k \in 1..8 : index'[8 * (i - 1) + k] = index[8 * (i - 1) + k]
         /\ \A i \in 1..n : i > m /\ i # n => \A k \in 1..8 : index'[8 * (i - 1) + k] = 0
<1> DEFINE p == 8 * (n - 1)
<1>1. p \in Nat
  OBVIOUS
<1>2. /\ Len(index') = IF Len(index) > p + 8 THEN Len(index) ELSE p + 8
      /\ \A k \in 1..8 : index'[p + k] = row[k]
      /\ \A i \in 1..Len(index') : (i <= p \/ i > p + 8) => index'[i] = IF i <= Len(index) THEN index[i] ELSE 0
  <2> HIDE DEF p
  <2>1. index' = WrittenAt(row, p)
    BY DEF p
  <2>2. /\ Len(WrittenAt(row, p)) = IF Len(index) > p + 8 THEN Len(index) ELSE p + 8
        /\ \A k \in 1..8 : WrittenAt(row, p)[p + k] = row[k]
        /\ \A i \in 1..Len(WrittenAt(row, p)) : (i <= p \/ i > p + 8) =>
             WrittenAt(row, p)[i] = IF i <= Len(index) THEN index[i] ELSE 0
    BY <1>1, WordsWritten, ZenonT(60)
  <2> HIDE DEF p
  <2> QED BY <2>1, <2>2, ZenonT(60)
<1>3. Len(index') = 8 * (IF m > n THEN m ELSE n)
  BY <1>2
<1>4. ASSUME NEW i \in 1..m, i # n, NEW k \in 1..8 PROVE index'[8 * (i - 1) + k] = index[8 * (i - 1) + k]
  <2>1. 8 * (i - 1) + k \in 1..Len(index') /\ 8 * (i - 1) + k <= Len(index)
    BY <1>3
  <2>2. 8 * (i - 1) + k <= p \/ 8 * (i - 1) + k > p + 8
    BY <1>4
  <2> QED BY <1>2, <2>1, <2>2
<1>5. ASSUME NEW i \in 1..n, i > m, i # n, NEW k \in 1..8 PROVE index'[8 * (i - 1) + k] = 0
  <2>1. 8 * (i - 1) + k \in 1..Len(index') /\ ~(8 * (i - 1) + k <= Len(index))
    BY <1>3, <1>5
  <2>2. 8 * (i - 1) + k <= p
    BY <1>5
  <2> QED BY <1>2, <2>1, <2>2
<1> QED BY <1>2, <1>3, <1>4, <1>5

LEMMA BuildRowKeepsInv ==
  ASSUME IndexInv, NEW b \in Calls, BuildRow(b) PROVE IndexInv'
<1>1. TypeInv /\ LinesInv /\ BuildInv /\ line[b] \in Nat /\ offset[b] \in Nat /\ Len(data) \in Nat
  BY DEF IndexInv, TypeInv
<1> PICK n \in Nat : n = line[b] + 1
  BY <1>1
<1> DEFINE row == BuilderRow(data[n], offset[b])
<1>2. /\ data' = data /\ write' = write /\ build' = build /\ builds' = builds /\ quiet' = quiet
      /\ column' = column /\ exact' = exact
      /\ build[b] = "reading" /\ line[b] < Len(data) /\ line' = [line EXCEPT ![b] = n]
      /\ index' = WrittenAt(row, RowWords * line[b]) /\ offset' = [offset EXCEPT ![b] = @ + data[n].len]
  BY DEF BuildRow, searchVars
<1>3. n \in 1..Len(data) /\ n \in Nat \ {0} /\ n - 1 = line[b]
  BY <1>1, <1>2
<1>4. /\ data[n].id \in Nat /\ data[n].len \in Nat /\ data[n].date \in Nat
      /\ data[n].at = offset[b] /\ PlaceAfter(n) = offset[b] + data[n].len
  <2>1. data[n].id \in Nat /\ data[n].len \in Nat /\ data[n].date \in Nat
    BY <1>1, <1>3, LineTypes
  <2>2. data[n].at = PlaceAfter(n - 1)
    BY <1>1, <1>3 DEF LinesInv
  <2>3. offset[b] = PlaceAfter(line[b])
    BY <1>1 DEF BuildInv, CallsInv
  <2>4. PlaceAfter(n) = data[n].at + data[n].len
    BY <1>3 DEF PlaceAfter
  <2> QED BY <1>3, <2>1, <2>2, <2>3, <2>4
<1>5. row \in Seq(Int) /\ Len(row) = RowWords
  BY <1>1, <1>4 DEF BuilderRow, RowWords
<1>6. row = BuilderRow(data[n], data[n].at)
  BY <1>4
<1> HIDE DEF row
<1>7. index' \in Seq(Int)
  <2>1. RowWords * line[b] \in Nat /\ index \in Seq(Int)
    BY <1>1 DEF RowWords, TypeInv
  <2> QED BY <1>2, <1>5, <2>1, WordsWritten
<1>8. TypeInv'
  <2>1. line' \in [Calls -> Nat] /\ offset' \in [Calls -> Nat]
    BY <1>1, <1>2, <1>4 DEF TypeInv
  <2> QED BY <1>1, <1>2, <1>7, <2>1 DEF TypeInv
<1>9. LinesInv'
  BY <1>1, <1>2 DEF LinesInv, PlaceAfter
<1>10. CallsInv'
  <2>1. ASSUME NEW c \in Calls
        PROVE  line'[c] <= Len(data') /\ offset'[c] = PlaceAfter(line[c])'
    <3>1. PlaceAfter(line[c])' = PlaceAfter(line'[c])
      BY <1>2 DEF PlaceAfter
    <3>2. CASE c = b
      <4>1. line'[c] = n /\ offset'[c] = offset[b] + data[n].len
        BY <1>1, <1>2, <3>2 DEF TypeInv
      <4> QED BY <1>2, <1>3, <1>4, <3>1, <4>1
    <3>3. CASE c # b
      <4>1. line'[c] = line[c] /\ offset'[c] = offset[c]
        BY <1>1, <1>2, <3>3 DEF TypeInv
      <4> QED BY <1>1, <1>2, <3>1, <4>1 DEF BuildInv, CallsInv
    <3> QED BY <3>2, <3>3
  <2>2. b <= builds
    <3>1. ~(b > builds)
      BY <1>1, <1>2 DEF BuildInv, CallsInv
    <3> QED BY <1>1, <3>1, IndexAssumption DEF TypeInv, Calls
  <2>3. \A c \in Calls : c > builds => line'[c] = line[c]
    BY <1>1, <1>2, <2>2, IndexAssumption DEF TypeInv, Calls
  <2>4. build[builds] = "built" => line'[builds] = line[builds]
    BY <1>1, <1>2 DEF TypeInv
  <2> QED BY <1>1, <1>2, <2>1, <2>3, <2>4 DEF BuildInv, CallsInv
<1>11. FileInv'
  <2> SUFFICES ASSUME quiet PROVE FileInv'
    BY <1>2 DEF FileInv
  <2> DEFINE m == RowsCount
             size == IF m > n THEN m ELSE n
  <2>1. /\ m \in Nat /\ Len(index) = 8 * m /\ m <= Len(data) /\ line[builds] <= m /\ builds \in Calls
        /\ line[builds] \in Nat /\ \A i \in 1..m : RowWritten(i) \/ (i > line[builds] /\ RowHole(i))
    BY <1>1 DEF BuildInv, CallsInv, FileInv, RowWords, TypeInv, RowsCount
  <2> HIDE DEF m
  <2>2. /\ Len(index') = 8 * size
        /\ \A k \in 1..8 : index'[8 * (n - 1) + k] = row[k]
        /\ \A i \in 1..m : i # n => \A k \in 1..8 : index'[8 * (i - 1) + k] = index[8 * (i - 1) + k]
        /\ \A i \in 1..n : i > m /\ i # n => \A k \in 1..8 : index'[8 * (i - 1) + k] = 0
    <3>1. index' = WrittenAt(row, 8 * (n - 1)) /\ index \in Seq(Int)
      BY <1>1, <1>2, <1>3 DEF RowWords, TypeInv
    <3>2. n \in Nat \ {0} /\ m \in Nat /\ Len(index) = 8 * m
      BY <1>3, <2>1
    <3> QED BY <1>5, <3>1, <3>2, RowsWritten, ZenonT(60)
  <2>3. size \in Nat /\ size >= n /\ size >= m /\ size <= Len(data)
    BY <1>1, <1>3, <2>1
  <2>4. RowsCount' = size
    BY <2>2, <2>3 DEF RowsCount, RowWords
  <2>5. /\ builds = b => line'[builds] = n
        /\ builds # b => line'[builds] = line[builds]
    BY <1>1, <1>2, <2>1 DEF TypeInv
  <2>6. line'[builds] <= size
    BY <2>1, <2>3, <2>5
  <2>7. ASSUME NEW i \in 1..size
        PROVE  RowWritten(i)' \/ (i > line'[builds] /\ RowHole(i)')
    <3>1. CASE i = n
      <4>1. \A k \in 1..8 : index'[8 * (i - 1) + k] = BuilderRow(data[i], data[i].at)[k]
        BY <1>6, <2>2, <3>1
      <4> QED BY <1>2, <4>1 DEF RowWritten, RowWords, BuilderRow
    <3>2. CASE i # n /\ i <= m
      <4>1. i \in 1..m /\ \A k \in 1..8 : index'[8 * (i - 1) + k] = index[8 * (i - 1) + k]
        BY <2>1, <2>2, <2>3, <3>2
      <4>2. RowWritten(i) => RowWritten(i)'
        BY <1>2, <4>1 DEF RowWritten, RowWords, BuilderRow
      <4>3. RowHole(i) => RowHole(i)'
        BY <4>1 DEF RowHole, RowWords
      <4>4. i > line[builds] => i > line'[builds]
        <5>1. CASE builds = b
          <6>1. line[builds] = n - 1 /\ line'[builds] = n
            BY <1>3, <2>5, <5>1
          <6> QED BY <1>3, <3>2, <6>1
        <5>2. CASE builds # b
          BY <2>5, <5>2
        <5> QED BY <5>1, <5>2
      <4> QED BY <2>1, <4>1, <4>2, <4>3, <4>4
    <3>3. CASE i # n /\ i > m
      <4>1. i \in 1..n
        BY <1>3, <2>1, <3>3
      <4>2. RowHole(i)'
        BY <2>2, <3>3, <4>1 DEF RowHole, RowWords
      <4>3. builds # b
        <5> SUFFICES ASSUME builds = b PROVE FALSE
          OBVIOUS
        <5> QED BY <1>3, <2>1, <3>3, <4>1
      <4>4. i > line'[builds]
        BY <2>1, <2>5, <3>3, <4>1, <4>3
      <4> QED BY <4>2, <4>4
    <3> QED BY <2>1, <2>3, <3>1, <3>2, <3>3
  <2> HIDE DEF size
  <2> QED BY <1>2, <2>2, <2>3, <2>4, <2>6, <2>7 DEF FileInv, RowWords
<1>12. exact => IndexReady' /\ Sound!SearchInv'
  <2> SUFFICES ASSUME exact PROVE IndexReady' /\ Sound!SearchInv'
    OBVIOUS
  <2>1. IndexReady /\ Sound!SearchInv
    BY DEF IndexInv, ExactInv
  <2>2. IndexReady'
    BY <1>2, <2>1 DEF IndexReady
  <2>3. Column' = Column
    <3>1. Column = ColumnOf(column)
      BY DEF Column, ColumnOf
    <3>2. Column' = ColumnOf(column)'
      BY <1>2 DEF Column, ColumnOf
    <3>3. ColumnOf(column) = [i \in 1..Len(data) |-> IF column = "id" THEN data[i].id ELSE data[i].date]
      BY <1>1, <2>1, ReadyColumn
    <3>4. TypeInv' /\ LinesInv' /\ BuildInv'
      BY <1>8, <1>9, <1>10, <1>11 DEF BuildInv
    <3>5. (TypeInv /\ LinesInv /\ BuildInv /\ IndexReady =>
             ColumnOf(column) = [i \in 1..Len(data) |-> IF column = "id" THEN data[i].id ELSE data[i].date])'
      BY ReadyColumns, PTL
    <3>6. ColumnOf(column)' = [i \in 1..Len(data) |-> IF column = "id" THEN data[i].id ELSE data[i].date]'
      BY <2>2, <3>4, <3>5
    <3> QED BY <1>2, <3>1, <3>2, <3>3, <3>6
  <2>4. /\ target' = target /\ low' = low /\ high' = high /\ median' = median /\ pc' = pc /\ rank' = rank
        /\ column' = column
    BY DEF BuildRow, searchVars
  <2> QED BY <2>1, <2>2, <2>3, <2>4, SearchUnchanged
<1> QED BY <1>2, <1>8, <1>9, <1>10, <1>11, <1>12 DEF IndexInv, BuildInv, ExactInv

LEMMA BuildEndKeepsInv ==
  ASSUME IndexInv, NEW b \in Calls, BuildEnd(b) PROVE IndexInv'
<1>1. TypeInv /\ LinesInv /\ BuildInv
  BY DEF IndexInv
<1>2. /\ data' = data /\ index' = index /\ write' = write /\ line' = line /\ offset' = offset
      /\ quiet' = quiet /\ column' = column /\ exact' = exact /\ builds' = builds
      /\ target' = target /\ low' = low /\ high' = high /\ median' = median /\ pc' = pc /\ rank' = rank
      /\ build[b] = "reading" /\ line[b] = Len(data) /\ build' = [build EXCEPT ![b] = "built"]
  BY DEF BuildEnd, fileVars, searchVars
<1>3. TypeInv'
  <2>1. build' \in [Calls -> {"none", "reading", "built"}]
    BY <1>1, <1>2 DEF TypeInv
  <2> QED BY <1>1, <1>2, <2>1 DEF TypeInv
<1>4. LinesInv'
  BY <1>1, <1>2 DEF LinesInv, PlaceAfter
<1>5. CallsInv'
  <2>1. \A c \in Calls : PlaceAfter(line[c])' = PlaceAfter(line[c])
    BY <1>2 DEF PlaceAfter
  <2>2. quiet /\ build'[builds] = "built" => line[builds] = Len(data)
    BY <1>1, <1>2 DEF BuildInv, CallsInv, TypeInv
  <2> QED BY <1>1, <1>2, <2>1, <2>2 DEF BuildInv, CallsInv
<1>6. FileInv'
  BY <1>1, <1>2 DEF BuildInv, FileInv, RowsCount, RowWritten, RowHole, RowWords, BuilderRow
<1>7. exact => IndexReady' /\ Sound!SearchInv'
  <2> SUFFICES ASSUME exact PROVE IndexReady' /\ Sound!SearchInv'
    OBVIOUS
  <2>1. IndexReady /\ Sound!SearchInv
    BY DEF IndexInv, ExactInv
  <2>2. IndexReady'
    BY <1>1, <1>2, <2>1 DEF IndexReady, TypeInv
  <2>3. Column' = Column
    BY <1>2 DEF Column, RowsCount, Row, RowAt, Field
  <2> QED BY <1>2, <2>1, <2>2, <2>3, SearchUnchanged
<1> QED BY <1>2, <1>3, <1>4, <1>5, <1>6, <1>7 DEF IndexInv, BuildInv, ExactInv

\* A step of a search leaves the file and the rebuild alone.
LEMMA FileUnchanged ==
  ASSUME IndexInv, UNCHANGED <<fileVars, buildVars>>, exact' \in BOOLEAN, column' \in {"id", "timestamp"}
  PROVE  TypeInv' /\ LinesInv' /\ BuildInv' /\ IndexReady' = IndexReady
<1>1. TypeInv /\ LinesInv /\ BuildInv
  BY DEF IndexInv
<1>2. /\ data' = data /\ index' = index /\ write' = write /\ build' = build /\ line' = line
      /\ offset' = offset /\ quiet' = quiet /\ builds' = builds
  BY DEF fileVars, buildVars
<1>3. TypeInv'
  BY <1>1, <1>2 DEF TypeInv
<1>4. LinesInv'
  BY <1>1, <1>2 DEF LinesInv, PlaceAfter
<1>5. BuildInv'
  <2>1. \A b \in Calls : PlaceAfter(line[b])' = PlaceAfter(line[b])
    BY <1>2 DEF PlaceAfter
  <2>2. CallsInv'
    BY <1>1, <1>2, <2>1 DEF BuildInv, CallsInv
  <2>3. FileInv'
    BY <1>1, <1>2 DEF BuildInv, FileInv, RowsCount, RowWritten, RowHole, RowWords, BuilderRow
  <2> QED BY <2>2, <2>3 DEF BuildInv
<1> QED BY <1>2, <1>3, <1>4, <1>5 DEF IndexReady

\* The columns of a rebuilt index are sorted, before and after a search step.
LEMMA SeekCallKeepsInv ==
  ASSUME IndexInv, NEW c \in {"id", "timestamp"}, NEW t \in 0..(MaxRecords + 1), SeekCall(c, t)
  PROVE  IndexInv'
<1>1. exact' = IndexReady /\ column' = c /\ UNCHANGED <<fileVars, buildVars>> /\ Search!Call(c, t)
  BY DEF SeekCall, Search!Call
<1>2. TypeInv' /\ LinesInv' /\ BuildInv' /\ IndexReady' = IndexReady /\ data' = data
  BY <1>1, FileUnchanged DEF IndexReady, fileVars, IndexInv, TypeInv
<1>3. ASSUME IndexReady PROVE Sound!SearchInv'
  <2>1. Column = ColumnOf(column) /\ Column' = ColumnOf(c)
    <3>1. index' = index /\ column' = c
      BY <1>1 DEF fileVars
    <3> QED BY <3>1 DEF Column, ColumnOf, RowsCount, Row, RowAt, Field
  <2>2. Column \in SortedSeqs /\ Column' \in SortedSeqs /\ Len(Column') = Len(Column)
    BY <1>3, <2>1, ReadyColumn DEF IndexInv
  <2>3. Sound!Sorted /\ Sound!Sorted'
    BY <2>2 DEF Sound!Sorted
  <2>4. t \in Int
    BY IndexAssumption
  <2> QED BY <1>1, <2>2, <2>3, <2>4, SameSearch, SoundAssumption, Sound!CallStartsInv
<1> QED BY <1>1, <1>2, <1>3 DEF IndexInv, ExactInv

LEMMA SeekReadKeepsInv ==
  ASSUME IndexInv, SeekRead PROVE IndexInv'
<1>1. /\ exact' = exact /\ column' = column /\ UNCHANGED <<fileVars, buildVars>>
      /\ Search!Probe \/ Search!Finish
  BY DEF SeekRead, Search!Probe, Search!Finish
<1>2. exact \in BOOLEAN /\ column \in {"id", "timestamp"}
  BY DEF IndexInv, TypeInv
<1>3. TypeInv' /\ LinesInv' /\ BuildInv' /\ IndexReady' = IndexReady
  BY <1>1, <1>2, FileUnchanged
<1>4. Column' = Column
  BY <1>1 DEF fileVars, Column, RowsCount, Row, RowAt, Field
<1>5. ASSUME exact PROVE Sound!SearchInv'
  <2>1. Sound!SearchInv
    BY <1>5 DEF IndexInv, ExactInv
  <2>2. CASE Sound!Probe
    BY <1>4, <2>1, <2>2, SoundAssumption, Sound!ProbeKeepsInv
  <2>3. CASE Sound!Finish
    BY <1>4, <2>1, <2>3, SoundAssumption, Sound!FinishKeepsInv
  <2> QED BY <1>1, <2>2, <2>3, SameSearch
<1> QED BY <1>1, <1>3, <1>5 DEF IndexInv, ExactInv

\* In a rebuilt index that nothing disturbs no read of a search fails.
LEMMA NoReadFails ==
  ASSUME IndexInv, exact, pc = "loop" PROVE NextRank < RowsCount
<1>1. IndexReady /\ Sound!SearchInv
  BY DEF IndexInv, ExactInv
<1>2. Column = ColumnOf(column)
  BY DEF Column, ColumnOf
<1>3. Len(Column) = RowsCount /\ RowsCount \in Nat
  BY <1>1, <1>2, ReadyColumn, ReadyFacts DEF IndexInv
<1>4. low \in 0..(RowsCount - 1) /\ high \in 0..(RowsCount - 1)
  BY <1>1, <1>3 DEF Sound!SearchInv, Sound!SearchTypeOK, Sound!Ranks
<1> QED BY <1>3, <1>4 DEF NextRank

LEMMA SeekReadFailsKeepsInv ==
  ASSUME IndexInv, SeekReadFails PROVE IndexInv'
<1>1. /\ exact' = exact /\ column' = column /\ UNCHANGED <<fileVars, buildVars>>
      /\ pc = "loop" /\ NextRank >= RowsCount
  BY DEF SeekReadFails
<1>2. exact \in BOOLEAN /\ column \in {"id", "timestamp"}
  BY DEF IndexInv, TypeInv
<1>3. TypeInv' /\ LinesInv' /\ BuildInv' /\ IndexReady' = IndexReady
  BY <1>1, <1>2, FileUnchanged
<1>4. ~exact
  <2> SUFFICES ASSUME exact PROVE FALSE
    OBVIOUS
  <2>1. NextRank < RowsCount
    BY <1>1, NoReadFails
  <2>2. RowsCount \in Nat /\ NextRank \in Int
    <3>1. IndexReady /\ Sound!SearchInv
      BY DEF IndexInv, ExactInv
    <3> QED BY <3>1, ReadyFacts DEF IndexInv, NextRank, Sound!SearchInv, Sound!SearchTypeOK
  <2> QED BY <1>1, <2>1, <2>2
<1> QED BY <1>1, <1>3, <1>4 DEF IndexInv, ExactInv

LEMMA StutterKeepsInv ==
  ASSUME IndexInv, UNCHANGED vars PROVE IndexInv'
<1>1. /\ UNCHANGED <<fileVars, buildVars>> /\ exact' = exact /\ column' = column /\ target' = target
      /\ low' = low /\ high' = high /\ median' = median /\ pc' = pc /\ rank' = rank
  BY DEF vars, searchVars
<1>2. exact \in BOOLEAN /\ column \in {"id", "timestamp"}
  BY DEF IndexInv, TypeInv
<1>3. TypeInv' /\ LinesInv' /\ BuildInv' /\ IndexReady' = IndexReady
  BY <1>1, <1>2, FileUnchanged
<1>4. Column' = Column
  BY <1>1 DEF fileVars, Column, RowsCount, Row, RowAt, Field
<1>5. Sound!SearchInv => Sound!SearchInv'
  BY <1>1, <1>4, SearchUnchanged
<1> QED BY <1>1, <1>3, <1>5 DEF IndexInv, ExactInv

(***************************************************************************)
(* The theorems                                                            *)
(***************************************************************************)

(* The invariant of the index file, in every behaviour of the writer, of   *)
(* BuildIndex and of the searches.                                         *)
THEOREM IndexCorrect == Spec => []IndexInv
<1>1. IndexInv /\ [Next]_vars => IndexInv'
  <2> SUFFICES ASSUME IndexInv, [Next]_vars PROVE IndexInv'
    OBVIOUS
  <2> QED BY WriteDataKeepsInv, WriteIndexKeepsInv, BuildBeginKeepsInv, BuildRowKeepsInv, BuildEndKeepsInv,
             SeekCallKeepsInv, SeekReadKeepsInv, SeekReadFailsKeepsInv, StutterKeepsInv DEF Next
<1> QED BY <1>1, IndexInvInit, PTL DEF Spec

(* As long as Write appends nothing, the rows that overlapping calls of    *)
(* BuildIndex write, decoded by getRowAtIndexPos, are the lines of the     *)
(* data file or holes, and they are the whole data file once the call that *)
(* truncated the file last has ended.                                      *)
THEOREM RebuiltIsExact == Spec => []RebuiltIndexDescribesData
<1>1. IndexInv => RebuiltIndexDescribesData
  BY QuietFacts DEF IndexInv, RebuiltIndexDescribesData
<1> QED BY <1>1, IndexCorrect, PTL

(* A search that getOffsetAt begins once the call of BuildIndex that       *)
(* truncated last has ended, and that neither Write nor a new truncation   *)
(* disturbs, reads no row outside the file, returns the place of the line  *)
(* asked for, and reports absence only of what is absent, whatever earlier *)
(* calls of BuildIndex that are still writing do.                          *)
THEOREM RebuiltSeekIsRight == Spec => []SeekAfterRebuild
<1>1. IndexInv => SeekAfterRebuild
  <2> SUFFICES ASSUME IndexInv, exact
               PROVE  /\ pc = "found" =>
                           /\ Row(rank) = RowOf(rank + 1)
                           /\ IF column = "id" THEN data[rank + 1].id = target
                              ELSE /\ data[rank + 1].date >= target
                                   /\ \A i \in 1..rank : data[i].date < target \/ data[i].date = data[rank + 1].date
                      /\ pc = "notfound" =>
                           \A i \in 1..Len(data) : IF column = "id" THEN data[i].id # target ELSE data[i].date < target
                      /\ pc # "error"
    BY DEF SeekAfterRebuild
  <2>1. IndexReady /\ Sound!SearchInv /\ TypeInv /\ LinesInv
    BY DEF IndexInv, ExactInv
  <2>2. Column = ColumnOf(column)
    BY DEF Column, ColumnOf
  <2>3. /\ Len(Column) = Len(data) /\ Len(data) \in Nat
        /\ Column = [i \in 1..Len(data) |-> IF column = "id" THEN data[i].id ELSE data[i].date]
        /\ \A i \in 1..Len(data) : Row(i - 1) = RowOf(i)
    BY <2>1, <2>2, ReadyColumn, ReadyFacts DEF IndexInv
  <2>4. /\ pc # "error" /\ column \in {"id", "timestamp"} /\ target \in Int
        /\ pc = "found" => rank \in 0..(Len(data) - 1)
    BY <2>1, <2>3 DEF Sound!SearchInv, Sound!SearchTypeOK, Sound!Ranks
  <2>5. \A i \in 1..Len(data) : data[i].id \in Nat /\ data[i].date \in Nat
    BY <2>1, LineTypes
  <2>6. ASSUME pc = "found"
        PROVE  /\ Row(rank) = RowOf(rank + 1)
               /\ IF column = "id" THEN data[rank + 1].id = target
                  ELSE /\ data[rank + 1].date >= target
                       /\ \A i \in 1..rank : data[i].date < target \/ data[i].date = data[rank + 1].date
    <3>1. rank + 1 \in 1..Len(data) /\ rank + 1 - 1 = rank /\ rank \in Nat
      BY <2>3, <2>4, <2>6
    <3>2. Row(rank) = RowOf(rank + 1)
      BY <2>3, <3>1
    <3>3. CASE column = "id"
      <4>1. Column[rank + 1] = target
        BY <2>1, <2>6, <3>3 DEF Sound!SearchInv, Sound!FoundIsRight, Sound!Key
      <4> QED BY <2>3, <3>1, <3>2, <3>3, <4>1
    <3>4. CASE column = "timestamp"
      <4>1. /\ Column[rank + 1] >= target
            /\ \A r \in 0..(Len(data) - 1) : Column[r + 1] >= target => Column[rank + 1] <= Column[r + 1]
        BY <2>1, <2>3, <2>6, <3>4 DEF Sound!SearchInv, Sound!FoundIsRight, Sound!Key, Sound!Ranks
      <4>2. \A i \in 1..Len(data) : Column[i] = data[i].date
        BY <2>3, <3>4
      <4>3. ASSUME NEW i \in 1..rank PROVE data[i].date < target \/ data[i].date = data[rank + 1].date
        <5>1. i \in 1..Len(data) /\ i - 1 \in 0..(Len(data) - 1) /\ i - 1 + 1 = i /\ i <= rank + 1
          BY <2>3, <3>1
        <5>2. data[i].date <= data[rank + 1].date
          BY <2>1, <3>1, <5>1 DEF LinesInv
        <5>3. data[i].date >= target => data[rank + 1].date <= data[i].date
          BY <3>1, <4>1, <4>2, <5>1
        <5> QED BY <2>4, <2>5, <3>1, <5>1, <5>2, <5>3
      <4> QED BY <3>1, <3>2, <3>4, <4>1, <4>2, <4>3
    <3> QED BY <2>4, <3>3, <3>4
  <2>7. ASSUME pc = "notfound", NEW i \in 1..Len(data)
        PROVE  IF column = "id" THEN data[i].id # target ELSE data[i].date < target
    <3>1. i - 1 \in 0..(Len(data) - 1) /\ i - 1 + 1 = i
      BY <2>3
    <3>2. ~Sound!Matches(Column[i])
      BY <2>1, <2>3, <2>7, <3>1 DEF Sound!SearchInv, Sound!NotFoundIsAbsent, Sound!Key, Sound!Ranks
    <3> QED BY <2>3, <2>4, <2>5, <3>2 DEF Sound!Matches
  <2> QED BY <2>4, <2>6, <2>7
<1> QED BY <1>1, IndexCorrect, PTL
=============================================================================
