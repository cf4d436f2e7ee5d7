-------------------------- MODULE IndexSearchProofs --------------------------
(***************************************************************************)
(* The search of IndexSearch is right for every index whose keys do not    *)
(* decrease, of any length, and for every target.  The argument is the     *)
(* loop invariant NothingDiscarded; the in-memory copy, which ends on the  *)
(* last median instead of the low rank, needs to know where the last       *)
(* median is (MedianPlace) and returns no wrong row, but may miss one.     *)
(***************************************************************************)
EXTENDS IndexSearch, TLAPS

\* The last median is the high rank or just below the low rank, unless no row was read.
MedianPlace ==
  pc = "loop" =>
    \/ median = high
    \/ median = low - 1 /\ Key(median) < target
    \/ median = 0 /\ low = 0

Sorted == keys \in KeySeqs

SearchInv ==
  /\ SearchTypeOK /\ Sorted
  /\ NothingDiscarded /\ MedianPlace
  /\ FoundIsRight
  /\ Provider = "JSONFile" => NotFoundIsAbsent

LEMMA KeyFacts ==
  ASSUME SearchInv
  PROVE  /\ keys \in Seq(Int) /\ Len(keys) \in Nat /\ target \in Int
         /\ \A r \in Ranks : Key(r) \in Int
         /\ \A q, r \in Ranks : q <= r => Key(q) <= Key(r)
<1>1. keys \in Seq(Int) /\ Len(keys) \in Nat /\ target \in Int
  BY DEF SearchInv, SearchTypeOK
<1>2. \A i, j \in 1..Len(keys) : i <= j => keys[i] <= keys[j]
  BY SearchAssumption DEF SearchInv, Sorted, NonDecreasing
<1>3. \A r \in Ranks : r + 1 \in 1..Len(keys)
  BY <1>1 DEF Ranks
<1>4. \A r \in Ranks : Key(r) \in Int
  BY <1>1, <1>3 DEF Key
<1>5. \A q, r \in Ranks : q <= r => Key(q) <= Key(r)
  <2> SUFFICES ASSUME NEW q \in Ranks, NEW r \in Ranks, q <= r
               PROVE  keys[q + 1] <= keys[r + 1]
    BY DEF Key
  <2>1. q + 1 <= r + 1
    BY <1>1 DEF Ranks
  <2> QED BY <1>2, <1>3, <2>1
<1> QED BY <1>1, <1>4, <1>5

LEMMA SearchInvInit == SearchInit => SearchInv
<1> SUFFICES ASSUME SearchInit PROVE SearchInv
  OBVIOUS
<1>1. keys \in Seq(Int)
  BY SearchAssumption DEF SearchInit
<1> QED BY <1>1 DEF SearchInit, SearchInv, SearchTypeOK, Sorted, NothingDiscarded, MedianPlace,
              FoundIsRight, NotFoundIsAbsent

(* A call starts in the invariant whatever the search before did; the      *)
(* keys may be those of another column, of as many rows.                   *)
LEMMA CallStartsInv ==
  ASSUME Sorted, Sorted', Len(keys') = Len(keys),
         NEW c \in {"id", "timestamp"}, NEW t \in Targets, Call(c, t)
  PROVE  SearchInv'
<1>1. column' = c /\ target' = t /\ t \in Int /\ rank' = 0 /\ low' = 0 /\ median' = 0
  BY SearchAssumption DEF Call
<1>2. keys \in Seq(Int) /\ keys' \in Seq(Int) /\ Len(keys) \in Nat
  BY SearchAssumption DEF Sorted
<1>3. CASE keys = <<>>
  <2>1. pc' = EmptyOutcome /\ high' = 0 /\ Ranks' = {}
    BY <1>1, <1>2, <1>3 DEF Call, Ranks
  <2>2. pc' \in {"panic", "notfound"}
    BY <2>1 DEF EmptyOutcome
  <2> QED BY <1>1, <1>2, <2>1, <2>2
        DEF SearchInv, SearchTypeOK, NothingDiscarded, MedianPlace, FoundIsRight, NotFoundIsAbsent
<1>4. CASE keys # <<>>
  <2>1. pc' = "loop" /\ high' = Len(keys) - 1
    BY <1>4 DEF Call, LastRank
  <2>2. Len(keys) > 0
    BY <1>2, <1>4
  <2>3. SearchTypeOK'
    BY <1>1, <1>2, <2>1, <2>2 DEF SearchTypeOK, Ranks
  <2>4. NothingDiscarded' /\ MedianPlace'
    BY <1>1, <1>2, <2>1, <2>2 DEF NothingDiscarded, MedianPlace, Ranks, LastRank
  <2> QED BY <1>1, <2>1, <2>3, <2>4 DEF SearchInv, FoundIsRight, NotFoundIsAbsent
<1> QED BY <1>3, <1>4

LEMMA ProbeKeepsInv ==
  ASSUME SearchInv, Probe, keys' = keys PROVE SearchInv'
<1> DEFINE m == (low + high) \div 2
<1>0. pc = "loop" /\ low < high /\ median' = m
  BY DEF Probe, InLoop
<1>1. keys' = keys /\ column' = column /\ target' = target /\ Ranks' = Ranks
  BY DEF Probe, Ranks
<1>2. low \in Ranks /\ high \in Ranks /\ low \in Nat /\ high \in Nat /\ rank \in Nat
  BY <1>0 DEF SearchInv, SearchTypeOK
<1>3. m \in Nat /\ low <= m /\ m < high
  BY <1>0, <1>2
<1>4. m \in Ranks /\ m + 1 \in Ranks /\ m + 1 <= high
  BY <1>2, <1>3, KeyFacts DEF Ranks
<1>5. /\ \A r \in Ranks : r < low => Key(r) < target
      /\ \A r \in Ranks : r > high => Key(r) > target
      /\ high = LastRank \/ Key(high) > target
  BY <1>0 DEF SearchInv, NothingDiscarded
<1>6. \A r \in Ranks : r \in Int
  BY KeyFacts DEF Ranks
<1>7. \A r : Key(r)' = Key(r)
  BY <1>1 DEF Key
<1> HIDE DEF m
<1>8. CASE Key(m) = target /\ pc' = "found" /\ rank' = m /\ low' = low /\ high' = high
  <2>1. SearchTypeOK'
    BY <1>0, <1>1, <1>2, <1>3, <1>4, <1>8 DEF SearchInv, SearchTypeOK
  <2>2. FoundIsRight'
    BY <1>1, <1>4, <1>7, <1>8, KeyFacts DEF FoundIsRight
  <2> QED BY <1>1, <1>8, <2>1, <2>2
        DEF SearchInv, Sorted, NothingDiscarded, MedianPlace, NotFoundIsAbsent
<1>9. CASE Key(m) > target /\ high' = m /\ pc' = pc /\ rank' = rank /\ low' = low
  <2>1. SearchTypeOK'
    BY <1>0, <1>1, <1>2, <1>3, <1>4, <1>9 DEF SearchInv, SearchTypeOK
  <2>2. \A r \in Ranks : r > m => Key(r) > target
    <3> SUFFICES ASSUME NEW r \in Ranks, r > m PROVE Key(r) > target
      OBVIOUS
    <3>1. m <= r
      BY <1>3, <1>6
    <3>2. Key(m) <= Key(r) /\ Key(m) \in Int /\ Key(r) \in Int /\ target \in Int
      BY <1>4, <3>1, KeyFacts
    <3> QED BY <1>9, <3>2
  <2>3. NothingDiscarded'
    BY <1>1, <1>3, <1>5, <1>7, <1>9, <2>2 DEF NothingDiscarded
  <2>4. MedianPlace'
    BY <1>0, <1>9 DEF MedianPlace
  <2> QED BY <1>0, <1>1, <1>9, <2>1, <2>3, <2>4 DEF SearchInv, Sorted, FoundIsRight, NotFoundIsAbsent
<1>10. CASE Key(m) < target /\ low' = m + 1 /\ pc' = pc /\ rank' = rank /\ high' = high
  <2>1. SearchTypeOK'
    BY <1>0, <1>1, <1>2, <1>3, <1>4, <1>10 DEF SearchInv, SearchTypeOK
  <2>2. \A r \in Ranks : r < m + 1 => Key(r) < target
    <3> SUFFICES ASSUME NEW r \in Ranks, r < m + 1 PROVE Key(r) < target
      OBVIOUS
    <3>1. r <= m
      BY <1>3, <1>6
    <3>2. Key(r) <= Key(m) /\ Key(m) \in Int /\ Key(r) \in Int /\ target \in Int
      BY <1>4, <3>1, KeyFacts
    <3> QED BY <1>10, <3>2
  <2>3. LastRank' = LastRank
    BY <1>1 DEF LastRank
  <2>4. NothingDiscarded'
    BY <1>1, <1>4, <1>5, <1>7, <1>10, <2>2, <2>3 DEF NothingDiscarded
  <2>5. MedianPlace'
    BY <1>0, <1>1, <1>3, <1>7, <1>10 DEF MedianPlace
  <2> QED BY <1>0, <1>1, <1>10, <2>1, <2>4, <2>5 DEF SearchInv, Sorted, FoundIsRight, NotFoundIsAbsent
<1> QED BY <1>8, <1>9, <1>10 DEF Probe, AboveMedian, m

LEMMA FinishKeepsInv ==
  ASSUME SearchInv, Finish, keys' = keys PROVE SearchInv'
<1>0. pc = "loop" /\ ~(low < high)
  BY DEF Finish, InLoop
<1>1. /\ keys' = keys /\ column' = column /\ target' = target
      /\ low' = low /\ high' = high /\ median' = median /\ Ranks' = Ranks
  BY DEF Finish, Ranks
<1>2. low \in Ranks /\ high \in Ranks /\ median \in Ranks /\ low \in Nat /\ high \in Nat /\ rank \in Nat
  BY <1>0 DEF SearchInv, SearchTypeOK
<1>3. low = high
  BY <1>0, <1>2 DEF SearchInv, NothingDiscarded
<1>4. /\ \A r \in Ranks : r < low => Key(r) < target
      /\ \A r \in Ranks : r > low => Key(r) > target
      /\ low = LastRank \/ Key(low) > target
  BY <1>0, <1>3 DEF SearchInv, NothingDiscarded
<1>5. FinalRank \in Ranks /\ FinalRank \in Nat
  BY <1>2, KeyFacts DEF FinalRank, Ranks
<1>6. \A r : Key(r)' = Key(r)
  BY <1>1 DEF Key
<1>7. \A r \in Ranks : r < low \/ r = low \/ r > low
  BY <1>2, KeyFacts DEF Ranks
<1>8. Key(FinalRank) \in Int /\ target \in Int /\ \A r \in Ranks : Key(r) \in Int
  BY <1>5, KeyFacts
<1>9. Matches(Key(FinalRank)) => FinalRank = low
  <2>1. median = low \/ Key(median) < target
    BY <1>0, <1>3 DEF SearchInv, MedianPlace
  <2>2. CASE Provider = "JSONFile"
    BY <2>2 DEF FinalRank
  <2>3. CASE Provider # "JSONFile" /\ Key(median) < target
    BY <1>8, <2>3 DEF FinalRank, Matches
  <2> QED BY <2>1, <2>2, <2>3 DEF FinalRank
<1>10. CASE Matches(Key(FinalRank)) /\ pc' = "found" /\ rank' = FinalRank
  <2>1. SearchTypeOK'
    BY <1>1, <1>2, <1>5, <1>10 DEF SearchInv, SearchTypeOK
  <2>2. \A r \in Ranks : Key(r) >= target => Key(FinalRank) <= Key(r)
    <3> SUFFICES ASSUME NEW r \in Ranks, Key(r) >= target PROVE Key(low) <= Key(r)
      BY <1>9, <1>10
    <3>1. ~(r < low)
      BY <1>4, <1>8
    <3>2. low <= r
      BY <1>2, <1>7, <3>1, KeyFacts DEF Ranks
    <3> QED BY <1>2, <3>2, KeyFacts
  <2>3. FoundIsRight'
    BY <1>1, <1>6, <1>10, <2>2 DEF FoundIsRight, Matches, SearchInv, SearchTypeOK
  <2> QED BY <1>1, <1>10, <2>1, <2>3
        DEF SearchInv, Sorted, NothingDiscarded, MedianPlace, NotFoundIsAbsent
<1>11. CASE ~Matches(Key(FinalRank)) /\ pc' = "notfound" /\ rank' = rank
  <2>1. SearchTypeOK'
    BY <1>1, <1>2, <1>11 DEF SearchInv, SearchTypeOK
  <2>2. ASSUME Provider = "JSONFile" PROVE NotFoundIsAbsent'
    <3>1. ~Matches(Key(low))
      BY <1>11, <2>2 DEF FinalRank
    <3>2. Key(low) < target \/ (column = "id" /\ Key(low) > target)
      BY <1>2, <1>8, <3>1 DEF Matches
    <3>3. \A r \in Ranks : ~Matches(Key(r))
      <4> SUFFICES ASSUME NEW r \in Ranks PROVE ~Matches(Key(r))
        OBVIOUS
      <4>1. CASE r < low
        BY <1>4, <1>8, <4>1 DEF Matches
      <4>2. CASE r = low
        BY <3>1, <4>2
      <4>3. CASE r > low
        <5>1. low # LastRank
          BY <1>2, <4>3, KeyFacts DEF LastRank, Ranks
        <5>2. Key(low) > target /\ Key(r) > target
          BY <1>4, <4>3, <5>1
        <5>3. column = "id"
          BY <1>2, <1>8, <3>2, <5>2
        <5> QED BY <1>8, <5>2, <5>3 DEF Matches
      <4> QED BY <1>7, <4>1, <4>2, <4>3
    <3> QED BY <1>1, <1>6, <3>3 DEF NotFoundIsAbsent, Matches
  <2> QED BY <1>1, <1>11, <2>1, <2>2
        DEF SearchInv, Sorted, NothingDiscarded, MedianPlace, FoundIsRight
<1> QED BY <1>10, <1>11 DEF Finish

(* The loop invariant of both searches, in every behaviour.                *)
THEOREM SearchCorrect == SearchSpec => []SearchInv
<1>1. SearchInv /\ [SearchNext]_<<keys, searchVars>> => SearchInv'
  <2> SUFFICES ASSUME SearchInv, [SearchNext]_<<keys, searchVars>> PROVE SearchInv'
    OBVIOUS
  <2>1. CASE UNCHANGED <<keys, searchVars>>
    BY <2>1 DEF searchVars, SearchInv, SearchTypeOK, Sorted, NothingDiscarded, MedianPlace,
           FoundIsRight, NotFoundIsAbsent, Ranks, Key, Matches, LastRank
  <2>2. CASE (\E c \in {"id", "timestamp"}, t \in Targets : Call(c, t)) /\ keys' = keys
    BY <2>2, CallStartsInv DEF SearchInv, Sorted
  <2> QED BY <2>1, <2>2, ProbeKeepsInv, FinishKeepsInv DEF SearchNext
<1> QED BY <1>1, SearchInvInit, PTL DEF SearchSpec

(* searchMessageId and searchTimestamp of the file provider, and their     *)
(* in-memory copies, never return a wrong row, whatever the index and the  *)
(* target.                                                                 *)
THEOREM SearchSound == SearchSpec => []FoundIsRight
<1>1. SearchInv => FoundIsRight
  BY DEF SearchInv
<1> QED BY <1>1, SearchCorrect, PTL

(* The loop never discards the row asked for and reads no row outside the  *)
(* index.                                                                  *)
THEOREM SearchInRange == SearchSpec => [](SearchTypeOK /\ NothingDiscarded)
<1>1. SearchInv => SearchTypeOK /\ NothingDiscarded
  BY DEF SearchInv
<1> QED BY <1>1, SearchCorrect, PTL

(* The search of the file provider reports "message id not found" only if  *)
(* no row matches.                                                         *)
THEOREM SearchComplete ==
  ASSUME Provider = "JSONFile" PROVE SearchSpec => []NotFoundIsAbsent
<1>1. SearchInv => NotFoundIsAbsent
  BY DEF SearchInv
<1> QED BY <1>1, SearchCorrect, PTL
=============================================================================
