----------------------------- MODULE IndexSearch -----------------------------
(***************************************************************************)
(* The search of a message in the index of a stream, by identifier         *)
(* (AT_MESSAGE_ID, AFTER_MESSAGE_ID) or by creation date (AT_TIMESTAMP):   *)
(* the dichotomy of jsonfileprovider/streamindexfile.go, one step per      *)
(* iteration of the loop, and its copy in                                  *)
(* inmemoryprovider/inmemorystream.go, which ends on another rank.  The    *)
(* index is the sequence of the searched column, by rank.  Ranks start at  *)
(* 0 as in the code: the key of rank r is keys[r + 1].                     *)
(***************************************************************************)
EXTENDS Integers, Sequences

CONSTANTS
  Provider,  \* "JSONFile" or "InMemory"
  KeySeqs,   \* the indexes considered
  Targets    \* identifiers or dates asked for

\* The searched column never decreases with the rank: "assume message id values are
\* always increasing as the index rank increase".
NonDecreasing(s) == \A i, j \in 1..Len(s) : i <= j => s[i] <= s[j]

ASSUME SearchAssumption ==
  /\ Provider \in {"JSONFile", "InMemory"}
  /\ \A s \in KeySeqs : s \in Seq(Int) /\ NonDecreasing(s)
  /\ Targets \subseteq Int

VARIABLES
  keys,    \* the searched column of the index
  column,  \* "id" or "timestamp"
  target,  \* messageId or timestampUnixNano
  low,     \* lowIndexRank
  high,    \* highIndexRank
  median,  \* nextMedianIndexRank
  pc,      \* "idle", "loop", or the outcome: "found", "notfound", "panic"
  rank     \* rank of the row found

searchVars == <<column, target, low, high, median, pc, rank>>

SearchInit ==
  /\ keys \in KeySeqs
  /\ column = "id" /\ target = 0
  /\ low = 0 /\ high = 0 /\ median = 0
  /\ pc = "idle" /\ rank = 0

Key(r) == keys[r + 1]

-----------------------------------------------------------------------------
(* Faulty forms of the operators below, not used by the specification.     *)

AnyRow(k) == TRUE
StayAtMedian(m) == m
FinalAtMedian == median

-----------------------------------------------------------------------------
\* The row read last answers the request.
Matches(k) == IF column = "id" THEN k = target ELSE k >= target

\* On an empty index the file provider returns no row and no error, and its caller
\* reads the row; the in-memory provider returns an error.
EmptyOutcome == IF Provider = "JSONFile" THEN "panic" ELSE "notfound"

LastRank == Len(keys) - 1

Call(c, t) ==
  /\ pc \notin {"loop", "panic"}
  /\ column' = c /\ target' = t
  /\ low' = 0 /\ median' = 0 /\ rank' = 0
  /\ IF keys = <<>>
     THEN pc' = EmptyOutcome /\ high' = 0
     ELSE pc' = "loop" /\ high' = LastRank

\* The new low rank after a row with a smaller key.
AboveMedian(m) == m + 1

InLoop == low < high

Probe ==
  /\ pc = "loop" /\ InLoop
  /\ LET m == (low + high) \div 2 IN
       /\ median' = m
       /\ \/ /\ Key(m) = target
             /\ pc' = "found" /\ rank' = m
             /\ UNCHANGED <<low, high>>
          \/ /\ Key(m) > target
             /\ high' = m
             /\ UNCHANGED <<pc, rank, low>>
          \/ /\ Key(m) < target
             /\ low' = AboveMedian(m)
             /\ UNCHANGED <<pc, rank, high>>
  /\ UNCHANGED <<column, target>>

\* The row read after the loop.
FinalRank == IF Provider = "JSONFile" THEN low ELSE median

Finish ==
  /\ pc = "loop" /\ ~InLoop
  /\ IF Matches(Key(FinalRank))
     THEN pc' = "found" /\ rank' = FinalRank
     ELSE pc' = "notfound" /\ UNCHANGED rank
  /\ UNCHANGED <<column, target, low, high, median>>

\* The index does not change during a search.
SearchNext ==
  \/ (\E c \in {"id", "timestamp"}, t \in Targets : Call(c, t)) /\ UNCHANGED keys
  \/ Probe /\ UNCHANGED keys
  \/ Finish /\ UNCHANGED keys

SearchSpec == SearchInit /\ [][SearchNext]_<<keys, searchVars>>

\* A call that began runs to its end; callers are not obliged to call.
FairSearchSpec == SearchSpec /\ WF_<<keys, searchVars>>((Probe \/ Finish) /\ UNCHANGED keys)

-----------------------------------------------------------------------------
Ranks == 0..(Len(keys) - 1)

(* The ranks and the state of the search stay in range: no row is read     *)
(* outside the index.                                                      *)
SearchTypeOK ==
  /\ keys \in Seq(Int)
  /\ column \in {"id", "timestamp"} /\ target \in Int
  /\ pc \in {"idle", "loop", "found", "notfound", "panic"}
  /\ low \in Nat /\ high \in Nat /\ median \in Nat /\ rank \in Nat
  /\ pc = "loop" => low \in Ranks /\ high \in Ranks /\ median \in Ranks
  /\ pc = "found" => rank \in Ranks

(* The loop of searchMessageId and searchTimestamp never discards the      *)
(* answer: rows below low are too small, rows from high on are too large,  *)
(* unless high is still the last rank.                                     *)
NothingDiscarded ==
  pc = "loop" =>
    /\ low <= high
    /\ \A r \in Ranks : r < low => Key(r) < target
    /\ \A r \in Ranks : r > high => Key(r) > target
    /\ high = LastRank \/ Key(high) > target

(* A row that is returned is the one asked for: the message with that      *)
(* identifier, or, for a date, a message of that date or of the first date *)
(* after it (with several messages of one date, not always the first).     *)
FoundIsRight ==
  pc = "found" =>
    /\ column = "id" => Key(rank) = target
    /\ column = "timestamp" => /\ Key(rank) >= target
                               /\ \A r \in Ranks : Key(r) >= target => Key(rank) <= Key(r)

(* "if no result found then return an error": the error is returned only   *)
(* if no row matches (inmemorystream.go:107-108, streamindexfile.go:343).  *)
NotFoundIsAbsent ==
  pc = "notfound" => \A r \in Ranks : ~Matches(Key(r))

(* Every search in an index that has rows ends with a row or an error.     *)
SearchEnds == pc = "loop" ~> pc \in {"found", "notfound"}
=============================================================================
