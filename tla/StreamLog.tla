------------------------------ MODULE StreamLog ------------------------------
(***************************************************************************)
(* What a stream promises its clients, without channel, buffer, goroutine  *)
(* or files: identifiers are given out one after the other, an             *)
(* acknowledged identifier was given out and is acknowledged once, and the *)
(* readable records are a log to which records are only appended, in the   *)
(* order of their identifiers.                                             *)
(***************************************************************************)
EXTENDS Integers, Sequences

CONSTANT ExactlyOnce  \* no record is ever stored again

VARIABLES
  accepted,  \* last identifier given out
  acked,     \* identifiers acknowledged to clients
  log        \* readable records

logVars == <<accepted, acked, log>>

LogInit == accepted = 0 /\ acked = {} /\ log = <<>>

Accept ==
  /\ accepted' = accepted + 1
  /\ UNCHANGED <<acked, log>>

Acknowledge ==
  /\ \E ids \in SUBSET (1..accepted) :
       ids \cap acked = {} /\ acked' = acked \cup ids
  /\ UNCHANGED <<accepted, log>>

LastStored == IF log = <<>> THEN 0 ELSE log[Len(log)]

\* The next record, or, where records may be stored again, one that is already there.
Store(id) ==
  /\ IF ExactlyOnce THEN id = Len(log) + 1 ELSE id <= LastStored + 1
  /\ log' = Append(log, id)
  /\ UNCHANGED <<accepted, acked>>

LogNext == Accept \/ Acknowledge \/ \E id \in 1..accepted : Store(id)

LogSpec == LogInit /\ [][LogNext]_logVars
=============================================================================
