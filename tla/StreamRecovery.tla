--------------------------- MODULE StreamRecovery ---------------------------
(***************************************************************************)
(* A stream of the JSON file provider over several lives of the process.   *)
(* What survives is the data file, the index file and the meta info file   *)
(* (stream.json); the StreamInfo of the next life is the content of the    *)
(* meta info file (LoadStreamFromUUID), written only at the end of a       *)
(* successful StreamWriterFile.Write and never compared with the data      *)
(* file.  The process ends by Stream.Close followed by exit, or by a crash *)
(* between any two steps, the panic of a goroutine included.  What the     *)
(* operating system accepted is not lost by a crash of the process.        *)
(*                                                                         *)
(* A failed or interrupted write of a record may leave part of its line at *)
(* the end of the data file, opened with O_APPEND: the next line written   *)
(* continues it, and the reader cannot decode the result.                  *)
(***************************************************************************)
EXTENDS StreamIngest

CONSTANTS
  MaxRestarts,  \* bound: restarts after an orderly stop
  MaxCrashes    \* bound: crashes of the process

ASSUME RecoveryAssumption ==
  /\ MaxRestarts \in Nat
  /\ MaxCrashes \in Nat

VARIABLES
  fragment,  \* the data file ends with a line without end: "none" or "torn"
  garbled,   \* ranks in data of the lines that cannot be decoded
  restarts,
  crashes

fileVars     == <<fragment, garbled>>
recoveryVars == <<fileVars, restarts, crashes>>
allVars      == <<vars, recoveryVars>>

\* Nothing of an in-memory stream survives the process.
RecoveryInit ==
  /\ Init
  /\ Provider = "JSONFile"
  /\ fragment = "none" /\ garbled = {}
  /\ restarts = 0 /\ crashes = 0

-----------------------------------------------------------------------------
(* Faulty forms, as in StreamIngest.                                       *)

ReloadNothing == [ingested |-> NoMessages, readable |-> NoMessages]
ReloadReadableAhead ==
  [ingested |-> meta.ingested,
   readable |-> [cpt |-> meta.ingested.cpt, first |-> 1, last |-> meta.ingested.last]]

FragmentNotEnded ==
  /\ garbled' = IF data' # data /\ fragment = "torn" THEN garbled \cup {Len(data')} ELSE garbled
  /\ fragment' \in IF run = "record" /\ faults' # faults THEN {fragment, "torn"} ELSE {fragment}

-----------------------------------------------------------------------------
WritingRecord == run = "record" /\ wpos < Len(buffer)

\* The line appended to the data file continues the fragment, if there is one.
DataFile ==
  /\ garbled' = IF data' # data /\ fragment = "torn" THEN garbled \cup {Len(data')} ELSE garbled
  /\ fragment' \in IF data' # data THEN {"none"}
                   ELSE IF WritingRecord /\ faults' # faults THEN {fragment, "torn"}
                   ELSE {fragment}

\* A step of StreamIngest in the current life of the process.
Live ==
  /\ Next
  /\ DataFile
  /\ UNCHANGED <<restarts, crashes>>

\* LoadStreamFromUUID: the StreamInfo is the content of the meta info file.
Reloaded == meta

\* A new process loads the stream; clients and closers of the former are gone.
Reload ==
  /\ state' = "NONE" /\ done' = "open" /\ process' = "alive"
  /\ mu' = Free
  /\ pc' = [c \in Clients |-> "idle"]
  /\ left' = [c \in Clients |-> 0]
  /\ got' = [c \in Clients |-> {}]
  /\ cpc' = [k \in Closers |-> "idle"]
  /\ channel' = <<>> /\ buffer' = <<>>
  /\ run' = "off" /\ after' = "none" /\ timer' = "nil" /\ wpos' = 0
  /\ ingested' = Reloaded.ingested
  /\ readable' = Reloaded.readable
  /\ UNCHANGED <<acked, requests, data, index, meta, faults, garbled>>

\* The shutdown closed the stream, the process exited and is started again.
Restart ==
  /\ Alive /\ \E k \in Closers : cpc[k] = "closed"
  /\ restarts < MaxRestarts
  /\ restarts' = restarts + 1
  /\ Reload
  /\ UNCHANGED <<fragment, crashes>>

\* The process is killed or panicked, possibly while a record was written.
Crash ==
  /\ crashes < MaxCrashes
  /\ crashes' = crashes + 1
  /\ Reload
  /\ fragment' \in IF WritingRecord THEN {fragment, "torn"} ELSE {fragment}
  /\ UNCHANGED restarts

RecoveryNext == Live \/ Restart \/ Crash

RecoverySpec == RecoveryInit /\ [][RecoveryNext]_allVars

-----------------------------------------------------------------------------
Stored == {data[i] : i \in 1..Len(data)}

(* Across crashes and restarts the info in memory and in the meta info     *)
(* file never counts more messages than the data file has lines, the last  *)
(* message announced is in the data file, and the next identifier is       *)
(* greater than every identifier announced as readable.                    *)
AnnouncedIsStored ==
  \A info \in {meta, [ingested |-> ingested, readable |-> readable]} :
    /\ info.readable.cpt <= Len(data)
    /\ info.readable.cpt > 0 => info.readable.last \in Stored
    /\ info.readable.last <= info.ingested.last

(* Orderly stops store no identifier twice and none out of order: without  *)
(* crash and failed write the identifiers in the data file increase        *)
(* strictly over all the lives of the process, although Close skips the    *)
(* save of the meta info file when the buffer is empty.  This is about     *)
(* stored records.  An acknowledged message that Close leaves in the       *)
(* channel is lost, and when the buffer was empty its identifier is given  *)
(* and acknowledged a second time after the restart.                       *)
IncreasingAfterOrderlyStops ==
  crashes = 0 /\ faults = 0 =>
    \A i, j \in 1..Len(data) : i < j => data[i] < data[j]

(* A write that stops in the middle of a line damages one record and no    *)
(* more: the retry, or the next life, continues the fragment and makes one *)
(* line that cannot be decoded, and the lines after it are whole again.    *)
DamageBounded ==
  Cardinality(garbled) + (IF fragment = "torn" THEN 1 ELSE 0) <= faults + crashes
=============================================================================
