---------------------------- MODULE MCIndexSearch ----------------------------
(* All small indexes, with equal keys and keys that are missing.           *)
EXTENDS IndexSearch

CONSTANTS MaxRows, MaxKey  \* bounds: rows of the index, values of a key

Keys == 1..MaxKey
MCTargets == 0..(MaxKey + 1)
MCKeySeqs ==
  {s \in UNION {[1..n -> Keys] : n \in 1..MaxRows} : NonDecreasing(s)}
MCKeySeqsOrEmpty == MCKeySeqs \cup {<<>>}
=============================================================================
