-------------------------- MODULE MCStreamIterator --------------------------
(* Small instances of StreamIterator; the cfg files give the constants.    *)
EXTENDS StreamIterator
=============================================================================
