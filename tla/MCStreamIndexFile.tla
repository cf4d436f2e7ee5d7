-------------------------- MODULE MCStreamIndexFile --------------------------
(* Small instances of StreamIndexFile; the cfg files give the constants.   *)
EXTENDS StreamIndexFile
=============================================================================
