-------------------------- MODULE MCStreamRecovery --------------------------
(* Small instances of StreamRecovery; the cfg files give the constants.    *)
EXTENDS StreamRecovery, TLC

\* Clients are interchangeable, and so are closers.
Symmetry == Permutations(Clients) \cup Permutations(Closers)
=============================================================================
