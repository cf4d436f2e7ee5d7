--------------------------- MODULE MCStreamIngest ---------------------------
(* Small instances of StreamIngest; the cfg files give the constants.      *)
EXTENDS StreamIngest, TLC

\* Clients are interchangeable, and so are closers.
Symmetry == Permutations(Clients) \cup Permutations(Closers)
=============================================================================
