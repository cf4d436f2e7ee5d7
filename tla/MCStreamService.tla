--------------------------- MODULE MCStreamService ---------------------------
(* A small instance of StreamService; the cfg file gives the constants.    *)
EXTENDS StreamService
=============================================================================
