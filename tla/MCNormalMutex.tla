--------------------------- MODULE MCNormalMutex ---------------------------
(***************************************************************************)
(* NormalMutex for TLC.  The specification has no unbounded counter, so    *)
(* the number of threads is the only bound: three give a holder, a sleeper *)
(* and a thread that barges in between them.                               *)
(***************************************************************************)
EXTENDS NormalMutex
============================================================================
