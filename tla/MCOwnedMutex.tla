---------------------------- MODULE MCOwnedMutex ----------------------------
(***************************************************************************)
(* OwnedMutex for TLC.  MaxCounter stands for the 2047 of the code; 1 is   *)
(* enough to nest a lock and to meet the overflow.                         *)
(***************************************************************************)
EXTENDS OwnedMutex, TLC

\* Threads are interchangeable; used only where no liveness is checked.
Symmetry == Permutations(Threads)
=============================================================================
