----------------------------- MODULE MCCondVar -----------------------------
(***************************************************************************)
(* CondVar for TLC.  With a modulus of 2 the counter wraps at every second *)
(* pulse and one pulse may fall into a consumer's window.  The threads are *)
(* two of each kind: the one that is woken and the one that is not, and    *)
(* two pulses that race.                                                   *)
(***************************************************************************)
EXTENDS CondVar
============================================================================
