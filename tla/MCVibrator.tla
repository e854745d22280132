----------------------------- MODULE MCVibrator -----------------------------
(***************************************************************************)
(* Vibrator for TLC.  A failed ImmVibeTerminate leaves a handle behind;    *)
(* with four of them there is one to open after each of three such         *)
(* failures.  A service without a handle left refuses to open one.         *)
(***************************************************************************)
EXTENDS Vibrator
=============================================================================
