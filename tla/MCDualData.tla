----------------------------- MODULE MCDualData -----------------------------
(****************************************************************************)
(* LayoutUpgrade, and DualData in it, for TLC.  Two directory names make a  *)
(* move that can be cut in half, one file is moved or left behind; MaxBatch *)
(* bounds how often Android starts on missing data.                         *)
(****************************************************************************)
EXTENDS LayoutUpgrade, TLC

\* The names of the data directories are interchangeable.
Symmetry == Permutations(Names)
=============================================================================
