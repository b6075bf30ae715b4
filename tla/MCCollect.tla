----------------------------- MODULE MCCollect -----------------------------
(***************************************************************************)
(* Instances of Collect for TLC.                                           *)
(***************************************************************************)
EXTENDS Collect, TLC

Symmetry == Permutations(Workers)

=============================================================================
