------------------------------- MODULE MCLfs -------------------------------
(***************************************************************************)
(* An instance of Lfs for TLC: an empty object, a small one and one in two *)
(* ranges that is uploaded in parts.                                       *)
(***************************************************************************)
EXTENDS Lfs, TLC

MCSpans == [empty |-> 0, small |-> 1, large |-> 2]

Symmetry == Permutations(Uploaders) \cup Permutations(Workers)

=============================================================================
