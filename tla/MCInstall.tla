----------------------------- MODULE MCInstall -----------------------------
(***************************************************************************)
(* An instance of Install for TLC.                                         *)
(***************************************************************************)
EXTENDS Install

MCFiles == <<"pack", "idx">>
MCWals == <<"wal1", "wal2">>
MCSpans == [pack |-> 3, idx |-> 1, wal1 |-> 2, wal2 |-> 1]

=============================================================================
