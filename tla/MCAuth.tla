------------------------------- MODULE MCAuth -------------------------------
(***************************************************************************)
(* Instances of Auth for TLC: two conversations of the messaging process   *)
(* and commands beside them.                                               *)
(***************************************************************************)
EXTENDS Auth, TLC

Symmetry == Permutations(Callers) \cup Permutations(Commands) \cup Permutations(Registrations)
=============================================================================
