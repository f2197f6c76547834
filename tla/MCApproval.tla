---------------------------- MODULE MCApproval ----------------------------
(***************************************************************************)
(* Instance of Approval for TLC: two dangerous calls share an ID, a third  *)
(* has its own, and one call is harmless.                                  *)
(***************************************************************************)
EXTENDS Approval

CONSTANTS c1, c2, c3, harmless, k1, k2

MCKeyOf == [c \in Calls |-> IF c = c3 THEN k2 ELSE k1]
=============================================================================
