------------------------------ MODULE MCEngine ------------------------------
(***************************************************************************)
(* Instances of Engine: in chains, replies with two calls, good and with a *)
(* repeated ID; in loops, one call and two actions it may be.              *)
(***************************************************************************)
EXTENDS Engine

CONSTANTS a, b

ManyCalls == {<<>>, <<a>>, <<a, b>>, <<a, a>>}
OneCall == {<<>>, <<a>>}
=============================================================================
