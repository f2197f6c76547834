----------------------------- MODULE MCGateway -----------------------------
(***************************************************************************)
(* An instance of Gateway for TLC: one chat with two tasks, an approval    *)
(* reply and a message without mention.                                    *)
(***************************************************************************)
EXTENDS Gateway

CONSTANTS a1, a2, approve, noise, A

MCRouteOf == [m \in Messages |-> A]
=============================================================================
