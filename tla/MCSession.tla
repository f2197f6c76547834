----------------------------- MODULE MCSession -----------------------------
(***************************************************************************)
(* Instance of SessionService for TLC: two goroutines and two objects, so  *)
(* that a session can be closed under a caller while its successor opens.  *)
(***************************************************************************)
EXTENDS SessionService, TLC

CONSTANTS c1, c2, s1, s2

MCSymmetry == Permutations(Objects) \cup Permutations(Callers)

\* What a legacy log says is never in question, only whether it is there.
MCMaxEvents == [i \in Ids |-> IF i = Key THEN 2 ELSE 0]
=============================================================================
