----------------------------- MODULE MCExecutor -----------------------------
(***************************************************************************)
(* Instance of Executor for TLC: a bash call of the agent or one of its    *)
(* subagent, under every command line.                                     *)
(***************************************************************************)
EXTENDS Executor

\* Calls share only what startup chose, so they are looked at one at a time: the
\* other has not begun, or has returned without starting anything.
Out(r) == r.pc \in {"idle", "returned"} /\ r.proc = "none"
OneCall == \A c, d \in Calls : ~Out(call[c]) /\ ~Out(call[d]) => c = d
=============================================================================
