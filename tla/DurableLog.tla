----------------------------- MODULE DurableLog -----------------------------
(***************************************************************************)
(* What a session store promises for one session: an append-only log of    *)
(* events. It grows only at its end, an event enters it once, and what has *)
(* been acknowledged stays until the session is deleted. A crash may leave *)
(* events in the log that nobody acknowledged, and a power failure may     *)
(* change what follows the last acknowledged event.                        *)
(***************************************************************************)
EXTENDS Sequences, SequencesExt

CONSTANT None

VARIABLES log,   \* the committed events, or None when there is no session
          acked  \* events whose Append returned without an error

Create == log = None /\ log' # None /\ acked' = {}

Delete == log # None /\ log' = None /\ acked' = {}

Extend == /\ log # None
          /\ log' # None
          /\ IsPrefix(log, log')
          /\ IsInjective(log')
          /\ acked \subseteq acked'
          /\ acked' \subseteq acked \cup ToSet(log')

Lose == /\ log # None
        /\ log' # None
        /\ \E n \in 0 .. Len(log) : /\ acked \subseteq ToSet(SubSeq(log, 1, n))
                                  /\ IsPrefix(SubSeq(log, 1, n), log')
        /\ IsInjective(log')
        /\ acked' = acked

Init == log = None /\ acked = {}

Spec == Init /\ [][Create \/ Delete \/ Extend \/ Lose]_<<log, acked>>
=============================================================================
