-------------------------- MODULE MCContextBuilder --------------------------
(***************************************************************************)
(* ContextBuilder on every history up to a length. A session file accepts  *)
(* any message (apply does not look at tool chains), so any sequence of    *)
(* messages may be found when a session is resumed.                        *)
(***************************************************************************)
EXTENDS ContextBuilder

CONSTANTS MaxHistory, a, b

Message(kind, answers, calls, tokens) ==
    [kind |-> kind, answers |-> answers, calls |-> calls, tokens |-> tokens]

Inputs ==
    {Message("request", NoCall, <<>>, n) : n \in {1, 2}}
        \cup {Message("reply", NoCall, c, 1) : c \in {<<>>, <<a>>, <<a, b>>, <<a, a>>}}
        \cup {Message("result", id, <<>>, n) : id \in {a, b}, n \in {1, 2}}

Init == history = <<>>

Grow == /\ Len(history) < MaxHistory
        /\ \E m \in Inputs : history' = Append(history, m)

Spec == Init /\ [][Grow]_history
=============================================================================
