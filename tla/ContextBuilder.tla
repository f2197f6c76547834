--------------------------- MODULE ContextBuilder ---------------------------
(***************************************************************************)
(* Selection of the messages sent to the model: internal/context/builder.  *)
(* Pure operators on the messages of a session. A message is a record      *)
(*   kind    "request" and "reminder" (role user), "result" (role user     *)
(*           with a ToolCallID), "reply" (role assistant)                  *)
(*   answers its ToolCallID, or NoCall                                     *)
(*   calls   the IDs of its ToolCalls; an empty ID is NoCall               *)
(*   tokens  its estimate, after an oversized tool result was truncated    *)
(***************************************************************************)
EXTENDS Naturals, Sequences, SequencesExt

CONSTANTS NoCall,
          SystemTokens,   \* estimate of the system prompt
          Budget          \* input budget less the tool schemas

ASSUME BuilderAssumption == SystemTokens \in Nat /\ Budget \in Nat

VARIABLE history          \* the messages of the session

Role(m) == IF m.kind = "reply" THEN "assistant" ELSE "user"

EstimateMessages(msgs) ==
    LET sum[n \in 0 .. Len(msgs)] == IF n = 0 THEN 0 ELSE sum[n - 1] + msgs[n].tokens
    IN sum[Len(msgs)]

-----------------------------------------------------------------------------
(* units: one pass over the history; pending are the unanswered calls of    *)
(* the chain being read.                                                    *)

Start == [legal |-> TRUE, pending |-> {}, groups |-> <<>>]

ToLastGroup(groups, m) == Append(Front(groups), Append(Last(groups), m))

\* mutant: a result may answer any call.
AnswersAnything(m, pending) == m.answers # NoCall /\ Role(m) = "user" /\ m.calls = <<>>

\* r answers a pending call.
Answers(m, pending) == m.answers \in pending /\ Role(m) = "user" /\ m.calls = <<>>

\* m is an ordinary message or opens a chain.
Opens(m) ==
    /\ m.answers = NoCall
    /\ m.calls # <<>> =>
           Role(m) = "assistant" /\ NoCall \notin ToSet(m.calls) /\ IsInjective(m.calls)

Read(acc, m) ==
    IF acc.pending # {}
    THEN [legal   |-> acc.legal /\ Answers(m, acc.pending),
          pending |-> acc.pending \ {m.answers},
          groups  |-> ToLastGroup(acc.groups, m)]
    ELSE [legal   |-> acc.legal /\ Opens(m),
          pending |-> ToSet(m.calls),
          groups  |-> IF Role(m) = "user" \/ acc.groups = <<>>
                      THEN Append(acc.groups, <<m>>)
                      ELSE ToLastGroup(acc.groups, m)]

\* What has been read after each message.
Reading(messages) ==
    LET read[n \in 0 .. Len(messages)] ==
            IF n = 0 THEN Start ELSE Read(read[n - 1], messages[n])
    IN read

\* The groups, each a user turn with all that follows it, or ErrToolChain.
Units(messages) ==
    LET read == Reading(messages)[Len(messages)]
    IN [legal |-> read.legal /\ read.pending = {}, groups |-> read.groups]

-----------------------------------------------------------------------------
(* Build.                                                                   *)

\* mutant: a group that does not fit is skipped and older ones are tried.
TakeAny(groups, budget, acc, i) ==
    IF i \in acc.selected \/ acc.used + EstimateMessages(groups[i]) > budget THEN acc
    ELSE [acc EXCEPT !.used = @ + EstimateMessages(groups[i]), !.selected = @ \cup {i}]

\* One step of the loop from the newest group back to the oldest: stop at the
\* first that does not fit, and fail when that is the newest.
Take(groups, budget, acc, i) ==
    LET used == acc.used + EstimateMessages(groups[i]) IN
    IF acc.stopped \/ i \in acc.selected THEN acc
    ELSE IF used > budget
         THEN [used |-> acc.used, selected |-> acc.selected,
               stopped |-> TRUE, failed |-> (i = Len(groups))]
    ELSE [used |-> used, selected |-> acc.selected \cup {i},
          stopped |-> FALSE, failed |-> FALSE]

\* The latest user request is selected before anything else.
Anchored(groups, system) ==
    LET anchor == SelectLastInSeq(groups, LAMBDA g : Role(g[1]) = "user" /\ g[1].answers = NoCall)
    IN [used     |-> system + IF anchor = 0 THEN 0 ELSE EstimateMessages(groups[anchor]),
        selected |-> IF anchor = 0 THEN {} ELSE {anchor},
        stopped  |-> FALSE,
        failed   |-> FALSE]

\* The loop, after each of its steps.
Taking(groups, budget, anchored) ==
    LET taken[n \in 0 .. Len(groups)] ==
            IF n = 0 THEN anchored
            ELSE Take(groups, budget, taken[n - 1], Len(groups) + 1 - n)
    IN taken

\* What Build returns: an error (ok is FALSE) or the messages behind the
\* system prompt, whose estimate is system.
Build(system, messages, budget) ==
    LET units    == Units(messages)
        groups   == units.groups
        anchored == Anchored(groups, system)
        taken    == Taking(groups, budget, anchored)[Len(groups)]
    IN [ok       |-> /\ system <= budget
                     /\ budget > 0
                     /\ units.legal
                     /\ anchored.used <= budget
                     /\ ~taken.failed,
        messages |-> FlattenSeq([i \in 1 .. Len(groups) |->
                                    IF i \in taken.selected THEN groups[i] ELSE <<>>])]

-----------------------------------------------------------------------------
(* What the code above computes, said without its loops.                    *)

\* A message with calls is a reply, followed by exactly one result for each of
\* them, in any order.
Answered(messages, i) ==
    LET m == messages[i]
        n == Len(m.calls)
    IN m.calls # <<>> =>
         /\ Role(m) = "assistant" /\ m.answers = NoCall
         /\ NoCall \notin ToSet(m.calls) /\ IsInjective(m.calls)
         /\ i + n <= Len(messages)
         /\ {messages[j].answers : j \in i + 1 .. i + n} = ToSet(m.calls)
         /\ \A j \in i + 1 .. i + n : Role(messages[j]) = "user" /\ messages[j].calls = <<>>

\* A result belongs to a reply before it.
Wanted(messages, i) ==
    messages[i].answers # NoCall => \E k \in 1 .. i - 1 : i <= k + Len(messages[k].calls)

\* The tool chains of the history are complete, and there are no other results.
Legal(messages) == \A i \in DOMAIN messages : Answered(messages, i) /\ Wanted(messages, i)

\* Where a view of the history may begin: at a request, or at its beginning.
Beginnings(messages) ==
    {i \in DOMAIN messages : i = 1 \/ (Role(messages[i]) = "user" /\ messages[i].answers = NoCall)}

\* The beginnings from which everything fits.
Fitting(system, messages, budget) ==
    {i \in Beginnings(messages) :
        system + EstimateMessages(SubSeq(messages, i, Len(messages))) <= budget}

-----------------------------------------------------------------------------
(* Properties.                                                              *)

\* units accepts exactly the histories whose tool chains are complete, and
\* cuts them into groups without losing a message or splitting a chain.
UnitsAreChains ==
    LET units == Units(history) IN
    /\ units.legal = Legal(history)
    /\ units.legal =>
          /\ FlattenSeq(units.groups) = history
          /\ \A i \in DOMAIN units.groups : Legal(units.groups[i])

\* For every budget the selection is the longest view that begins at a request
\* and fits (so the newest turn is whole and nothing in between is missing), or
\* an error when the history is illegal or not even the newest turn fits.
BuildIsLongestView ==
    \A budget \in 0 .. Budget :
        LET built   == Build(SystemTokens, history, budget)
            fitting == Fitting(SystemTokens, history, budget)
        IN /\ built.ok = /\ Legal(history)
                         /\ budget >= SystemTokens /\ budget > 0
                         /\ history # <<>> => fitting # {}
           /\ built.ok => \/ history = <<>> /\ built.messages = <<>>
                          \/ \E i \in fitting :
                                /\ \A j \in fitting : i <= j
                                /\ built.messages = SubSeq(history, i, Len(history))
=============================================================================
