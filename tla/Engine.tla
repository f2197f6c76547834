------------------------------- MODULE Engine -------------------------------
(***************************************************************************)
(* The turn loop of one session: internal/engine (loop.go, context.go,     *)
(* reminder.go), with the user message that starts a run                   *)
(* (gateway/conversation.go) and the session it appends to                 *)
(* (context/session.go).                                                   *)
(*                                                                         *)
(* The model and the tools answer anything at any time. A run may be       *)
(* cancelled, the store may refuse an append, and the process may stop     *)
(* between any two steps; what DurableLog says of a stop holds: what was   *)
(* appended stays, and a batch being appended may be kept in part.         *)
(***************************************************************************)
EXTENDS ContextBuilder

CONSTANTS Actions,        \* fingerprints of a tool's name and arguments
          Replies,        \* the call IDs a reply may carry, in order
          RetryBudget,    \* the budget for three quarters of the window
          EnableThinking,
          MaxMessages     \* bound: no message or turn starts beyond it

ASSUME EngineAssumption ==
    /\ RetryBudget \in Nat /\ RetryBudget <= Budget /\ MaxMessages \in Nat
    /\ EnableThinking \in BOOLEAN
    /\ Actions # {} /\ <<>> \in Replies
    /\ \A calls \in Replies : calls \in Seq(ToSet(calls)) /\ NoCall \notin ToSet(calls)

\* history, the session, is ContextBuilder's.
VARIABLES pc,           \* idle, or where Run is
          cancelled,    \* the context of the runtime is done
          local,        \* what runTurn holds in its own variables
          failures,     \* ReminderInjector.consecutiveFailures
          dispatched,   \* ghost: for each batch of tools started, its reply
          streak,       \* ghost: the failures of one action in a row, to 3
          interrupted   \* ghost: a run was cut short, or IDs were repeated

vars == <<history, pc, cancelled, local, failures, dispatched, streak, interrupted>>

Message(kind, answers, calls) ==
    [kind |-> kind, answers |-> answers, calls |-> calls, tokens |-> 1]
Request == Message("request", NoCall, <<>>)
Reminder == Message("reminder", NoCall, <<>>)
Reply(calls) == Message("reply", NoCall, calls)

\* mutant: of parallel calls only the first result is kept.
ObservationOfFirst(calls) == <<Message("result", calls[1], <<>>)>>
Observations(calls) == [j \in DOMAIN calls |-> Message("result", calls[j], <<>>)]

\* view is what the provider is sent, thought the reply of the thinking phase
\* (never saved), action the fingerprint of the first call and outcome its
\* result, running the calls whose goroutine has not finished.
Fresh == [view |-> <<>>, thought |-> <<>>, retried |-> FALSE, calls |-> <<>>,
          action |-> CHOOSE x \in Actions : TRUE, running |-> {}, outcome |-> "none"]

NoFailures == [x \in Actions |-> 0]

Init == /\ history = <<>>
        /\ pc = "idle"
        /\ cancelled = FALSE
        /\ local = Fresh
        /\ failures = NoFailures
        /\ dispatched = <<>>
        /\ streak = [action |-> Fresh.action, n |-> 0]
        /\ interrupted = FALSE

ghosts == <<dispatched, streak, interrupted>>
Goto(place) == pc' = place
Return == Goto("idle") /\ local' = Fresh
Memory == history \o local.thought
Room(n) == Len(history) + n <= MaxMessages

-----------------------------------------------------------------------------
(* Appends.                                                                 *)

\* mutant: a reminder is sent once.
DueOnce(n) == n = 3

\* CheckAndInject: the count after this turn, and whether it calls for a reminder.
Due(n) == n >= 3
Counted == IF local.outcome = "error" THEN failures[local.action] + 1 ELSE 0

\* The messages the session is being given at pc.
InFlight == CASE pc = "save" -> <<Reply(local.calls)>>
              [] pc = "observe" /\ local.running = {} -> Observations(local.calls)
              [] pc = "remind" /\ Due(Counted) -> <<Reminder>>
              [] OTHER -> <<>>

\* Session.Append: all of them, unless the run was cancelled.
Commit(next) == /\ ~cancelled
                /\ history' = history \o InFlight
                /\ Goto(next)

-----------------------------------------------------------------------------
(* The steps of Run.                                                        *)

\* handleMessage: the user's message is appended and Run called.
UserMessage ==
    /\ pc = "idle" /\ ~cancelled /\ Room(1)
    /\ history' = Append(history, Request)
    /\ Goto("turn")
    /\ UNCHANGED <<cancelled, local, failures, ghosts>>

\* mutant: the error of buildContext is ignored.
SendUnchecked(built, thought, place) ==
    Goto(place) /\ local' = [Fresh EXCEPT !.view = built.messages, !.thought = thought]

\* What a phase of the turn does with the result of buildContext.
Send(built, thought, place) ==
    IF built.ok
    THEN Goto(place) /\ local' = [Fresh EXCEPT !.view = built.messages, !.thought = thought]
    ELSE Return

\* mutant: only the most recent messages are given to the builder.
TurnRecent ==
    /\ pc = "turn"
    /\ \/ cancelled /\ Return
       \/ /\ ~cancelled /\ Room(4)
          /\ LET recent == SubSeq(history, IF Len(history) > 4 THEN Len(history) - 3 ELSE 1, Len(history))
             IN Send(Build(SystemTokens, recent, Budget), <<>>,
                     IF EnableThinking THEN "think" ELSE "act")
    /\ UNCHANGED <<history, cancelled, failures, ghosts>>

\* The loop of Run: its check of the context, and the view of the turn.
Turn ==
    /\ pc = "turn"
    /\ \/ cancelled /\ Return
       \/ /\ ~cancelled /\ Room(4)
          /\ Send(Build(SystemTokens, history, Budget), <<>>,
                  IF EnableThinking THEN "think" ELSE "act")
    /\ UNCHANGED <<history, cancelled, failures, ghosts>>

\* The thinking phase ends, with or without a thought to add to the view.
Think ==
    /\ pc = "think"
    /\ \E thought \in {<<>>, <<Reply(<<>>)>>} :
          Send(Build(SystemTokens, history \o thought, Budget), thought, "act")
    /\ UNCHANGED <<history, cancelled, failures, ghosts>>

\* mutant: the whole history is sent again.
ContextLimitUnbuilt ==
    /\ pc \in {"think", "act"} /\ ~local.retried
    /\ local' = [local EXCEPT !.view = Memory, !.retried = TRUE]
    /\ UNCHANGED <<history, pc, cancelled, failures, ghosts>>

\* generate: the provider refuses the view as too long, which is rebuilt for a
\* smaller window and sent once more.
ContextLimit ==
    /\ pc \in {"think", "act"} /\ ~local.retried
    /\ LET built == Build(SystemTokens, Memory, RetryBudget) IN
       IF built.ok /\ ~cancelled
       THEN local' = [local EXCEPT !.view = built.messages, !.retried = TRUE] /\ UNCHANGED pc
       ELSE Return
    /\ UNCHANGED <<history, cancelled, failures, ghosts>>

\* generate: any other error, a second refusal, no response, or cancelled.
ProviderFails ==
    /\ pc \in {"think", "act"}
    /\ Return
    /\ UNCHANGED <<history, cancelled, failures, ghosts>>

\* The action phase ends. The providers refuse an empty ID, not a repeated one.
Respond ==
    /\ pc = "act"
    /\ \E calls \in Replies, action \in Actions :
          /\ calls = <<>> => action = Fresh.action
          /\ local' = [Fresh EXCEPT !.calls = calls, !.action = action]
    /\ Goto("save")
    /\ UNCHANGED <<history, cancelled, failures, ghosts>>

\* mutant: the reply is saved with its results, not before the tools run.
SaveLater ==
    /\ pc = "save" /\ ~cancelled /\ Goto("dispatch")
    /\ UNCHANGED <<history, cancelled, local, failures, ghosts>>

Save ==
    /\ pc = "save" /\ Commit("dispatch")
    /\ interrupted' = (interrupted \/ ~IsInjective(local.calls))
    /\ UNCHANGED <<cancelled, local, failures, dispatched, streak>>

\* Run is over if there are no calls or it was cancelled; otherwise a
\* goroutine is started for each.
Dispatch ==
    /\ pc = "dispatch"
    /\ IF cancelled \/ local.calls = <<>>
       THEN Return /\ UNCHANGED dispatched
       ELSE /\ local' = [local EXCEPT !.running = DOMAIN local.calls]
            /\ dispatched' = Append(dispatched, Len(history))
            /\ Goto("observe")
    /\ UNCHANGED <<history, cancelled, failures, streak, interrupted>>

\* mutant: a goroutine that finds the context done forgets its wg.Done.
FinishUncancelled(j) ==
    /\ pc = "observe" /\ ~cancelled /\ j \in local.running
    /\ \E outcome \in IF j = 1 THEN {"ok", "error"} ELSE {local.outcome} :
          local' = [local EXCEPT !.running = @ \ {j}, !.outcome = outcome]
    /\ UNCHANGED <<history, pc, cancelled, failures, ghosts>>

\* Tool j ends. Only the first call is kept for the reminder.
Finish(j) ==
    /\ pc = "observe" /\ j \in local.running
    /\ \E outcome \in IF j = 1 THEN {"ok", "error"} ELSE {local.outcome} :
          local' = [local EXCEPT !.running = @ \ {j}, !.outcome = outcome]
    /\ UNCHANGED <<history, pc, cancelled, failures, ghosts>>

\* wg.Wait, then all the observations in one append.
Observe ==
    /\ pc = "observe" /\ local.running = {}
    /\ Commit("remind")
    /\ UNCHANGED <<cancelled, local, failures, ghosts>>

\* CheckAndInject counts before the reminder is appended, which may fail.
Count ==
    /\ failures' = IF local.outcome = "error"
                   THEN [failures EXCEPT ![local.action] = Counted]
                   ELSE NoFailures
    /\ streak' = IF local.outcome # "error" THEN [streak EXCEPT !.n = 0]
                 ELSE IF local.action # streak.action THEN [action |-> local.action, n |-> 1]
                 ELSE [streak EXCEPT !.n = IF @ < 3 THEN @ + 1 ELSE @]

Remind ==
    /\ pc = "remind"
    /\ Count
    /\ \/ InFlight = <<>> /\ Goto("turn") /\ local' = Fresh /\ UNCHANGED history
       \/ InFlight # <<>> /\ Commit("turn") /\ local' = Fresh
       \/ InFlight # <<>> /\ Return /\ UNCHANGED history
    /\ UNCHANGED <<cancelled, dispatched, interrupted>>

\* Session.Append returns an error: cancelled, or the store's.
AppendFails ==
    /\ pc \in {"save", "observe"} /\ local.running = {}
    /\ Return
    /\ interrupted' = TRUE
    /\ UNCHANGED <<history, cancelled, failures, dispatched, streak>>

-----------------------------------------------------------------------------
Cancel ==
    /\ ~cancelled
    /\ cancelled' = TRUE
    /\ interrupted' = TRUE
    /\ UNCHANGED <<history, pc, local, failures, dispatched, streak>>

\* The process stops, or the runtime is closed when idle; the session is
\* resumed later by a new engine.
Restart ==
    /\ \E n \in 0 .. Len(InFlight) : history' = history \o SubSeq(InFlight, 1, n)
    /\ Return
    /\ cancelled' = FALSE
    /\ failures' = NoFailures
    /\ streak' = [action |-> Fresh.action, n |-> 0]
    /\ interrupted' = (interrupted \/ pc # "idle")
    /\ UNCHANGED dispatched

Tools == \E j \in DOMAIN local.calls : Finish(j)

\* Everything Run does by itself.
Run == \/ Turn \/ Think \/ ContextLimit \/ ProviderFails \/ Respond \/ Save
       \/ Dispatch \/ Tools \/ Observe \/ Remind \/ AppendFails

Next == UserMessage \/ Run \/ Cancel \/ Restart

SafeSpec == Init /\ [][Next]_vars

\* Once the context is done every call that waits returns: the provider's
\* request and the tools were given it, and the next check of it ends Run.
Stopping == /\ cancelled
            /\ Turn \/ ProviderFails \/ Dispatch \/ Tools \/ Remind \/ AppendFails

Spec == SafeSpec /\ WF_vars(Stopping)

-----------------------------------------------------------------------------
(* Properties.                                                              *)

\* What the provider is sent is a complete end of the conversation: no call
\* without its result, nothing missing in between, and not more than fits;
\* whatever crashes and cancellations have left in the session.
SentIsLegal ==
    pc \in {"think", "act"} =>
        /\ Legal(local.view)
        /\ IsSuffix(local.view, Memory)
        /\ local.view # <<>>
        /\ SystemTokens + EstimateMessages(local.view)
               <= IF local.retried THEN RetryBudget ELSE Budget

\* A session on which every run went through is never left with a broken tool
\* chain, whatever the tools returned and in whatever order.
CompleteUnlessInterrupted ==
    pc \in {"idle", "turn"} /\ ~interrupted => Legal(history)

\* Once a chain is broken the model is not asked any more: every reply in the
\* session was made for a legal conversation, so nothing runs on a guess.
DamageIsFinal ==
    \A i \in DOMAIN history :
        history[i].kind = "reply" => Legal(SubSeq(history, 1, i - 1))

\* No tool runs before the reply that asked for it is in the session, and no
\* reply's tools are run twice, not even by the engine that resumes it.
ToolsRunOnce ==
    /\ IsInjective(dispatched)
    /\ \A k \in DOMAIN dispatched :
          /\ history[dispatched[k]].kind = "reply"
          /\ history[dispatched[k]].calls # <<>>

\* A third failure in a row of the same first call is never followed by
\* another turn without a reminder.
ReminderNotMissed ==
    pc = "turn" /\ streak.n = 3 /\ Last(history).kind = "result" => FALSE

\* The messages of a session.
IDs == {NoCall} \cup UNION {ToSet(calls) : calls \in Replies}
Messages == [kind : {"request", "reminder", "reply", "result"}, answers : IDs,
             calls : Replies, tokens : {1}]

\* The types of the state.
Typed ==
    /\ pc \in {"idle", "turn", "think", "act", "save", "dispatch", "observe", "remind"}
    /\ history \in Seq(Messages)
    /\ local = [view |-> local.view, thought |-> local.thought, retried |-> local.retried,
                calls |-> local.calls, action |-> local.action,
                running |-> local.running, outcome |-> local.outcome]
    /\ local.calls \in Replies /\ local.action \in Actions
    /\ failures \in [Actions -> Nat]
    /\ streak \in [action : Actions, n : 0 .. 3]

\* The counter of an action is not behind the streak that ends with it.
StreakCounted ==
    /\ streak.n <= failures[streak.action]
    /\ pc = "turn" /\ streak.n = 3 => Last(history).kind # "result"

\* Before the tools of a reply are started it is the last message, and new.
DispatchRecorded ==
    /\ dispatched \in Seq(1 .. Len(history))
    /\ ToolsRunOnce
    /\ pc = "dispatch" => /\ history # <<>> /\ Last(history) = Reply(local.calls)
                          /\ \A k \in DOMAIN dispatched : dispatched[k] # Len(history)

\* Until a run is cut short the session has no broken chain, and when the
\* results of the reply being worked on are in, it has none again.
ChainsKept ==
    /\ cancelled => interrupted
    /\ interrupted \/ Legal(IF pc \in {"dispatch", "observe"}
                           THEN history \o Observations(local.calls) ELSE history)

\* A session begins with a request, and its results answer something.
SessionShaped ==
    /\ pc # "idle" => history # <<>>
    /\ history # <<>> => history[1].kind = "request"
    /\ \A i \in DOMAIN history : history[i].kind = "result" => history[i].answers # NoCall

\* view is the longest end of memory that begins at a request and fits.
IsLongestView(view, memory, budget) ==
    \E i \in Fitting(SystemTokens, memory, budget) :
        /\ \A j \in Fitting(SystemTokens, memory, budget) : i <= j
        /\ view = SubSeq(memory, i, Len(memory))

\* The model is asked, and its reply saved, on a legal conversation only.
ViewsSent ==
    /\ pc \in {"think", "act"} =>
          /\ local.thought \in {<<>>, <<Reply(<<>>)>>}
          /\ Legal(Memory)
          /\ IsLongestView(local.view, Memory, IF local.retried THEN RetryBudget ELSE Budget)
    /\ pc = "think" => local.thought = <<>>
    /\ pc \in {"think", "act", "save"} => Legal(history)

\* The inductive invariant behind the safety properties: types, counters, the
\* record of started tools, the tool chains of the session and what was sent of
\* it agree.
EngineInvariant ==
    /\ Typed /\ StreakCounted /\ DispatchRecorded
    /\ ChainsKept /\ SessionShaped /\ ViewsSent /\ DamageIsFinal

\* Index of the request being worked on.
Asked == SelectLastInSeq(history, LAMBDA m : m.kind = "request")
From(i) == SubSeq(Memory, i, Len(Memory))

\* Unless a reminder came after it, the whole turn since the user's request is
\* sent, however small the budget.
RequestIsAnchored ==
    pc \in {"think", "act"} /\ (\A i \in Asked .. Len(history) : history[i].kind # "reminder")
        => IsSuffix(From(Asked), local.view)

\* builder.go:122 of the request: "a hard anchor, never silently truncated".
CurrentRequestSent == pc \in {"think", "act"} => IsSuffix(From(Asked), local.view)

\* A cancelled run comes to an end.
CancelEnds == cancelled ~> (pc = "idle")
=============================================================================
