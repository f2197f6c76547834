------------------------------ MODULE Channel ------------------------------
(***************************************************************************)
(* Channels that fail and come back: gateway/supervisor.go, Gateway.Run,   *)
(* the long polling of telegram/adapter.go with the errors of              *)
(* telegram/client.go, and the connection of feishu/adapter.go.            *)
(*                                                                         *)
(* Telegram hands out updates in order and drops those below the offset of *)
(* a getUpdates; the adapter moves its offset past an update only when     *)
(* Gateway.Receive took it. Of the gateway there is one chat: a bounded    *)
(* queue and a worker that may wait for an approval, which a reply in the  *)
(* same chat gives without passing the queue. Gateway and Approval say     *)
(* more of both.                                                           *)
(*                                                                         *)
(* Durations are in tenths of a second.                                    *)
(***************************************************************************)
EXTENDS Naturals, Sequences, FiniteSets

CONSTANTS
    Adapters,    \* registered adapters
    Telegram,    \* the one that polls; the others keep a connection
    QueueSize,   \* capacity of the chat's queue
    Limit,       \* updates per getUpdates
    Initial, MaxDelay, \* adapterRetryPolicy
    Codes,       \* [Adapters -> SUBSET Nat]: how a call may fail, an HTTP code or 0
    RetryAfters, \* seconds a 429 may ask for
    MaxUpdates,  \* bound: updates the chat ever has
    MaxRestarts  \* bound: times the process is killed

ASSUME ChannelAssumption ==
    /\ Telegram \in Adapters /\ IsFiniteSet(Adapters)
    /\ QueueSize \in Nat \ {0} /\ Limit \in Nat \ {0}
    /\ Initial \in Nat \ {0} /\ MaxDelay \in Nat /\ Initial <= MaxDelay
    /\ Codes \in [Adapters -> SUBSET Nat] /\ RetryAfters \subseteq Nat
    /\ MaxUpdates \in Nat /\ MaxRestarts \in Nat

VARIABLES
    run,        \* where Gateway.Run is
    cancelled,  \* g.ctx is done
    collected,  \* adapters whose result Run has received
    sup,        \* supervise, one per adapter
    offset,     \* Adapter.offset of Telegram
    batch,      \* rest of the updates being handled, their IDs
    queue,      \* accepted updates of the chat
    worker,     \* "idle", "working" or "asking"
    handled,    \* history: updates Receive took in this process, in order
    sent,       \* the platform: kinds of all updates, by ID
    confirmed,  \* the platform: updates up to this one are dropped
    base,       \* the value of confirmed when the process started
    restarts

platform == <<sent, confirmed, base, restarts>>
chat == <<queue, worker, handled>>
vars == <<run, cancelled, collected, sup, offset, batch, chat, platform>>

\* An update is a task, or a reply, which Receive takes without the queue. One
\* that comes when nobody asks any more is taken like what is ignored, denied or
\* a duplicate.
Kinds == {"task", "reply"}

NewSup == [pc |-> "loop", backoff |-> 0, delay |-> 0, hint |-> 0, short |-> 0, permanent |-> FALSE]

Init ==
    /\ run = "new" /\ cancelled = FALSE /\ collected = {}
    /\ sup = [a \in Adapters |-> NewSup]
    /\ offset = 1 /\ batch = <<>>
    /\ queue = <<>> /\ worker = "idle" /\ handled = <<>>
    /\ sent = <<>> /\ confirmed = 0 /\ base = 0 /\ restarts = 0

Smaller(x, y) == IF x < y THEN x ELSE y
Larger(x, y)  == IF x > y THEN x ELSE y

-----------------------------------------------------------------------------
(* The retry policy.                                                        *)

\* mutant: the delay does not grow.
NextBackoffStuck(previous, stable) == IF previous = 0 \/ stable THEN Initial ELSE previous

NextBackoff(previous, stable) ==
    IF previous = 0 \/ stable THEN Initial ELSE Smaller(2 * previous, MaxDelay)

\* The ends of the jitter's range, 0.9 to 1.1, in whole tenths within it.
Jittered(d) == {Smaller(j, MaxDelay) : j \in {(9 * d + 9) \div 10, (11 * d) \div 10}}

\* classifyAPIError and classifyConnectionError.
Permanent(code) == code \in 400..499 \ {408, 425, 429}

\* rateLimitError: between a second and a day.
Hints(code) ==
    IF code = 429 THEN {10 * Smaller(Larger(r, 1), 86400) : r \in RetryAfters} ELSE {0}

\* mutant: an adapter that fails at all is given up.
StartReturnsFinal(a, code) == code \in Nat /\ sup' = [sup EXCEPT ![a].pc = "ended"]

\* A supervisor that waits before it starts its adapter again. short counts the
\* failures since the adapter last ran for stableAfter.
Waiting(s, b, d, hint, stable) ==
    [s EXCEPT !.pc = "waiting", !.backoff = b, !.hint = hint, !.delay = Larger(d, hint),
              !.short = IF stable THEN 1 ELSE Smaller(@ + 1, 3)]

\* supervise, from Start's return to the wait: cancelled and permanent errors
\* end it; any other, a nil error too, is retried after a delay.
StartReturns(a, code) ==
    \/ /\ cancelled
       /\ sup' = [sup EXCEPT ![a].pc = "ended"]
    \/ /\ ~cancelled /\ Permanent(code)
       /\ sup' = [sup EXCEPT ![a] = [@ EXCEPT !.pc = "ended", !.permanent = TRUE]]
    \/ /\ ~cancelled /\ ~Permanent(code)
       /\ \E stable \in {FALSE, sup[a].pc = "serving"}, hint \in Hints(code) :
             LET b == NextBackoff(sup[a].backoff, stable) IN
             \E d \in Jittered(b) : sup' = [sup EXCEPT ![a] = Waiting(@, b, d, hint, stable)]

\* waitForRetry ends: the context is done, or the timer fires.
WaitEnds(a) ==
    /\ sup[a].pc = "waiting"
    /\ sup' = [sup EXCEPT ![a] = [@ EXCEPT !.pc = IF cancelled THEN "ended" ELSE "loop",
                                           !.delay = 0, !.hint = 0]]
    /\ UNCHANGED <<run, cancelled, collected, offset, batch, chat, platform>>

Loop(a) ==
    /\ run # "new" /\ sup[a].pc = "loop"
    /\ sup' = [sup EXCEPT ![a].pc = IF cancelled THEN "ended" ELSE "starting"]
    /\ UNCHANGED <<run, cancelled, collected, offset, batch, chat, platform>>

\* Telegram: getMe and getWebhookInfo answer well. Feishu: the connection is up,
\* whether or not the bot's identity could be loaded.
Started(a) ==
    /\ sup[a].pc = "starting" /\ ~cancelled
    /\ sup' = [sup EXCEPT ![a].pc = "serving"]
    /\ UNCHANGED <<run, cancelled, collected, offset, batch, chat, platform>>

\* A call of Start to the platform fails, a connection is lost, or the context
\* ends it; what was left of a batch goes with Start. While Telegram's Start
\* handles a batch it calls nobody.
StartFails(a) ==
    /\ sup[a].pc \in {"starting", "serving"}
    /\ a = Telegram => batch = <<>>
    /\ \E code \in Codes[a] : StartReturns(a, code)
    /\ UNCHANGED <<run, cancelled, collected, offset, batch, chat, platform>>

-----------------------------------------------------------------------------
(* Long polling.                                                            *)

\* getUpdates: the platform drops what is below the offset and returns the
\* next ones, if any.
Poll ==
    /\ sup[Telegram].pc = "serving" /\ batch = <<>>
    /\ confirmed' = Larger(confirmed, offset - 1)
    /\ LET from == Larger(confirmed + 1, offset)
           to   == Smaller(from + Limit - 1, Len(sent))
       IN batch' = [i \in 1..((to + 1) - Smaller(from, to + 1)) |-> from + i - 1]
    /\ UNCHANGED <<run, cancelled, collected, sup, offset, chat, sent, base, restarts>>

\* Receive takes update u.
Taken(u) ==
    /\ handled' = Append(handled, u)
    /\ \/ /\ sent[u] = "task" /\ Len(queue) < QueueSize
          /\ queue' = Append(queue, u) /\ UNCHANGED worker
       \/ /\ sent[u] = "reply"
          /\ worker' = IF worker = "asking" THEN "working" ELSE worker
          /\ UNCHANGED queue

\* mutant: the offset is moved before the handler is asked.
HandleMovingFirst ==
    LET u == Head(batch) IN
    /\ sup[Telegram].pc = "serving" /\ batch # <<>>
    /\ offset' = u + 1
    /\ IF cancelled \/ (sent[u] = "task" /\ Len(queue) = QueueSize)
       THEN batch' = <<>> /\ StartReturns(Telegram, 0) /\ UNCHANGED chat
       ELSE batch' = Tail(batch) /\ Taken(u) /\ UNCHANGED sup
    /\ UNCHANGED <<run, cancelled, collected, platform>>

\* One update of the batch: one below the offset is skipped; a done context or a
\* full queue ends Start with the offset where it was.
Handle ==
    LET u == Head(batch) IN
    /\ sup[Telegram].pc = "serving" /\ batch # <<>>
    /\ IF cancelled \/ (u >= offset /\ sent[u] = "task" /\ Len(queue) = QueueSize)
       THEN /\ batch' = <<>> /\ StartReturns(Telegram, 0)
            /\ UNCHANGED <<offset, chat>>
       ELSE /\ batch' = Tail(batch) /\ offset' = Larger(offset, u + 1)
            /\ IF u >= offset THEN Taken(u) ELSE UNCHANGED chat
            /\ UNCHANGED sup
    /\ UNCHANGED <<run, cancelled, collected, platform>>

-----------------------------------------------------------------------------
(* The chat.                                                                *)

UserSends(kind) ==
    /\ Len(sent) < MaxUpdates
    /\ kind = "reply" => worker = "asking"
    /\ sent' = Append(sent, kind)
    /\ UNCHANGED <<run, cancelled, collected, sup, offset, batch, chat, confirmed, base, restarts>>

WorkerMoves(from, to) ==
    /\ worker = from /\ worker' = to
    /\ UNCHANGED <<run, cancelled, collected, sup, offset, batch, handled, platform>>

WorkerTakes == queue # <<>> /\ WorkerMoves("idle", "working") /\ queue' = Tail(queue)
WorkerAsks  == WorkerMoves("working", "asking") /\ UNCHANGED queue
WorkerDone  == WorkerMoves("working", "idle") /\ UNCHANGED queue

\* The approval's deadline, which denies.
Deadline    == WorkerMoves("asking", "working") /\ UNCHANGED queue

-----------------------------------------------------------------------------
(* Gateway.Run.                                                             *)

RunStarts ==
    /\ run = "new"
    /\ run' = "running"
    /\ UNCHANGED <<cancelled, collected, sup, offset, batch, chat, platform>>

Cancel ==
    /\ ~cancelled /\ run = "running"
    /\ cancelled' = TRUE
    /\ UNCHANGED <<run, collected, sup, offset, batch, chat, platform>>

\* mutant: the first adapter that ends takes the others with it.
RunCollectsFirst(a) ==
    /\ run = "running" /\ sup[a].pc = "ended" /\ a \notin collected
    /\ collected' = collected \cup {a}
    /\ run' = "draining" /\ cancelled' = TRUE
    /\ UNCHANGED <<sup, offset, batch, chat, platform>>

\* A result comes, and is counted unless the context is done. The last one, like
\* a done context, goes on to Shutdown, which cancels.
RunCollects(a) ==
    /\ run = "running" /\ sup[a].pc = "ended" /\ a \notin collected
    /\ collected' = collected \cup {a}
    /\ IF cancelled \/ collected' = Adapters
       THEN run' = "draining" /\ cancelled' = TRUE
       ELSE UNCHANGED <<run, cancelled>>
    /\ UNCHANGED <<sup, offset, batch, chat, platform>>

RunCancelled ==
    /\ run = "running" /\ cancelled
    /\ run' = "draining"
    /\ UNCHANGED <<cancelled, collected, sup, offset, batch, chat, platform>>

\* Shutdown has waited for every supervisor.
RunReturns ==
    /\ run = "draining" /\ \A a \in Adapters : sup[a].pc = "ended"
    /\ run' = "returned"
    /\ UNCHANGED <<cancelled, collected, sup, offset, batch, chat, platform>>

\* The process ends, when Run has returned or at any time, and another starts.
Restart ==
    /\ restarts < MaxRestarts /\ run # "new"
    /\ run' = "new" /\ cancelled' = FALSE /\ collected' = {}
    /\ sup' = [a \in Adapters |-> NewSup]
    /\ offset' = 1 /\ batch' = <<>>
    /\ queue' = <<>> /\ worker' = "idle" /\ handled' = <<>>
    /\ restarts' = restarts + 1 /\ base' = confirmed
    /\ UNCHANGED <<sent, confirmed>>

Stopped == run = "returned" /\ UNCHANGED vars

-----------------------------------------------------------------------------
Next ==
    \/ RunStarts \/ Cancel \/ RunCancelled \/ RunReturns \/ Restart \/ Stopped
    \/ \E a \in Adapters :
          Loop(a) \/ Started(a) \/ StartFails(a) \/ WaitEnds(a) \/ RunCollects(a)
    \/ Poll \/ Handle
    \/ \E kind \in Kinds : UserSends(kind)
    \/ WorkerTakes \/ WorkerAsks \/ WorkerDone \/ Deadline

Spec == Init /\ [][Next]_vars

\* Goroutines that can run do; the platform answers again and again; a task
\* does not ask for ever. Nobody has to send anything.
PatientSpec ==
    /\ Spec
    /\ WF_vars(RunStarts) /\ WF_vars(RunCancelled) /\ WF_vars(RunReturns)
    /\ \A a \in Adapters : WF_vars(Loop(a)) /\ WF_vars(WaitEnds(a)) /\ WF_vars(RunCollects(a))
    /\ \A a \in Adapters : WF_vars(cancelled /\ StartFails(a))
    /\ SF_vars(Started(Telegram)) /\ SF_vars(Poll) /\ WF_vars(Handle)
    /\ WF_vars(WorkerTakes) /\ SF_vars(WorkerDone)

\* And the five minutes of an approval pass.
FairSpec == PatientSpec /\ WF_vars(Deadline)

-----------------------------------------------------------------------------
(* Properties.                                                              *)

\* The updates Receive took in this process are those from where the platform
\* stood when it started, each once and in order, up to the offset: a rejected
\* one is not passed over, a handled one not handled again after a reconnect,
\* and the platform drops nothing that nobody took.
NoUpdateLost ==
    /\ handled = [i \in 1..Len(handled) |-> base + i]
    /\ offset = IF handled = <<>> THEN 1 ELSE base + Len(handled) + 1
    /\ confirmed <= base + Len(handled)

\* A delay that doubles with each failure in a row, within the maximum.
Doubled(failures) == Smaller(Initial * 2^(failures - 1), MaxDelay)

\* A failing adapter waits: at least 0.9 of a delay that doubles with each
\* failure in a row, never less than the platform asks for, and never more than
\* the maximum on its own account.
RetryIsPaced ==
    \A a \in Adapters : sup[a].pc = "waiting" =>
        /\ 10 * sup[a].delay >= 9 * Doubled(sup[a].short)
        /\ sup[a].delay >= sup[a].hint
        /\ sup[a].delay <= Larger(MaxDelay, sup[a].hint)
        /\ sup[a].short = 1 /\ sup[a].hint = 0 => 10 * sup[a].delay <= 11 * Initial

\* Run gives up only when it is cancelled or every adapter has failed for good,
\* and an adapter that has not keeps being tried meanwhile.
OneFailureIsNotAll ==
    [][ /\ run = "running" /\ run' = "draining" =>
              cancelled \/ \A a \in Adapters : sup[a].permanent
        /\ \A a \in Adapters : sup[a].pc # "ended" /\ sup'[a].pc = "ended" =>
              cancelled \/ sup'[a].permanent ]_vars

\* Every update is taken in the end, however often the adapter, the queue or the
\* process fails on the way, unless the channel is given up: again and again
\* nothing that was sent is left.
EveryUpdateHandled ==
    []<>(\/ Larger(offset - 1, confirmed) >= Len(sent)
         \/ cancelled \/ sup[Telegram].permanent)

\* README.md:306, docs/M5.6-report.md:61: a legal reply ends the wait at once,
\* even when the worker waits for the approval and the queue is full.
ReplyEndsWait ==
    worker = "asking" /\ (\E u \in DOMAIN sent : u >= offset /\ sent[u] = "reply")
        ~> worker # "asking" \/ cancelled \/ sup[Telegram].permanent

-----------------------------------------------------------------------------
(* The inductive invariant.                                                 *)

\* A supervisor.
Supervisors == [pc : {"loop", "starting", "serving", "waiting", "ended"}, backoff : Nat,
                delay : Nat, hint : Nat, short : Nat, permanent : BOOLEAN]

\* Types.
TypeOK ==
    /\ run \in {"new", "running", "draining", "returned"} /\ cancelled \in BOOLEAN
    /\ collected \subseteq Adapters
    /\ sup \in [Adapters -> Supervisors]
    /\ offset \in Nat \ {0} /\ confirmed \in Nat /\ base \in Nat /\ restarts \in Nat
    /\ batch \in Seq(Nat) /\ queue \in Seq(Nat) /\ handled \in Seq(Nat)
    /\ Len(queue) <= QueueSize
    /\ worker \in {"idle", "working", "asking"}
    /\ sent \in Seq(Kinds)

\* The batch goes on where Receive has come to, and the platform has all of it.
BatchOK ==
    /\ base <= confirmed
    /\ batch = [i \in 1..Len(batch) |-> base + Len(handled) + i]
    /\ base + Len(handled) + Len(batch) <= Len(sent)

\* A supervisor ends for one of two reasons, and Run has the results of some
\* that ended.
EndedOK ==
    /\ \A a \in Adapters : sup[a].pc = "ended" => cancelled \/ sup[a].permanent
    /\ \A a \in collected : sup[a].pc = "ended"

\* What the backoff of a supervisor is after so many failures, and what its delay
\* is made from.
Paced(s) ==
    /\ s.short \in 0..3
    /\ s.short = 0 => s.backoff = 0
    /\ s.short > 0 => s.backoff \in 1..MaxDelay /\ s.backoff >= Doubled(s.short)
    /\ s.short = 1 => s.backoff = Initial
    /\ s.pc = "waiting" =>
          /\ s.short > 0 /\ 10 * s.delay >= 9 * s.backoff
          /\ s.delay >= s.hint /\ s.delay <= Larger(MaxDelay, s.hint)
          /\ s.hint = 0 => 10 * s.delay <= 11 * s.backoff

\* Every supervisor keeps to the policy.
PacedOK == \A a \in Adapters : Paced(sup[a])

\* Everything above together.
ChannelInvariant == TypeOK /\ NoUpdateLost /\ BatchOK /\ EndedOK /\ PacedOK
=============================================================================
