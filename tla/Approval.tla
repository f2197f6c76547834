------------------------------ MODULE Approval ------------------------------
(***************************************************************************)
(* Human approval of dangerous tool calls: internal/approval.              *)
(*                                                                         *)
(* A tool call that the policy calls dangerous waits in                    *)
(* ApprovalManager.Wait, on a goroutine of its own (the engine runs the    *)
(* calls of a turn in parallel), while human replies arrive through        *)
(* commandRouter.handle and ApprovalManager.Resolve. Both sides meet in    *)
(* the map pendingTasks under m.mu; every action that touches the map is   *)
(* one critical section.                                                   *)
(*                                                                         *)
(* The TaskID of a request is the tool call's ID, which the model chooses: *)
(* a session may use an ID again, at the same time or later.               *)
(***************************************************************************)
EXTENDS Naturals, Sequences

CONSTANTS
    Calls,      \* tool calls, one Service.Check each
    Keys,       \* (SessionID, TaskID) pairs
    KeyOf,      \* [Calls -> Keys]
    Dangerous,  \* the calls IsDangerousCommand matches
    None

ASSUME ApprovalAssumption ==
    /\ KeyOf \in [Calls -> Keys]
    /\ Dangerous \subseteq Calls
    /\ None \notin Calls

VARIABLES
    pendingTasks, \* m.pendingTasks: key -> the call whose request is pending
    pc,           \* where each call is
    done,         \* calls whose context (caller's, or 5 minute deadline) ended
    result,       \* pending.result: channel of capacity 1, as a sequence
    allowed,      \* what Check returns, once the call has returned
    answers       \* history: the replies for which Resolve returned true

vars == <<pendingTasks, pc, done, result, allowed, answers>>

Replies == {"approve", "reject"}

PC == {"new", "register", "notify", "wait", "cleanup", "returned"}

Init ==
    /\ pendingTasks = [k \in Keys |-> None]
    /\ pc = [c \in Calls |-> "new"]
    /\ done = {}
    /\ result = [c \in Calls |-> <<>>]
    /\ allowed = [c \in Calls |-> FALSE]
    /\ answers = [c \in Calls |-> <<>>]

-----------------------------------------------------------------------------
(* The waiting side: Service.Check and ApprovalManager.Wait.                *)

At(c, l)   == pc[c] = l
Goto(c, l) == pc' = [pc EXCEPT ![c] = l]

\* Check: a done context denies, a harmless call is allowed without a request,
\* an invalid request is denied.
Check(c) ==
    /\ At(c, "new")
    /\ \/ /\ c \notin Dangerous /\ c \notin done
          /\ allowed' = [allowed EXCEPT ![c] = TRUE]
          /\ Goto(c, "returned")
       \/ Goto(c, "returned") /\ UNCHANGED allowed
       \/ c \in Dangerous /\ c \notin done /\ Goto(c, "register") /\ UNCHANGED allowed
    /\ UNCHANGED <<pendingTasks, done, result, answers>>

\* The same ID pending in the same session denies; the first request stays.
Register(c) ==
    /\ At(c, "register")
    /\ IF pendingTasks[KeyOf[c]] = None
       THEN /\ pendingTasks' = [pendingTasks EXCEPT ![KeyOf[c]] = c]
            /\ Goto(c, "notify")
       ELSE UNCHANGED pendingTasks /\ Goto(c, "returned")
    /\ UNCHANGED <<done, result, allowed, answers>>

\* mutant: a failed notification returns without the deferred removal.
NotifyLeaking(c) ==
    /\ At(c, "notify")
    /\ Goto(c, "wait") \/ Goto(c, "returned")
    /\ UNCHANGED <<pendingTasks, done, result, allowed, answers>>

\* notifier.RequestApproval returns. The request may be visible in the chat
\* before, and even when it reports a failure, which denies.
Notify(c) ==
    /\ At(c, "notify")
    /\ Goto(c, "wait") \/ Goto(c, "cleanup")
    /\ UNCHANGED <<pendingTasks, done, result, allowed, answers>>

\* select: either ready case may be taken, and a reply taken after the context
\* has ended denies all the same.
Decide(c) ==
    /\ At(c, "wait")
    /\ \/ c \in done /\ UNCHANGED <<result, allowed>>
       \/ /\ result[c] # <<>>
          /\ result' = [result EXCEPT ![c] = Tail(@)]
          /\ allowed' = [allowed EXCEPT ![c] = c \notin done /\ Head(result[c]) = "approve"]
    /\ Goto(c, "cleanup")
    /\ UNCHANGED <<pendingTasks, done, answers>>

\* The deferred removal, by pointer identity.
Cleanup(c) ==
    /\ At(c, "cleanup")
    /\ pendingTasks' = [pendingTasks EXCEPT ![KeyOf[c]] = IF @ = c THEN None ELSE @]
    /\ Goto(c, "returned")
    /\ UNCHANGED <<done, result, allowed, answers>>

\* The caller cancels.
Cancelled(c) ==
    /\ c \notin done
    /\ pc[c] # "returned"
    /\ done' = done \cup {c}
    /\ UNCHANGED <<pendingTasks, pc, result, allowed, answers>>

\* mutant: only a caller's cancellation ends the wait.
NoDeadline(c) == FALSE /\ UNCHANGED vars

\* defaultApprovalTimeout, counted from the start of Wait.
Deadline(c) == pc[c] \in {"register", "notify", "wait", "cleanup"} /\ Cancelled(c)

-----------------------------------------------------------------------------
(* The replying side: ApprovalManager.Resolve, one critical section.        *)

\* mutants: the entry stays until the waiter removes it, and every reply is
\* queued; an unbuffered channel takes a reply only from a waiter that has
\* reached its select.
ResolveKept(k, reply) ==
    LET c == pendingTasks[k] IN
    /\ c # None
    /\ c \notin done
    /\ Len(answers[c]) < 3
    /\ result' = [result EXCEPT ![c] = Append(@, reply)]
    /\ answers' = [answers EXCEPT ![c] = Append(@, reply)]
    /\ UNCHANGED <<pendingTasks, pc, done, allowed>>
ResolveUnbuffered(k, reply) ==
    LET c == pendingTasks[k] IN
    /\ c # None
    /\ pendingTasks' = [pendingTasks EXCEPT ![k] = None]
    /\ IF At(c, "wait") /\ c \notin done
       THEN /\ result' = [result EXCEPT ![c] = <<reply>>]
            /\ answers' = [answers EXCEPT ![c] = Append(@, reply)]
       ELSE UNCHANGED <<result, answers>>
    /\ UNCHANGED <<pc, done, allowed>>

\* A reply to a key: consumes the entry, and tells whether it reached the call.
\* Replies that match nothing change nothing.
Resolve(k, reply) ==
    LET c == pendingTasks[k] IN
    /\ c # None
    /\ pendingTasks' = [pendingTasks EXCEPT ![k] = None]
    /\ IF c \notin done /\ result[c] = <<>>
       THEN /\ result' = [result EXCEPT ![c] = <<reply>>]
            /\ answers' = [answers EXCEPT ![c] = Append(@, reply)]
       ELSE UNCHANGED <<result, answers>>
    /\ UNCHANGED <<pc, done, allowed>>

-----------------------------------------------------------------------------
Wait(c) == Check(c) \/ Register(c) \/ Notify(c) \/ Decide(c) \/ Cleanup(c)

Terminated == (\A c \in Calls : At(c, "returned")) /\ UNCHANGED vars

Next == \/ \E c \in Calls : Wait(c) \/ Cancelled(c) \/ Deadline(c)
        \/ \E k \in Keys, reply \in Replies : Resolve(k, reply)
        \/ Terminated

Spec == Init /\ [][Next]_vars

\* The call's goroutine is scheduled, a notification succeeds or fails in the
\* end, and deadlines pass. No human has to answer.
FairSpec == Spec /\ \A c \in Calls : WF_vars(Wait(c)) /\ WF_vars(Deadline(c))

-----------------------------------------------------------------------------
(* Properties. *)

\* The type of every variable; the channel never holds more than its capacity.
TypeOK ==
    /\ pendingTasks \in [Keys -> Calls \cup {None}]
    /\ pc \in [Calls -> PC]
    /\ done \in SUBSET Calls
    /\ result \in [Calls -> Seq(Replies)]
    /\ \A c \in Calls : Len(result[c]) <= 1
    /\ allowed \in [Calls -> BOOLEAN]
    /\ answers \in [Calls -> Seq(Replies)]

\* A dangerous call is allowed only on the strength of exactly one matched
\* reply, which approved it; timeouts, duplicates and failures never allow it.
AllowedOnlyIfApproved ==
    \A c \in Dangerous : allowed[c] => answers[c] = <<"approve">>

\* "Wait registers before notification so immediate replies cannot be lost" and
\* "an old waiter cannot remove it": while a request can be seen in the chat,
\* unanswered and in time, a reply to its key reaches it.
ShownIsPending ==
    \A c \in Calls :
        pc[c] \in {"notify", "wait"} /\ answers[c] = <<>> /\ c \notin done
            => pendingTasks[KeyOf[c]] = c

\* "Resolve atomically consumes": a reply is reported as matched at most once
\* per request, although duplicates race with the waiter.
AnsweredOnce == \A c \in Calls : Len(answers[c]) <= 1

\* No entry outlives its call, on any path out of Wait.
NoStaleEntry ==
    \A k \in Keys : pendingTasks[k] # None =>
        pc[pendingTasks[k]] \in {"notify", "wait", "cleanup"}

\* Every check ends, whether or not anybody replies.
EveryCheckReturns == \A c \in Calls : At(c, "register") ~> At(c, "returned")

-----------------------------------------------------------------------------
(* The inductive invariant of the safety properties. *)

\* A pending call is registered under its own key and nobody has answered it.
PendingIsUnanswered ==
    \A k \in Keys : pendingTasks[k] # None =>
        LET c == pendingTasks[k] IN
        /\ KeyOf[c] = k
        /\ pc[c] \in {"notify", "wait", "cleanup"}
        /\ answers[c] = <<>>

\* The channel holds what was answered until the waiter takes it.
AnswersFlow ==
    \A c \in Calls :
        /\ pc[c] \in {"new", "register"} => answers[c] = <<>>
        /\ result[c] # <<>> => result[c] = answers[c]
        /\ Len(answers[c]) <= 1

\* Everything above together.
ApprovalInvariant == /\ PendingIsUnanswered
                     /\ AnswersFlow
                     /\ AllowedOnlyIfApproved
                     /\ ShownIsPending
=============================================================================
