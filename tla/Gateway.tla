------------------------------ MODULE Gateway ------------------------------
(***************************************************************************)
(* Admission and conversation lifecycle of internal/gateway.               *)
(*                                                                         *)
(* Three kinds of goroutine run concurrently:                              *)
(*   - handlers: adapter callbacks inside Gateway.Receive;                 *)
(*   - workers: one Conversation.run per runtime in the manager's map;     *)
(*   - the caller of Gateway.Shutdown.                                     *)
(* They share the admission lock g.mu (variable gmu: a handler holds it    *)
(* across dedup check, enqueue and remember) and the manager lock m.mu     *)
(* (every action that touches the map, a queue, activitySeq or closing is  *)
(* one critical section of it, so it needs no variable).                   *)
(*                                                                         *)
(* A runtime is a slot of Runtimes. The code allocates a new Conversation  *)
(* each time; a slot is taken again only when its goroutine has ended and  *)
(* no handler keeps a pointer to it, which is when nothing can tell the    *)
(* two apart.                                                              *)
(***************************************************************************)
EXTENDS Naturals, Sequences

CONSTANTS
    Messages,     \* inbound messages that pass validation and CanUse; an
                  \* element stands for a DedupKey
    Controls,     \* those whose text is an approve/reject command
    Unaddressed,  \* those Receive drops silently: blank text, or a group
                  \* message that does not mention the bot
    Routes,       \* canonical session keys (channel.BuildSessionKey)
    RouteOf,      \* [Messages -> Routes]
    Handlers,     \* adapter callback goroutines
    Runtimes,     \* slots for Conversation objects
    QueueSize,    \* ConversationQueueSize
    MaxSeen,      \* maxSeenMessages
    IdleTimeout,  \* BOOLEAN: a positive idle timeout is configured
    ShowAccepted, \* BOOLEAN: the report mode sends "accepted" notices
    MaxReceives,  \* bound of the model: deliveries by the platforms
    None          \* the nil pointer, and "no message"

ASSUME GatewayAssumption ==
    /\ Controls \subseteq Messages
    /\ Unaddressed \subseteq Messages \ Controls
    /\ RouteOf \in [Messages -> Routes]
    /\ QueueSize \in Nat \ {0}
    /\ MaxSeen \in Nat \ {0}
    /\ IdleTimeout \in BOOLEAN
    /\ ShowAccepted \in BOOLEAN
    /\ MaxReceives \in Nat
    /\ None \notin Messages \cup Runtimes \cup Handlers \cup Routes

VARIABLES
    cancelled,     \* g.ctx (= m.ctx) is done
    shutdown,      \* progress of the caller of Shutdown
    gmu,           \* the handler that holds Gateway.mu, or None
    receives,      \* deliveries so far
    handler,       \* per handler: where it is, its message, the runtime whose
                   \* reporter it owes a call
    seen, fresh,   \* deduplicator: keys, oldest first; those within the TTL
    conversations, \* m.conversations: route -> runtime or None
    workers,       \* goroutines that the WaitGroup m.workers counts
    closeErr,      \* m.closeErr # nil
    conv,          \* Conversation fields under m.mu, and in owed the handlers
                   \* that the reporter's acceptedPending counts
    worker         \* state owned by Conversation.run: program counter, session
                   \* and runner are set, idle timer, message in process

dedupVars == <<seen, fresh>>
mapVars   == <<conversations, workers, closeErr>>
vars == <<cancelled, shutdown, gmu, receives, handler, dedupVars, mapVars, conv, worker>>

HandlerPC  == {"idle", "admit", "enqueue", "remember", "notify"}
ShutdownPC == {"running", "barrier", "drain", "returned"}
WorkerPC   == {"free", "loop", "select", "tick", "resolve", "build", "append",
               "run", "report", "close", "release", "finish", "done"}

IdleHandler == [pc |-> "idle", msg |-> None, conv |-> None]

NewConv(r) == [route |-> r, queue |-> <<>>, activitySeq |-> 0,
               closing |-> FALSE, owed |-> {}]

NewWorker(at) == [pc |-> at, session |-> FALSE, runner |-> FALSE,
                  armed |-> FALSE, expectedSeq |-> 0, task |-> None]

Init ==
    /\ cancelled = FALSE
    /\ shutdown = "running"
    /\ gmu = None
    /\ receives = 0
    /\ handler = [h \in Handlers |-> IdleHandler]
    /\ seen = <<>>
    /\ fresh = {}
    /\ conversations = [r \in Routes |-> None]
    /\ workers = {}
    /\ closeErr = FALSE
    /\ conv = [c \in Runtimes |-> NewConv(None)]
    /\ worker = [c \in Runtimes |-> NewWorker("free")]

-----------------------------------------------------------------------------
(* The deduplicator. Times only order the keys and age them out, so a key   *)
(* is a position in seen, and fresh holds the keys younger than seenTTL.    *)

Elements(s) == {s[i] : i \in DOMAIN s}

Contains(m) == m \in fresh

Without(s, m) ==
    IF m \in Elements(s)
    THEN LET i == CHOOSE i \in DOMAIN s : s[i] = m
         IN SubSeq(s, 1, i - 1) \o SubSeq(s, i + 1, Len(s))
    ELSE s

\* A full map loses its oldest entry first, even when the key is in it (as an
\* expired entry) and the new entry would take no more room.
Remember(m) ==
    LET kept == IF Len(seen) >= MaxSeen THEN Tail(seen) ELSE seen IN
    /\ seen' = Append(Without(kept, m), m)
    /\ fresh' = (fresh \cap Elements(kept)) \cup {m}

\* The n oldest entries outlive seenTTL.
Expire(n) ==
    /\ n \in DOMAIN seen
    /\ seen[n] \in fresh
    /\ fresh' = fresh \ {seen[i] : i \in 1 .. n}
    /\ UNCHANGED <<cancelled, shutdown, gmu, receives, handler, seen, mapVars, conv, worker>>

-----------------------------------------------------------------------------
(* Handlers: Gateway.Receive and Gateway.admit.                             *)

At(h, l)  == handler[h].pc = l
Msg(h)    == handler[h].msg
Return(h) == handler' = [handler EXCEPT ![h] = IdleHandler]

Receive(h, m) ==
    /\ At(h, "idle")
    /\ receives < MaxReceives
    /\ receives' = receives + 1
    /\ handler' = [handler EXCEPT ![h].pc = "admit", ![h].msg = m]
    /\ UNCHANGED <<cancelled, shutdown, gmu, dedupVars, mapVars, conv, worker>>

\* Receive or admit returns an error: the gateway's context is done, or the
\* callback's is, which the platform's SDK may end at any time.
AdmitRefused(h) == Return(h) /\ UNCHANGED <<gmu, dedupVars>>

\* Nothing to do: a duplicate, or a message that is not for the bot. The latter
\* is not remembered.
AdmitIgnored(h) ==
    /\ ~cancelled
    /\ Msg(h) \in Unaddressed \/ Contains(Msg(h))
    /\ Return(h)
    /\ UNCHANGED <<gmu, dedupVars>>

\* An approve/reject reply is handled at once and remembered, whatever came of
\* it; it never enters a queue.
AdmitControl(h) ==
    /\ ~cancelled
    /\ Msg(h) \in Controls
    /\ ~Contains(Msg(h))
    /\ Remember(Msg(h))
    /\ Return(h)
    /\ UNCHANGED gmu

\* mutant: g.mu is released between the dedup check and the enqueue.
AdmitTaskUnlocked(h) ==
    /\ ~cancelled
    /\ Msg(h) \notin Controls \cup Unaddressed
    /\ ~Contains(Msg(h))
    /\ handler' = [handler EXCEPT ![h].pc = "enqueue"]
    /\ UNCHANGED <<gmu, dedupVars>>

\* A new task: the handler keeps g.mu for the enqueue and the remember.
AdmitTask(h) ==
    /\ ~cancelled
    /\ Msg(h) \notin Controls \cup Unaddressed
    /\ ~Contains(Msg(h))
    /\ gmu' = h
    /\ handler' = [handler EXCEPT ![h].pc = "enqueue"]
    /\ UNCHANGED dedupVars

Admit(h) ==
    /\ At(h, "admit")
    /\ gmu = None
    /\ AdmitRefused(h) \/ AdmitIgnored(h) \/ AdmitControl(h) \/ AdmitTask(h)
    /\ UNCHANGED <<cancelled, shutdown, receives, mapVars, conv, worker>>

-----------------------------------------------------------------------------
(* ConversationManager.enqueue: one critical section of m.mu.               *)

Free(c) == worker[c].pc = "free" /\ \A h \in Handlers : handler[h].conv # c

Target(h) == conversations[RouteOf[Msg(h)]]

\* mutant: the notice is not reserved.
PushedUnreserved(h, old) ==
    [old EXCEPT !.queue = Append(@, Msg(h)), !.activitySeq = @ + 1]

\* PrepareAccepted, then a successful send on the queue, then activitySeq++.
\* old is the Conversation before the call.
Pushed(h, old) ==
    [old EXCEPT !.queue = Append(@, Msg(h)),
                !.activitySeq = @ + 1,
                !.owed = IF ShowAccepted THEN @ \cup {h} ELSE @]

ToRemember(h, c) ==
    handler' = [handler EXCEPT ![h].pc = "remember", ![h].conv = c]

\* First message of a route without a runtime: create it and start its worker.
EnqueueCreating(h) == \E c \in Runtimes :
    LET r == RouteOf[Msg(h)] IN
    /\ conversations[r] = None
    /\ Free(c)
    /\ conversations' = [conversations EXCEPT ![r] = c]
    /\ workers' = workers \cup {c}
    /\ conv' = [conv EXCEPT ![c] = Pushed(h, NewConv(r))]
    /\ worker' = [worker EXCEPT ![c] = NewWorker("loop")]
    /\ ToRemember(h, c)
    /\ UNCHANGED gmu

EnqueueExisting(h) ==
    LET c == Target(h) IN
    /\ c # None
    /\ ~conv[c].closing
    /\ Len(conv[c].queue) < QueueSize
    /\ conv' = [conv EXCEPT ![c] = Pushed(h, @)]
    /\ ToRemember(h, c)
    /\ UNCHANGED <<gmu, conversations, workers, worker>>

\* mutant: an error path that keeps g.mu.
RefuseLocked(h) == Return(h) /\ UNCHANGED <<gmu, conversations, workers, conv, worker>>

\* enqueue and admit return an error, nothing is remembered, g.mu is released.
Refuse(h) == /\ gmu' = None
             /\ Return(h)
             /\ UNCHANGED <<conversations, workers, conv, worker>>

\* ErrConversationClosing: the runtime has committed to teardown.
EnqueueClosing(h) ==
    LET c == Target(h) IN
    c # None /\ conv[c].closing /\ Refuse(h)

\* ErrQueueFull: the reservation of an accepted notice is given back.
EnqueueFull(h) ==
    LET c == Target(h) IN
    /\ c # None
    /\ ~conv[c].closing
    /\ Len(conv[c].queue) >= QueueSize
    /\ Refuse(h)

\* The first test of enqueue: one of the two contexts ended since admit looked
\* (the callback's may end at any time).
Enqueue(h) ==
    /\ At(h, "enqueue")
    /\ \/ ~cancelled /\ ( EnqueueCreating(h) \/ EnqueueExisting(h)
                          \/ EnqueueClosing(h) \/ EnqueueFull(h) )
       \/ Refuse(h)
    /\ UNCHANGED <<cancelled, shutdown, receives, dedupVars, closeErr>>

\* Back in admit: remember the key, unlock; Receive then sends the notice.
RememberAccepted(h) ==
    /\ At(h, "remember")
    /\ Remember(Msg(h))
    /\ gmu' = None
    /\ IF ShowAccepted THEN handler' = [handler EXCEPT ![h].pc = "notify"]
                       ELSE Return(h)
    /\ UNCHANGED <<cancelled, shutdown, receives, mapVars, conv, worker>>

\* The notice was delivered, or its delivery failed: both settle the debt.
NotifyAccepted(h) ==
    /\ At(h, "notify")
    /\ conv' = [conv EXCEPT ![handler[h].conv].owed = @ \ {h}]
    /\ Return(h)
    /\ UNCHANGED <<cancelled, shutdown, gmu, receives, dedupVars, mapVars, worker>>

-----------------------------------------------------------------------------
(* Workers: Conversation.run.                                               *)

WorkerAt(c, l) == worker[c].pc = l
Goto(c, l)     == worker' = [worker EXCEPT ![c].pc = l]

\* idleSequence: this runtime is the current one and has nothing to do.
Idle(c) == /\ conversations[conv[c].route] = c
           /\ ~conv[c].closing
           /\ conv[c].queue = <<>>

\* Head of the loop: leave when cancelled, else arm the timer if idle.
LoopTop(c) ==
    /\ WorkerAt(c, "loop")
    /\ IF cancelled
       THEN Goto(c, "close")
       ELSE LET arm == IdleTimeout /\ Idle(c) IN
            worker' = [worker EXCEPT
                ![c].pc = "select", ![c].armed = arm,
                ![c].expectedSeq = IF arm THEN conv[c].activitySeq ELSE 0]
    /\ UNCHANGED conv

SelectCancelled(c) == /\ WorkerAt(c, "select")
                      /\ cancelled
                      /\ Goto(c, "close")
                      /\ UNCHANGED conv

\* select picks any ready case: a message may be taken after cancellation.
SelectMessage(c) ==
    /\ WorkerAt(c, "select")
    /\ conv[c].queue # <<>>
    /\ conv' = [conv EXCEPT ![c].queue = Tail(@)]
    /\ worker' = [worker EXCEPT ![c].pc = "resolve", ![c].armed = FALSE,
                                ![c].expectedSeq = 0,
                                ![c].task = Head(conv[c].queue)]

\* The idle timer fires. Admission may still happen before beginEviction locks.
SelectTick(c) ==
    /\ WorkerAt(c, "select")
    /\ worker[c].armed
    /\ worker' = [worker EXCEPT ![c].pc = "tick", ![c].armed = FALSE]
    /\ UNCHANGED conv

\* mutants: no revalidation after the tick; a wrong snapshot.
MayEvictBlindly(c) == ~cancelled /\ ~conv[c].closing
MayEvictNever(c) ==
    ~cancelled /\ Idle(c) /\ conv[c].activitySeq + 1 = worker[c].expectedSeq

MayEvict(c) == /\ ~cancelled
               /\ Idle(c)
               /\ conv[c].activitySeq = worker[c].expectedSeq

\* beginEviction: commit to teardown, or go round the loop again.
BeginEviction(c) ==
    /\ WorkerAt(c, "tick")
    /\ IF MayEvict(c)
       THEN Goto(c, "close") /\ conv' = [conv EXCEPT ![c].closing = TRUE]
       ELSE Goto(c, "loop") /\ UNCHANGED conv

Run(c) ==
    /\ LoopTop(c) \/ SelectCancelled(c) \/ SelectMessage(c) \/ SelectTick(c)
       \/ BeginEviction(c)
    /\ UNCHANGED <<cancelled, shutdown, gmu, receives, handler, dedupVars, mapVars>>

-----------------------------------------------------------------------------
(* Conversation.process, one action per stage. Each stage first looks at    *)
(* the context and drops the message silently when it is done.              *)

Drop(c) == worker' = [worker EXCEPT ![c].pc = "loop", ![c].task = None]

\* m.resolve: the durable session, which holds the writer lock, or an error.
Resolve(c) ==
    /\ WorkerAt(c, "resolve")
    /\ \/ cancelled /\ Drop(c)
       \/ ~cancelled /\ worker' = [worker EXCEPT ![c].pc = "build", ![c].session = TRUE]
       \/ ~cancelled /\ ~worker[c].session /\ Goto(c, "report")

\* m.factory: built at most once per runtime; a failure is reported and the
\* next message tries again.
Build(c) ==
    /\ WorkerAt(c, "build")
    /\ \/ cancelled /\ Drop(c)
       \/ ~cancelled /\ worker' = [worker EXCEPT ![c].pc = "append", ![c].runner = TRUE]
       \/ ~cancelled /\ ~worker[c].runner /\ Goto(c, "report")

\* session.Append of the user message: durable, or reported and not run.
AppendUser(c) ==
    /\ WorkerAt(c, "append")
    /\ \/ cancelled /\ Drop(c)
       \/ ~cancelled /\ Goto(c, "run")
       \/ ~cancelled /\ Goto(c, "report")

\* runner.Run returns: with a reply or an error to report, or with nothing to
\* say (the context ended, or the report mode hides it).
RunEnds(c) == WorkerAt(c, "run") /\ (Goto(c, "report") \/ Drop(c))

\* ChannelReporter.send: waits until no accepted notice is owed on this route,
\* unless the context ends, in which case nothing is sent.
Report(c) == /\ WorkerAt(c, "report")
             /\ conv[c].owed = {} \/ cancelled
             /\ Drop(c)

Process(c) ==
    /\ Resolve(c) \/ Build(c) \/ AppendUser(c) \/ RunEnds(c) \/ Report(c)
    /\ UNCHANGED <<cancelled, shutdown, gmu, receives, handler, dedupVars, mapVars, conv>>

-----------------------------------------------------------------------------
(* Teardown: closeRuntime, finishEviction and the deferred workers.Done.    *)

\* mutants: the entry is removed before Session.Close; workers.Done comes first.
CloseAndRemove(c) == /\ WorkerAt(c, "close")
                     /\ conv' = [conv EXCEPT ![c].closing = TRUE]
                     /\ conversations' = [conversations EXCEPT ![conv[c].route] = None]
                     /\ Goto(c, "release")
                     /\ UNCHANGED <<workers, closeErr>>
CloseAfterDone(c) == /\ WorkerAt(c, "close")
                     /\ conv' = [conv EXCEPT ![c].closing = TRUE]
                     /\ workers' = workers \ {c}
                     /\ Goto(c, "release")
                     /\ UNCHANGED <<conversations, closeErr>>

\* closing also covers cancellation, where no eviction has set it.
CloseRuntime(c) == /\ WorkerAt(c, "close")
                   /\ conv' = [conv EXCEPT ![c].closing = TRUE]
                   /\ Goto(c, "release")
                   /\ UNCHANGED mapVars

\* Session.Close outside the locks; its error is joined to closeErr.
ReleaseSession(c) ==
    /\ WorkerAt(c, "release")
    /\ \E failed \in {FALSE, worker[c].session} : closeErr' = (closeErr \/ failed)
    /\ worker' = [worker EXCEPT ![c].pc = "finish", ![c].session = FALSE]
    /\ UNCHANGED <<conversations, workers, conv>>

\* Remove the entry by pointer identity; what is left in the queue is lost.
FinishEviction(c) ==
    /\ WorkerAt(c, "finish")
    /\ conversations' = [conversations EXCEPT
                           ![conv[c].route] = IF @ = c THEN None ELSE @]
    /\ Goto(c, "done")
    /\ UNCHANGED <<workers, closeErr, conv>>

\* workers.Done; the goroutine ends and its runtime becomes garbage, except for
\* the reporter that handlers may still hold.
WorkerDone(c) ==
    /\ WorkerAt(c, "done")
    /\ workers' = workers \ {c}
    /\ conv' = [conv EXCEPT ![c] = [NewConv(None) EXCEPT !.owed = conv[c].owed]]
    /\ worker' = [worker EXCEPT ![c] = NewWorker("free")]
    /\ UNCHANGED <<conversations, closeErr>>

Teardown(c) ==
    /\ CloseRuntime(c) \/ ReleaseSession(c) \/ FinishEviction(c) \/ WorkerDone(c)
    /\ UNCHANGED <<cancelled, shutdown, gmu, receives, handler, dedupVars>>

-----------------------------------------------------------------------------
(* Gateway.Cancel and Gateway.Shutdown.                                     *)

\* Cancel, or the end of the parent context.
Cancel == ~cancelled /\ cancelled' = TRUE /\ UNCHANGED shutdown

ShutdownStarts == shutdown = "running" /\ shutdown' = "barrier" /\ cancelled' = TRUE

\* g.mu.Lock(); g.mu.Unlock(): admissions under way have finished. (Shutdown
\* waits here for the adapters' goroutines too, which hold no gateway state.)
ShutdownBarrier == /\ shutdown = "barrier"
                   /\ gmu = None
                   /\ shutdown' = "drain"
                   /\ UNCHANGED cancelled

\* ConversationManager.wait: m.workers.Wait() returns.
ShutdownReturns == /\ shutdown = "drain"
                   /\ workers = {}
                   /\ shutdown' = "returned"
                   /\ UNCHANGED cancelled

Shutdown == /\ Cancel \/ ShutdownStarts \/ ShutdownBarrier \/ ShutdownReturns
            /\ UNCHANGED <<gmu, receives, handler, dedupVars, mapVars, conv, worker>>

\* Nothing is left to do; any other stop is a deadlock.
Terminated == /\ shutdown = "returned"
              /\ receives = MaxReceives
              /\ \A h \in Handlers : At(h, "idle")
              /\ UNCHANGED vars

-----------------------------------------------------------------------------
Handler(h) == Admit(h) \/ Enqueue(h) \/ RememberAccepted(h) \/ NotifyAccepted(h)
Worker(c)  == Run(c) \/ Process(c) \/ Teardown(c)

Next == \/ \E h \in Handlers, m \in Messages : Receive(h, m)
        \/ \E h \in Handlers : Handler(h)
        \/ \E c \in Runtimes : Worker(c)
        \/ \E n \in 1 .. MaxSeen : Expire(n)
        \/ Shutdown
        \/ Terminated

Spec == Init /\ [][Next]_vars

\* Goroutines are scheduled, notices are delivered or fail, runs end and an
\* armed timer fires when nothing else happens. Nobody has to send a message,
\* cancel or call Shutdown.
Fairness == /\ \A h \in Handlers : WF_vars(Handler(h))
            /\ \A c \in Runtimes : WF_vars(Worker(c))
            /\ WF_vars(Shutdown /\ shutdown # "running" /\ cancelled)

FairSpec == Spec /\ Fairness

-----------------------------------------------------------------------------
(* Properties. *)

HandlerType == [pc : HandlerPC, msg : Messages \cup {None}, conv : Runtimes \cup {None}]
ConvType == [route : Routes \cup {None}, queue : Seq(Messages), activitySeq : Nat,
             closing : BOOLEAN, owed : SUBSET Handlers]
WorkerType == [pc : WorkerPC, session : BOOLEAN, runner : BOOLEAN, armed : BOOLEAN,
               expectedSeq : Nat, task : Messages \cup {None}]

HandlersTyped ==
    /\ handler \in [Handlers -> HandlerType]
    /\ \A h \in Handlers : At(h, "idle") \/ Msg(h) \in Messages

MemoryTyped == seen \in Seq(Messages) /\ Len(seen) <= MaxSeen /\ fresh \subseteq Elements(seen)

ConvsTyped ==
    /\ conv \in [Runtimes -> ConvType]
    /\ \A c \in Runtimes : Len(conv[c].queue) <= QueueSize

\* The type of every variable, with the bounds of the queues and of the memory.
TypeOK ==
    /\ cancelled \in BOOLEAN
    /\ shutdown \in ShutdownPC
    /\ gmu \in Handlers \cup {None}
    /\ receives \in 0 .. MaxReceives
    /\ HandlersTyped
    /\ MemoryTyped
    /\ conversations \in [Routes -> Runtimes \cup {None}]
    /\ workers \in SUBSET Runtimes
    /\ closeErr \in BOOLEAN
    /\ ConvsTyped
    /\ worker \in [Runtimes -> WorkerType]

\* A runtime whose worker has not yet closed its session and left the map.
Live(c) == worker[c].pc \notin {"free", "done"}

\* "ConversationManager holds one worker/writer per canonical route": however
\* admission, idle eviction and cancellation interleave, a second runtime (and
\* with it a second writer of the same durable session) of a route starts only
\* when the first has closed its session.
OneRuntimePerRoute ==
    \A c, d \in Runtimes :
        Live(c) /\ Live(d) /\ conv[c].route = conv[d].route => c = d

\* enqueue against beginEviction: a runtime commits to idle teardown only with
\* an empty queue and nobody can enqueue afterwards, so an accepted message is
\* never left in the queue of a dying runtime; only cancellation loses messages.
NoTaskStranded ==
    \A c \in Runtimes : conv[c].closing /\ conv[c].queue # <<>> => cancelled

\* The idle snapshot: when the timer has fired, activitySeq moved since the
\* snapshot exactly when something waits in the queue, because only the worker
\* itself takes messages out. The two revalidations of beginEviction agree.
SnapshotAgreesWithQueue ==
    \A c \in Runtimes :
        WorkerAt(c, "tick") =>
            (conv[c].activitySeq = worker[c].expectedSeq <=> conv[c].queue = <<>>)

\* Shutdown returns only when no worker is left: every session is closed (its
\* writer released), the map is empty, closeErr is final, and none of it can
\* come back through a callback that was entering when shutdown started.
QuietAfterShutdown ==
    shutdown = "returned" =>
        /\ \A c \in Runtimes : WorkerAt(c, "free") /\ ~worker[c].session
        /\ \A r \in Routes : conversations[r] = None

\* The reporter sends nothing about a task while the "accepted" notice of that
\* very task is still to be sent, although the handler that owes it runs
\* concurrently with the worker that executes the task.
AcceptedNoticeFirst ==
    [][\A c \in Runtimes :
          WorkerAt(c, "report") /\ worker'[c].pc = "loop" /\ ~cancelled /\ ShowAccepted
             => \A h \in Handlers : handler[h].conv = c => Msg(h) # worker[c].task]_vars

\* Every idle runtime is evicted in the end: once the platforms have stopped
\* sending, all routes lose their runtime (no zombie keeps a writer lock).
IdleRuntimesEvicted ==
    (receives = MaxReceives) ~> (\A r \in Routes : conversations[r] = None)

\* Shutdown always returns, whatever the workers and callbacks were doing.
ShutdownCompletes == (shutdown = "barrier") ~> (shutdown = "returned")

-----------------------------------------------------------------------------
(* The inductive invariant behind OneRuntimePerRoute, NoTaskStranded,       *)
(* SnapshotAgreesWithQueue, QuietAfterShutdown and AcceptedNoticeFirst.     *)

Leaving == {"close", "release", "finish", "done"}

\* The map and the live workers point at each other.
MapAndWorkersAgree ==
    /\ \A r \in Routes :
          conversations[r] # None =>
              Live(conversations[r]) /\ conv[conversations[r]].route = r
    /\ \A c \in Runtimes :
          Live(c) => conv[c].route \in Routes /\ conversations[conv[c].route] = c
    /\ \A c \in Runtimes : c \in workers <=> ~WorkerAt(c, "free")

\* Only a worker that leaves is closing, and it leaves because the gateway is
\* cancelled or because it closed an empty queue to new messages.
LeavingIsJustified ==
    \A c \in Runtimes :
        /\ conv[c].closing => worker[c].pc \in Leaving
        /\ worker[c].pc \in Leaving => cancelled \/ (conv[c].closing /\ conv[c].queue = <<>>)

\* The idle snapshot bounds activitySeq from below as long as it is in use.
SnapshotOK ==
    \A c \in Runtimes :
        WorkerAt(c, "tick") \/ (WorkerAt(c, "select") /\ worker[c].armed) =>
            /\ worker[c].expectedSeq <= conv[c].activitySeq
            /\ conv[c].activitySeq = worker[c].expectedSeq <=> conv[c].queue = <<>>

\* A session is open only until the worker has released it, and a handler that
\* holds a reporter is one of those its accepted notices wait for.
HoldersOK ==
    /\ \A c \in Runtimes : worker[c].session => worker[c].pc \notin {"free", "finish", "done"}
    /\ \A h \in Handlers : ShowAccepted /\ handler[h].conv # None
                              => h \in conv[handler[h].conv].owed

ShutdownOK == /\ shutdown # "running" => cancelled
              /\ shutdown = "returned" => workers = {}

\* Everything above together; each conjunct needs the others to be preserved.
RuntimeInvariant == /\ MapAndWorkersAgree
                    /\ LeavingIsJustified
                    /\ SnapshotOK
                    /\ HoldersOK
                    /\ ShutdownOK

-----------------------------------------------------------------------------
(* The abstraction: what a route's callers see of its runtime.              *)

Pending(r) == IF conversations[r] = None THEN <<>> ELSE conv[conversations[r]].queue
Current(r) == IF conversations[r] = None THEN None ELSE worker[conversations[r]].task

Pendings   == [r \in Routes |-> Pending(r)]
Currents   == [r \in Routes |-> Current(r)]
Remembered == fresh \cup {Msg(h) : h \in {g \in Handlers : At(g, "remember")}}

Intake == INSTANCE TaskIntake WITH
    Capacity   <- QueueSize,
    NoTask     <- None,
    pending    <- Pendings,
    current    <- Currents,
    remembered <- Remembered,
    open       <- ~cancelled

\* The gateway is a serial FIFO executor per route that accepts a message at
\* most once while it remembers it and, while open, starts every accepted task.
ImplementsIntake == Intake!Spec

\* The admission lock covers all from the look at the memory to the remembering,
\* so nobody else takes the message in between.
AdmissionOK ==
    \A h \in Handlers :
        /\ At(h, "enqueue") \/ At(h, "remember") => gmu = h
        /\ At(h, "enqueue") => ~Contains(Msg(h))

\* A worker has a message exactly while it processes one.
TasksOK ==
    \A c \in Runtimes :
        worker[c].task # None <=> worker[c].pc \in {"resolve", "build", "append", "run", "report"}

\* What the refinement needs besides RuntimeInvariant.
IntakeInvariant == AdmissionOK /\ TasksOK
=============================================================================
