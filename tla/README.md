# go-tiny-claw: TLA+ models, checks and proofs

This directory is a verification development of go-tiny-claw, an agent runtime
that serves chat channels (Telegram, Feishu) and a terminal. It models the parts
whose correctness depends on interleavings, failures and timing; every definition
follows the Go code, and `PROJECT.json` ("map") names the lines each one stands for.

1. The system: components, state, operations, hard behaviours
2. Modules and their correspondence to the code
3. Runs: what is checked, bounds, fairness
4. Proofs
5. Findings, and observations that are none
6. What is not modelled
7. What could come next

## 1. The system

| Component | State | Operations | Hard behaviour | What makes it correct |
|---|---|---|---|---|
| Gateway (`internal/gateway`) | map route -> Conversation, one bounded queue each, deduplicator, context, WaitGroup | Receive/admit, enqueue, the worker loop, idle eviction, Shutdown | adapter callbacks, workers and Shutdown race; an idle timer fires while a message is enqueued | one runtime per route, nothing accepted is lost before cancellation, no second acceptance while remembered, Shutdown leaves nothing running |
| Approval (`internal/approval`) | map (session, task) -> pending request with a one-slot channel | Check, Wait, Resolve | a reply races the notification, the deadline, another reply and the reuse of an ID | denied by default, a shown request can be answered, every wait ends |
| Session store (`internal/sessionstore`) | per session a JSONL file and a lock file; per process a cached snapshot, offset, flags | Create, Append, Load, List, Delete, AcquireWriter, Release | torn writes, failed sync, failed rollback, kill, power failure, change of writer | the log is append-only, an acknowledged event stays, a failed one stays out, the cache is trusted only when right |
| Session service (`context/service.go`, `session.go`, `gateway/session.go`) | open sessions, history, usage totals, writer leases, a mutex per ID and per session | Resolve, GetOrCreate, Load, Create, Append, RecordUsage, Close, Delete | close against lookup, contention, not-found against other errors; durable append before memory | memory and log agree; one writer per session; no lease leaks; no second log for a route |
| Engine (`internal/engine`) | turn loop, failure counters | Run, RunSub, parallel tools, reminder | crash or cancellation between tool calls and observations | a session is never left in a state the next turn cannot read, or is refused |
| Context builder (`context/builder.go`) | none | selection of messages within a budget | tool chains must be kept whole | every result is a legal message sequence |
| Delivery (`internal/delivery`) | per route a counter of owed accepted notices | PrepareAccepted, notices, answers | the callback that accepts and the worker that answers are different goroutines | no answer before the notice of its own task |
| Supervisor (`gateway/supervisor.go`) | per adapter backoff | supervise, Run | failure, flood control, stop | bounded backoff, never before the platform allows; one adapter's failure is not all |
| Adapters (`internal/telegram`, `internal/feishu`) | update offset | Start, Send | redelivery after a rejected message, restart | an update is acknowledged only when taken |
| Auth (`internal/auth`, `internal/app`) | auth.json, host.json, provider locks | GetCredential, Login, Logout, SaveAPIKey | refresh token rotation against failed saves, a kill, several processes | one refresh at a time, one host ID, an account is never swapped silently |
| Providers (`internal/provider`) | model registry, cached catalog | select, discover | a catalog discovered while the account changes | a catalog is used only for the identity it was made for |
| Executors (`internal/executor`, `tools/bash.go`, `cmd/claw`) | chosen backends; per call processes, containers, a runtime directory | startup selection, Execute | cancellation, launcher failures, a daemon that works on its own time | never a weaker sandbox than asked for, no one else's result, nothing left behind unreported |
| Access, config, prompts, project trust, observability, command line | | | | see section 6 |

How they interact. `Gateway.Run` starts a supervisor per adapter, which starts the
adapter again and again. An adapter calls `Gateway.Receive` on a goroutine of its own.
`admit` holds the admission lock over the duplicate check, `ConversationManager.enqueue`
and the remembering of the key. The worker of the route's Conversation resolves the
durable session (which takes the session's writer lock), builds a runner, appends the
user message and runs the engine. The engine asks the auth manager for a credential
before each call of the model, and runs tool calls through the approval service, whose
requests are answered by later messages on the same route, which bypass the queue, and
then on an executor. Replies leave through the reporter, which waits for accepted
notices that other goroutines still owe. A worker that is idle long enough, or
cancelled, closes its session and leaves the map. `Shutdown` waits for all of it.

## 2. Modules

| Module | Kind | Models |
|---|---|---|
| `TaskIntake` | abstract | what a route's users may rely on: a serial FIFO executor, at-most-once acceptance within a bounded memory, no accepted task left waiting while open |
| `Gateway`, `MCGateway`, `GatewayProofs` | detailed, instance, proofs | `gateway.go`, `manager.go`, `conversation.go`, `lifecycle.go`, `dedup.go`, and the accepted notice of `delivery/reporter.go`; refines `TaskIntake` |
| `Approval`, `MCApproval`, `ApprovalProofs` | detailed, instance, proofs | `approval/manager.go`, `approval/service.go` |
| `DurableLog` | abstract | an append-only log with acknowledgements |
| `FileStore`, `MCFileStore`, `FileStoreProofs` | detailed, instance, proofs | `sessionstore/file.go`, `lock.go`, `lock_unix.go` for one session; refines `DurableLog` |
| `SessionService`, `MCSession`, `SessionProofs` | detailed, instance, proofs | `context/service.go`, the mutations of `context/session.go`, `DurableSessions.Resolve`, over what `DurableLog` promises |
| `ContextBuilder`, `MCContextBuilder` | pure operators over one variable, `history`, instance | `context/builder.go`: `units` and `Build`, with references; proved about in `EngineProofs` |
| `Engine`, `MCEngine`, `EngineProofs` | detailed (extends `ContextBuilder` and changes its `history`), instance, proofs | `engine/loop.go` (`Run`, `runTurn`), `engine/context.go`, `engine/reminder.go` over one session |
| `Channel`, `MCChannel`, `ChannelProofs` | composition, instance, proofs | `gateway/supervisor.go`, `Gateway.Run`, the polling of `telegram/adapter.go` and its client's errors, the connection of `feishu/adapter.go`, with a chat's queue and a worker that may wait for an approval |
| `Auth`, `MCAuth`, `AuthProofs` | detailed, instance, proofs | `auth/manager.go`, `file_store.go`, `host.go`, the checks of `oauth.go`, the catalog of `provider/openai`, the commands of `cmd/claw/commands.go` |
| `Executor`, `MCExecutor`, `ExecutorProofs` | detailed, instance, proofs | `executor/*.go` but for the texts of policies, `tools/bash.go`, `tools/registry.go`, `configureExecutors` |

**Gateway.** A handler is an adapter callback: `Receive`, `Admit`, `Enqueue`,
`RememberAccepted`, `NotifyAccepted` are its critical sections in order. `gmu` is the
admission lock, held from `AdmitTask` to the end of `RememberAccepted` or to a refusal.
The manager lock needs no variable: every action that touches the map, a queue,
`activitySeq` or `closing` is one of its critical sections. A worker goes through
`LoopTop`, the three cases of `select`, `BeginEviction`, the stages of `process`, and
the teardown `CloseRuntime`, `ReleaseSession` (`Session.Close`, outside the lock),
`FinishEviction`, `WorkerDone`. Abstractions:
- A Conversation is a slot of `Runtimes`; a slot is used again only when its goroutine
  has ended and no handler points to it, when nothing in the program could tell.
- The WaitGroup and the reporter's pending counter are sets of those they count.
- The deduplicator's times only order keys and age them out: `seen` is the order,
  `fresh` the keys within the TTL. The eviction of the oldest key when the map is full,
  even if the new key is already in it, is kept.
- Validation and the access decision happen before `Messages`; blank and unaddressed
  messages are `Unaddressed`, replies are `Controls`.
- `Cancel` stands for `Gateway.Cancel` and the end of the parent context; a callback's
  own context may end at any time, which is why a refusal is always possible.

**Approval.** One `Check` per call, on its own goroutine. Registering, resolving and the
deferred removal are the critical sections of the manager's lock; the buffered channel
is a sequence of length at most one; the deadline and the caller's cancellation put
the call in `done` at any time. A key may be shared by several calls, as IDs come from
the provider.

**FileStore.** A process holds the path mutex for a whole operation and so has one `pc`;
the steps between file system calls are separate actions, because a kill, a power
failure or a read of another process may come between them. Records are numbers, bytes
that do not parse are `Torn`, offsets count records, and `eol` tells whether the file
ends in a newline, which is all that the separator logic looks at. (The numbering is
exact as long as files share their beginning, which all files of a session do, except
after Delete and Create while another process owes a rollback to the old file.)
`known` holds the processes whose recorded size, identity and mtime match
the file. `Fragments` says what an interrupted write may leave: any number of complete
records, perhaps the last without its newline, perhaps a torn one. `PowerLoss` keeps
the last synced contents, or what both contents share plus any part of the rest.
Directory entries count as durable at once. A created session has one record here; in
the code it may carry further messages, published by the same atomic link.

**SessionService.** A caller is a goroutine of the process in at most one call; `locks` is
the mutex the service keeps per ID, `smu` a Session's own, `owner` the store's lease,
which other processes (`Other`) want too. `Look` and `Peek` are the two halves of `load`'s
look at a published session, with the unlock between the test of `closed` and the
return, so a session may be closed when it is handed out; `Acquire`, `Read`, `Write` are the
rest of `load` and `create` (a creation may fail after its log was linked into place); `NotFound` is where each call goes on after `ErrNotFound`, and
is where `Resolve` passes from the canonical ID to the legacy one and to creation. `Mutate`,
`StoreAppend`, `Remember` are `Append` and `RecordUsage`: a message is added to what the log
has, a usage event carries a total computed from memory. `Close` unpublishes and releases
under the session's mutex and not the ID's. The store's guard lets through whoever is in
the process that has the lease, or anybody when nobody has it, as `mutationGuard` does. A
session ID has at most one log; a message is only the one who wrote it.

**ContextBuilder.** A message keeps its role, its tool call IDs, the ID it answers and its
token estimate. The loops of `units` and `Build` are folds over the history and over the
groups from the newest back. `Legal` and `Fitting` say what they compute without loops. That
an oversized tool result is cut to a limit only changes its estimate; how an estimate is
made from text is left out. The module declares the history, because its two properties
compare the functions with their references for the history at hand: `MCContextBuilder` lets
it grow into every history up to a bound, `Engine` lets it grow as a session does.

**Engine.** `pc` follows `runTurn`: turn (the check of the context and the view), think, act (a
request to the provider is out), save, dispatch, observe (the tools run, one goroutine
each), remind. `local` is what `runTurn` holds in its variables, and returning from `Run`
forgets it; `failures` lives as long as the engine. The provider may answer anything, with
no, one or two calls, also with a repeated ID (the providers refuse an empty one only), and
the first call's fingerprint is one of `Actions`; it may refuse a view as too long, or fail.
`Session.Append` is `Commit` or fails; what it needs from the store is what `DurableLog` says:
`Restart` keeps what was appended and any beginning of the batch being appended. A
provider that is given no tools (the thinking phase) is taken to answer without calls.
`Budget` is the input budget less the tool schemas, `RetryBudget` the one made from three
quarters of the window. One model covers several runs of one session, one after another,
as the gateway's worker and the terminal make them.

**Channel.** `sup` is one `supervise` goroutine per adapter: `Loop` (its context check and the
call of `Start`), `Started`, `StartFails` with the classification of the error and the next
delay, `WaitEnds`, and `RunCollects`, where `Run` receives its result. Telegram's `Poll` asks
for updates from the offset on, which makes the platform drop those before; `Handle` passes
one to `Receive` and moves the offset, or ends `Start` with the rest of the batch unread.
The chat behind it is a bounded queue and a worker that may be `asking` for an approval;
replies bypass the queue. `Restart` is a kill and a new process: the offset is in memory
only. Durations are tenths of a second; the jitter is one of the ends of its range, in whole tenths
within it. Feishu's
SDK pushes events, so it has no offset; what it does not deliver is not this program's.

**Auth.** The messaging process has several conversations (`Callers`), which ask for the
credential before every call; a command (`Commands`) is a process of its own. Within a
process a lock per provider covers load, refresh and save; between processes there is
none, as `docs/security.md` says, and the history variable `overlap` records when two
processes were between load and save at once. `grants` is the token endpoint: a refresh may rotate
the refresh token, which spends the one presented. `lost` records a rotation that never
reached auth.json, because the save failed or the process was killed. The browser's part of a
login is one answer: a callback came, or it failed. Scopes and the account's plan are one Boolean, `plan`.

**Executor.** A call has the goroutine's `pc` (prepare, start, run, clean, remove, returned), its host
process, that process's group, for native SRT the runtime directory and the file that pins the exit
status, and for docker the container, which the daemon creates and removes on its own
time. They are joined by signals and exit codes only, so every step of one may
come between any two of another. Startup chooses a backend for the main registry and one
for the read-only subagent from the mode, the network and strictness, and a host may have one
of the defects the probes look for; the probes are taken to find them. Everything that can be
killed may be: the command, the SRT launcher while its command lives on in the group until
`RunReturns` kills that, and the docker CLI while its container runs, which `Remove` then
takes. `Cli` may also lose the daemon at any moment: before the command has started
docker says so with 125 in words `dockerDiagnostic` knows, afterwards in any words. A
command under SRT may write the marker itself (`ForgesMarker`), as the file lies where it may write;
`forged` remembers it. Assumptions:
- the daemon completes a creation it has accepted within the second in which removal is retried;
- the docker CLI exits 0 only for a command that has exited 0, and is not killed from outside, nor
  gives up, while its request for a container is unanswered. (Killed there by somebody else
  than the executor, it would leave a container behind: removal is repeated on "no such
  container" only after a cancellation.)
- a process that leaves its group with setsid, and a kill of claw itself, are not covered, as
  `docs/security.md` says.

## 3. Runs

| Run | Question | Bounds |
|---|---|---|
| `gateway` | safety and liveness of admission, eviction, cancellation and shutdown; `Gateway` implements `TaskIntake` with its fairness | one route; two tasks, a reply, an unaddressed message; two callbacks, two slots, queue 1, memory 1, two deliveries |
| `approval` | approval safety, and every wait ends | two dangerous calls with one ID, one with another, one harmless call |
| `filestore` | store safety through failures, kills, power failures and changes of writer; refinement of `DurableLog` | two processes, three events in batches of one or two; a rollback fails only where it is made good before another process acts |
| `filestore_owed` | expected violation, section 5 | two processes, two events, no such restriction |
| `builder` | the builder's two functions agree with their references | every history of up to four messages, every budget |
| `engine` | what is sent, saved and run under cancellation, failing appends and restarts; the reminder; a cancelled run ends | thirteen messages, up to two calls of two actions, thinking |
| `engine_anchor` | expected violation, section 5 | fourteen messages, one call |
| `session` | memory against log, leases, totals, forks | two goroutines, two objects, two canonical events on top of a legacy log of one, other processes, a kill |
| `channel` | the update offset, the pace of retries, one failure against all, every update is taken | two adapters, three updates, batches of two, queue 1, one restart |
| `channel_blocked` | expected violation, section 5 | one adapter, four updates, nobody waits for the approval's deadline |
| `auth` | one refresh per token, one host ID, no account for another | two conversations, two commands at a time and three in all, two accounts, two grants, one kill |
| `executor` | containment, honest results, nothing left behind | every mode, network, strictness and host defect; a bash call of either registry, one at a time |

Why these bounds suffice for the interesting cases. `gateway`: with two callbacks and
one route a message can arrive at each step of the teardown of the runtime that served
the one before, and the same message can be delivered twice at once; a queue of one
fills up, a memory of one evicts, and two slots let a new runtime start while handlers
still hold the old one. `filestore`: one process can commit twice around the other's
commit, so that sizes and offsets go stale in both directions, and a batch of two can
be cut at every place. `builder`: four messages are a request, a reply with two calls and
its two results, or two shorter turns. `engine`: thirteen messages are three turns of two
calls in a window that holds fewer, with requests between, and enough turns for a streak
of three and the reminder after it. `session`: a second object lets a session be reopened
while a caller still holds the closed one, and two goroutines fill every gap of each
other's load and close; the second write tells a stale total from a right one. `channel`:
an update that is rejected, redelivered and followed by another, in one batch of two and
in two; a doubled delay that reaches the maximum. `auth`: the second grant is what a first
refresh or a second login makes, and the third command comes after a login and a logout.
`executor`: calls share only what startup chose and no step of one reads another, so one
call of each registry is as good as several; the run's constraint `OneCall` lets the second get
only as far as it can without starting anything. Symmetry is used where
the permuted values are interchangeable and the run has no liveness property.

`CHECK_DEADLOCK FALSE` is set for `builder`, whose histories end at their bound, and for
`engine`, which may stop at the bound of its messages. The other modules name their
legitimate ends in an action of their own, or can always go on.

Fairness.
- `Gateway` (`FairSpec`): weak fairness of each handler's and each worker's next step (the
  Go scheduler; runs and notices end or fail) and of the steps of a Shutdown that has
  been called. An armed timer fires when nothing else happens. Nobody has to send,
  cancel or call Shutdown.
- `Approval` (`FairSpec`): weak fairness of each call's goroutine and of its deadline; no human
  has to answer.
- `Engine` (`Spec`): weak fairness of the steps of a run whose context is done: the provider's
  requests and the tools were given that context and return. An uncancelled run may go
  on for ever: `Run` has no limit of turns.
- `Channel` (`PatientSpec`): weak fairness of goroutines and armed timers; strong fairness of
  the connection, of polling and of a task's end, which other steps disable in between:
  the platform answers again and again, and a task that does not ask ends. `FairSpec` adds
  the deadline of an approval, which `context.WithTimeout` gives each of them.
- All other modules have safety properties only and state no fairness.

The properties, by run.
- `gateway`. `OneRuntimePerRoute`: no second runtime, hence no second writer, before the first has
  closed its session. `NoTaskStranded`: only cancellation loses an accepted message.
  `QuietAfterShutdown`, `ShutdownCompletes`, `IdleRuntimesEvicted`. `AcceptedNoticeFirst`: no report of
  a task while its notice is owed. `ImplementsIntake`: a pending task is an element of the
  queue of the route's current runtime; a message is remembered from its enqueue on.
- `approval`. `AllowedOnlyIfApproved`: one matched approving reply, and no other way.
  `ShownIsPending`: whatever earlier users of an ID do, a reply to a shown request reaches it.
  `NoStaleEntry`, `EveryCheckReturns`.
- `filestore`. `LogIntact`: no sequence of failures leaves a file that is rejected for good.
  `CacheSound`: when size, identity and mtime agree, the cache is what a replay would give.
  `FailedStaysOut`: events of a failed `Append` are in no snapshot a commit starts from or publishes
  and, once no rollback is owed, not in the file. `AckedIsDurable`. `ImplementsDurableLog`: during a commit, and while a rollback
  is owed, the abstract log is the file up to the committed offset; otherwise it is what a
  replay returns.
- `builder`. `UnitsAreChains`, `BuildIsLongestView`: it accepts exactly the complete tool chains and
  sends the longest view that begins at a request and fits, or fails.
- `engine`. `SentIsLegal`, `CompleteUnlessInterrupted`, `DamageIsFinal` (no reply is generated for a damaged
  session), `ToolsRunOnce` (saved before run, never run again), `RequestIsAnchored`, `ReminderNotMissed`, `CancelEnds`.
- `session`. `MemoryIsLog`, `LeaseIsAccountedFor`, `UsageIsSum`, `NoFork`.
- `channel`. `NoUpdateLost`: what `Receive` took is an unbroken run of updates, up to the offset. `RetryIsPaced`:
  the delay is at least 0.9 of the doubling one and of what the platform asks, and bounded.
  `OneFailureIsNotAll`, `EveryUpdateHandled`.
- `auth`. `GrantsSpentOnce` and `AccountChangesByLogout` hold as long as no two processes are between
  load and save at once, which nothing in the code prevents (`docs/security.md`): the
  history variable `overlap` says so in the properties. `HostIDIsOne` and `AccountsDoNotMix` hold
  without that condition.
- `executor`. `RanContained`: what ran, ran behind the network and the write protection asked for.
  `SuccessIsEarned`: a tool result that is not an error stands for a command that was started once,
  came to its own end and succeeded; on the host and under SRT an exit code without an error is
  always the command's. Calls whose command wrote the marker itself are left out: the marker is
  "not a security boundary" (`docs/security.md:183`). `NothingLeftBehind`: after the return nothing of the
  call exists or can come into being, unless its error names it.

Each property has a mutant in `PROJECT.json`: a plausible mistake in one mapped definition
(kept beside it in the module) that makes the run fail. The type invariants (`TypeOK`) and
inductive invariants are not run's properties where a theorem proves them.

## 4. Proofs

All theorems hold for every value of the constants that satisfies the module's named
assumption, which TLC evaluates on every run. Each proof module has the same shape:
`Init` establishes an inductive invariant, one lemma per action (in `Executor` one per kind of
change of a call's record) shows that it is kept, and the properties follow.

`GatewayProofs`: `TypeCorrect`, with the bounds of queues and memory, and `InvariantHolds`.
`OneRuntimePerRoute` is not inductive: it needs that the map and the live workers point at
each other (`MapAndWorkersAgree`), which a teardown preserves only because it removes
the entry after the session is closed and by identity. `NoTaskStranded` needs that a closing
worker is leaving and that a worker leaves only when cancelled or after closing an empty
queue (`LeavingIsJustified`); the idle test needs the snapshot to bound `activitySeq` while the
timer is armed (`SnapshotOK`). `HoldersOK` relates handlers to the notices that are owed. From
it `OneWriterPerRoute`, `NothingStranded`, `SnapshotIsExact`, `ShutdownIsQuiet`, `NoticeFirst`.
`IntakeIsSafe` is the refinement of `TaskIntake` without its fairness: every step of the gateway
is a step of `TaskIntake` or is not seen. It needs that the admission lock is held from the look at
the memory to the remembering, so that what is enqueued is still unknown then (`AdmissionOK`),
and that a worker has a message exactly while it processes one (`TasksOK`).

`ApprovalProofs`: types and `ApprovalInvariant` (a pending entry belongs to a call that waits under
its own key and is unanswered; what was answered is in the channel until it is taken).
From it `DenyByDefault`, `NoReplyLost` and `ConsumedOnce`; the last proves `AnsweredOnce`, too.

`FileStoreProofs`: `FilesOK` says that the records of a file and of the disk are distinct
and were issued, with a torn one at the end at most; `LockOK` that whoever mutates the file or has
the lease holds the flock, and that a process that owes a rollback is alone; `CommitOK` what a process in the middle of a commit knows: the
snapshot it started from is still in the file, all that was acknowledged is in that, nothing
that failed is; `SharedOK` that what was acknowledged lies in the part that file and disk have in
common, so that neither a kill nor a power failure takes it. From them `LogStaysIntact`,
`CacheStaysSound`, `FailedEventsStayOut`, `AcknowledgedIsDurable`, for any number of processes, any
events, batches and failures. `LogIsDurable` is the refinement of `DurableLog`, step by step: `LogShape` says
that the abstract log is the snapshot while a commit is unsettled and what a replay returns
otherwise; then `Finish` and `Crash` extend it, `PowerLoss` may lose what was not
acknowledged, and everything else stutters. All of it is about `AloneSpec`, in which an owed
rollback is made good before another process acts (`OwesAlone`). That is a restriction of
the environment and not of the code; the run `filestore_owed` shows what happens without it.

`EngineProofs` proves about the builder first. `units` and `Build` are folds, so what they return is
shown by induction over the positions of the history, which here is an induction over sets of
numbers (`Induction`, `Recursion`). `units` accepts exactly the `Legal` histories and cuts them
without loss; `Build` returns the longest of the `Fitting` views, or fails when there is none.
`UnitsCorrect` and `BuildCorrect` say so for every history, estimate and budget. The invariant of the
loop: `ChainsKept` (until a run is cut short the session is legal, or will be when the results of the
reply in hand are in), `SessionShaped` (it begins with a request, and its results answer
something), `ViewsSent` (the model is asked, and its reply saved, on a legal conversation, and
what it is sent is the longest view that fits), `DamageIsFinal`,
`DispatchRecorded` (between the saving of a reply and the start of its tools the reply is the last
message and beyond every batch started before), and `StreakCounted` (the counter of an action is
never behind the streak that ends with it). From it `CompleteRuns`, `SendsLegal`, `SendsRequest`, `DamagedStays`,
`NeverRerun` and `RemindedInTime`, for any replies, actions and budgets; the engine's messages
weigh one token each, so that other estimates are covered by `UnitsCorrect` and `BuildCorrect` only.

`SessionProofs`: the four locks have to be told apart. `MutexOK` says which steps hold the
mutex of an ID, `LeaseOK` to whom a lease belongs, `HolderOK` what an operation that holds the
lease knows of its log, `MemoryOK` how far a session's memory may be behind its log between
`StoreAppend` and `Remember`, and `ResolveOK` that whoever goes on to create under the
canonical ID found no legacy log, and that none comes to be afterwards. From
these `LeaseAlwaysAccounted`, `MemoryAlwaysLog`, `TotalsAlwaysSums` and `NeverForked`, for any number of
goroutines, objects and events.

`ChannelProofs`: `BatchOK` says that the batch in hand is the run of updates from the offset on,
within what was sent; without it neither a rejected update nor a restart in the middle
of a batch can be followed. `EndedOK` says why a supervisor may have ended, `PacedOK` how far its
backoff has come after so many failures. From them `EachUpdateOnce`,
`OthersKeepRunning` and `WaitsAsItShould`, for any adapters, errors, delays, queue and batch sizes and restarts.

`ExecutorProofs`: the invariant relates the goroutine's step of a call to the state its host process,
group, directory and container can then be in: `CommandOK` ties the command to its marker and
container, `ExitOK` says what an exit code means before the backend has looked at it, `OutcomeOK` what
a returned result means, whatever signals the command, the launcher and the CLI receive.
From it `ContainedAlways`, `SuccessAlwaysEarned` and `NothingEverLeftBehind`, for any number of calls and
any set of command lines and host defects, under the assumptions of section 2.

`AuthProofs`: `SectionOK` says that without an overlap one actor at a time is between load and
save and holds what is stored; `LoginOK` that nobody else knows the tokens of a login before
they are saved; `TokensOK` that the stored refresh token is good unless its successor is on
the way to the file; `HostOK` that one command at a time is under the lock of host.json and
that everybody who logs in has its ID. From them `SpentOnce`, `OneHostID`, `NoMixing` and
`NoSilentChange`, for any number of conversations, commands, accounts and grants.

Only model-checked: everything temporal under fairness, which is `IdleRuntimesEvicted`,
`ShutdownCompletes`, `EveryCheckReturns`, `CancelEnds`, `EveryUpdateHandled`, and of `ImplementsIntake` the fairness of
`TaskIntake`. Liveness and ENABLED are out of the prover's reach. Every other property of a
passing run is the subject of a theorem.

## 5. Findings, and observations that are none

**A rollback that is still owed deletes another process's events** (`filestore_owed`,
`AckedIsDurable`). `docs/security.md:26` says that when restoring the tail fails, further
commits are refused until it has been retried. `needsRecovery` lives in one process's
memory; `Release` and `AcquireWriter` ignore it. Process A fails to append and to roll
back and gives up the writer; process B acquires it, replays and commits; A's next
operation truncates the file to A's old offset, and B's acknowledged events are gone.

**After a reminder the user's request may be dropped** (`engine_anchor`, `CurrentRequestSent`).
`context/builder.go:122` calls the latest user request a hard anchor that is never silently
truncated, and `docs/M5-report.md:92` says the same. The anchor is the last message with role
user and no tool call ID; the engine's own reminder is one (`engine/reminder.go:63`). If the
turn of the real request does not fit beside the reminder, the model is sent the reminder
alone, and no error is raised.

**An approval behind a rejected task is not delivered** (`channel_blocked`, `ReplyEndsWait`).
`README.md:306` and `docs/M5.6-report.md:61` say that an approval passes a full queue and ends
the wait at once. `Receive` does that, but Telegram's adapter hands it updates one after the
other: a task that is rejected because the queue is full ends `Start` with the offset
before it (`telegram/adapter.go:92`), every restart fetches and rejects it again, and the
reply behind it is not seen before the approval's deadline has denied the call.

Observations. Limits that the repository documents itself, or that no text of it denies:
- Batches are not atomic across a crash, and an unacknowledged batch may survive a failed
  rollback followed by a crash (`docs/M5.1-report.md:201`). A crash or cancellation between a
  tool request and its results leaves a session that is refused from then on
  (`docs/M5.1-report.md:202`); `DamageIsFinal` is that refusal.
- A reply carries a task ID only, so a late reply to an earlier request approves a later
  one of the same session with the same ID. The program has nothing to tell them apart.
- `SnapshotIsExact` shows that the two tests of `beginEviction` are equivalent, as only the worker
  takes messages out: the activity sequence is not what makes eviction safe, contrary to
  what `docs/M5.5-report.md` suggests. It is harmless.
- A command that succeeds but leaves a child in the background that holds its output
  pipes is reported as an infrastructure error after `WaitDelay`. `SuccessIsEarned` allows it: an
  error promises nothing about the command.
- A docker CLI that loses the daemon while its container runs exits with 125 in words
  `dockerDiagnostic` does not look for (`executor/docker.go:145`), and `Execute` returns no error, although
  `docs/security.md:181` wants an InfrastructureError of every error of the daemon. A docker
  CLI, or a local shell, that a signal ends is returned with exit code -1 and no error
  (`executor/process.go:81`). The model has both. Neither is ever a success: the tool result is an error, as
  the code is not 0, which is what `SuccessIsEarned` asks under docker.
- A `Load` without the flock may read a batch in flight and return it, although it is rolled
  back afterwards (`sessionstore/file.go:394`). Its process looks at the file again before it commits.
- A command whose own output reads like a diagnosis of docker is reported as a failure of
  docker; that too errs on the safe side.

## 6. What is not modelled, and why

`PROJECT.json` lists every component with its status.
- `RunSub`, the subagent's loop: `Run`'s without a session and with a limit of ten turns. What it
  shares with its parent is modelled: the read-only sandbox in `Executor`, the recording of
  usage in `SessionService`.
- The file tools are single operations on a file. Two `edit_file` calls of a turn may lose an
  edit between read and write (listed as a hazard), and neither code nor docs promise more.
- Access policy, command parsing, the report modes: pure decisions, made one at a time.
- Provider wire formats, prompts, skills, message splitting, Feishu's normalisation: text.
- OAuth's browser callback, PKCE and the verification of ID tokens: cryptography and one
  HTTP exchange; `Auth` takes its result.
- `AccountsDoNotMix` compares registrations, not grants: `claw models` in another process may publish
  what it discovered under an earlier grant of the same account just after a login has
  cleared the catalog (`cmd/claw/commands.go:256`). `Auth` has that step and no property of it.
- Reuse of a process ID between the end of a process and the signal to its group
  (`executor/local.go`), and processes that leave their group.
- Configuration, project trust, observability: read once at startup, or never read back.
- The store's `List` is read-only and the memory store serves tests.

## 7. What could come next

1. `SessionService` over `FileStore` itself in place of what `DurableLog` promises.
2. The subagent's loop `RunSub` beside `Run`, and two `edit_file` calls of a turn on one file.
