--------------------------- MODULE SessionService ---------------------------
(***************************************************************************)
(* Sessions of one process over the durable log: context/service.go, the   *)
(* mutating half of context/session.go, and DurableSessions.Resolve of     *)
(* gateway/session.go.                                                     *)
(*                                                                         *)
(* Four locks meet here: the mutex the service keeps per ID, the mutex of  *)
(* each Session, the map of published sessions, and the writer lease of    *)
(* the store, which other claw processes want too. No call holds two       *)
(* mutexes: load looks at a published session under its mutex while        *)
(* holding the ID's, and Close unpublishes and releases under the          *)
(* session's mutex alone.                                                  *)
(*                                                                         *)
(* The store is what DurableLog promises: an append is committed whole or  *)
(* not at all. A session ID has at most one log; a message is the one who  *)
(* wrote it, a usage event the cumulative total it carries.                *)
(***************************************************************************)
EXTENDS Naturals, Sequences, FiniteSets

CONSTANTS
    Callers,    \* goroutines of this process
    Objects,    \* Session objects it may have in memory at a time
    Key,        \* canonical ID of a route, channel.BuildSessionKey
    Legacy,     \* ID earlier versions gave the same route: found, never created
    Kinds,      \* service calls the callers make
    MaxEvents,  \* bound: [Ids -> Nat], messages and recordings in each log
    Other,      \* every other claw process
    None

Ids == {Key, Legacy}

ASSUME SessionAssumption ==
    /\ Key # Legacy
    /\ None \notin Callers \cup Objects \cup Ids
    /\ Other \notin Callers \cup Objects \cup {None}
    /\ Callers \cap Objects = {}
    /\ Kinds \subseteq {"resolve", "resume", "getOrCreate", "create", "delete"}
    /\ MaxEvents \in [Ids -> Nat]

VARIABLES
    log,        \* Store: ID -> its durable snapshot, NoLog when there is none
    owner,      \* Store: ID -> holder of the writer lease
    locks,      \* s.locks: ID -> caller holding its mutex
    sessions,   \* s.sessions: ID -> published session
    sess,       \* session objects
    smu,        \* Session.mu, held over several steps
    op,         \* the call each caller is in
    held,       \* session each caller works with
    recorded    \* history: usage recordings committed to each log

vars == <<log, owner, locks, sessions, sess, smu, op, held, recorded>>

NoLog == [history |-> <<>>, usage |-> 0, exists |-> FALSE]
Fresh == [NoLog EXCEPT !.exists = TRUE]
Unused == [state |-> "unused", id |-> None, history |-> <<>>, usage |-> 0]
Idle == [pc |-> "idle", kind |-> "none", id |-> None, obj |-> None]

\* Logs of a session found on disk: a legacy one may be there from the start.
Init ==
    /\ log \in {[i \in Ids |-> IF i \in there THEN Fresh ELSE NoLog] : there \in SUBSET Ids}
    /\ owner = [i \in Ids |-> None]
    /\ locks = [i \in Ids |-> None]
    /\ sessions = [i \in Ids |-> None]
    /\ sess = [o \in Objects |-> Unused]
    /\ smu = [o \in Objects |-> None]
    /\ op = [c \in Callers |-> Idle]
    /\ held = [c \in Callers |-> None]
    /\ recorded = [i \in Ids |-> 0]

At(c, pc)      == op[c].pc = pc
Goto(c, pc)    == op' = [op EXCEPT ![c].pc = pc]
Unlock(c)      == locks' = [locks EXCEPT ![op[c].id] = None]
Release(c)     == owner' = [owner EXCEPT ![op[c].id] = None]

-----------------------------------------------------------------------------
(* The service's calls.                                                     *)

\* Service.Create is called for the canonical ID only; a caller asks for a new
\* session when it has none.
Begin(c, kind, i) ==
    /\ At(c, "idle") /\ held[c] = None
    /\ kind \in {"resolve", "create", "getOrCreate"} => i = Key
    /\ op' = [op EXCEPT ![c] = [Idle EXCEPT !.pc = "lock", !.kind = kind, !.id = i]]
    /\ UNCHANGED <<log, owner, locks, sessions, sess, smu, held, recorded>>

\* The step a call begins with once it has the ID's mutex.
Entry(kind) == IF kind \in {"create", "canonical"} THEN "acquire"
               ELSE IF kind = "delete" THEN "delete" ELSE "look"

Lock(c) ==
    /\ At(c, "lock") /\ locks[op[c].id] = None
    /\ locks' = [locks EXCEPT ![op[c].id] = c]
    /\ Goto(c, Entry(op[c].kind))
    /\ UNCHANGED <<log, owner, sessions, sess, smu, held, recorded>>

\* The call returns an error, under the ID's mutex.
Fail(c) == Unlock(c) /\ op' = [op EXCEPT ![c] = Idle]

\* The call returns session o.
Return(c, o) == Fail(c) /\ held' = [held EXCEPT ![c] = o]

\* load: a done context fails; a published session is looked at next.
Look(c) ==
    /\ At(c, "look")
    /\ \/ Fail(c)
       \/ LET o == sessions[op[c].id] IN
          /\ op' = [op EXCEPT ![c].pc = IF o = None THEN "acquire" ELSE "peek", ![c].obj = o]
          /\ UNCHANGED locks
    /\ UNCHANGED <<log, owner, sessions, sess, smu, held, recorded>>

\* load takes the session's RLock, which a Close in progress holds back, reads
\* closed and unlocks: the session it returns may be closed by then.
Peek(c) ==
    /\ At(c, "peek") /\ smu[op[c].obj] = None
    /\ IF sess[op[c].obj].state = "open"
       THEN Return(c, op[c].obj)
       ELSE Goto(c, "acquire") /\ UNCHANGED <<locks, held>>
    /\ UNCHANGED <<log, owner, sessions, sess, smu, recorded>>

\* AcquireWriter never waits: ErrInUse, or the context is done.
Acquire(c) ==
    /\ At(c, "acquire")
    /\ \/ Fail(c) /\ UNCHANGED owner
       \/ /\ owner[op[c].id] = None
          /\ owner' = [owner EXCEPT ![op[c].id] = c]
          /\ Goto(c, IF op[c].kind \in {"create", "canonical"} THEN "write" ELSE "read")
          /\ UNCHANGED locks
    /\ UNCHANGED <<log, sessions, sess, smu, held, recorded>>

\* attach and publish session o with a snapshot of the log, then return it.
Publish(c, o, snap) ==
    /\ sess' = [sess EXCEPT ![o] = [state |-> "open", id |-> op[c].id,
                                    history |-> snap.history, usage |-> snap.usage]]
    /\ owner' = [owner EXCEPT ![op[c].id] = o]
    /\ sessions' = [sessions EXCEPT ![op[c].id] = o]
    /\ Return(c, o)

\* Where a call goes on after ErrNotFound: Resolve tries the legacy ID and
\* then creates the canonical one, each a call of its own; GetOrCreate creates
\* under the mutex it holds; the others fail.
NotFound(c) ==
    LET again(kind, i) == /\ Unlock(c)
                          /\ op' = [op EXCEPT ![c] = [Idle EXCEPT !.pc = "lock", !.kind = kind, !.id = i]]
    IN \/ op[c].kind = "resolve" /\ op[c].id = Key    /\ again("resolve", Legacy)
       \/ op[c].kind = "resolve" /\ op[c].id = Legacy /\ again("canonical", Key)
       \/ /\ op[c].kind = "getOrCreate"
          /\ op' = [op EXCEPT ![c].pc = "acquire", ![c].kind = "create"]
          /\ UNCHANGED locks
       \/ op[c].kind \notin {"resolve", "getOrCreate"} /\ Fail(c)

\* mutant: any error of Load counts as not found.
ReadAnyError(c) ==
    /\ At(c, "read")
    /\ \/ /\ NotFound(c)
          /\ Release(c)
          /\ UNCHANGED <<sessions, sess, held>>
       \/ \E o \in Objects :
             /\ sess[o].state = "unused" /\ log[op[c].id].exists
             /\ Publish(c, o, log[op[c].id])
    /\ UNCHANGED <<log, smu, recorded>>

\* mutant: a work directory that is gone fails the call with the lease held.
ReadLeaking(c) ==
    /\ At(c, "read")
    /\ \/ /\ ~log[op[c].id].exists
          /\ NotFound(c)
          /\ Release(c)
          /\ UNCHANGED <<sessions, sess, held>>
       \/ /\ log[op[c].id].exists
          /\ Fail(c)
          /\ UNCHANGED <<owner, sessions, sess, held>>
       \/ \E o \in Objects :
             /\ sess[o].state = "unused" /\ log[op[c].id].exists
             /\ Publish(c, o, log[op[c].id])
    /\ UNCHANGED <<log, smu, recorded>>

\* Store.Load and the work directory's stat, with the lease held: no log, an
\* error (corruption, done context, directory gone), or the snapshot.
Read(c) ==
    /\ At(c, "read")
    /\ \/ /\ ~log[op[c].id].exists
          /\ NotFound(c)
          /\ Release(c)
          /\ UNCHANGED <<sessions, sess, held>>
       \/ /\ Fail(c)
          /\ Release(c)
          /\ UNCHANGED <<sessions, sess, held>>
       \/ \E o \in Objects :
             /\ sess[o].state = "unused" /\ log[op[c].id].exists
             /\ Publish(c, o, log[op[c].id])
    /\ UNCHANGED <<log, smu, recorded>>

\* Store.Create: ErrExists or an error before the log is there, an error after
\* it was linked into place, or success; the errors give the lease back.
Write(c) ==
    /\ At(c, "write")
    /\ \/ /\ Fail(c)
          /\ Release(c)
          /\ UNCHANGED <<log, sessions, sess, held, recorded>>
       \/ /\ ~log[op[c].id].exists
          /\ log' = [log EXCEPT ![op[c].id] = Fresh]
          /\ recorded' = [recorded EXCEPT ![op[c].id] = 0]
          /\ \/ Fail(c) /\ Release(c) /\ UNCHANGED <<sessions, sess, held>>
             \/ \E o \in Objects : sess[o].state = "unused" /\ Publish(c, o, Fresh)
    /\ UNCHANGED smu

\* Service.Delete: the store refuses while anybody holds the lease, this
\* process included. The map entry goes with the log.
Delete(c) ==
    /\ At(c, "delete")
    /\ \/ UNCHANGED <<log, sessions, recorded>>
       \/ /\ owner[op[c].id] = None /\ log[op[c].id].exists
          /\ log' = [log EXCEPT ![op[c].id] = NoLog]
          /\ recorded' = [recorded EXCEPT ![op[c].id] = 0]
          /\ sessions' = [sessions EXCEPT ![op[c].id] = None]
    /\ Fail(c)
    /\ UNCHANGED <<owner, sess, smu, held>>

-----------------------------------------------------------------------------
(* Mutations of a session: memory follows the log, under the session mutex. *)

\* mutant: a call that got past the mutex does not look at closed again.
MutateClosed(c, kind) ==
    /\ At(c, "idle") /\ held[c] # None /\ smu[held[c]] = None
    /\ smu' = [smu EXCEPT ![held[c]] = c]
    /\ op' = [op EXCEPT ![c] = [Idle EXCEPT !.pc = "store", !.kind = kind]]
    /\ UNCHANGED <<log, owner, locks, sessions, sess, held, recorded>>

\* Append or RecordUsage: ErrSessionClosed leaves everything as it was.
Mutate(c, kind) ==
    /\ At(c, "idle") /\ held[c] # None /\ smu[held[c]] = None
    /\ sess[held[c]].state = "open"
    /\ smu' = [smu EXCEPT ![held[c]] = c]
    /\ op' = [op EXCEPT ![c] = [Idle EXCEPT !.pc = "store", !.kind = kind]]
    /\ UNCHANGED <<log, owner, locks, sessions, sess, held, recorded>>

\* What Append or RecordUsage makes of a snapshot: usage events carry totals.
Applied(kind, c, snap) ==
    IF kind = "append" THEN [snap EXCEPT !.history = Append(@, c)]
                       ELSE [snap EXCEPT !.usage = @ + 1]

\* The event the store is given is built from memory: a message is added to
\* what the log has, a total replaces it.
Committed(kind, c, o) ==
    LET i == sess[o].id IN
    IF kind = "append" THEN [log[i] EXCEPT !.history = Append(@, c)]
                       ELSE [log[i] EXCEPT !.usage = sess[o].usage + 1]

Room(i) == Len(log[i].history) + recorded[i] < MaxEvents[i]

\* mutant: memory keeps what the store refused.
StoreKept(c) ==
    LET o == held[c] kind == op[c].kind i == sess[o].id IN
    /\ At(c, "store")
    /\ \/ Goto(c, "memory") /\ UNCHANGED <<log, smu, recorded>>
       \/ /\ owner[i] # Other /\ log[i].exists
          /\ Room(i)
          /\ log' = [log EXCEPT ![i] = Committed(kind, c, o)]
          /\ recorded' = [recorded EXCEPT ![i] = IF kind = "record" THEN @ + 1 ELSE @]
          /\ Goto(c, "memory") /\ UNCHANGED smu
    /\ UNCHANGED <<owner, locks, sessions, sess, held>>

\* store.Append: it refuses, and the call fails, or commits. The store's guard
\* lets through whoever is in the process that has the lease, or anybody when
\* nobody has it.
StoreAppend(c) ==
    LET o == held[c] kind == op[c].kind i == sess[o].id IN
    /\ At(c, "store")
    /\ \/ /\ op' = [op EXCEPT ![c] = Idle]
          /\ smu' = [smu EXCEPT ![o] = None]
          /\ UNCHANGED <<log, recorded>>
       \/ /\ owner[i] # Other /\ log[i].exists
          /\ Room(i)
          /\ log' = [log EXCEPT ![i] = Committed(kind, c, o)]
          /\ recorded' = [recorded EXCEPT ![i] = IF kind = "record" THEN @ + 1 ELSE @]
          /\ Goto(c, "memory") /\ UNCHANGED smu
    /\ UNCHANGED <<owner, locks, sessions, sess, held>>

\* The committed fact reaches memory.
Remember(c) ==
    /\ At(c, "memory")
    /\ sess' = [sess EXCEPT ![held[c]] = Applied(op[c].kind, c, @)]
    /\ smu' = [smu EXCEPT ![held[c]] = None]
    /\ op' = [op EXCEPT ![c] = Idle]
    /\ UNCHANGED <<log, owner, locks, sessions, held, recorded>>

-----------------------------------------------------------------------------
(* Session.Close, and letting a session go.                                 *)

\* A second Close does nothing.
Close(c) ==
    /\ At(c, "idle") /\ held[c] # None /\ smu[held[c]] = None
    /\ sess[held[c]].state = "open"
    /\ sess' = [sess EXCEPT ![held[c]].state = "closed"]
    /\ smu' = [smu EXCEPT ![held[c]] = c]
    /\ op' = [op EXCEPT ![c] = [Idle EXCEPT !.pc = "unpublish", !.kind = "close"]]
    /\ UNCHANGED <<log, owner, locks, sessions, held, recorded>>

\* onClose: CompareAndDelete.
Unpublish(c) ==
    LET o == held[c] i == sess[o].id IN
    /\ At(c, "unpublish")
    /\ sessions' = [sessions EXCEPT ![i] = IF @ = o THEN None ELSE @]
    /\ Goto(c, "release")
    /\ UNCHANGED <<log, owner, locks, sess, smu, held, recorded>>

\* writer.Release, still under the session's mutex.
ReleaseWriter(c) ==
    /\ At(c, "release")
    /\ owner' = [owner EXCEPT ![sess[held[c]].id] = None]
    /\ smu' = [smu EXCEPT ![held[c]] = None]
    /\ op' = [op EXCEPT ![c] = Idle]
    /\ UNCHANGED <<log, locks, sessions, sess, held, recorded>>

\* A caller forgets a session; a closed one nobody refers to is collected.
Forget(c) ==
    /\ At(c, "idle") /\ held[c] # None
    /\ held' = [held EXCEPT ![c] = None]
    /\ LET o == held[c] IN
       sess' = [sess EXCEPT ![o] =
                  IF /\ @.state = "closed" /\ smu[o] = None
                     /\ \A d \in Callers \ {c} : held[d] # o /\ op[d].obj # o
                  THEN Unused ELSE @]
    /\ UNCHANGED <<log, owner, locks, sessions, smu, op, recorded>>

-----------------------------------------------------------------------------
(* The rest of the machine.                                                 *)

\* Other processes take the lease of a session, write to it and release it;
\* they create canonical sessions and delete any.
OtherTakes(i) ==
    /\ owner[i] = None
    /\ log[i].exists \/ i = Key
    /\ owner' = [owner EXCEPT ![i] = Other]
    /\ log' = [log EXCEPT ![i].exists = TRUE]
    /\ UNCHANGED <<locks, sessions, sess, smu, op, held, recorded>>

OtherWrites(i) ==
    /\ owner[i] = Other /\ Room(i)
    /\ \/ /\ log' = [log EXCEPT ![i].history = Append(@, Other)]
          /\ UNCHANGED recorded
       \/ /\ log' = [log EXCEPT ![i].usage = @ + 1]
          /\ recorded' = [recorded EXCEPT ![i] = @ + 1]
    /\ UNCHANGED <<owner, locks, sessions, sess, smu, op, held>>

OtherReleases(i) ==
    /\ owner[i] = Other
    /\ owner' = [owner EXCEPT ![i] = None]
    /\ UNCHANGED <<log, locks, sessions, sess, smu, op, held, recorded>>

OtherDeletes(i) ==
    /\ owner[i] = None /\ log[i].exists
    /\ log' = [log EXCEPT ![i] = NoLog]
    /\ recorded' = [recorded EXCEPT ![i] = 0]
    /\ UNCHANGED <<owner, locks, sessions, sess, smu, op, held>>

\* The process is killed and started again: the kernel gives up its leases,
\* the log stays.
Kill ==
    /\ op # [c \in Callers |-> Idle] \/ held # [c \in Callers |-> None]
    /\ owner' = [i \in Ids |-> IF owner[i] = Other THEN Other ELSE None]
    /\ locks' = [i \in Ids |-> None]
    /\ sessions' = [i \in Ids |-> None]
    /\ sess' = [o \in Objects |-> Unused]
    /\ smu' = [o \in Objects |-> None]
    /\ op' = [c \in Callers |-> Idle]
    /\ held' = [c \in Callers |-> None]
    /\ UNCHANGED <<log, recorded>>

-----------------------------------------------------------------------------
\* The steps of a call that has begun.
Step(c) ==
    \/ Lock(c) \/ Look(c) \/ Peek(c) \/ Acquire(c) \/ Read(c) \/ Write(c) \/ Delete(c)
    \/ StoreAppend(c) \/ Remember(c) \/ Unpublish(c) \/ ReleaseWriter(c)

Next ==
    \/ \E c \in Callers :
          \/ Step(c)
          \/ \E kind \in Kinds, i \in Ids : Begin(c, kind, i)
          \/ \E kind \in {"append", "record"} : Mutate(c, kind)
          \/ Close(c) \/ Forget(c)
    \/ \E i \in Ids : OtherTakes(i) \/ OtherWrites(i) \/ OtherReleases(i) \/ OtherDeletes(i)
    \/ Kill

Spec == Init /\ [][Next]_vars

-----------------------------------------------------------------------------
(* Properties.                                                              *)

\* What a session holds in memory is exactly what the log says, whenever its
\* mutex is free: no write by another holder of the lease, by a caller whose
\* session was closed under it, or by a call that failed, is missing or extra.
MemoryIsLog ==
    \A o \in Objects :
       sess[o].state = "open" /\ smu[o] = None =>
          LET i == sess[o].id IN
          /\ log[i].exists
          /\ sess[o].history = log[i].history
          /\ sess[o].usage = log[i].usage

\* A lease this process holds belongs to the published session of its ID or to
\* a call in progress under the ID's mutex: no error path keeps it, and no
\* second session of the ID is open beside it.
LeaseIsAccountedFor ==
    /\ \A i \in Ids :
          /\ owner[i] \in Objects =>
                /\ sess[owner[i]].state # "unused" /\ sess[owner[i]].id = i
                /\ sess[owner[i]].state = "open" \/ smu[owner[i]] # None
          /\ owner[i] \in Callers =>
                /\ op[owner[i]].id = i /\ op[owner[i]].pc \in {"read", "write"}
                /\ locks[i] = owner[i]
    /\ \A o \in Objects : sess[o].state = "open" =>
          owner[sess[o].id] = o /\ sessions[sess[o].id] = o

\* The total a log carries counts every recording committed to it once,
\* whoever made it: parallel subagents, other processes, earlier runs.
UsageIsSum == \A i \in Ids : log[i].usage = recorded[i]

\* Resolve creates the canonical session only when the route has no log of
\* either ID: contention, corruption or cancellation never fork it.
NoFork ==
    [][ \A c \in Callers :
          op[c].kind = "canonical" /\ ~log[Key].exists /\ log'[Key].exists /\ owner[Key] = c
             => ~log[Legacy].exists ]_vars

-----------------------------------------------------------------------------
(* The inductive invariant, one part for each lock and each relation.       *)

\* Where a call is while it has its ID's mutex, or its session's.
Locked  == {"look", "peek", "acquire", "read", "write", "delete"}
Working == {"store", "memory", "unpublish", "release"}

\* The values of log, sess and op.
Histories == Seq(Callers \cup {Other})
Snapshots == [history : Histories, usage : Nat, exists : BOOLEAN]
States    == {"unused", "open", "closed"}
Sessions  == [state : States, id : Ids \cup {None}, history : Histories, usage : Nat]
Places    == {"idle", "lock"} \cup Locked \cup Working
CallKinds == {"none", "canonical", "resolve", "resume", "getOrCreate", "create", "delete",
              "append", "record", "close"}
Ops       == [pc : Places, kind : CallKinds, id : Ids \cup {None}, obj : Objects \cup {None}]

\* Types.
TypeOK ==
    /\ log \in [Ids -> Snapshots]
    /\ owner \in [Ids -> Objects \cup Callers \cup {Other, None}]
    /\ locks \in [Ids -> Callers \cup {None}]
    /\ sessions \in [Ids -> Objects \cup {None}]
    /\ sess \in [Objects -> Sessions]
    /\ smu \in [Objects -> Callers \cup {None}]
    /\ op \in [Callers -> Ops]
    /\ held \in [Callers -> Objects \cup {None}]
    /\ recorded \in [Ids -> Nat]

\* The ID's mutex belongs to the call that is under it.
MutexOK ==
    /\ \A c \in Callers : op[c].pc \in Locked \cup {"lock"} => op[c].id \in Ids
    /\ \A c \in Callers : op[c].pc \in Locked => locks[op[c].id] = c
    /\ \A c \in Callers : op[c].pc = "peek" => op[c].obj # None
    /\ \A i \in Ids : locks[i] # None => op[locks[i]].id = i /\ op[locks[i]].pc \in Locked

\* The lease belongs to a call that loads or creates, or to an open session or
\* one whose Close has not come to Release.
LeaseOK ==
    /\ \A c \in Callers : op[c].pc \in {"read", "write"} => owner[op[c].id] = c
    /\ \A i \in Ids : owner[i] \in Callers =>
          op[owner[i]].id = i /\ op[owner[i]].pc \in {"read", "write"}
    /\ \A i \in Ids : owner[i] \in Objects =>
          /\ sess[owner[i]].state # "unused" /\ sess[owner[i]].id = i
          /\ sess[owner[i]].state = "open" \/ smu[owner[i]] # None
    /\ \A o \in Objects : sess[o].state = "open" =>
          sess[o].id \in Ids /\ owner[sess[o].id] = o /\ sessions[sess[o].id] = o

\* A session's mutex belongs to the call that changes or closes it.
HolderOK ==
    /\ \A c \in Callers : op[c].pc \in Working => held[c] # None /\ smu[held[c]] = c
    /\ \A o \in Objects : smu[o] # None => held[smu[o]] = o /\ op[smu[o]].pc \in Working
    /\ \A c \in Callers : op[c].pc \in {"store", "memory"} =>
          sess[held[c]].state = "open" /\ op[c].kind \in {"append", "record"}
    /\ \A c \in Callers : op[c].pc \in {"unpublish", "release"} =>
          /\ sess[held[c]].state = "closed" /\ sess[held[c]].id \in Ids
          /\ owner[sess[held[c]].id] = held[c]
    /\ \A c \in Callers : held[c] # None => sess[held[c]].state # "unused"

\* An open session is its log, or one event behind it.
MemoryOK ==
    \A o \in Objects : sess[o].state = "open" =>
       LET l == log[sess[o].id] IN
       /\ l.exists
       /\ IF smu[o] # None /\ op[smu[o]].pc = "memory"
          THEN /\ l.history = Applied(op[smu[o]].kind, smu[o], sess[o]).history
               /\ l.usage = Applied(op[smu[o]].kind, smu[o], sess[o]).usage
          ELSE l.history = sess[o].history /\ l.usage = sess[o].usage

\* Only the canonical ID is ever created, and by Resolve only after it found
\* no legacy log.
ResolveOK ==
    \A c \in Callers :
       /\ op[c].kind \in {"canonical", "create", "getOrCreate"} => op[c].id = Key
       /\ op[c].pc = "write" => op[c].id = Key
       /\ op[c].kind = "canonical" => ~log[Legacy].exists

\* Everything above together.
SessionInvariant ==
    TypeOK /\ MutexOK /\ LeaseOK /\ HolderOK /\ MemoryOK /\ ResolveOK /\ UsageIsSum
=============================================================================
