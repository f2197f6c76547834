---------------------------- MODULE SessionProofs ----------------------------
(***************************************************************************)
(* Memory is the log, no lease leaks, no second session opens, totals are  *)
(* sums and no route is forked, for any number of goroutines, sessions and *)
(* other processes, and whatever fails: SessionInvariant is inductive.     *)
(***************************************************************************)
EXTENDS SessionService, SequenceTheorems, TLAPS

\* Records stay records when a field is assigned.
LEMMA Records ==
    /\ Idle \in Ops /\ Unused \in Sessions /\ NoLog \in Snapshots /\ Fresh \in Snapshots
    /\ \A r \in Ops, p \in Places : [r EXCEPT !.pc = p] \in Ops
    /\ \A r \in Ops, p \in Places, o \in Objects \cup {None} : [r EXCEPT !.pc = p, !.obj = o] \in Ops
    /\ \A r \in Ops, p \in Places, k \in CallKinds : [r EXCEPT !.pc = p, !.kind = k] \in Ops
    /\ \A p \in Places, k \in CallKinds : [Idle EXCEPT !.pc = p, !.kind = k] \in Ops
    /\ \A p \in Places, k \in CallKinds, i \in Ids : [Idle EXCEPT !.pc = p, !.kind = k, !.id = i] \in Ops
<1>1. <<>> \in Histories
  BY EmptySeq DEF Histories
<1>2. /\ {"none", "create"} \subseteq CallKinds /\ "idle" \in Places /\ "unused" \in States
  BY DEF CallKinds, Places, States
<1> HIDE DEF CallKinds, Places, States, Histories, Ids
<1>3. Idle \in Ops /\ Unused \in Sessions /\ NoLog \in Snapshots /\ Fresh \in Snapshots
  BY <1>1, <1>2 DEF Idle, Ops, Unused, Sessions, NoLog, Fresh, Snapshots
<1>4. /\ \A r \in Ops, p \in Places : [r EXCEPT !.pc = p] \in Ops
      /\ \A r \in Ops, p \in Places, o \in Objects \cup {None} : [r EXCEPT !.pc = p, !.obj = o] \in Ops
      /\ \A r \in Ops, p \in Places, k \in CallKinds : [r EXCEPT !.pc = p, !.kind = k] \in Ops
  BY DEF Ops
<1>5. /\ \A p \in Places, k \in CallKinds : [Idle EXCEPT !.pc = p, !.kind = k] \in Ops
      /\ \A p \in Places, k \in CallKinds, i \in Ids : [Idle EXCEPT !.pc = p, !.kind = k, !.id = i] \in Ops
  BY <1>2 DEF Ops, Idle
<1> QED BY <1>3, <1>4, <1>5

\* A call that waits for a mutex owns nothing yet.
LEMMA BeginStep ==
    ASSUME SessionInvariant, NEW c \in Callers, NEW kind \in Kinds, NEW i \in Ids,
           Begin(c, kind, i)
    PROVE  SessionInvariant'
<1>1. TypeOK'
  <2>1. [Idle EXCEPT !.pc = "lock", !.kind = kind, !.id = i] \in Ops
    BY SessionAssumption, Records DEF Places, CallKinds
  <2> QED BY <2>1 DEF SessionInvariant, TypeOK, Begin
<1>2. MutexOK'
  BY SessionAssumption DEF SessionInvariant, MutexOK, TypeOK, Locked, Ops, Begin,
                           At, Idle
<1>3. LeaseOK'
  BY SessionAssumption DEF SessionInvariant, LeaseOK, TypeOK, Ops, Sessions, Begin,
                           At, Idle
<1>4. HolderOK'
  BY SessionAssumption DEF SessionInvariant, HolderOK, TypeOK, Working, Ops,
                           Sessions, Begin, At, Idle
<1>5. MemoryOK'
  BY SessionAssumption DEF SessionInvariant, MemoryOK, TypeOK, Ops, Sessions,
                           Snapshots, Begin, At, Idle
<1>6. ResolveOK'
  BY SessionAssumption DEF SessionInvariant, ResolveOK, TypeOK, Ops, Snapshots,
                           Begin, At, Idle
<1>7. UsageIsSum'
  BY SessionAssumption DEF SessionInvariant, UsageIsSum, TypeOK, Snapshots, Begin,
                           At, Idle
<1> QED BY <1>1, <1>2, <1>3, <1>4, <1>5, <1>6, <1>7 DEF SessionInvariant

\* The ID's mutex passes to one call.
LEMMA LockStep ==
    ASSUME SessionInvariant, NEW c \in Callers, Lock(c)
    PROVE  SessionInvariant'
<1>1. TypeOK'
  <2>1. [op[c] EXCEPT !.pc = Entry(op[c].kind)] \in Ops
    BY Records DEF SessionInvariant, TypeOK, Entry, Places, Locked
  <2>2. op[c].id \in Ids
    BY DEF SessionInvariant, MutexOK, Lock, At
  <2> QED BY <2>1, <2>2 DEF SessionInvariant, TypeOK, Lock, Goto
<1>2. MutexOK'
  BY SessionAssumption DEF SessionInvariant, MutexOK, TypeOK, Locked, Ops, Lock,
                           Entry, At, Goto
<1>3. LeaseOK'
  BY SessionAssumption DEF SessionInvariant, LeaseOK, TypeOK, Ops, Sessions, Lock,
                           Entry, At, Goto
<1>4. HolderOK'
  BY SessionAssumption DEF SessionInvariant, HolderOK, TypeOK, Working, Ops,
                           Sessions, Lock, Entry, At, Goto
<1>5. MemoryOK'
  BY SessionAssumption DEF SessionInvariant, MemoryOK, TypeOK, Ops, Sessions,
                           Snapshots, Lock, Entry, At, Goto
<1>6. ResolveOK'
  BY SessionAssumption DEF SessionInvariant, ResolveOK, TypeOK, Ops, Snapshots,
                           Lock, Entry, At, Goto
<1>7. UsageIsSum'
  BY SessionAssumption DEF SessionInvariant, UsageIsSum, TypeOK, Snapshots, Lock,
                           Entry, At, Goto
<1> QED BY <1>1, <1>2, <1>3, <1>4, <1>5, <1>6, <1>7 DEF SessionInvariant

\* A call that fails before it has the lease gives back the mutex alone.
LEMMA FailStep ==
    ASSUME SessionInvariant, NEW c \in Callers,
           op[c].pc \in {"look", "acquire", "delete"}, Fail(c),
           UNCHANGED <<log, owner, sessions, sess, smu, held, recorded>>
    PROVE  SessionInvariant'
<1>1. TypeOK'
  BY SessionAssumption, Records DEF SessionInvariant, TypeOK, Fail, Unlock, Idle
<1>2. MutexOK'
  BY SessionAssumption DEF SessionInvariant, MutexOK, TypeOK, Locked, Ops, Fail,
                           Unlock, Idle
<1>3. LeaseOK'
  BY SessionAssumption DEF SessionInvariant, LeaseOK, TypeOK, Ops, Sessions, Fail,
                           Unlock, Idle
<1>4. HolderOK'
  BY SessionAssumption DEF SessionInvariant, HolderOK, TypeOK, Working, Ops,
                           Sessions, Fail, Unlock, Idle
<1>5. MemoryOK'
  BY SessionAssumption DEF SessionInvariant, MemoryOK, TypeOK, Ops, Sessions,
                           Snapshots, Fail, Unlock, Idle
<1>6. ResolveOK'
  BY SessionAssumption DEF SessionInvariant, ResolveOK, TypeOK, Ops, Snapshots,
                           Fail, Unlock, Idle
<1>7. UsageIsSum'
  BY SessionAssumption DEF SessionInvariant, UsageIsSum, TypeOK, Snapshots, Fail,
                           Unlock, Idle
<1> QED BY <1>1, <1>2, <1>3, <1>4, <1>5, <1>6, <1>7 DEF SessionInvariant

\* load looks at a published session, or goes on to the lease.
LEMMA MoveStep ==
    ASSUME SessionInvariant, NEW c \in Callers, op[c].pc \in {"look", "peek"},
           NEW p \in {"peek", "acquire"}, NEW o \in Objects \cup {None},
           p = "peek" => o # None, op' = [op EXCEPT ![c].pc = p, ![c].obj = o],
           UNCHANGED <<log, owner, locks, sessions, sess, smu, held, recorded>>
    PROVE  SessionInvariant'
<1>1. TypeOK'
  <2>1. [op[c] EXCEPT !.pc = p, !.obj = o] \in Ops
    BY Records DEF SessionInvariant, TypeOK, Places, Locked
  <2> QED BY <2>1 DEF SessionInvariant, TypeOK
<1>2. MutexOK'
  BY SessionAssumption DEF SessionInvariant, MutexOK, TypeOK, Locked, Ops
<1>3. LeaseOK'
  BY SessionAssumption DEF SessionInvariant, LeaseOK, TypeOK, Ops, Sessions
<1>4. HolderOK'
  BY SessionAssumption DEF SessionInvariant, HolderOK, TypeOK, Working, Ops,
                           Sessions
<1>5. MemoryOK'
  BY SessionAssumption DEF SessionInvariant, MemoryOK, TypeOK, Ops, Sessions,
                           Snapshots
<1>6. ResolveOK'
  BY SessionAssumption DEF SessionInvariant, ResolveOK, TypeOK, Ops, Snapshots
<1>7. UsageIsSum'
  BY SessionAssumption DEF SessionInvariant, UsageIsSum, TypeOK, Snapshots
<1> QED BY <1>1, <1>2, <1>3, <1>4, <1>5, <1>6, <1>7 DEF SessionInvariant

\* A published session is shared, not opened again.
LEMMA FoundStep ==
    ASSUME SessionInvariant, NEW c \in Callers, op[c].pc = "peek",
           NEW o \in Objects, sess[o].state = "open", Return(c, o),
           UNCHANGED <<log, owner, sessions, sess, smu, recorded>>
    PROVE  SessionInvariant'
<1>1. TypeOK'
  BY SessionAssumption, Records DEF SessionInvariant, TypeOK, Return, Fail, Unlock,
                                    Idle
<1>2. MutexOK'
  BY SessionAssumption DEF SessionInvariant, MutexOK, TypeOK, Locked, Ops, Return,
                           Fail, Unlock, Idle
<1>3. LeaseOK'
  BY SessionAssumption DEF SessionInvariant, LeaseOK, TypeOK, Ops, Sessions, Return,
                           Fail, Unlock, Idle
<1>4. HolderOK'
  BY SessionAssumption DEF SessionInvariant, HolderOK, TypeOK, Working, Ops,
                           Sessions, Return, Fail, Unlock, Idle
<1>5. MemoryOK'
  BY SessionAssumption DEF SessionInvariant, MemoryOK, TypeOK, Ops, Sessions,
                           Snapshots, Return, Fail, Unlock, Idle
<1>6. ResolveOK'
  BY SessionAssumption DEF SessionInvariant, ResolveOK, TypeOK, Ops, Snapshots,
                           Return, Fail, Unlock, Idle
<1>7. UsageIsSum'
  BY SessionAssumption DEF SessionInvariant, UsageIsSum, TypeOK, Snapshots, Return,
                           Fail, Unlock, Idle
<1> QED BY <1>1, <1>2, <1>3, <1>4, <1>5, <1>6, <1>7 DEF SessionInvariant

\* The lease passes to the call under the ID's mutex, nobody else having it.
LEMMA TakeStep ==
    ASSUME SessionInvariant, NEW c \in Callers, op[c].pc = "acquire",
           owner[op[c].id] = None, owner' = [owner EXCEPT ![op[c].id] = c],
           Goto(c, IF op[c].kind \in {"create", "canonical"} THEN "write" ELSE "read"),
           UNCHANGED <<log, locks, sessions, sess, smu, held, recorded>>
    PROVE  SessionInvariant'
<1>1. TypeOK'
  <2>1. /\ [op[c] EXCEPT !.pc = "write"] \in Ops
        /\ [op[c] EXCEPT !.pc = "read"] \in Ops
    BY Records DEF SessionInvariant, TypeOK, Places, Locked
  <2> QED BY <2>1 DEF SessionInvariant, TypeOK, Goto
<1>2. MutexOK'
  BY SessionAssumption DEF SessionInvariant, MutexOK, TypeOK, Locked, Ops, Goto
<1>3. LeaseOK'
  BY SessionAssumption DEF SessionInvariant, LeaseOK, TypeOK, MutexOK, Ops,
                           Sessions, Locked, Goto
<1>4. HolderOK'
  BY SessionAssumption DEF SessionInvariant, HolderOK, TypeOK, Working, Ops,
                           Sessions, Goto
<1>5. MemoryOK'
  BY SessionAssumption DEF SessionInvariant, MemoryOK, TypeOK, Ops, Sessions,
                           Snapshots, Goto
<1>6. ResolveOK'
  BY SessionAssumption DEF SessionInvariant, ResolveOK, TypeOK, Ops, Snapshots, Goto
<1>7. UsageIsSum'
  BY SessionAssumption DEF SessionInvariant, UsageIsSum, TypeOK, Snapshots, Goto
<1> QED BY <1>1, <1>2, <1>3, <1>4, <1>5, <1>6, <1>7 DEF SessionInvariant

\* A call that fails with the lease gives back both.
LEMMA GiveUpStep ==
    ASSUME SessionInvariant, NEW c \in Callers, op[c].pc \in {"read", "write"},
           Fail(c), Release(c),
           UNCHANGED <<log, sessions, sess, smu, held, recorded>>
    PROVE  SessionInvariant'
<1>1. TypeOK'
  BY SessionAssumption, Records DEF SessionInvariant, TypeOK, Fail, Unlock, Release,
                                    Idle
<1>2. MutexOK'
  BY SessionAssumption DEF SessionInvariant, MutexOK, TypeOK, Locked, Ops, Fail,
                           Unlock, Release, Idle
<1>3. LeaseOK'
  BY SessionAssumption DEF SessionInvariant, LeaseOK, TypeOK, Ops, Sessions, Fail,
                           Unlock, Release, Idle
<1>4. HolderOK'
  BY SessionAssumption DEF SessionInvariant, HolderOK, TypeOK, LeaseOK, Working,
                           Ops, Sessions, Fail, Unlock, Release, Idle
<1>5. MemoryOK'
  BY SessionAssumption DEF SessionInvariant, MemoryOK, TypeOK, Ops, Sessions,
                           Snapshots, Fail, Unlock, Release, Idle
<1>6. ResolveOK'
  BY SessionAssumption DEF SessionInvariant, ResolveOK, TypeOK, Ops, Snapshots,
                           Fail, Unlock, Release, Idle
<1>7. UsageIsSum'
  BY SessionAssumption DEF SessionInvariant, UsageIsSum, TypeOK, Snapshots, Fail,
                           Unlock, Release, Idle
<1> QED BY <1>1, <1>2, <1>3, <1>4, <1>5, <1>6, <1>7 DEF SessionInvariant

\* A creation that fails after its log was linked into place leaves the log, and
\* gives back both.
LEMMA LinkedStep ==
    ASSUME SessionInvariant, NEW c \in Callers, op[c].pc = "write", op[c].id = Key,
           log' = [log EXCEPT ![Key] = Fresh], recorded' = [recorded EXCEPT ![Key] = 0],
           Fail(c), Release(c), UNCHANGED <<sessions, sess, smu, held>>
    PROVE  SessionInvariant'
<1>1. TypeOK'
  BY SessionAssumption, Records DEF SessionInvariant, TypeOK, Fail, Unlock, Release,
                                    Idle
<1>2. MutexOK'
  BY SessionAssumption DEF SessionInvariant, MutexOK, TypeOK, Locked, Ops, Fail,
                           Unlock, Release, Idle
<1>3. LeaseOK'
  BY SessionAssumption DEF SessionInvariant, LeaseOK, TypeOK, Ops, Sessions, Fail,
                           Unlock, Release, Idle
<1>4. HolderOK'
  BY SessionAssumption DEF SessionInvariant, HolderOK, TypeOK, LeaseOK, Working,
                           Ops, Sessions, Fail, Unlock, Release, Idle
<1>5. MemoryOK'
  BY SessionAssumption DEF SessionInvariant, MemoryOK, TypeOK, LeaseOK, HolderOK, Working,
                           Applied, Ops, Sessions, Snapshots, Fail, Unlock, Release, Idle
<1>6. ResolveOK'
  BY SessionAssumption DEF SessionInvariant, ResolveOK, TypeOK, LeaseOK, Ops, Snapshots,
                           Fail, Unlock, Release, Idle
<1>7. UsageIsSum'
  BY SessionAssumption DEF SessionInvariant, UsageIsSum, TypeOK, Snapshots, Fresh, NoLog,
                           Fail, Unlock, Release, Idle
<1> QED BY <1>1, <1>2, <1>3, <1>4, <1>5, <1>6, <1>7 DEF SessionInvariant

\* Resolve goes on with the legacy ID, or creates when both logs are missing.
LEMMA AgainStep ==
    ASSUME SessionInvariant, NEW c \in Callers, op[c].pc = "read",
           NEW kind \in {"resolve", "canonical"}, NEW i \in Ids,
           kind = "canonical" => i = Key /\ ~log[Legacy].exists, Unlock(c),
           Release(c),
           op' = [op EXCEPT ![c] = [Idle EXCEPT !.pc = "lock", !.kind = kind, !.id = i]],
           UNCHANGED <<log, sessions, sess, smu, held, recorded>>
    PROVE  SessionInvariant'
<1>1. TypeOK'
  <2>1. kind \in CallKinds /\ i \in Ids /\ "lock" \in Places
    BY DEF CallKinds, Ids, Places
  <2>2. [Idle EXCEPT !.pc = "lock", !.kind = kind, !.id = i] \in Ops
    BY <2>1, Records
  <2> QED BY <2>2 DEF SessionInvariant, TypeOK, Unlock, Release
<1>2. MutexOK'
  <2>1. i \in Ids
    BY DEF Ids
  <2> QED BY <2>1, SessionAssumption
      DEF SessionInvariant, MutexOK, TypeOK, Locked, Ops, Unlock, Idle
<1>3. LeaseOK'
  BY SessionAssumption DEF SessionInvariant, LeaseOK, TypeOK, Ops, Sessions, Unlock,
                           Release, Idle
<1>4. HolderOK'
  BY SessionAssumption DEF SessionInvariant, HolderOK, TypeOK, LeaseOK, Working,
                           Ops, Sessions, Unlock, Release, Idle
<1>5. MemoryOK'
  BY SessionAssumption DEF SessionInvariant, MemoryOK, TypeOK, Ops, Sessions,
                           Snapshots, Unlock, Release, Idle
<1>6. ResolveOK'
  BY SessionAssumption DEF SessionInvariant, ResolveOK, TypeOK, Ops, Snapshots,
                           Unlock, Release, Idle
<1>7. UsageIsSum'
  BY SessionAssumption DEF SessionInvariant, UsageIsSum, TypeOK, Snapshots, Unlock,
                           Release, Idle
<1> QED BY <1>1, <1>2, <1>3, <1>4, <1>5, <1>6, <1>7 DEF SessionInvariant

\* GetOrCreate goes on to create under the mutex it has.
LEMMA GoOnStep ==
    ASSUME SessionInvariant, NEW c \in Callers, op[c].pc = "read",
           op[c].kind = "getOrCreate", Release(c),
           op' = [op EXCEPT ![c].pc = "acquire", ![c].kind = "create"],
           UNCHANGED <<log, locks, sessions, sess, smu, held, recorded>>
    PROVE  SessionInvariant'
<1>1. TypeOK'
  <2>1. [op[c] EXCEPT !.pc = "acquire", !.kind = "create"] \in Ops
    BY Records DEF SessionInvariant, TypeOK, Places, Locked, CallKinds
  <2> QED BY <2>1 DEF SessionInvariant, TypeOK, Release
<1>2. MutexOK'
  BY SessionAssumption DEF SessionInvariant, MutexOK, TypeOK, Locked, Ops, Release
<1>3. LeaseOK'
  BY SessionAssumption DEF SessionInvariant, LeaseOK, TypeOK, Ops, Sessions, Release
<1>4. HolderOK'
  BY SessionAssumption DEF SessionInvariant, HolderOK, TypeOK, Working, Ops,
                           Sessions, Release
<1>5. MemoryOK'
  BY SessionAssumption DEF SessionInvariant, MemoryOK, TypeOK, Ops, Sessions,
                           Snapshots, Release
<1>6. ResolveOK'
  BY SessionAssumption DEF SessionInvariant, ResolveOK, TypeOK, Ops, Snapshots,
                           Release
<1>7. UsageIsSum'
  BY SessionAssumption DEF SessionInvariant, UsageIsSum, TypeOK, Snapshots, Release
<1> QED BY <1>1, <1>2, <1>3, <1>4, <1>5, <1>6, <1>7 DEF SessionInvariant

\* A session begins as its log, with the lease of the call that made it.
LEMMA PublishStep ==
    ASSUME SessionInvariant, NEW c \in Callers, op[c].pc \in {"read", "write"},
           NEW o \in Objects, sess[o].state = "unused", NEW snap \in Snapshots,
           snap.exists, op[c].id = Key \/ snap = log[op[c].id],
           log' = [log EXCEPT ![op[c].id] = snap],
           recorded' = [recorded EXCEPT ![op[c].id] = snap.usage],
           Publish(c, o, snap), UNCHANGED smu
    PROVE  SessionInvariant'
<1>1. TypeOK'
  <2>1. op[c].id \in Ids /\ snap.usage \in Nat
    BY DEF SessionInvariant, MutexOK, Locked, Snapshots
  <2>2. [state |-> "open", id |-> op[c].id, history |-> snap.history, usage |-> snap.usage]
          \in Sessions
    BY <2>1 DEF Snapshots, Sessions, States
  <2> QED BY <2>1, <2>2, Records DEF SessionInvariant, TypeOK, Publish, Return, Fail, Unlock
<1>2. MutexOK'
  BY SessionAssumption DEF SessionInvariant, MutexOK, TypeOK, Locked, Ops, Publish,
                           Return, Fail, Unlock, Idle
<1>3. LeaseOK'
  BY SessionAssumption DEF SessionInvariant, LeaseOK, TypeOK, MutexOK, Ops,
                           Sessions, Locked, Publish, Return, Fail, Unlock, Idle
<1>4. HolderOK'
  BY SessionAssumption DEF SessionInvariant, HolderOK, TypeOK, LeaseOK, Working,
                           Ops, Sessions, Publish, Return, Fail, Unlock, Idle
<1>5. MemoryOK'
  BY SessionAssumption DEF SessionInvariant, MemoryOK, TypeOK, LeaseOK, HolderOK,
                           Applied, MutexOK, Locked, Working, Ops, Sessions,
                           Snapshots, Publish, Return, Fail, Unlock, Idle
<1>6. ResolveOK'
  BY SessionAssumption DEF SessionInvariant, ResolveOK, TypeOK, Ops, Snapshots,
                           Publish, Return, Fail, Unlock, Idle
<1>7. UsageIsSum'
  BY SessionAssumption DEF SessionInvariant, UsageIsSum, TypeOK, Snapshots, Publish,
                           Return, Fail, Unlock, Idle
<1> QED BY <1>1, <1>2, <1>3, <1>4, <1>5, <1>6, <1>7 DEF SessionInvariant

\* A log that goes has no lease, hence no open session.
LEMMA DeletedStep ==
    ASSUME SessionInvariant, NEW c \in Callers, op[c].pc = "delete",
           owner[op[c].id] = None, log' = [log EXCEPT ![op[c].id] = NoLog],
           recorded' = [recorded EXCEPT ![op[c].id] = 0],
           sessions' = [sessions EXCEPT ![op[c].id] = None], Fail(c),
           UNCHANGED <<owner, sess, smu, held>>
    PROVE  SessionInvariant'
<1>1. TypeOK'
  BY SessionAssumption, Records DEF SessionInvariant, TypeOK, Fail, Unlock, Idle,
                                    NoLog
<1>2. MutexOK'
  BY SessionAssumption DEF SessionInvariant, MutexOK, TypeOK, Locked, Ops, Fail,
                           Unlock, Idle, NoLog
<1>3. LeaseOK'
  BY SessionAssumption DEF SessionInvariant, LeaseOK, TypeOK, Ops, Sessions, Fail,
                           Unlock, Idle, NoLog
<1>4. HolderOK'
  BY SessionAssumption DEF SessionInvariant, HolderOK, TypeOK, Working, Ops,
                           Sessions, Fail, Unlock, Idle, NoLog
<1>5. MemoryOK'
  BY SessionAssumption DEF SessionInvariant, MemoryOK, TypeOK, LeaseOK, Locked,
                           Working, Ops, Sessions, Snapshots, Fail, Unlock, Idle,
                           NoLog
<1>6. ResolveOK'
  BY SessionAssumption DEF SessionInvariant, ResolveOK, TypeOK, Ops, Snapshots,
                           Fail, Unlock, Idle, NoLog
<1>7. UsageIsSum'
  BY SessionAssumption DEF SessionInvariant, UsageIsSum, TypeOK, Snapshots, Fail,
                           Unlock, Idle, NoLog
<1> QED BY <1>1, <1>2, <1>3, <1>4, <1>5, <1>6, <1>7 DEF SessionInvariant

\* Append and RecordUsage take the mutex of an open session.
LEMMA MutateStep ==
    ASSUME SessionInvariant, NEW c \in Callers, NEW kind \in {"append", "record"},
           Mutate(c, kind)
    PROVE  SessionInvariant'
<1>1. TypeOK'
  <2>1. [Idle EXCEPT !.pc = "store", !.kind = kind] \in Ops
    BY Records DEF Places, Working, CallKinds
  <2> QED BY <2>1 DEF SessionInvariant, TypeOK, Mutate
<1>2. MutexOK'
  BY SessionAssumption DEF SessionInvariant, MutexOK, TypeOK, Locked, Ops, Mutate,
                           At, Idle
<1>3. LeaseOK'
  BY SessionAssumption DEF SessionInvariant, LeaseOK, TypeOK, Ops, Sessions, Mutate,
                           At, Idle
<1>4. HolderOK'
  BY SessionAssumption DEF SessionInvariant, HolderOK, TypeOK, Working, Ops,
                           Sessions, Mutate, At, Idle
<1>5. MemoryOK'
  BY SessionAssumption DEF SessionInvariant, MemoryOK, TypeOK, Ops, Sessions,
                           Snapshots, Mutate, At, Idle
<1>6. ResolveOK'
  BY SessionAssumption DEF SessionInvariant, ResolveOK, TypeOK, Ops, Snapshots,
                           Mutate, At, Idle
<1>7. UsageIsSum'
  BY SessionAssumption DEF SessionInvariant, UsageIsSum, TypeOK, Snapshots, Mutate,
                           At, Idle
<1> QED BY <1>1, <1>2, <1>3, <1>4, <1>5, <1>6, <1>7 DEF SessionInvariant

\* What the store refuses leaves log and memory alike.
LEMMA RefusedStep ==
    ASSUME SessionInvariant, NEW c \in Callers, op[c].pc = "store",
           op' = [op EXCEPT ![c] = Idle], smu' = [smu EXCEPT ![held[c]] = None],
           UNCHANGED <<log, owner, locks, sessions, sess, held, recorded>>
    PROVE  SessionInvariant'
<1>1. TypeOK'
  BY SessionAssumption, Records DEF SessionInvariant, TypeOK, Idle
<1>2. MutexOK'
  BY SessionAssumption DEF SessionInvariant, MutexOK, TypeOK, Locked, Ops, Idle
<1>3. LeaseOK'
  BY SessionAssumption DEF SessionInvariant, LeaseOK, TypeOK, MutexOK, HolderOK,
                           Locked, Working, Ops, Sessions, Snapshots, Idle
<1>4. HolderOK'
  BY SessionAssumption DEF SessionInvariant, HolderOK, TypeOK, Working, Ops,
                           Sessions, Idle
<1>5. MemoryOK'
  BY SessionAssumption DEF SessionInvariant, MemoryOK, TypeOK, LeaseOK, HolderOK,
                           Applied, Locked, Working, Ops, Sessions, Snapshots, Idle
<1>6. ResolveOK'
  BY SessionAssumption DEF SessionInvariant, ResolveOK, TypeOK, Ops, Snapshots, Idle
<1>7. UsageIsSum'
  BY SessionAssumption DEF SessionInvariant, UsageIsSum, TypeOK, Snapshots, Idle
<1> QED BY <1>1, <1>2, <1>3, <1>4, <1>5, <1>6, <1>7 DEF SessionInvariant

\* The event a session commits is the one its memory is behind by.
LEMMA CommitStep ==
    ASSUME SessionInvariant, NEW c \in Callers, op[c].pc = "store", NEW i,
           i = sess[held[c]].id,
           log' = [log EXCEPT ![i] = Committed(op[c].kind, c, held[c])],
           recorded' = [recorded EXCEPT ![i] = IF op[c].kind = "record" THEN @ + 1 ELSE @],
           Goto(c, "memory"), UNCHANGED <<owner, locks, sessions, sess, smu, held>>
    PROVE  SessionInvariant'
<1>1. TypeOK'
  <2>1. [op[c] EXCEPT !.pc = "memory"] \in Ops
    BY Records DEF SessionInvariant, TypeOK, Places, Working
  <2>2. held[c] \in Objects /\ c \in Callers \cup {Other}
    BY DEF SessionInvariant, TypeOK, HolderOK, Working
  <2>3. i \in Ids
    BY <2>2 DEF SessionInvariant, LeaseOK, HolderOK
  <2>4. log[i] \in Snapshots /\ sess[held[c]].usage \in Nat
    BY <2>2, <2>3 DEF SessionInvariant, TypeOK, Sessions
  <2>5. Append(log[i].history, c) \in Histories
    BY <2>2, <2>4, AppendProperties DEF Snapshots, Histories
  <2>6. [log[i] EXCEPT !.history = Append(log[i].history, c)] \in Snapshots
    BY <2>4, <2>5 DEF Snapshots
  <2>7. [log[i] EXCEPT !.usage = sess[held[c]].usage + 1] \in Snapshots
    BY <2>4 DEF Snapshots
  <2>8. Committed(op[c].kind, c, held[c]) \in Snapshots
    BY <2>6, <2>7 DEF Committed
  <2> QED BY <2>1, <2>3, <2>8 DEF SessionInvariant, TypeOK, Goto
<1>2. MutexOK'
  BY SessionAssumption DEF SessionInvariant, MutexOK, TypeOK, Locked, Ops,
                           Committed, Goto, Applied
<1>3. LeaseOK'
  BY SessionAssumption DEF SessionInvariant, LeaseOK, TypeOK, Ops, Sessions,
                           Committed, Goto, Applied
<1>4. HolderOK'
  BY SessionAssumption DEF SessionInvariant, HolderOK, TypeOK, Working, Ops,
                           Sessions, Committed, Goto, Applied
<1>5. MemoryOK'
  BY SessionAssumption DEF SessionInvariant, MemoryOK, TypeOK, LeaseOK, HolderOK,
                           Applied, Locked, Working, Ops, Sessions, Snapshots,
                           Committed, Goto
<1>6. ResolveOK'
  BY SessionAssumption DEF SessionInvariant, ResolveOK, TypeOK, Ops, Snapshots,
                           Committed, Goto, Applied
<1>7. UsageIsSum'
  <2>1. held[c] \in Objects
    BY DEF SessionInvariant, TypeOK, HolderOK, Working
  <2>2. sess[held[c]].state = "open" /\ i \in Ids /\ op[c].kind \in {"append", "record"}
    BY <2>1 DEF SessionInvariant, LeaseOK, HolderOK
  <2>3. log[i].usage = sess[held[c]].usage /\ recorded[i] = log[i].usage
    BY <2>1, <2>2 DEF SessionInvariant, MemoryOK, UsageIsSum, HolderOK, Working
  <2>4. Committed(op[c].kind, c, held[c]).usage
          = IF op[c].kind = "record" THEN recorded[i] + 1 ELSE recorded[i]
    <3>1. log[i] \in Snapshots
      BY <2>2 DEF SessionInvariant, TypeOK
    <3> QED BY <2>2, <2>3, <3>1 DEF Committed, Snapshots
  <2> QED BY <2>2, <2>4 DEF SessionInvariant, UsageIsSum, TypeOK
<1> QED BY <1>1, <1>2, <1>3, <1>4, <1>5, <1>6, <1>7 DEF SessionInvariant

\* Memory catches up with the log.
LEMMA RememberStep ==
    ASSUME SessionInvariant, NEW c \in Callers, Remember(c)
    PROVE  SessionInvariant'
<1>1. TypeOK'
  <2>1. held[c] \in Objects /\ c \in Callers \cup {Other}
    BY DEF SessionInvariant, TypeOK, HolderOK, Remember, At, Working
  <2>2. sess[held[c]] \in Sessions
    BY <2>1 DEF SessionInvariant, TypeOK
  <2>3. Append(sess[held[c]].history, c) \in Histories
    BY <2>1, <2>2, AppendProperties DEF Sessions, Histories
  <2>4. [sess[held[c]] EXCEPT !.history = Append(sess[held[c]].history, c)] \in Sessions
    BY <2>2, <2>3 DEF Sessions
  <2>5. [sess[held[c]] EXCEPT !.usage = sess[held[c]].usage + 1] \in Sessions
    BY <2>2 DEF Sessions
  <2>6. Applied(op[c].kind, c, sess[held[c]]) \in Sessions
    BY <2>4, <2>5 DEF Applied
  <2> QED BY <2>1, <2>6, Records DEF SessionInvariant, TypeOK, Remember
<1>2. MutexOK'
  BY SessionAssumption DEF SessionInvariant, MutexOK, TypeOK, Locked, Ops, Remember,
                           Applied, At, Idle
<1>3. LeaseOK'
  BY SessionAssumption DEF SessionInvariant, LeaseOK, TypeOK, MutexOK, HolderOK,
                           Locked, Working, Ops, Sessions, Snapshots, Remember,
                           Applied, At, Idle
<1>4. HolderOK'
  BY SessionAssumption DEF SessionInvariant, HolderOK, TypeOK, Working, Ops,
                           Sessions, Remember, Applied, At, Idle
<1>5. MemoryOK'
  BY SessionAssumption DEF SessionInvariant, MemoryOK, TypeOK, LeaseOK, HolderOK,
                           Applied, Locked, Working, Ops, Sessions, Snapshots,
                           Remember, At, Idle
<1>6. ResolveOK'
  BY SessionAssumption DEF SessionInvariant, ResolveOK, TypeOK, Ops, Snapshots,
                           Remember, Applied, At, Idle
<1>7. UsageIsSum'
  BY SessionAssumption DEF SessionInvariant, UsageIsSum, TypeOK, Snapshots,
                           Remember, Applied, At, Idle
<1> QED BY <1>1, <1>2, <1>3, <1>4, <1>5, <1>6, <1>7 DEF SessionInvariant

\* Close keeps the lease until Release.
LEMMA CloseStep ==
    ASSUME SessionInvariant, NEW c \in Callers, Close(c)
    PROVE  SessionInvariant'
<1>1. TypeOK'
  <2>1. [Idle EXCEPT !.pc = "unpublish", !.kind = "close"] \in Ops
    BY Records DEF Places, Working, CallKinds
  <2>2. [sess[held[c]] EXCEPT !.state = "closed"] \in Sessions /\ held[c] \in Objects
    BY DEF SessionInvariant, TypeOK, Close, Sessions, States
  <2>3. sess' = [sess EXCEPT ![held[c]] = [sess[held[c]] EXCEPT !.state = "closed"]]
    BY DEF Close
  <2> QED BY <2>1, <2>2, <2>3 DEF SessionInvariant, TypeOK, Close
<1>2. MutexOK'
  BY SessionAssumption DEF SessionInvariant, MutexOK, TypeOK, Locked, Ops, Close,
                           At, Idle
<1>3. LeaseOK'
  BY SessionAssumption DEF SessionInvariant, LeaseOK, TypeOK, Ops, Sessions, Close,
                           At, Idle
<1>4. HolderOK'
  BY SessionAssumption DEF SessionInvariant, HolderOK, TypeOK, LeaseOK, Working,
                           Ops, Sessions, Close, At, Idle
<1>5. MemoryOK'
  BY SessionAssumption DEF SessionInvariant, MemoryOK, TypeOK, Ops, Sessions,
                           Snapshots, Close, At, Idle
<1>6. ResolveOK'
  BY SessionAssumption DEF SessionInvariant, ResolveOK, TypeOK, Ops, Snapshots,
                           Close, At, Idle
<1>7. UsageIsSum'
  BY SessionAssumption DEF SessionInvariant, UsageIsSum, TypeOK, Snapshots, Close,
                           At, Idle
<1> QED BY <1>1, <1>2, <1>3, <1>4, <1>5, <1>6, <1>7 DEF SessionInvariant

\* The map forgets a session that is closed.
LEMMA UnpublishStep ==
    ASSUME SessionInvariant, NEW c \in Callers, Unpublish(c)
    PROVE  SessionInvariant'
<1>1. TypeOK'
  <2>1. [op[c] EXCEPT !.pc = "release"] \in Ops
    BY Records DEF SessionInvariant, TypeOK, Places, Working
  <2> QED BY <2>1 DEF SessionInvariant, TypeOK, Unpublish, Goto
<1>2. MutexOK'
  BY SessionAssumption DEF SessionInvariant, MutexOK, TypeOK, Locked, Ops,
                           Unpublish, At, Goto
<1>3. LeaseOK'
  BY SessionAssumption DEF SessionInvariant, LeaseOK, TypeOK, MutexOK, HolderOK,
                           Locked, Working, Ops, Sessions, Snapshots, Unpublish, At,
                           Goto
<1>4. HolderOK'
  BY SessionAssumption DEF SessionInvariant, HolderOK, TypeOK, Working, Ops,
                           Sessions, Unpublish, At, Goto
<1>5. MemoryOK'
  BY SessionAssumption DEF SessionInvariant, MemoryOK, TypeOK, Ops, Sessions,
                           Snapshots, Unpublish, At, Goto
<1>6. ResolveOK'
  BY SessionAssumption DEF SessionInvariant, ResolveOK, TypeOK, Ops, Snapshots,
                           Unpublish, At, Goto
<1>7. UsageIsSum'
  BY SessionAssumption DEF SessionInvariant, UsageIsSum, TypeOK, Snapshots,
                           Unpublish, At, Goto
<1> QED BY <1>1, <1>2, <1>3, <1>4, <1>5, <1>6, <1>7 DEF SessionInvariant

\* The lease goes last, with the session's mutex.
LEMMA ReleaseWriterStep ==
    ASSUME SessionInvariant, NEW c \in Callers, ReleaseWriter(c)
    PROVE  SessionInvariant'
<1>1. TypeOK'
  BY SessionAssumption, Records DEF SessionInvariant, TypeOK, ReleaseWriter, At,
                                    Idle
<1>2. MutexOK'
  BY SessionAssumption DEF SessionInvariant, MutexOK, TypeOK, Locked, Ops,
                           ReleaseWriter, At, Idle
<1>3. LeaseOK'
  BY SessionAssumption DEF SessionInvariant, LeaseOK, TypeOK, MutexOK, HolderOK,
                           Locked, Working, Ops, Sessions, Snapshots, ReleaseWriter,
                           At, Idle
<1>4. HolderOK'
  BY SessionAssumption DEF SessionInvariant, HolderOK, TypeOK, Working, Ops,
                           Sessions, ReleaseWriter, At, Idle
<1>5. MemoryOK'
  BY SessionAssumption DEF SessionInvariant, MemoryOK, TypeOK, LeaseOK, HolderOK,
                           Applied, Locked, Working, Ops, Sessions, Snapshots,
                           ReleaseWriter, At, Idle
<1>6. ResolveOK'
  BY SessionAssumption DEF SessionInvariant, ResolveOK, TypeOK, Ops, Snapshots,
                           ReleaseWriter, At, Idle
<1>7. UsageIsSum'
  BY SessionAssumption DEF SessionInvariant, UsageIsSum, TypeOK, Snapshots,
                           ReleaseWriter, At, Idle
<1> QED BY <1>1, <1>2, <1>3, <1>4, <1>5, <1>6, <1>7 DEF SessionInvariant

\* Nothing holds on to a session that is collected.
LEMMA ForgetStep ==
    ASSUME SessionInvariant, NEW c \in Callers, Forget(c)
    PROVE  SessionInvariant'
<1>1. TypeOK'
  BY SessionAssumption, Records DEF SessionInvariant, TypeOK, Forget, At, Unused
<1>2. MutexOK'
  BY SessionAssumption DEF SessionInvariant, MutexOK, TypeOK, Locked, Ops, Forget,
                           At, Unused
<1>3. LeaseOK'
  BY SessionAssumption DEF SessionInvariant, LeaseOK, TypeOK, Ops, Sessions, Forget,
                           At, Unused
<1>4. HolderOK'
  BY SessionAssumption DEF SessionInvariant, HolderOK, TypeOK, Working, Ops,
                           Sessions, Forget, At, Unused
<1>5. MemoryOK'
  BY SessionAssumption DEF SessionInvariant, MemoryOK, TypeOK, Ops, Sessions,
                           Snapshots, Forget, At, Unused
<1>6. ResolveOK'
  BY SessionAssumption DEF SessionInvariant, ResolveOK, TypeOK, Ops, Snapshots,
                           Forget, At, Unused
<1>7. UsageIsSum'
  BY SessionAssumption DEF SessionInvariant, UsageIsSum, TypeOK, Snapshots, Forget,
                           At, Unused
<1> QED BY <1>1, <1>2, <1>3, <1>4, <1>5, <1>6, <1>7 DEF SessionInvariant

\* Another process takes a lease nobody has.
LEMMA OtherTakesStep ==
    ASSUME SessionInvariant, NEW i \in Ids, OtherTakes(i)
    PROVE  SessionInvariant'
<1>1. TypeOK'
  <2>1. [log[i] EXCEPT !.exists = TRUE] \in Snapshots
    BY DEF SessionInvariant, TypeOK, Snapshots
  <2> QED BY <2>1 DEF SessionInvariant, TypeOK, OtherTakes
<1>2. MutexOK'
  BY SessionAssumption DEF SessionInvariant, MutexOK, TypeOK, Locked, Ops,
                           OtherTakes
<1>3. LeaseOK'
  BY SessionAssumption DEF SessionInvariant, LeaseOK, TypeOK, Ops, Sessions,
                           OtherTakes
<1>4. HolderOK'
  BY SessionAssumption DEF SessionInvariant, HolderOK, TypeOK, Working, Ops,
                           Sessions, OtherTakes
<1>5. MemoryOK'
  BY SessionAssumption DEF SessionInvariant, MemoryOK, TypeOK, Ops, Sessions,
                           Snapshots, OtherTakes
<1>6. ResolveOK'
  BY SessionAssumption DEF SessionInvariant, ResolveOK, TypeOK, Ops, Snapshots,
                           OtherTakes
<1>7. UsageIsSum'
  BY SessionAssumption DEF SessionInvariant, UsageIsSum, TypeOK, Snapshots,
                           OtherTakes
<1> QED BY <1>1, <1>2, <1>3, <1>4, <1>5, <1>6, <1>7 DEF SessionInvariant

\* What another process writes is in no open session's log.
LEMMA OtherAppendsStep ==
    ASSUME SessionInvariant, NEW i \in Ids, owner[i] = Other,
           log' = [log EXCEPT ![i].history = Append(@, Other)],
           UNCHANGED <<owner, locks, sessions, sess, smu, op, held, recorded>>
    PROVE  SessionInvariant'
<1>1. TypeOK'
  <2>1. log[i] \in Snapshots /\ Other \in Callers \cup {Other}
    BY DEF SessionInvariant, TypeOK
  <2>2. Append(log[i].history, Other) \in Histories
    BY <2>1, AppendProperties DEF Snapshots, Histories
  <2>3. [log[i] EXCEPT !.history = Append(log[i].history, Other)] \in Snapshots
    BY <2>1, <2>2 DEF Snapshots
  <2> QED BY <2>3 DEF SessionInvariant, TypeOK
<1>2. MutexOK'
  BY SessionAssumption DEF SessionInvariant, MutexOK, TypeOK, Locked, Ops
<1>3. LeaseOK'
  BY SessionAssumption DEF SessionInvariant, LeaseOK, TypeOK, Ops, Sessions
<1>4. HolderOK'
  BY SessionAssumption DEF SessionInvariant, HolderOK, TypeOK, Working, Ops,
                           Sessions
<1>5. MemoryOK'
  BY SessionAssumption DEF SessionInvariant, MemoryOK, TypeOK, LeaseOK, Locked,
                           Working, Ops, Sessions, Snapshots
<1>6. ResolveOK'
  BY SessionAssumption DEF SessionInvariant, ResolveOK, TypeOK, Ops, Snapshots
<1>7. UsageIsSum'
  BY SessionAssumption DEF SessionInvariant, UsageIsSum, TypeOK, Snapshots
<1> QED BY <1>1, <1>2, <1>3, <1>4, <1>5, <1>6, <1>7 DEF SessionInvariant

\* Its recordings are counted as well.
LEMMA OtherRecordsStep ==
    ASSUME SessionInvariant, NEW i \in Ids, owner[i] = Other,
           log' = [log EXCEPT ![i].usage = @ + 1],
           recorded' = [recorded EXCEPT ![i] = @ + 1],
           UNCHANGED <<owner, locks, sessions, sess, smu, op, held>>
    PROVE  SessionInvariant'
<1>1. TypeOK'
  <2>1. log[i] \in Snapshots /\ recorded[i] + 1 \in Nat
    BY DEF SessionInvariant, TypeOK
  <2>2. [log[i] EXCEPT !.usage = log[i].usage + 1] \in Snapshots
    BY <2>1 DEF Snapshots
  <2> QED BY <2>1, <2>2 DEF SessionInvariant, TypeOK
<1>2. MutexOK'
  BY SessionAssumption DEF SessionInvariant, MutexOK, TypeOK, Locked, Ops
<1>3. LeaseOK'
  BY SessionAssumption DEF SessionInvariant, LeaseOK, TypeOK, Ops, Sessions
<1>4. HolderOK'
  BY SessionAssumption DEF SessionInvariant, HolderOK, TypeOK, Working, Ops,
                           Sessions
<1>5. MemoryOK'
  BY SessionAssumption DEF SessionInvariant, MemoryOK, TypeOK, LeaseOK, Locked,
                           Working, Ops, Sessions, Snapshots
<1>6. ResolveOK'
  BY SessionAssumption DEF SessionInvariant, ResolveOK, TypeOK, Ops, Snapshots
<1>7. UsageIsSum'
  BY SessionAssumption DEF SessionInvariant, UsageIsSum, TypeOK, Snapshots
<1> QED BY <1>1, <1>2, <1>3, <1>4, <1>5, <1>6, <1>7 DEF SessionInvariant

\* Another process gives up the lease.
LEMMA OtherReleasesStep ==
    ASSUME SessionInvariant, NEW i \in Ids, OtherReleases(i)
    PROVE  SessionInvariant'
<1>1. TypeOK'
  BY SessionAssumption, Records DEF SessionInvariant, TypeOK, OtherReleases
<1>2. MutexOK'
  BY SessionAssumption DEF SessionInvariant, MutexOK, TypeOK, Locked, Ops,
                           OtherReleases
<1>3. LeaseOK'
  BY SessionAssumption DEF SessionInvariant, LeaseOK, TypeOK, Ops, Sessions,
                           OtherReleases
<1>4. HolderOK'
  BY SessionAssumption DEF SessionInvariant, HolderOK, TypeOK, Working, Ops,
                           Sessions, OtherReleases
<1>5. MemoryOK'
  BY SessionAssumption DEF SessionInvariant, MemoryOK, TypeOK, Ops, Sessions,
                           Snapshots, OtherReleases
<1>6. ResolveOK'
  BY SessionAssumption DEF SessionInvariant, ResolveOK, TypeOK, Ops, Snapshots,
                           OtherReleases
<1>7. UsageIsSum'
  BY SessionAssumption DEF SessionInvariant, UsageIsSum, TypeOK, Snapshots,
                           OtherReleases
<1> QED BY <1>1, <1>2, <1>3, <1>4, <1>5, <1>6, <1>7 DEF SessionInvariant

\* Another process deletes a log that nobody has open.
LEMMA OtherDeletesStep ==
    ASSUME SessionInvariant, NEW i \in Ids, OtherDeletes(i)
    PROVE  SessionInvariant'
<1>1. TypeOK'
  BY SessionAssumption, Records DEF SessionInvariant, TypeOK, OtherDeletes, NoLog
<1>2. MutexOK'
  BY SessionAssumption DEF SessionInvariant, MutexOK, TypeOK, Locked, Ops,
                           OtherDeletes, NoLog
<1>3. LeaseOK'
  BY SessionAssumption DEF SessionInvariant, LeaseOK, TypeOK, Ops, Sessions,
                           OtherDeletes, NoLog
<1>4. HolderOK'
  BY SessionAssumption DEF SessionInvariant, HolderOK, TypeOK, Working, Ops,
                           Sessions, OtherDeletes, NoLog
<1>5. MemoryOK'
  BY SessionAssumption DEF SessionInvariant, MemoryOK, TypeOK, LeaseOK, Locked,
                           Working, Ops, Sessions, Snapshots, OtherDeletes, NoLog
<1>6. ResolveOK'
  BY SessionAssumption DEF SessionInvariant, ResolveOK, TypeOK, Ops, Snapshots,
                           OtherDeletes, NoLog
<1>7. UsageIsSum'
  BY SessionAssumption DEF SessionInvariant, UsageIsSum, TypeOK, Snapshots,
                           OtherDeletes, NoLog
<1> QED BY <1>1, <1>2, <1>3, <1>4, <1>5, <1>6, <1>7 DEF SessionInvariant

\* A killed process leaves the log and nothing else.
LEMMA KillStep ==
    ASSUME SessionInvariant, Kill
    PROVE  SessionInvariant'
<1>1. TypeOK'
  BY SessionAssumption, Records DEF SessionInvariant, TypeOK, Kill, Unused, Idle
<1>2. MutexOK'
  BY SessionAssumption DEF SessionInvariant, MutexOK, TypeOK, Locked, Ops, Kill,
                           Unused, Idle
<1>3. LeaseOK'
  BY SessionAssumption DEF SessionInvariant, LeaseOK, TypeOK, Ops, Sessions, Kill,
                           Unused, Idle
<1>4. HolderOK'
  BY SessionAssumption DEF SessionInvariant, HolderOK, TypeOK, Working, Ops,
                           Sessions, Kill, Unused, Idle
<1>5. MemoryOK'
  BY SessionAssumption DEF SessionInvariant, MemoryOK, TypeOK, Ops, Sessions,
                           Snapshots, Kill, Unused, Idle
<1>6. ResolveOK'
  BY SessionAssumption DEF SessionInvariant, ResolveOK, TypeOK, Ops, Snapshots,
                           Kill, Unused, Idle
<1>7. UsageIsSum'
  BY SessionAssumption DEF SessionInvariant, UsageIsSum, TypeOK, Snapshots, Kill,
                           Unused, Idle
<1> QED BY <1>1, <1>2, <1>3, <1>4, <1>5, <1>6, <1>7 DEF SessionInvariant

\* Every step of Next is one of those above.
LEMMA StepKeeps ==
    ASSUME SessionInvariant, [Next]_vars
    PROVE  SessionInvariant'
<1>1. ASSUME NEW c \in Callers, Look(c) PROVE SessionInvariant'
  <2>1. op[c].pc = "look" /\ sessions[op[c].id] \in Objects \cup {None}
    BY <1>1 DEF Look, At, SessionInvariant, TypeOK, MutexOK, Locked
  <2>2. CASE Fail(c) /\ UNCHANGED <<log, owner, sessions, sess, smu, held, recorded>>
    BY <2>1, <2>2, FailStep
  <2>3. CASE LET o == sessions[op[c].id] IN
             op' = [op EXCEPT ![c].pc = IF o = None THEN "acquire" ELSE "peek", ![c].obj = o]
             /\ UNCHANGED <<log, owner, locks, sessions, sess, smu, held, recorded>>
    <3>1. PICK p \in {"peek", "acquire"} :
             /\ op' = [op EXCEPT ![c].pc = p, ![c].obj = sessions[op[c].id]]
             /\ p = "peek" => sessions[op[c].id] # None
      BY <2>3
    <3> QED BY <2>1, <2>3, <3>1, MoveStep
  <2> QED BY <1>1, <2>2, <2>3 DEF Look
<1>2. ASSUME NEW c \in Callers, Peek(c) PROVE SessionInvariant'
  <2>1. op[c].pc = "peek" /\ op[c] \in Ops /\ op[c].obj \in Objects
    BY <1>2 DEF Peek, At, SessionInvariant, TypeOK, MutexOK, Ops
  <2>2. CASE sess[op[c].obj].state = "open"
    BY <1>2, <2>1, <2>2, FoundStep DEF Peek
  <2>3. CASE Goto(c, "acquire") /\ UNCHANGED <<locks, held>>
    <3>1. op' = [op EXCEPT ![c].pc = "acquire", ![c].obj = op[c].obj]
      BY <2>1, <2>3 DEF Goto, Ops, SessionInvariant, TypeOK
    <3> QED BY <1>2, <2>1, <2>3, <3>1, MoveStep DEF Peek
  <2> QED BY <1>2, <2>2, <2>3 DEF Peek
<1>3. ASSUME NEW c \in Callers, Acquire(c) PROVE SessionInvariant'
  BY <1>3, FailStep, TakeStep DEF Acquire, At
<1>4. ASSUME NEW c \in Callers, Read(c) PROVE SessionInvariant'
  <2>1. op[c].pc = "read" /\ op[c].id \in Ids
    BY <1>4 DEF Read, At, SessionInvariant, MutexOK, Locked
  <2>2. CASE /\ ~log[op[c].id].exists /\ NotFound(c) /\ Release(c)
             /\ UNCHANGED <<log, sessions, sess, smu, held, recorded>>
    <3>1. CASE /\ Unlock(c)
               /\ op' = [op EXCEPT ![c] = [Idle EXCEPT !.pc = "lock", !.kind = "resolve", !.id = Legacy]]
      <4>1. Legacy \in Ids /\ "resolve" \in {"resolve", "canonical"}
        BY DEF Ids
      <4> QED BY <2>1, <2>2, <3>1, <4>1, AgainStep
    <3>2. CASE /\ Unlock(c) /\ op[c].id = Legacy
               /\ op' = [op EXCEPT ![c] = [Idle EXCEPT !.pc = "lock", !.kind = "canonical", !.id = Key]]
      <4>1. Key \in Ids /\ "canonical" \in {"resolve", "canonical"}
        BY DEF Ids
      <4> QED BY <2>1, <2>2, <3>2, <4>1, AgainStep
    <3>3. CASE op[c].kind = "getOrCreate" /\ UNCHANGED locks
               /\ op' = [op EXCEPT ![c].pc = "acquire", ![c].kind = "create"]
      BY <2>1, <2>2, <3>3, GoOnStep
    <3>4. CASE Fail(c)
      BY <2>1, <2>2, <3>4, GiveUpStep
    <3> QED BY <2>2, <3>1, <3>2, <3>3, <3>4 DEF NotFound
  <2>3. CASE Fail(c) /\ Release(c) /\ UNCHANGED <<log, sessions, sess, smu, held, recorded>>
    BY <2>1, <2>3, GiveUpStep
  <2>4. CASE \E o \in Objects :
                /\ sess[o].state = "unused" /\ log[op[c].id].exists
                /\ Publish(c, o, log[op[c].id]) /\ UNCHANGED <<log, smu, recorded>>
    <3>1. /\ log[op[c].id] \in Snapshots /\ recorded[op[c].id] = log[op[c].id].usage
          /\ log' = [log EXCEPT ![op[c].id] = log[op[c].id]]
          /\ recorded' = [recorded EXCEPT ![op[c].id] = recorded[op[c].id]]
      BY <2>1, <2>4 DEF SessionInvariant, TypeOK, UsageIsSum
    <3> QED BY <2>1, <2>4, <3>1, PublishStep
  <2> QED BY <1>4, <2>2, <2>3, <2>4 DEF Read
<1>5. ASSUME NEW c \in Callers, Write(c) PROVE SessionInvariant'
  <2>1. op[c].pc = "write" /\ op[c].id = Key /\ Fresh \in Snapshots /\ Fresh.exists /\ Fresh.usage = 0
    BY <1>5, Records DEF Write, At, SessionInvariant, ResolveOK, Fresh, NoLog
  <2> QED BY <1>5, <2>1, GiveUpStep, LinkedStep, PublishStep DEF Write
<1>6. ASSUME NEW c \in Callers, Delete(c) PROVE SessionInvariant'
  BY <1>6, FailStep, DeletedStep DEF Delete, At
<1>7. ASSUME NEW c \in Callers, StoreAppend(c) PROVE SessionInvariant'
  BY <1>7, RefusedStep, CommitStep DEF StoreAppend, At
<1>8. ASSUME NEW i \in Ids, OtherWrites(i) PROVE SessionInvariant'
  BY <1>8, OtherAppendsStep, OtherRecordsStep DEF OtherWrites
<1>9. CASE UNCHANGED vars
  BY <1>9 DEF vars, SessionInvariant, TypeOK, MutexOK, LeaseOK, HolderOK, MemoryOK, ResolveOK,
              UsageIsSum, Applied
<1>10. ASSUME NEW c \in Callers, Step(c) PROVE SessionInvariant'
  BY <1>10, <1>1, <1>2, <1>3, <1>4, <1>5, <1>6, <1>7, LockStep, RememberStep, UnpublishStep,
     ReleaseWriterStep DEF Step
<1> QED BY <1>8, <1>9, <1>10, BeginStep, MutateStep, CloseStep, ForgetStep, OtherTakesStep,
           OtherReleasesStep, OtherDeletesStep, KillStep DEF Next

\* Types and the inductive invariant (SessionService, Session).
THEOREM SessionCorrect == Spec => []SessionInvariant
<1>1. Init => SessionInvariant
  <2> SUFFICES ASSUME Init PROVE SessionInvariant
    OBVIOUS
  <2>1. TypeOK
    BY Records DEF Init, TypeOK
  <2>2. MutexOK /\ LeaseOK /\ HolderOK /\ MemoryOK /\ ResolveOK
    BY SessionAssumption DEF Init, MutexOK, LeaseOK, HolderOK, MemoryOK, ResolveOK, Locked,
       Working, Idle, Unused
  <2>3. UsageIsSum
    BY DEF Init, UsageIsSum, Fresh, NoLog
  <2> QED BY <2>1, <2>2, <2>3 DEF SessionInvariant
<1> QED BY <1>1, StepKeeps, PTL DEF Spec

\* A lease this process holds is that of an open session, of one that is being
\* closed, or of a call under the ID's mutex (SessionService.load, Session.Close).
THEOREM LeaseAlwaysAccounted == Spec => []LeaseIsAccountedFor
<1>1. SessionInvariant => LeaseIsAccountedFor
  BY SessionAssumption DEF SessionInvariant, MutexOK, LeaseOK, Locked, LeaseIsAccountedFor
<1> QED BY <1>1, SessionCorrect, PTL

\* What a session holds in memory is what its log says (Session.Append,
\* Session.RecordUsage).
THEOREM MemoryAlwaysLog == Spec => []MemoryIsLog
<1>1. SessionInvariant => MemoryIsLog
  BY DEF SessionInvariant, MemoryOK, MemoryIsLog
<1> QED BY <1>1, SessionCorrect, PTL

\* The total in a log counts every recording once (Session.RecordUsage).
THEOREM TotalsAlwaysSums == Spec => []UsageIsSum
<1>1. SessionInvariant => UsageIsSum
  BY DEF SessionInvariant
<1> QED BY <1>1, SessionCorrect, PTL

\* Resolve never creates a canonical log beside a legacy one
\* (DurableSessions.Resolve).
THEOREM NeverForked == Spec => NoFork
<1>1. SessionInvariant => [ \A c \in Callers :
          op[c].kind = "canonical" /\ ~log[Key].exists /\ log'[Key].exists /\ owner[Key] = c
             => ~log[Legacy].exists ]_vars
  BY DEF SessionInvariant, ResolveOK
<1> QED BY <1>1, SessionCorrect, PTL DEF NoFork
=============================================================================
