----------------------------- MODULE FileStore -----------------------------
(***************************************************************************)
(* The JSONL log of one durable session: internal/sessionstore.            *)
(*                                                                         *)
(* Each process has a FileStore with cached state of the session's file,   *)
(* guarded by the path mutex st.mu (so a process does one operation at a   *)
(* time) and, across processes, by a flock taken for one mutation or as a  *)
(* lease for a runtime's life (SessionLock). Read-only loads take no flock. *)
(*                                                                         *)
(* Records are numbers, 0 is session_created; Torn stands for bytes that   *)
(* do not parse (the rest of an interrupted write). An offset is a number  *)
(* of records. A file system error may hit every call; a process may be    *)
(* killed, and the power may fail, between any two steps. Directory        *)
(* entries are taken as durable at once, file contents after Sync.         *)
(***************************************************************************)
EXTENDS Naturals, Sequences, FiniteSets, SequencesExt

CONSTANTS
    Procs,           \* processes that have the store open
    BatchSizes,      \* events per Append
    MaxEvents,       \* bound of the model: events ever appended
    RollbackMayFail, \* BOOLEAN: file system errors may also hit a rollback
    Torn, None

\* Records that parse, and what a file holds.
Events   == 0 .. MaxEvents
Contents == [recs : Seq(Events \cup {Torn}), eol : BOOLEAN]

ASSUME FileStoreAssumption ==
    /\ BatchSizes \subseteq Nat \ {0}
    /\ MaxEvents \in Nat
    /\ RollbackMayFail \in BOOLEAN
    /\ Torn \notin Nat
    /\ None \notin Procs \cup Contents \cup Seq(Events)

VARIABLES
    file,    \* the .jsonl file: its records, and whether it ends in a newline
    synced,  \* the contents that a power failure cannot lose
    flock,   \* the process that holds the .lock file, or None
    st,      \* fileSessionState of each process, and where its operation is
    known,   \* processes whose recorded size, identity and mtime still match
    next,    \* the next event to append
    acked,   \* events whose Append returned nil
    failed   \* events whose Append returned an error after it had started

vars == <<file, synced, flock, st, known, next, acked, failed>>

PC == {"idle", "recover", "load", "write", "writing", "sync", "finish", "rollback"}

\* A process that has just started.
NewState == [pc |-> "idle", op |-> None, lease |-> FALSE, loaded |-> FALSE,
             snapshot |-> <<>>, committedOffset |-> 0, grown |-> FALSE,
             needsSeparator |-> FALSE, needsRecovery |-> FALSE, batch |-> <<>>,
             lines |-> <<>>]

Init ==
    /\ file = None
    /\ synced = None
    /\ flock = None
    /\ st = [p \in Procs |-> NewState]
    /\ known = {}
    /\ next = 1
    /\ acked = {}
    /\ failed = {}

-----------------------------------------------------------------------------
(* replay: a last record that does not parse is not committed; any other    *)
(* one makes the file corrupted.                                            *)

HasTornTail(recs) == recs # <<>> /\ Last(recs) = Torn

Committed(recs) == IF HasTornTail(recs) THEN Front(recs) ELSE recs

Corrupted(recs) ==
    Committed(recs) = <<>> \/ Head(recs) # 0 \/ Torn \in ToSet(Committed(recs))

\* file.Truncate at p's committed offset: needsSeparator tells whether that
\* offset is just after a newline. Beyond the end it fills with zeros.
CutAt(p) ==
    LET off == st[p].committedOffset IN
    IF off <= Len(file.recs)
    THEN [recs |-> SubSeq(file.recs, 1, off), eol |-> ~st[p].needsSeparator]
    ELSE [recs |-> Append(file.recs, Torn), eol |-> FALSE]

\* What may be on disk of full when only base is sure to be: some records, the
\* last one perhaps without its newline, or a torn one behind them.
Fragments(base, full) ==
    {f \in [recs : {SubSeq(full, 1, k) : k \in Len(base.recs) .. Len(full)}, eol : BOOLEAN] :
         base.eol /\ Len(f.recs) = Len(base.recs) => f.eol}
    \cup [recs : {Append(SubSeq(full, 1, k), Torn) : k \in Len(base.recs) .. Len(full) - 1},
          eol : {FALSE}]

\* mutant: the torn tail stays in front of the batch.
BaseUncut(p) == file

\* What the batch is written behind.
Base(p) == IF st[p].grown THEN CutAt(p) ELSE file

\* The records after the write. An unneeded separator makes an empty line, a
\* missing one joins two records; neither parses.
Lines(p, base, batch) ==
    IF st[p].needsSeparator = ~base.eol THEN base.recs \o batch
    ELSE IF base.eol THEN base.recs \o <<Torn>> \o batch
    ELSE Front(base.recs) \o <<Torn>> \o Tail(batch)

-----------------------------------------------------------------------------
(* Locks.                                                                   *)

At(p, l) == st[p].pc = l

\* mutationGuard succeeds: p's lease, or the flock is free.
MayMutate(p) == st[p].lease \/ flock = None

\* The operation of p returns, with its guard released.
Idle(s)     == [s EXCEPT !.pc = "idle", !.op = None, !.batch = <<>>, !.lines = <<>>]
Release(p)  == flock' = IF flock = p /\ ~st[p].lease THEN None ELSE flock
Return(p, s) == st' = [st EXCEPT ![p] = Idle(s)] /\ Release(p)

AcquireWriter(p) ==
    /\ At(p, "idle")
    /\ ~st[p].lease
    /\ flock = None
    /\ flock' = p
    /\ st' = [st EXCEPT ![p].lease = TRUE]
    /\ UNCHANGED <<file, synced, known, next, acked, failed>>

ReleaseWriter(p) ==
    /\ At(p, "idle")
    /\ st[p].lease
    /\ flock' = None
    /\ st' = [st EXCEPT ![p].lease = FALSE]
    /\ UNCHANGED <<file, synced, known, next, acked, failed>>

-----------------------------------------------------------------------------
(* Create and Delete.                                                       *)

\* The new file is written and synced before os.Link publishes it. When
\* syncDirectory fails, Create returns an error but the file is there.
Create(p) ==
    /\ At(p, "idle")
    /\ MayMutate(p)
    /\ file = None
    /\ file' = [recs |-> <<0>>, eol |-> TRUE]
    /\ synced' = file'
    /\ \/ /\ st' = [st EXCEPT ![p].loaded = TRUE, ![p].snapshot = <<0>>,
                              ![p].committedOffset = 1, ![p].grown = FALSE,
                              ![p].needsSeparator = FALSE, ![p].needsRecovery = FALSE]
          /\ known' = {p}
       \/ known' = {} /\ UNCHANGED st
    /\ UNCHANGED <<flock, next, acked, failed>>

\* Delete refuses while this or another process holds the writer.
Delete(p) ==
    /\ At(p, "idle")
    /\ ~st[p].lease
    /\ flock = None
    /\ file # None
    /\ file' = None
    /\ synced' = None
    /\ known' = {}
    /\ st' = [st EXCEPT ![p].loaded = FALSE, ![p].needsRecovery = FALSE]
    /\ acked' = {}
    /\ failed' = {}
    /\ UNCHANGED <<flock, next>>

-----------------------------------------------------------------------------
(* Append and Load.                                                         *)

\* Both take the guard they need, and roll a failed commit back first.
Begin(p, op) ==
    /\ At(p, "idle")
    /\ LET locked == op = "append" \/ st[p].needsRecovery IN
       /\ locked => MayMutate(p)
       /\ flock' = IF locked THEN p ELSE flock
    /\ st' = [st EXCEPT ![p].op = op,
                        ![p].pc = IF st[p].needsRecovery THEN "recover" ELSE "load"]
    /\ UNCHANGED <<file, synced, known, next, acked, failed>>

\* mutant: the failed batch is not truncated away.
RolledBackKept(p, s) ==
    /\ file # None
    /\ file' = file
    /\ synced' = file
    /\ known' = {p}
    /\ st' = [st EXCEPT ![p] = [s EXCEPT !.grown = FALSE, !.needsRecovery = FALSE]]

\* recoverFailedCommit, complete: truncated, synced and the stat recorded.
RolledBack(p, s) ==
    /\ file # None
    /\ file' = CutAt(p)
    /\ synced' = file'
    /\ known' = {p}
    /\ st' = [st EXCEPT ![p] = [s EXCEPT !.grown = FALSE, !.needsRecovery = FALSE]]

\* recoverFailedCommit with an error: nothing done, truncated, or synced too.
NotRolledBack(p) ==
    /\ RollbackMayFail \/ file = None
    /\ \/ UNCHANGED <<file, synced, known>>
       \/ /\ file # None
          /\ file' = CutAt(p)
          /\ synced' \in {synced, file'}
          /\ known' = {}

Recover(p) ==
    /\ At(p, "recover")
    /\ \/ RolledBack(p, [st[p] EXCEPT !.pc = "load"]) /\ UNCHANGED flock
       \/ NotRolledBack(p) /\ Return(p, st[p])
    /\ UNCHANGED <<next, acked, failed>>

\* mutant: a loaded snapshot is used without looking at the file.
CacheHitAlways(p) == st[p].loaded /\ (st[p].op = "append" \/ st[p].lease)

\* The cached view is used when the file looks unchanged, except by a reader
\* without the writer lease.
CacheHit(p) == st[p].loaded /\ p \in known /\ (st[p].op = "append" \/ st[p].lease)

Loaded(p) ==
    [st[p] EXCEPT !.loaded = TRUE, !.snapshot = Committed(file.recs),
                  !.committedOffset = Len(Committed(file.recs)),
                  !.grown = HasTornTail(file.recs),
                  !.needsSeparator = ~file.eol /\ ~HasTornTail(file.recs)]

\* ensureLoaded: keep the cache, replay the file, or fail (cancelled, no file,
\* a read error, a corrupted file). A Load is then over. A change between the
\* stat and the read leaves a cache that the next check does not accept.
EnsureLoaded(p) ==
    /\ At(p, "load")
    /\ LET Proceed(s) == IF s.op = "append"
                         THEN st' = [st EXCEPT ![p] = [s EXCEPT !.pc = "write"]] /\ UNCHANGED flock
                         ELSE Return(p, s)
       IN \/ CacheHit(p) /\ file # None /\ Proceed(st[p]) /\ UNCHANGED known
          \/ /\ ~CacheHit(p)
             /\ file # None
             /\ ~Corrupted(file.recs)
             /\ Proceed(Loaded(p))
             /\ known' \in {known \cup {p}, known \ {p}}
          \/ \E loaded \in {st[p].loaded, FALSE} :
                Return(p, [st[p] EXCEPT !.loaded = loaded]) /\ UNCHANGED known
    /\ UNCHANGED <<file, synced, next, acked, failed>>

Fresh(n) == [i \in 1 .. n |-> next + i - 1]

\* Append up to the write: nothing touched (cancelled, or the open failed);
\* begun and failed; or some of the batch on its way to the file.
Write(p) ==
    /\ At(p, "write")
    /\ \/ Return(p, st[p]) /\ UNCHANGED <<file, known, next>>
       \/ \E n \in BatchSizes :
            /\ next + n - 1 <= MaxEvents
            /\ next' = next + n
            /\ known' = {}
            /\ \/ /\ file' \in {file, Base(p)}
                  /\ st' = [st EXCEPT ![p].pc = "rollback", ![p].batch = Fresh(n)]
               \/ LET lines == Lines(p, Base(p), Fresh(n)) IN
                  /\ file' \in Fragments(Base(p), lines)
                  /\ st' = [st EXCEPT ![p].pc = "writing", ![p].batch = Fresh(n),
                                      ![p].lines = lines]
            /\ UNCHANGED flock
    /\ UNCHANGED <<synced, acked, failed>>

\* The write ends: short, with an error, or complete.
Written(p) ==
    /\ At(p, "writing")
    /\ \/ st' = [st EXCEPT ![p].pc = "rollback", ![p].lines = <<>>] /\ UNCHANGED <<file, known>>
       \/ /\ st' = [st EXCEPT ![p].pc = "sync", ![p].lines = <<>>]
          /\ file' = [recs |-> st[p].lines, eol |-> TRUE]
          /\ known' = {}
    /\ UNCHANGED <<synced, flock, next, acked, failed>>

\* mutant: an Append that does not wait for the disk.
SyncSkipped(p) ==
    /\ At(p, "sync")
    /\ st' = [st EXCEPT ![p].pc = "finish"]
    /\ UNCHANGED <<file, synced, flock, known, next, acked, failed>>

\* file.Sync, Stat and Close; a failure of any of them rolls back.
Sync(p) ==
    /\ At(p, "sync")
    /\ \/ synced' = file /\ st' = [st EXCEPT ![p].pc = "finish"]
       \/ synced' \in {synced, file} /\ st' = [st EXCEPT ![p].pc = "rollback"]
    /\ UNCHANGED <<file, flock, known, next, acked, failed>>

\* mutant: the separator is still thought to be missing.
PublishedSeparator(p) ==
    [st[p] EXCEPT !.snapshot = @ \o st[p].batch,
                  !.committedOffset = @ + Len(st[p].batch),
                  !.grown = FALSE]

Published(p) ==
    [st[p] EXCEPT !.snapshot = @ \o st[p].batch,
                  !.committedOffset = @ + Len(st[p].batch),
                  !.grown = FALSE,
                  !.needsSeparator = FALSE]

\* The snapshot and offset are published and the guard released. Without a
\* lease the release may fail, and Append with it, though it has committed.
Finish(p) ==
    /\ At(p, "finish")
    /\ Return(p, Published(p))
    /\ known' = known \cup {p}
    /\ acked' \in IF st[p].lease THEN {acked \cup ToSet(st[p].batch)}
                                 ELSE {acked, acked \cup ToSet(st[p].batch)}
    /\ UNCHANGED <<file, synced, next, failed>>

\* A failed commit is rolled back at once; when that fails it stays owed.
Rollback(p) ==
    /\ At(p, "rollback")
    /\ \/ RolledBack(p, Idle(st[p])) /\ Release(p)
       \/ NotRolledBack(p) /\ Return(p, [st[p] EXCEPT !.needsRecovery = TRUE])
    /\ failed' = failed \cup ToSet(st[p].batch)
    /\ UNCHANGED <<next, acked>>

-----------------------------------------------------------------------------
(* Failures around the program.                                             *)

\* The process is killed: the operating system drops its locks.
Crash(p) ==
    /\ st[p] # NewState
    /\ st' = [st EXCEPT ![p] = NewState]
    /\ flock' = IF flock = p THEN None ELSE flock
    /\ known' = known \ {p}
    /\ failed' = IF file = None THEN {} ELSE failed \ ToSet(file.recs)
    /\ UNCHANGED <<file, synced, next, acked>>

\* Power fails: everything dies, and of the changes since the last sync any
\* part may be on disk.
PowerLoss ==
    /\ file # None
    /\ LET both == LongestCommonPrefix({synced.recs, file.recs})
           ended(f) == f.eol \/ f.recs # both
       IN file' \in {synced} \cup
              Fragments([recs |-> both, eol |-> ended(synced) /\ ended(file)], file.recs)
    /\ synced' = file'
    /\ st' = [p \in Procs |-> NewState]
    /\ flock' = None
    /\ known' = {}
    /\ failed' = failed \ ToSet(file'.recs)
    /\ UNCHANGED <<next, acked>>

Next ==
    \/ \E p \in Procs :
         \/ AcquireWriter(p) \/ ReleaseWriter(p)
         \/ Create(p) \/ Delete(p)
         \/ \E op \in {"append", "load"} : Begin(p, op)
         \/ Recover(p) \/ EnsureLoaded(p)
         \/ Write(p) \/ Written(p) \/ Sync(p) \/ Finish(p) \/ Rollback(p)
         \/ Crash(p)
    \/ PowerLoss

Spec == Init /\ [][Next]_vars

\* As long as a process owes a rollback nobody else comes to the session.
OwesAlone ==
    \A p, q \in Procs : p # q /\ st'[p].needsRecovery =>
        /\ st'[q] = NewState
        /\ st[p].needsRecovery => (file = None <=> file' = None)

AloneSpec == Init /\ [][Next /\ OwesAlone]_vars

-----------------------------------------------------------------------------
(* Properties.                                                              *)

States == [pc : PC, op : {"append", "load", None}, lease : BOOLEAN, loaded : BOOLEAN,
           snapshot : Seq(Events), committedOffset : Nat, grown : BOOLEAN,
           needsSeparator : BOOLEAN, needsRecovery : BOOLEAN, batch : Seq(Events),
           lines : Seq(Events \cup {Torn})]

\* Types.
TypeOK ==
    /\ file \in Contents \cup {None}
    /\ synced \in Contents \cup {None}
    /\ flock \in Procs \cup {None}
    /\ st \in [Procs -> States]
    /\ known \subseteq Procs
    /\ next \in 1 .. MaxEvents + 1
    /\ acked \subseteq Events
    /\ failed \subseteq Events

\* No interruption, failed write, rollback or turn of writers leaves a file
\* that replay rejects as ErrCorrupted: bad bytes are only ever at its end.
LogIntact == file # None => ~Corrupted(file.recs)

\* The state s knows of the file f what replaying it would give.
Exact(s, f) ==
    /\ s.snapshot = Committed(f.recs)
    /\ s.committedOffset = Len(s.snapshot)
    /\ s.grown = HasTornTail(f.recs)
    /\ s.needsSeparator = (~f.eol /\ ~HasTornTail(f.recs))

\* Whenever ensureLoaded would trust the cache of a process, the snapshot, the
\* offset and the separator flag are what replaying the file would give.
CacheSound ==
    \A p \in Procs : file # None /\ st[p].loaded /\ p \in known /\ ~st[p].needsRecovery =>
        Exact(st[p], file)

\* What was rolled back stays out: the events of an Append that failed are in no
\* snapshot a commit starts from or publishes and, once no rollback is owed, not
\* in the file. (A Load without the flock may have read such a batch in flight
\* and keep it: a commit of that process looks at the file again before it
\* starts.)
FailedStaysOut ==
    \A p \in Procs :
        /\ st[p].op = "append" /\ st[p].pc \in {"write", "finish"} =>
               failed \cap ToSet(st[p].snapshot) = {}
        /\ (\A q \in Procs : ~st[q].needsRecovery) /\ file # None =>
               failed \cap ToSet(file.recs) = {}

\* An event whose Append returned without error is in the log, and stays there
\* when the power fails, until the session is deleted.
AckedIsDurable ==
    \A e \in acked : e \in ToSet(Committed(file.recs)) /\ e \in ToSet(Committed(synced.recs))

\* Two sequences have their first n elements in common.
Agree(n, s, t) == n <= Len(s) /\ n <= Len(t) /\ \A i \in 1 .. n : s[i] = t[i]

\* A file that replay accepts: session_created first, every event once and
\* below the number issued, and bytes that do not parse only at the end.
WellFormed(f, issued) ==
    LET recs == f.recs IN
    /\ Len(recs) >= 1 /\ recs[1] = 0
    /\ \A i \in 1 .. Len(recs) : IF recs[i] = Torn THEN i = Len(recs) ELSE recs[i] < issued
    /\ \A i, j \in 1 .. Len(recs) : recs[i] = recs[j] => i = j

FilesOK ==
    IF file = None THEN synced = None /\ acked = {} /\ failed = {}
    ELSE /\ synced # None
         /\ WellFormed(file, next) /\ WellFormed(synced, next)
         /\ \A e \in failed : e < next

\* The flock is held during a mutation and for a lease.
Locked(s) ==
    \/ s.lease
    \/ s.pc \in {"recover", "write", "writing", "sync", "finish", "rollback"}
    \/ s.pc = "load" /\ s.op = "append"

LockOK ==
    \A p \in Procs :
        /\ Locked(st[p]) => flock = p
        /\ st[p].pc \in {"write", "writing", "sync", "finish", "rollback"} => st[p].op = "append"
        /\ st[p].pc = "recover" => st[p].needsRecovery
        /\ st[p].needsRecovery =>
               /\ st[p].pc \in {"idle", "recover"}
               /\ \A q \in Procs \ {p} : st[q] = NewState

\* A commit is under way or has still to be rolled back.
Unsettled(s) == s.needsRecovery \/ s.pc \in {"writing", "sync", "finish", "rollback"}

Whole(s) == s.snapshot \o s.batch

\* Whatever a commit has done so far, the snapshot it started from is still in
\* front of it.
Begun(s, f, issued) ==
    /\ f # None
    /\ s.committedOffset = Len(s.snapshot)
    /\ s.snapshot # <<>> /\ Agree(Len(s.snapshot), s.snapshot, f.recs)
    /\ \A i, j \in 1 .. Len(Whole(s)) : Whole(s)[i] = Whole(s)[j] => i = j
    /\ \A i \in 1 .. Len(Whole(s)) : Whole(s)[i] < issued

\* How far a commit has come.
Phase(s, f, disk) ==
    /\ s.pc = "write" => f # None /\ Exact(s, f)
    /\ s.pc = "writing" => s.lines = Whole(s)
    /\ s.pc \in {"sync", "finish"} => f = [recs |-> Whole(s), eol |-> TRUE]
    /\ s.pc = "finish" => disk = f

\* A commit starts from everything acknowledged, and from nothing that failed.
CommitOK ==
    \A p \in Procs :
        /\ Phase(st[p], file, synced)
        /\ Unsettled(st[p]) =>
              /\ Begun(st[p], file, next)
              /\ acked \subseteq ToSet(st[p].snapshot)
              /\ failed \cap ToSet(Whole(st[p])) = {}

\* Everything acknowledged is in the part that the file and the disk share.
Shared(n, f, disk, promised) ==
    /\ Agree(n, f.recs, disk.recs)
    /\ \A e \in promised : \E i \in 1 .. n : f.recs[i] = e

SharedOK == file # None => \E n \in 0 .. Len(file.recs) : Shared(n, file, synced, acked)

\* What failed is not in the file unless a rollback is owed.
FailedOK ==
    (\A q \in Procs : ~st[q].needsRecovery) /\ file # None => failed \cap ToSet(file.recs) = {}

\* The inductive invariant.
FileInvariant ==
    /\ TypeOK /\ FilesOK /\ LockOK /\ CacheSound /\ CommitOK /\ SharedOK /\ FailedOK

\* The abstract log: what a commit or an owed rollback has not yet settled is
\* not in it.
Log == IF file = None THEN None
       ELSE IF \A p \in Procs : ~Unsettled(st[p]) THEN Committed(file.recs)
       ELSE SubSeq(file.recs, 1, st[CHOOSE p \in Procs : Unsettled(st[p])].committedOffset)

Promise == INSTANCE DurableLog WITH log <- Log

\* The store keeps the promise of an append-only log through crashes, power
\* failures, failed writes and changes of writer.
ImplementsDurableLog == Promise!Spec
=============================================================================
