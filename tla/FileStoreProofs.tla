--------------------------- MODULE FileStoreProofs ---------------------------
(***************************************************************************)
(* Proofs about FileStore, for every set of processes, number of events    *)
(* and batch sizes: the inductive invariant FileInvariant, the properties  *)
(* that it implies, and the step simulation of the abstract DurableLog.    *)
(***************************************************************************)
EXTENDS FileStore, SequenceTheorems, WellFoundedInduction, TLAPS

-----------------------------------------------------------------------------
(* Sequences of records.                                                    *)

\* Bytes that do not parse are no event.
LEMMA NotTorn == Events \subseteq Nat /\ 0 \in Events /\ Torn \notin Events /\ Torn \notin Nat
BY FileStoreAssumption DEF Events

\* The elements of a sequence, by index.
LEMMA Elements ==
    ASSUME NEW T, NEW s \in Seq(T)
    PROVE  \A e : e \in ToSet(s) <=> \E i \in 1 .. Len(s) : s[i] = e
BY DEF ToSet

\* A prefix, by index.
LEMMA Cut ==
    ASSUME NEW T, NEW s \in Seq(T), NEW k \in Nat, k <= Len(s)
    PROVE  /\ SubSeq(s, 1, k) \in Seq(T) /\ Len(SubSeq(s, 1, k)) = k
           /\ \A i \in 1 .. k : SubSeq(s, 1, k)[i] = s[i]
BY SubSeqProperties

\* What replay takes of a well-formed file: all of it but a torn end.
LEMMA CommittedOf ==
    ASSUME NEW f \in Contents, NEW m \in Nat, WellFormed(f, m)
    PROVE  /\ Committed(f.recs) \in Seq(Events)
           /\ Agree(Len(Committed(f.recs)), Committed(f.recs), f.recs)
           /\ Len(Committed(f.recs)) = IF HasTornTail(f.recs) THEN Len(f.recs) - 1 ELSE Len(f.recs)
           /\ Committed(f.recs) # <<>> /\ Committed(f.recs)[1] = 0
           /\ \A i \in 1 .. Len(f.recs) : f.recs[i] # Torn => i <= Len(Committed(f.recs))
           /\ \A e \in Events : e \in ToSet(f.recs) <=> e \in ToSet(Committed(f.recs))
           /\ ~HasTornTail(f.recs) => Committed(f.recs) = f.recs
           /\ ~Corrupted(f.recs)
<1> DEFINE recs == f.recs
           n == IF HasTornTail(recs) THEN Len(recs) - 1 ELSE Len(recs)
<1>1. recs \in Seq(Events \cup {Torn}) /\ Len(recs) >= 1 /\ recs[1] = 0 /\ Len(recs) \in Nat
  BY DEF Contents, WellFormed
<1>2. HasTornTail(recs) <=> recs[Len(recs)] = Torn
  BY <1>1 DEF HasTornTail, Last
<1>3. n \in Nat /\ n >= 1 /\ n <= Len(recs)
  BY <1>1, <1>2, NotTorn
<1>4. Committed(recs) = SubSeq(recs, 1, n)
  BY <1>1 DEF Committed, Front
<1>5. Len(Committed(recs)) = n /\ \A i \in 1 .. n : Committed(recs)[i] = recs[i]
  BY <1>1, <1>3, <1>4
<1>6. \A i \in 1 .. n : recs[i] \in Events
  BY <1>1, <1>2, <1>3 DEF WellFormed
<1>7. Committed(recs) \in Seq(Events)
  BY <1>1, <1>3, <1>4, <1>5, <1>6, IsASeq
<1>8. \A i \in 1 .. Len(recs) : recs[i] # Torn => i <= n
  BY <1>1, <1>2
<1>9. \A e \in Events : e \in ToSet(recs) <=> e \in ToSet(Committed(recs))
  <2>1. /\ \A e : e \in ToSet(recs) <=> \E i \in 1 .. Len(recs) : recs[i] = e
        /\ \A e : e \in ToSet(Committed(recs)) <=> \E i \in 1 .. n : Committed(recs)[i] = e
    BY <1>1, <1>5, <1>7, Elements
  <2> QED BY <1>1, <1>3, <1>5, <1>8, <2>1, NotTorn
<1>10. Committed(recs) # <<>> /\ Agree(n, Committed(recs), recs) /\ Committed(recs)[1] = 0
  BY <1>1, <1>3, <1>5, <1>7 DEF Agree
<1>11. ~Corrupted(recs)
  <2>1. Torn \notin ToSet(Committed(recs))
    BY <1>7, Elements, NotTorn
  <2> QED BY <1>1, <1>10, <2>1 DEF Corrupted
<1> QED BY <1>3, <1>5, <1>7, <1>8, <1>9, <1>10, <1>11 DEF Committed

\* The start of a good file is a good file, with or without a torn record
\* behind it.
LEMMA StartOf ==
    ASSUME NEW all \in Contents, NEW m \in Nat, WellFormed(all, m),
           NEW k \in 1 .. Len(all.recs), NEW r, NEW eol \in BOOLEAN,
           \/ r = SubSeq(all.recs, 1, k)
           \/ (r = Append(SubSeq(all.recs, 1, k), Torn) /\ \A i \in 1 .. k : all.recs[i] # Torn)
    PROVE  /\ [recs |-> r, eol |-> eol] \in Contents /\ WellFormed([recs |-> r, eol |-> eol], m)
           /\ Agree(k, r, all.recs)
           /\ \A e \in Events : e \in ToSet(r) => e \in ToSet(all.recs)
<1> DEFINE a == all.recs
           f == [recs |-> r, eol |-> eol]
<1>1. a \in Seq(Events \cup {Torn}) /\ Len(a) \in Nat /\ k \in Nat /\ k <= Len(a) /\ k >= 1
  BY DEF Contents
<1>2. /\ SubSeq(a, 1, k) \in Seq(Events \cup {Torn}) /\ Len(SubSeq(a, 1, k)) = k
      /\ \A i \in 1 .. k : SubSeq(a, 1, k)[i] = a[i]
  BY <1>1, Cut
<1>3. /\ r \in Seq(Events \cup {Torn})
      /\ \A i \in 1 .. k : r[i] = a[i]
      /\ \/ Len(r) = k
         \/ (Len(r) = k + 1 /\ r[k + 1] = Torn /\ \A i \in 1 .. k : a[i] # Torn)
  <2>1. CASE r = SubSeq(a, 1, k)
    BY <1>2, <2>1
  <2>2. CASE r = Append(SubSeq(a, 1, k), Torn) /\ \A i \in 1 .. k : a[i] # Torn
    BY <1>1, <1>2, <2>2, AppendProperties
  <2> QED BY <2>1, <2>2
<1>4. WellFormed(f, m)
  <2>1. /\ Len(a) >= 1 /\ a[1] = 0
        /\ \A i \in 1 .. Len(a) : IF a[i] = Torn THEN i = Len(a) ELSE a[i] < m
        /\ \A i, j \in 1 .. Len(a) : a[i] = a[j] => i = j
    BY DEF WellFormed
  <2>2. CASE Len(r) = k
    <3>1. \A i \in 1 .. k : IF r[i] = Torn THEN i = k ELSE r[i] < m
      BY <1>1, <1>3, <2>1
    <3>2. \A i, j \in 1 .. k : r[i] = r[j] => i = j
      BY <1>1, <1>3, <2>1
    <3>3. r[1] = 0
      BY <1>1, <1>3, <2>1
    <3> QED BY <1>1, <2>2, <3>1, <3>2, <3>3 DEF WellFormed
  <2>3. CASE Len(r) = k + 1 /\ r[k + 1] = Torn /\ \A i \in 1 .. k : a[i] # Torn
    <3>1. \A i \in 1 .. k : r[i] # Torn /\ r[i] < m
      <4>1. \A i \in 1 .. k : r[i] = a[i] /\ i \in 1 .. Len(a) /\ a[i] # Torn
        BY <1>1, <1>3, <2>3
      <4> QED BY <2>1, <4>1
    <3>2. \A i, j \in 1 .. k : r[i] = r[j] => i = j
      BY <1>1, <1>3, <2>1
    <3>3. r[1] = 0
      BY <1>1, <1>3, <2>1
    <3>4. \A i \in 1 .. k + 1 : i \in 1 .. k \/ i = k + 1
      BY <1>1
    <3>5. \A i, j \in 1 .. k + 1 : r[i] = r[j] => i = j
      BY <2>3, <3>1, <3>2, <3>4
    <3>6. \A i \in 1 .. k + 1 : IF r[i] = Torn THEN i = k + 1 ELSE r[i] < m
      BY <2>3, <3>1, <3>4
    <3>7. k + 1 >= 1
      BY <1>1
    <3> QED BY <2>3, <3>3, <3>5, <3>6, <3>7 DEF WellFormed
  <2> QED BY <1>3, <2>2, <2>3
<1>5. \A e \in Events : e \in ToSet(r) => e \in ToSet(a)
  BY <1>1, <1>3, Elements, NotTorn
<1> QED BY <1>1, <1>3, <1>4, <1>5 DEF Contents, Agree

\* An interrupted write leaves the start of what it was to leave, cut behind
\* what was there, perhaps with a torn record.
LEMMA FragmentOf ==
    ASSUME NEW base, NEW full, NEW f \in Fragments(base, full),
           Len(base.recs) \in Nat, Len(full) \in Nat
    PROVE  \E r : \E eol \in BOOLEAN :
              /\ f = [recs |-> r, eol |-> eol]
              /\ \E k \in Len(base.recs) .. Len(full) :
                   \/ r = SubSeq(full, 1, k)
                   \/ (k < Len(full) /\ r = Append(SubSeq(full, 1, k), Torn))
<1>1. CASE f \in [recs : {SubSeq(full, 1, k) : k \in Len(base.recs) .. Len(full)}, eol : BOOLEAN]
  <2>1. PICK k \in Len(base.recs) .. Len(full), eol \in BOOLEAN :
               f = [recs |-> SubSeq(full, 1, k), eol |-> eol]
    BY <1>1
  <2> QED BY <2>1
<1>2. CASE f \in [recs : {Append(SubSeq(full, 1, k), Torn) : k \in Len(base.recs) .. Len(full) - 1},
                  eol : {FALSE}]
  <2>1. PICK k \in Len(base.recs) .. Len(full) - 1 :
               f = [recs |-> Append(SubSeq(full, 1, k), Torn), eol |-> FALSE]
    BY <1>2
  <2>2. k \in Len(base.recs) .. Len(full) /\ k < Len(full)
    OBVIOUS
  <2> QED BY <2>1, <2>2
<1> QED BY <1>1, <1>2 DEF Fragments

\* A log with a batch behind it is a good file.
LEMMA WholeFile ==
    ASSUME NEW all \in Seq(Events), NEW m \in Nat, Len(all) >= 1, all[1] = 0,
           \A i, j \in 1 .. Len(all) : all[i] = all[j] => i = j,
           \A i \in 1 .. Len(all) : all[i] < m,
           NEW eol \in BOOLEAN
    PROVE  [recs |-> all, eol |-> eol] \in Contents /\ WellFormed([recs |-> all, eol |-> eol], m)
<1>1. \A i \in 1 .. Len(all) : all[i] \in Events /\ all[i] # Torn
  BY NotTorn
<1>2. all \in Seq(Events \cup {Torn})
  OBVIOUS
<1> QED BY <1>1, <1>2 DEF Contents, WellFormed

-----------------------------------------------------------------------------
(* The inductive invariant.                                                 *)

\* A process that has just started holds nothing and has nothing under way.
LEMMA NewIdle ==
    NewState \in States /\ ~Locked(NewState) /\ ~Unsettled(NewState) /\ NewState.pc = "idle"
    /\ ~NewState.needsRecovery /\ ~NewState.loaded
BY DEF NewState, States, PC, Locked, Unsettled

\* While one process holds the flock for a mutation no other one mutates or has
\* anything to roll back.
LEMMA OneMutator ==
    ASSUME LockOK, NEW p \in Procs, Locked(st[p]), NEW q \in Procs \ {p}
    PROVE  flock = p /\ ~Locked(st[q]) /\ ~Unsettled(st[q]) /\ st[q].pc # "write"
<1>1. flock = p /\ ~Locked(st[q])
  BY DEF LockOK
<1>2. ~st[q].needsRecovery
  BY NewIdle DEF LockOK
<1> QED BY <1>1, <1>2 DEF Locked, Unsettled

\* What a step of p has to show of p's own state and of the file, and of every
\* other process: that it has nothing at stake or that nothing changes for it.
LEMMA Step ==
    ASSUME FileInvariant, OwesAlone, NEW p \in Procs, NEW s \in States,
           st' = [st EXCEPT ![p] = s],
           file' \in Contents \cup {None}, synced' \in Contents \cup {None},
           flock' \in Procs \cup {None}, known' \subseteq Procs, next' \in 1 .. MaxEvents + 1,
           acked' \subseteq Events, failed' \subseteq Events,
           FilesOK', SharedOK', FailedOK',
           \A q \in Procs \ {p} : flock = q => flock' = q,
           Locked(s) => flock' = p,
           s.pc \in {"write", "writing", "sync", "finish", "rollback"} => s.op = "append",
           s.pc = "recover" => s.needsRecovery,
           s.needsRecovery => s.pc \in {"idle", "recover"},
           \A q \in Procs \ {p} :
              /\ q \in known' => q \in known /\ file' = file
              /\ \/ (st[q].pc # "write" /\ ~Unsettled(st[q]))
                 \/ (/\ file' = file /\ synced' = synced /\ next' = next
                     /\ acked' \subseteq acked /\ failed' \subseteq failed),
           file' # None /\ s.loaded /\ p \in known' /\ ~s.needsRecovery => Exact(s, file'),
           Phase(s, file', synced'),
           Unsettled(s) => /\ Begun(s, file', next')
                           /\ acked' \subseteq ToSet(s.snapshot)
                           /\ failed' \cap ToSet(Whole(s)) = {}
    PROVE  FileInvariant'
<1>1. st'[p] = s /\ \A q \in Procs \ {p} : st'[q] = st[q]
  BY DEF FileInvariant, TypeOK
<1>2. TypeOK'
  BY DEF FileInvariant, TypeOK
<1>3. LockOK'
  <2> SUFFICES ASSUME NEW q \in Procs PROVE
        /\ Locked(st'[q]) => flock' = q
        /\ st'[q].pc \in {"write", "writing", "sync", "finish", "rollback"} => st'[q].op = "append"
        /\ st'[q].pc = "recover" => st'[q].needsRecovery
        /\ st'[q].needsRecovery =>
               /\ st'[q].pc \in {"idle", "recover"}
               /\ \A other \in Procs \ {q} : st'[other] = NewState
    BY DEF LockOK
  <2>1. st'[q].needsRecovery => \A other \in Procs \ {q} : st'[other] = NewState
    BY DEF OwesAlone
  <2>2. CASE q = p
    BY <1>1, <2>1, <2>2
  <2>3. CASE q # p
    BY <1>1, <2>1, <2>3 DEF FileInvariant, LockOK
  <2> QED BY <2>2, <2>3
<1>4. CacheSound'
  <2> SUFFICES ASSUME NEW q \in Procs, file' # None, st'[q].loaded, q \in known',
                      ~st'[q].needsRecovery
               PROVE  Exact(st'[q], file')
    BY DEF CacheSound
  <2>1. CASE q = p
    BY <1>1, <2>1
  <2>2. CASE q # p
    BY <1>1, <2>2 DEF FileInvariant, CacheSound
  <2> QED BY <2>1, <2>2
<1>5. CommitOK'
  <2> SUFFICES ASSUME NEW q \in Procs PROVE
        /\ Phase(st'[q], file', synced')
        /\ Unsettled(st'[q]) =>
              /\ Begun(st'[q], file', next')
              /\ acked' \subseteq ToSet(st'[q].snapshot)
              /\ failed' \cap ToSet(Whole(st'[q])) = {}
    BY DEF CommitOK
  <2>1. CASE q = p
    BY <1>1, <2>1
  <2>2. CASE q # p /\ st[q].pc # "write" /\ ~Unsettled(st[q])
    BY <1>1, <2>2 DEF Phase, Unsettled
  <2>3. CASE q # p /\ file' = file /\ synced' = synced /\ next' = next
             /\ acked' \subseteq acked /\ failed' \subseteq failed
    <3>1. /\ Phase(st[q], file, synced)
          /\ Unsettled(st[q]) =>
                /\ Begun(st[q], file, next)
                /\ acked \subseteq ToSet(st[q].snapshot)
                /\ failed \cap ToSet(Whole(st[q])) = {}
      BY DEF FileInvariant, CommitOK
    <3>2. st'[q] = st[q]
      BY <1>1, <2>3
    <3> QED BY <2>3, <3>1, <3>2
  <2> QED BY <2>1, <2>2, <2>3
<1> QED BY <1>2, <1>3, <1>4, <1>5 DEF FileInvariant

\* A step that leaves the file and what it stands for alone.
LEMMA QuietStep ==
    ASSUME FileInvariant, OwesAlone, NEW p \in Procs, NEW s \in States,
           st' = [st EXCEPT ![p] = s], UNCHANGED <<file, synced, next, acked, failed>>,
           flock' \in Procs \cup {None}, known' \subseteq known \cup {p},
           \A q \in Procs \ {p} : flock = q => flock' = q,
           Locked(s) => flock' = p,
           s.pc \in {"write", "writing", "sync", "finish", "rollback"} => s.op = "append",
           s.pc = "recover" => s.needsRecovery,
           s.needsRecovery => s.pc \in {"idle", "recover"},
           s.needsRecovery = st[p].needsRecovery,
           file # None /\ s.loaded /\ p \in known' /\ ~s.needsRecovery => Exact(s, file),
           Phase(s, file, synced),
           Unsettled(s) => /\ Unsettled(st[p]) /\ s.snapshot = st[p].snapshot
                           /\ s.batch = st[p].batch /\ s.committedOffset = st[p].committedOffset
    PROVE  FileInvariant'
<1>1. /\ file' \in Contents \cup {None} /\ synced' \in Contents \cup {None}
      /\ known' \subseteq Procs /\ next' \in 1 .. MaxEvents + 1
      /\ acked' \subseteq Events /\ failed' \subseteq Events
  BY DEF FileInvariant, TypeOK
<1>2. FilesOK' /\ SharedOK'
  BY DEF FileInvariant, FilesOK, SharedOK
<1>3. FailedOK'
  <2>1. \A q \in Procs : st'[q].needsRecovery = st[q].needsRecovery
    BY DEF FileInvariant, TypeOK
  <2> QED BY <2>1 DEF FileInvariant, FailedOK
<1>4. Phase(s, file', synced')
  OBVIOUS
<1>5. Unsettled(s) => /\ Begun(s, file', next')
                      /\ acked' \subseteq ToSet(s.snapshot)
                      /\ failed' \cap ToSet(Whole(s)) = {}
  <2>1. Unsettled(st[p]) => /\ Begun(st[p], file, next)
                            /\ acked \subseteq ToSet(st[p].snapshot)
                            /\ failed \cap ToSet(Whole(st[p])) = {}
    BY DEF FileInvariant, CommitOK
  <2> QED BY <2>1 DEF Begun, Whole
<1>6. \A q \in Procs \ {p} :
         /\ q \in known' => q \in known /\ file' = file
         /\ file' = file /\ synced' = synced /\ next' = next
         /\ acked' \subseteq acked /\ failed' \subseteq failed
  OBVIOUS
<1>7. file' # None /\ s.loaded /\ p \in known' /\ ~s.needsRecovery => Exact(s, file')
  OBVIOUS
<1> QED BY <1>1, <1>2, <1>3, <1>4, <1>5, <1>6, <1>7, Step

\* A lease is taken by a process with nothing under way but an owed rollback.
LEMMA AcquireKeeps ==
    ASSUME FileInvariant, OwesAlone, NEW p \in Procs, AcquireWriter(p)
    PROVE  FileInvariant'
<1> DEFINE s == [st[p] EXCEPT !.lease = TRUE]
<1>1. st[p] \in States
  BY DEF FileInvariant, TypeOK
<1>2. s \in States /\ st' = [st EXCEPT ![p] = s]
  BY <1>1 DEF AcquireWriter, States
<1>3. /\ s.pc = "idle" /\ s.needsRecovery = st[p].needsRecovery /\ s.loaded = st[p].loaded
      /\ s.snapshot = st[p].snapshot /\ s.batch = st[p].batch /\ s.grown = st[p].grown
      /\ s.committedOffset = st[p].committedOffset /\ s.needsSeparator = st[p].needsSeparator
  BY <1>1 DEF AcquireWriter, At, States
<1>4. p \in known' /\ file # None /\ s.loaded /\ ~s.needsRecovery => Exact(s, file)
  BY <1>3 DEF FileInvariant, CacheSound, Exact, AcquireWriter
<1>5. Phase(s, file, synced) /\ (Unsettled(s) => Unsettled(st[p]))
  BY <1>3 DEF Phase, Unsettled
<1>6. /\ flock = None /\ flock' = p /\ known' = known
      /\ UNCHANGED <<file, synced, next, acked, failed>>
  BY DEF AcquireWriter
<1> HIDE DEF s
<1> QED BY <1>2, <1>3, <1>4, <1>5, <1>6, QuietStep, FileStoreAssumption

\* A lease is given back between two operations.
LEMMA ReleaseKeeps ==
    ASSUME FileInvariant, OwesAlone, NEW p \in Procs, ReleaseWriter(p)
    PROVE  FileInvariant'
<1> DEFINE s == [st[p] EXCEPT !.lease = FALSE]
<1>1. st[p] \in States
  BY DEF FileInvariant, TypeOK
<1>2. s \in States /\ st' = [st EXCEPT ![p] = s]
  BY <1>1 DEF ReleaseWriter, States
<1>3. /\ s.pc = "idle" /\ s.needsRecovery = st[p].needsRecovery /\ s.loaded = st[p].loaded
      /\ s.snapshot = st[p].snapshot /\ s.batch = st[p].batch /\ s.grown = st[p].grown
      /\ s.committedOffset = st[p].committedOffset /\ s.needsSeparator = st[p].needsSeparator
      /\ ~s.lease
  BY <1>1 DEF ReleaseWriter, At, States
<1>4. p \in known' /\ file # None /\ s.loaded /\ ~s.needsRecovery => Exact(s, file)
  BY <1>3 DEF FileInvariant, CacheSound, Exact, ReleaseWriter
<1>5. Phase(s, file, synced) /\ (Unsettled(s) => Unsettled(st[p])) /\ ~Locked(s)
  BY <1>3 DEF Phase, Unsettled, Locked
<1>6. /\ flock = p /\ flock' = None /\ known' = known
      /\ UNCHANGED <<file, synced, next, acked, failed>>
  BY DEF ReleaseWriter, FileInvariant, LockOK, Locked
<1> HIDE DEF s
<1> QED BY <1>2, <1>3, <1>4, <1>5, <1>6, QuietStep, FileStoreAssumption

\* An operation starts under the guard that it needs.
LEMMA BeginKeeps ==
    ASSUME FileInvariant, OwesAlone, NEW p \in Procs, NEW op \in {"append", "load"}, Begin(p, op)
    PROVE  FileInvariant'
<1> DEFINE at == IF st[p].needsRecovery THEN "recover" ELSE "load"
           s == [st[p] EXCEPT !.op = op, !.pc = at]
<1>1. st[p] \in States
  BY DEF FileInvariant, TypeOK
<1>2. s \in States /\ st' = [st EXCEPT ![p] = s]
  BY <1>1 DEF Begin, States, PC
<1>3. /\ s.pc = at /\ s.needsRecovery = st[p].needsRecovery /\ s.loaded = st[p].loaded
      /\ s.snapshot = st[p].snapshot /\ s.batch = st[p].batch /\ s.grown = st[p].grown
      /\ s.committedOffset = st[p].committedOffset /\ s.needsSeparator = st[p].needsSeparator
      /\ s.lease = st[p].lease /\ s.op = op
  BY <1>1 DEF States
<1>4. p \in known' /\ file # None /\ s.loaded /\ ~s.needsRecovery => Exact(s, file)
  BY <1>3 DEF FileInvariant, CacheSound, Exact, Begin
<1>5. /\ Phase(s, file, synced) /\ (Unsettled(s) => Unsettled(st[p]))
      /\ s.pc = "recover" => s.needsRecovery
      /\ s.needsRecovery => s.pc = "recover"
      /\ s.pc \in {"recover", "load"}
  BY <1>3 DEF Phase, Unsettled
<1>6. Locked(s) => st[p].lease \/ op = "append" \/ st[p].needsRecovery
  BY <1>3 DEF Locked
<1>7. st[p].lease => flock = p
  BY DEF FileInvariant, LockOK, Locked
<1>8. /\ Locked(s) => flock' = p
      /\ \A q \in Procs \ {p} : flock = q => flock' = q
      /\ flock' \in Procs \cup {None} /\ known' = known
      /\ UNCHANGED <<file, synced, next, acked, failed>>
  BY <1>6, <1>7, FileStoreAssumption DEF Begin, MayMutate, FileInvariant, TypeOK
<1> HIDE DEF s
<1> QED BY <1>2, <1>3, <1>4, <1>5, <1>8, QuietStep

\* The state of a process whose operation has returned.
LEMMA IdleOf ==
    ASSUME NEW s \in States
    PROVE  /\ Idle(s) \in States /\ Idle(s).pc = "idle" /\ Idle(s).batch = <<>>
           /\ Idle(s).needsRecovery = s.needsRecovery /\ Idle(s).loaded = s.loaded
           /\ Idle(s).snapshot = s.snapshot /\ Idle(s).grown = s.grown
           /\ Idle(s).committedOffset = s.committedOffset
           /\ Idle(s).needsSeparator = s.needsSeparator /\ Idle(s).lease = s.lease
<1>1. <<>> \in Seq(Events) /\ <<>> \in Seq(Events \cup {Torn})
  OBVIOUS
<1> QED BY <1>1 DEF Idle, States, PC

\* A return gives the flock back, unless there is a lease, and takes it from
\* nobody else.
LEMMA ReleaseOf ==
    ASSUME TypeOK, LockOK, NEW p \in Procs, Release(p)
    PROVE  /\ flock' \in Procs \cup {None}
           /\ \A q \in Procs \ {p} : flock = q => flock' = q
           /\ st[p].lease => flock' = p
BY DEF Release, TypeOK, LockOK, Locked

\* A process that returns with the state it has: its cache as it was or not
\* loaded, and an owed rollback still owed.
LEMMA ReturnKeeps ==
    ASSUME FileInvariant, OwesAlone, NEW p \in Procs, NEW s \in States, Return(p, s),
           s.lease = st[p].lease, s.needsRecovery = st[p].needsRecovery,
           s.needsRecovery => s.batch = st[p].batch,
           st[p].needsRecovery => /\ s.snapshot = st[p].snapshot
                                  /\ s.committedOffset = st[p].committedOffset
                                  /\ st[p].batch = <<>>,
           file # None /\ s.loaded /\ p \in known' /\ ~s.needsRecovery => Exact(s, file),
           known' \subseteq known \cup {p}, UNCHANGED <<file, synced, next, acked, failed>>
    PROVE  FileInvariant'
<1> DEFINE r == Idle(s)
<1>1. /\ r \in States /\ r.pc = "idle" /\ r.batch = <<>>
      /\ r.needsRecovery = s.needsRecovery /\ r.loaded = s.loaded
      /\ r.snapshot = s.snapshot /\ r.grown = s.grown
      /\ r.committedOffset = s.committedOffset
      /\ r.needsSeparator = s.needsSeparator /\ r.lease = s.lease
  BY IdleOf
<1>2. st' = [st EXCEPT ![p] = r]
  BY DEF Return
<1>3. /\ flock' \in Procs \cup {None}
      /\ \A q \in Procs \ {p} : flock = q => flock' = q
      /\ st[p].lease => flock' = p
  BY ReleaseOf DEF Return, FileInvariant
<1> HIDE DEF r
<1>4. /\ Locked(r) => flock' = p
      /\ r.needsRecovery = st[p].needsRecovery
      /\ Phase(r, file, synced)
  BY <1>1, <1>3 DEF Locked, Phase
<1>5. file # None /\ r.loaded /\ p \in known' /\ ~r.needsRecovery => Exact(r, file)
  BY <1>1 DEF Exact
<1>6. Unsettled(r) => /\ Unsettled(st[p]) /\ r.snapshot = st[p].snapshot
                      /\ r.batch = st[p].batch /\ r.committedOffset = st[p].committedOffset
  BY <1>1 DEF Unsettled
<1> QED BY <1>1, <1>2, <1>3, <1>4, <1>5, <1>6, QuietStep

\* What replaying the file gives is what Loaded puts into the state.
LEMMA LoadedOf ==
    ASSUME TypeOK, FilesOK, file # None, NEW p \in Procs
    PROVE  /\ Loaded(p) \in States /\ Exact(Loaded(p), file)
           /\ Loaded(p).pc = st[p].pc /\ Loaded(p).op = st[p].op
           /\ Loaded(p).lease = st[p].lease /\ Loaded(p).needsRecovery = st[p].needsRecovery
<1>1. st[p] \in States /\ file \in Contents /\ WellFormed(file, next) /\ next \in Nat
  BY DEF TypeOK, FilesOK
<1>2. Committed(file.recs) \in Seq(Events) /\ Len(Committed(file.recs)) \in Nat
  BY <1>1, CommittedOf
<1>3. HasTornTail(file.recs) \in BOOLEAN /\ (~file.eol /\ ~HasTornTail(file.recs)) \in BOOLEAN
  BY DEF HasTornTail
<1> DEFINE c == Committed(file.recs)
           g == HasTornTail(file.recs)
           n == ~file.eol /\ ~HasTornTail(file.recs)
<1>4. Loaded(p) = [st[p] EXCEPT !.loaded = TRUE, !.snapshot = c, !.committedOffset = Len(c),
                                !.grown = g, !.needsSeparator = n]
  BY DEF Loaded
<1>5. /\ Exact(Loaded(p), file) <=> Exact([snapshot |-> c, committedOffset |-> Len(c),
                                           grown |-> g, needsSeparator |-> n], file)
  <2> HIDE DEF c, g, n
  <2> QED BY <1>1, <1>4 DEF Exact, States
<1>6. Exact([snapshot |-> c, committedOffset |-> Len(c), grown |-> g, needsSeparator |-> n], file)
  BY DEF Exact
<1>7. c \in Seq(Events) /\ Len(c) \in Nat /\ g \in BOOLEAN /\ n \in BOOLEAN
  BY <1>2, <1>3
<1> HIDE DEF c, g, n
<1> QED BY <1>1, <1>4, <1>5, <1>6, <1>7 DEF States

\* With the view of the file in place, Append goes on to write and Load returns.
LEMMA ProceedKeeps ==
    ASSUME FileInvariant, OwesAlone, NEW p \in Procs, At(p, "load"), NEW s \in States,
           s.pc = "load", s.op = st[p].op, s.lease = st[p].lease,
           s.needsRecovery = st[p].needsRecovery, file # None, Exact(s, file),
           IF s.op = "append"
           THEN st' = [st EXCEPT ![p] = [s EXCEPT !.pc = "write"]] /\ UNCHANGED flock
           ELSE Return(p, s),
           known' \subseteq known \cup {p}, UNCHANGED <<file, synced, next, acked, failed>>
    PROVE  FileInvariant'
<1>1. ~st[p].needsRecovery
  BY DEF At, FileInvariant, LockOK
<1>2. CASE s.op # "append"
  BY <1>1, <1>2, ReturnKeeps
<1>3. CASE s.op = "append"
  <2> DEFINE r == [s EXCEPT !.pc = "write"]
  <2>1. /\ r \in States /\ r.pc = "write" /\ r.op = "append" /\ ~r.needsRecovery
        /\ r.needsRecovery = s.needsRecovery
        /\ r.snapshot = s.snapshot /\ r.grown = s.grown
        /\ r.committedOffset = s.committedOffset /\ r.needsSeparator = s.needsSeparator
    BY <1>1, <1>3 DEF States, PC
  <2>2. st' = [st EXCEPT ![p] = r] /\ flock' = flock /\ flock = p
    BY <1>3 DEF FileInvariant, LockOK, Locked, At
  <2> HIDE DEF r
  <2>3. Exact(r, file)
    BY <2>1 DEF Exact
  <2>4. Phase(r, file, synced) /\ ~Unsettled(r)
    BY <2>1, <2>3 DEF Phase, Unsettled
  <2> QED BY <1>1, <2>1, <2>2, <2>3, <2>4, QuietStep
<1> QED BY <1>2, <1>3

\* The cache that is kept is exact, and so is the one that replay makes.
LEMMA EnsureLoadedKeeps ==
    ASSUME FileInvariant, OwesAlone, NEW p \in Procs, EnsureLoaded(p)
    PROVE  FileInvariant'
<1>1. /\ st[p] \in States /\ st[p].pc = "load" /\ At(p, "load") /\ ~st[p].needsRecovery
      /\ UNCHANGED <<file, synced, next, acked, failed>>
  BY DEF EnsureLoaded, FileInvariant, TypeOK, LockOK, At
<1>2. CASE /\ CacheHit(p) /\ file # None /\ UNCHANGED known
           /\ IF st[p].op = "append"
              THEN st' = [st EXCEPT ![p] = [st[p] EXCEPT !.pc = "write"]] /\ UNCHANGED flock
              ELSE Return(p, st[p])
  <2>1. Exact(st[p], file)
    BY <1>1, <1>2 DEF CacheHit, FileInvariant, CacheSound
  <2> QED BY <1>1, <1>2, <2>1, ProceedKeeps
<1>3. CASE /\ file # None /\ known' \in {known \cup {p}, known \ {p}}
           /\ IF Loaded(p).op = "append"
              THEN st' = [st EXCEPT ![p] = [Loaded(p) EXCEPT !.pc = "write"]] /\ UNCHANGED flock
              ELSE Return(p, Loaded(p))
  <2>1. /\ Loaded(p) \in States /\ Exact(Loaded(p), file)
        /\ Loaded(p).pc = st[p].pc /\ Loaded(p).op = st[p].op
        /\ Loaded(p).lease = st[p].lease /\ Loaded(p).needsRecovery = st[p].needsRecovery
    BY <1>3, LoadedOf DEF FileInvariant
  <2>2. known' \subseteq known \cup {p}
    BY <1>3
  <2> QED BY <1>1, <1>3, <2>1, <2>2, ProceedKeeps
<1>4. ASSUME NEW loaded \in {st[p].loaded, FALSE},
             Return(p, [st[p] EXCEPT !.loaded = loaded]), UNCHANGED known
      PROVE  FileInvariant'
  <2> DEFINE s == [st[p] EXCEPT !.loaded = loaded]
  <2>1. /\ s \in States /\ s.lease = st[p].lease /\ s.needsRecovery = st[p].needsRecovery
        /\ s.loaded => st[p].loaded
        /\ s.snapshot = st[p].snapshot /\ s.grown = st[p].grown
        /\ s.committedOffset = st[p].committedOffset /\ s.needsSeparator = st[p].needsSeparator
    BY <1>1, <1>4 DEF States
  <2>2. Return(p, s) /\ known' = known
    BY <1>4
  <2> HIDE DEF s
  <2>3. file # None /\ s.loaded /\ p \in known' => Exact(s, file)
    BY <1>1, <2>1, <2>2 DEF FileInvariant, CacheSound, Exact
  <2> QED BY <1>1, <2>1, <2>2, <2>3, ReturnKeeps
<1> QED BY <1>2, <1>3, <1>4 DEF EnsureLoaded

\* The elements of a log with a batch behind it.
LEMMA Joined ==
    ASSUME NEW T, NEW a \in Seq(T), NEW b \in Seq(T), NEW w, w = a \o b
    PROVE  /\ w \in Seq(T) /\ Len(w) = Len(a) + Len(b)
           /\ \A i \in 1 .. Len(a) : w[i] = a[i]
           /\ \A i \in 1 .. Len(b) : w[Len(a) + i] = b[i]
           /\ \A e : e \in ToSet(w) <=> e \in ToSet(a) \/ e \in ToSet(b)
<1>1. w \in Seq(T) /\ Len(w) = Len(a) + Len(b)
  BY ConcatProperties
<1>2. \A i \in 1 .. Len(a) : w[i] = a[i]
  BY ConcatProperties
<1>3. \A i \in 1 .. Len(b) : w[Len(a) + i] = b[i]
  <2> TAKE i \in 1 .. Len(b)
  <2>1. Len(a) + i \in 1 .. Len(a) + Len(b) /\ Len(a) + i > Len(a)
    OBVIOUS
  <2> QED BY <2>1, ConcatProperties
<1>4. Len(a) \in Nat /\ Len(b) \in Nat
  OBVIOUS
<1>5. \A i \in 1 .. Len(w) : \/ i \in 1 .. Len(a)
                            \/ (i - Len(a) \in 1 .. Len(b) /\ i = Len(a) + (i - Len(a)))
  BY <1>1, <1>4
<1>6. /\ \A i \in 1 .. Len(a) : i \in 1 .. Len(w)
      /\ \A i \in 1 .. Len(b) : Len(a) + i \in 1 .. Len(w)
  BY <1>1, <1>4
<1>7. /\ \A e : e \in ToSet(w) <=> \E i \in 1 .. Len(w) : w[i] = e
      /\ \A e : e \in ToSet(a) <=> \E i \in 1 .. Len(a) : a[i] = e
      /\ \A e : e \in ToSet(b) <=> \E i \in 1 .. Len(b) : b[i] = e
  BY <1>1, Elements
<1>8. ASSUME NEW e, e \in ToSet(w) PROVE e \in ToSet(a) \/ e \in ToSet(b)
  <2>1. PICK i \in 1 .. Len(w) : w[i] = e
    BY <1>7, <1>8
  <2>2. CASE i \in 1 .. Len(a)
    BY <1>2, <1>7, <2>1, <2>2
  <2>3. CASE i - Len(a) \in 1 .. Len(b) /\ i = Len(a) + (i - Len(a))
    BY <1>3, <1>7, <2>1, <2>3
  <2> QED BY <1>5, <2>2, <2>3
<1>9. ASSUME NEW e, e \in ToSet(a) \/ e \in ToSet(b) PROVE e \in ToSet(w)
  <2>1. CASE e \in ToSet(a)
    BY <1>2, <1>6, <1>7, <2>1
  <2>2. CASE e \in ToSet(b)
    BY <1>3, <1>6, <1>7, <2>2
  <2> QED BY <1>9, <2>1, <2>2
<1> QED BY <1>1, <1>2, <1>3, <1>8, <1>9

\* A snapshot a with the batch b behind it, every event once and issued.
LEMMA GoodBatch ==
    ASSUME NEW a \in Seq(Events), NEW b \in Seq(Events), NEW w, w = a \o b, NEW m \in Nat,
           Len(a) >= 1, a[1] = 0,
           \A i, j \in 1 .. Len(w) : w[i] = w[j] => i = j,
           \A i \in 1 .. Len(w) : w[i] < m
    PROVE  /\ Agree(Len(a), a, w)
           /\ \A e \in ToSet(b) : e \notin ToSet(a) /\ e \in Events /\ e < m
           /\ \A eol \in BOOLEAN :
                 /\ [recs |-> a, eol |-> eol] \in Contents
                 /\ WellFormed([recs |-> a, eol |-> eol], m)
                 /\ [recs |-> w, eol |-> eol] \in Contents
                 /\ WellFormed([recs |-> w, eol |-> eol], m)
<1>1. /\ w \in Seq(Events) /\ Len(w) = Len(a) + Len(b)
      /\ \A i \in 1 .. Len(a) : w[i] = a[i]
      /\ \A i \in 1 .. Len(b) : w[Len(a) + i] = b[i]
      /\ Len(a) \in Nat /\ Len(b) \in Nat
  BY Joined
<1>2. Agree(Len(a), a, w) /\ w[1] = 0 /\ Len(w) >= 1
  BY <1>1 DEF Agree
<1>3. \A e \in ToSet(b) : e \notin ToSet(a) /\ e \in Events /\ e < m
  <2> SUFFICES ASSUME NEW j \in 1 .. Len(b)
               PROVE  b[j] \in Events /\ b[j] < m /\ \A i \in 1 .. Len(a) : a[i] # b[j]
    BY Elements
  <2>1. Len(a) + j \in 1 .. Len(w) /\ w[Len(a) + j] = b[j]
    BY <1>1
  <2>2. \A i \in 1 .. Len(a) : i \in 1 .. Len(w) /\ i # Len(a) + j /\ w[i] = a[i]
    BY <1>1
  <2> QED BY <1>1, <2>1, <2>2
<1>4. /\ \A i, j \in 1 .. Len(a) : a[i] = a[j] => i = j
      /\ \A i \in 1 .. Len(a) : a[i] < m
  <2>1. \A i \in 1 .. Len(a) : i \in 1 .. Len(w) /\ w[i] = a[i]
    BY <1>1
  <2> QED BY <2>1
<1>5. \A eol \in BOOLEAN : [recs |-> w, eol |-> eol] \in Contents /\ WellFormed([recs |-> w, eol |-> eol], m)
  BY <1>1, <1>2, WholeFile
<1>6. \A eol \in BOOLEAN : [recs |-> a, eol |-> eol] \in Contents /\ WellFormed([recs |-> a, eol |-> eol], m)
  BY <1>4, WholeFile
<1> QED BY <1>2, <1>3, <1>5, <1>6

\* The snapshot that a commit starts from, and with the batch behind it, is a
\* good log; the file begins with that snapshot.
LEMMA BegunOf ==
    ASSUME NEW s \in States, NEW f \in Contents, NEW m \in Nat, WellFormed(f, m), Begun(s, f, m)
    PROVE  /\ s.snapshot \in Seq(Events) /\ Whole(s) \in Seq(Events)
           /\ Len(s.snapshot) >= 1 /\ Len(Whole(s)) >= Len(s.snapshot)
           /\ Agree(Len(s.snapshot), s.snapshot, f.recs)
           /\ Agree(Len(s.snapshot), s.snapshot, Whole(s))
           /\ SubSeq(f.recs, 1, s.committedOffset) = s.snapshot /\ s.committedOffset <= Len(f.recs)
           /\ \A e : e \in ToSet(Whole(s)) <=> e \in ToSet(s.snapshot) \/ e \in ToSet(s.batch)
           /\ \A e \in ToSet(s.batch) : e \notin ToSet(s.snapshot) /\ e \in Events /\ e < m
           /\ \A eol \in BOOLEAN :
                 /\ [recs |-> s.snapshot, eol |-> eol] \in Contents
                 /\ WellFormed([recs |-> s.snapshot, eol |-> eol], m)
                 /\ [recs |-> Whole(s), eol |-> eol] \in Contents
                 /\ WellFormed([recs |-> Whole(s), eol |-> eol], m)
<1>1. PICK a, b, w, r : a = s.snapshot /\ b = s.batch /\ w = Whole(s) /\ r = f.recs
  OBVIOUS
<1>2. /\ a \in Seq(Events) /\ b \in Seq(Events) /\ w = a \o b
      /\ r \in Seq(Events \cup {Torn}) /\ r[1] = 0
  BY <1>1 DEF States, Whole, Contents, WellFormed
<1>3. /\ Len(a) >= 1 /\ Agree(Len(a), a, r) /\ s.committedOffset = Len(a)
      /\ \A i, j \in 1 .. Len(w) : w[i] = w[j] => i = j
      /\ \A i \in 1 .. Len(w) : w[i] < m
  <2>1. a # <<>> /\ Agree(Len(a), a, r) /\ s.committedOffset = Len(a)
    BY <1>1 DEF Begun
  <2>2. /\ \A i, j \in 1 .. Len(w) : w[i] = w[j] => i = j
        /\ \A i \in 1 .. Len(w) : w[i] < m
    BY <1>1, Zenon DEF Begun
  <2>3. Len(a) >= 1
    BY <1>2, <2>1
  <2> QED BY <2>1, <2>2, <2>3
<1>4. Len(a) <= Len(r) /\ \A i \in 1 .. Len(a) : a[i] = r[i]
  BY <1>3 DEF Agree
<1>5. a[1] = 0
  BY <1>2, <1>3, <1>4
<1>6. /\ w \in Seq(Events) /\ Len(w) = Len(a) + Len(b)
      /\ \A e : e \in ToSet(w) <=> e \in ToSet(a) \/ e \in ToSet(b)
  <2>1. w \in Seq(Events) /\ Len(w) = Len(a) + Len(b)
    BY <1>2, Joined
  <2>2. \A e : e \in ToSet(w) <=> e \in ToSet(a) \/ e \in ToSet(b)
    BY <1>2, Joined
  <2> QED BY <2>1, <2>2
<1>7. SubSeq(r, 1, Len(a)) = a
  <2>1. /\ SubSeq(r, 1, Len(a)) \in Seq(Events \cup {Torn}) /\ Len(SubSeq(r, 1, Len(a))) = Len(a)
        /\ \A i \in 1 .. Len(a) : SubSeq(r, 1, Len(a))[i] = r[i]
    BY <1>2, <1>4, Cut
  <2>2. a \in Seq(Events \cup {Torn})
    BY <1>2
  <2> QED BY <1>4, <2>1, <2>2, SeqEqual
<1>8. /\ Agree(Len(a), a, w)
      /\ \A e \in ToSet(b) : e \notin ToSet(a) /\ e \in Events /\ e < m
      /\ \A eol \in BOOLEAN :
            /\ [recs |-> a, eol |-> eol] \in Contents
            /\ WellFormed([recs |-> a, eol |-> eol], m)
            /\ [recs |-> w, eol |-> eol] \in Contents
            /\ WellFormed([recs |-> w, eol |-> eol], m)
  BY <1>2, <1>3, <1>5, GoodBatch
<1>9. Len(w) >= Len(a)
  BY <1>2, <1>6
<1> QED BY <1>1, <1>2, <1>3, <1>4, <1>6, <1>7, <1>8, <1>9

\* A log without a torn end is committed as it is.
LEMMA CleanLog ==
    ASSUME NEW s \in Seq(Events)
    PROVE  HasTornTail(s) = FALSE /\ Committed(s) = s
BY NotTorn DEF HasTornTail, Committed, Last

\* What the file and the disk share of the acknowledged events, after a change
\* of the file behind a log that holds them.
LEMMA StillShared ==
    ASSUME FileInvariant, file # None, file' \in Contents, synced' \in {synced, file'},
           NEW s \in Seq(Events), Agree(Len(s), s, file.recs), Agree(Len(s), s, file'.recs),
           acked' \subseteq acked, acked \subseteq ToSet(s)
    PROVE  SharedOK'
<1>1. PICK n \in 0 .. Len(file.recs) : Shared(n, file, synced, acked)
  BY DEF FileInvariant, SharedOK
<1>2. /\ file \in Contents /\ synced \in Contents /\ WellFormed(file, next) /\ next \in Nat
      /\ synced' \in Contents
  BY DEF FileInvariant, TypeOK, FilesOK
<1>3. acked' \subseteq ToSet(s)
  OBVIOUS
<1>4. \E k \in 0 .. Len(file'.recs) : Shared(k, file', synced', acked')
  <2>1. PICK f, disk, new, to, m, promised, promised2 :
              /\ f = file /\ disk = synced /\ new = file' /\ to = synced' /\ m = next
              /\ promised = acked /\ promised2 = acked'
    OBVIOUS
  <2>2. /\ f \in Contents /\ disk \in Contents /\ new \in Contents /\ to \in Contents /\ m \in Nat
        /\ WellFormed(f, m) /\ promised2 \subseteq promised
        /\ Shared(n, f, disk, promised) /\ n \in 0 .. Len(f.recs)
    BY <1>1, <1>2, <2>1
  <2>3. /\ promised2 \subseteq ToSet(s)
        /\ Agree(Len(s), s, f.recs) /\ Agree(Len(s), s, new.recs) /\ to \in {disk, new}
    BY <1>3, <2>1
  <2>4. \E k \in 0 .. Len(new.recs) : Shared(k, new, to, promised2)
    <3> USE <2>2, <2>3
    <3> DEFINE fr == f.recs
               nr == new.recs
               dr == disk.recs
    <3>1. /\ Len(s) \in Nat /\ Len(fr) \in Nat /\ Len(nr) \in Nat /\ Len(dr) \in Nat
          /\ \A e \in promised2 : \E i \in 1 .. Len(s) : s[i] = e
      BY Elements DEF Contents
    <3>2. \A i, j \in 1 .. Len(fr) : fr[i] = fr[j] => i = j
      BY DEF WellFormed
    <3>3. CASE to = new
      <4>1. Shared(Len(s), new, to, promised2)
        BY <3>1, <3>3 DEF Shared, Agree
      <4>2. Len(s) <= Len(nr)
        BY DEF Agree
      <4>3. Len(s) \in 0 .. Len(nr)
        BY <3>1, <4>2
      <4> QED BY <4>1, <4>3
    <3>4. CASE to = disk
      <4> DEFINE k == IF n <= Len(s) THEN n ELSE Len(s)
      <4>1. k \in 0 .. Len(nr) /\ k <= Len(dr) /\ k <= Len(s) /\ k <= n /\ n <= Len(fr)
        BY <3>1 DEF Agree, Shared
      <4>2. \A i \in 1 .. k : nr[i] = s[i] /\ s[i] = fr[i] /\ fr[i] = dr[i]
        BY <3>1, <4>1 DEF Agree, Shared
      <4>3. \A e \in promised2 : \E i \in 1 .. k : nr[i] = e
        <5> TAKE e \in promised2
        <5>1. PICK i \in 1 .. n : fr[i] = e
          BY DEF Shared
        <5>2. PICK j \in 1 .. Len(s) : s[j] = e
          BY <3>1
        <5>3. i = j
          BY <3>1, <3>2, <4>1, <5>1, <5>2 DEF Agree
        <5> QED BY <3>1, <4>2, <5>1, <5>2, <5>3
      <4>4. \A i \in 1 .. k : nr[i] = dr[i]
        BY <4>2
      <4> HIDE DEF k
      <4>5. k <= Len(nr)
        BY <3>1, <4>1
      <4>6. Shared(k, new, to, promised2)
        BY <3>4, <4>1, <4>3, <4>4, <4>5 DEF Shared, Agree
      <4> QED BY <4>1, <4>6
    <3> QED BY <3>3, <3>4
  <2> QED BY <2>1, <2>4
<1> QED BY <1>4 DEF SharedOK

\* What a process with a commit to settle knows.
LEMMA Unsettled1 ==
    ASSUME FileInvariant, NEW p \in Procs, Unsettled(st[p])
    PROVE  /\ file # None /\ st[p] \in States /\ file \in Contents /\ synced \in Contents
           /\ next \in Nat /\ WellFormed(file, next) /\ WellFormed(synced, next)
           /\ Begun(st[p], file, next) /\ acked \subseteq ToSet(st[p].snapshot)
           /\ failed \cap ToSet(Whole(st[p])) = {} /\ \A e \in failed : e < next
BY DEF FileInvariant, TypeOK, FilesOK, CommitOK, Begun

\* Truncating to the committed offset leaves the snapshot.
LEMMA CutOf ==
    ASSUME FileInvariant, NEW p \in Procs, Unsettled(st[p])
    PROVE  /\ CutAt(p) = [recs |-> st[p].snapshot, eol |-> ~st[p].needsSeparator]
           /\ CutAt(p) \in Contents /\ CutAt(p) # None /\ WellFormed(CutAt(p), next)
<1> DEFINE snap == st[p].snapshot
           cut == [recs |-> snap, eol |-> ~st[p].needsSeparator]
<1>1. /\ st[p] \in States /\ file \in Contents /\ next \in Nat
      /\ WellFormed(file, next) /\ Begun(st[p], file, next)
  BY Unsettled1
<1>2. /\ snap \in Seq(Events) /\ Len(snap) >= 1
      /\ SubSeq(file.recs, 1, st[p].committedOffset) = snap
      /\ st[p].committedOffset <= Len(file.recs)
      /\ \A eol \in BOOLEAN : /\ [recs |-> snap, eol |-> eol] \in Contents
                              /\ WellFormed([recs |-> snap, eol |-> eol], next)
  BY <1>1, BegunOf
<1>3. CutAt(p) = cut
  BY <1>2 DEF CutAt
<1>4. st[p].needsSeparator \in BOOLEAN /\ st[p].committedOffset = Len(snap)
  BY <1>1 DEF States, Begun
<1>5. cut \in Contents /\ WellFormed(cut, next)
  BY <1>2, <1>4
<1>6. cut # None
  BY <1>5, FileStoreAssumption
<1> QED BY <1>3, <1>5, <1>6

\* The state of a process that looks at the truncated file, or has still to
\* truncate it, with nothing but the snapshot left of the commit.
LEMMA CutState ==
    ASSUME NEW s \in States, NEW s0 \in States, NEW f \in Contents, NEW m \in Nat,
           WellFormed(f, m), Begun(s0, f, m),
           s.snapshot = s0.snapshot, s.committedOffset = s0.committedOffset,
           NEW g, g \in {f, [recs |-> s.snapshot, eol |-> ~s.needsSeparator]}
    PROVE  /\ s.batch = <<>> => /\ Begun(s, g, m) /\ ToSet(Whole(s)) \subseteq ToSet(Whole(s0))
                                /\ ToSet(Whole(s)) \cap ToSet(s0.batch) = {}
           /\ ~s.grown /\ g = [recs |-> s.snapshot, eol |-> ~s.needsSeparator] => Exact(s, g)
<1>1. /\ s.snapshot \in Seq(Events) /\ Len(s.snapshot) >= 1 /\ s.committedOffset = Len(s.snapshot)
      /\ Agree(Len(s.snapshot), s.snapshot, f.recs)
      /\ \A e : e \in ToSet(Whole(s0)) <=> e \in ToSet(s.snapshot) \/ e \in ToSet(s0.batch)
      /\ \A e \in ToSet(s0.batch) : e \notin ToSet(s.snapshot)
      /\ \A eol \in BOOLEAN : /\ [recs |-> s.snapshot, eol |-> eol] \in Contents
                              /\ WellFormed([recs |-> s.snapshot, eol |-> eol], m)
  BY BegunOf DEF Begun
<1>2. s.needsSeparator \in BOOLEAN
  BY DEF States
<1>3. ASSUME ~s.grown, g = [recs |-> s.snapshot, eol |-> ~s.needsSeparator] PROVE Exact(s, g)
  <2>1. HasTornTail(s.snapshot) = FALSE /\ Committed(s.snapshot) = s.snapshot
    BY <1>1, CleanLog
  <2>2. g.recs = s.snapshot /\ g.eol = (~s.needsSeparator) /\ s.grown = FALSE
    BY <1>3 DEF States
  <2>3. s.needsSeparator = (~g.eol /\ ~HasTornTail(g.recs))
    BY <1>2, <2>1, <2>2
  <2> QED BY <1>1, <2>1, <2>2, <2>3 DEF Exact
<1>4. ASSUME s.batch = <<>> PROVE Whole(s) = s.snapshot
  BY <1>1, <1>4, ConcatEmptySeq DEF Whole
<1>5. Agree(Len(s.snapshot), s.snapshot, g.recs) /\ g \in Contents
  <2>1. CASE g = f
    BY <1>1, <2>1
  <2>2. CASE g = [recs |-> s.snapshot, eol |-> ~s.needsSeparator]
    <3>1. g.recs = s.snapshot /\ g \in Contents
      BY <1>1, <1>2, <2>2
    <3>2. Len(s.snapshot) \in Nat
      BY <1>1
    <3> QED BY <3>1, <3>2 DEF Agree
  <2> QED BY <2>1, <2>2
<1>6. ASSUME s.batch = <<>> PROVE Begun(s, g, m)
  <2>1. PICK snap : snap = s.snapshot
    OBVIOUS
  <2>2. WellFormed([recs |-> snap, eol |-> TRUE], m) /\ snap \in Seq(Events)
    BY <1>1, <2>1
  <2>3. \A i \in 1 .. Len(snap) : snap[i] # Torn
    BY <2>2, NotTorn
  <2>4. /\ \A i, j \in 1 .. Len(snap) : snap[i] = snap[j] => i = j
        /\ \A i \in 1 .. Len(snap) : snap[i] < m
    BY <2>2, <2>3 DEF WellFormed
  <2>5. g # None
    BY <1>5, FileStoreAssumption
  <2>6. s.snapshot # <<>>
    BY <1>1
  <2> QED BY <1>1, <1>4, <1>5, <1>6, <2>1, <2>4, <2>5, <2>6 DEF Begun
<1> QED BY <1>1, <1>3, <1>4, <1>6

\* recoverFailedCommit, done or failed, by the process that has the flock.
LEMMA SettleKeeps ==
    ASSUME FileInvariant, OwesAlone, NEW p \in Procs, Locked(st[p]), Unsettled(st[p]),
           NEW s \in States, st' = [st EXCEPT ![p] = s],
           s.snapshot = st[p].snapshot, s.committedOffset = st[p].committedOffset,
           s.needsSeparator = st[p].needsSeparator,
           s.pc \in {"load", "idle"}, Locked(s) => flock' = p,
           flock' \in Procs \cup {None}, \A q \in Procs \ {p} : flock = q => flock' = q,
           next' = next, acked' = acked, failed' \in {failed, failed \cup ToSet(st[p].batch)},
           file' \in {file, CutAt(p)}, synced' \in {synced, file'},
           known' = {p} \/ known' = {} \/ (known' = known /\ file' = file),
           \/ (file' = CutAt(p) /\ ~s.grown /\ ~s.needsRecovery)
           \/ (s.needsRecovery /\ s.pc = "idle" /\ s.batch = <<>>)
    PROVE  FileInvariant'
<1> DEFINE snap == st[p].snapshot
           cut == [recs |-> snap, eol |-> ~st[p].needsSeparator]
<1>1. /\ file # None /\ st[p] \in States /\ file \in Contents /\ synced \in Contents
      /\ next \in Nat /\ WellFormed(file, next) /\ WellFormed(synced, next)
      /\ Begun(st[p], file, next) /\ acked \subseteq ToSet(snap)
      /\ failed \cap ToSet(Whole(st[p])) = {} /\ \A e \in failed : e < next
  BY Unsettled1
<1>2. CutAt(p) = cut /\ cut \in Contents /\ cut # None /\ WellFormed(cut, next)
  BY CutOf
<1>3. /\ snap \in Seq(Events) /\ Agree(Len(snap), snap, file.recs)
      /\ \A e : e \in ToSet(Whole(st[p])) <=> e \in ToSet(snap) \/ e \in ToSet(st[p].batch)
      /\ \A e \in ToSet(st[p].batch) : e \notin ToSet(snap) /\ e \in Events /\ e < next
  BY <1>1, BegunOf
<1>4. /\ file' \in Contents /\ synced' \in Contents /\ file' # None /\ synced' # None
      /\ WellFormed(file', next) /\ WellFormed(synced', next)
      /\ synced' \in Contents \cup {None} /\ file' \in Contents \cup {None}
  BY <1>1, <1>2, FileStoreAssumption
<1>5. /\ known' \subseteq Procs /\ next' \in 1 .. MaxEvents + 1
      /\ acked' \subseteq Events /\ failed' \subseteq Events
  BY <1>3 DEF FileInvariant, TypeOK
<1>6. FilesOK'
  <2>1. \A e \in failed' : e < next'
    BY <1>1, <1>3
  <2> QED BY <1>4, <2>1 DEF FilesOK
<1>7. Agree(Len(snap), snap, file'.recs)
  <2>1. cut.recs = snap /\ Len(snap) \in Nat
    BY <1>3
  <2>2. Agree(Len(snap), snap, cut.recs)
    BY <2>1 DEF Agree
  <2> QED BY <1>2, <1>3, <2>2
<1>8. SharedOK'
  BY <1>1, <1>3, <1>4, <1>7, StillShared
<1>9. st'[p] = s
  BY DEF FileInvariant, TypeOK
<1>10. FailedOK'
  <2> SUFFICES ASSUME \A q \in Procs : ~st'[q].needsRecovery PROVE failed' \cap ToSet(file'.recs) = {}
    BY DEF FailedOK
  <2>1. file'.recs = snap
    BY <1>2, <1>9
  <2> QED BY <1>1, <1>3, <2>1
<1>11. \A q \in Procs \ {p} : st[q].pc # "write" /\ ~Unsettled(st[q])
  BY OneMutator DEF FileInvariant
<1>12. \A q \in Procs \ {p} : q \in known' => q \in known /\ file' = file
  OBVIOUS
<1>13. /\ s.batch = <<>> => /\ Begun(s, file', next) /\ ToSet(Whole(s)) \subseteq ToSet(Whole(st[p]))
                            /\ ToSet(Whole(s)) \cap ToSet(st[p].batch) = {}
       /\ ~s.needsRecovery => Exact(s, file')
  <2>1. file' \in {file, [recs |-> s.snapshot, eol |-> ~s.needsSeparator]}
    BY <1>2
  <2>2. /\ s.batch = <<>> => /\ Begun(s, file', next) /\ ToSet(Whole(s)) \subseteq ToSet(Whole(st[p]))
                             /\ ToSet(Whole(s)) \cap ToSet(st[p].batch) = {}
        /\ ~s.grown /\ file' = [recs |-> s.snapshot, eol |-> ~s.needsSeparator] => Exact(s, file')
    BY <1>1, <2>1, CutState
  <2> QED BY <1>2, <2>2
<1>14. Phase(s, file', synced')
  BY DEF Phase
<1>15. Unsettled(s) => /\ Begun(s, file', next') /\ acked' \subseteq ToSet(s.snapshot)
                       /\ failed' \cap ToSet(Whole(s)) = {}
  BY <1>1, <1>13 DEF Unsettled
<1> HIDE DEF snap, cut
<1> QED
  BY <1>4, <1>5, <1>6, <1>8, <1>10, <1>11, <1>12, <1>13, <1>14, <1>15, Step

\* An owed rollback cuts the file back to the snapshot, or stays owed.
LEMMA RecoverKeeps ==
    ASSUME FileInvariant, OwesAlone, NEW p \in Procs, Recover(p)
    PROVE  FileInvariant'
<1>1. /\ st[p] \in States /\ st[p].pc = "recover" /\ Locked(st[p]) /\ st[p].needsRecovery
      /\ Unsettled(st[p]) /\ flock = p /\ file # None
      /\ next' = next /\ acked' = acked /\ failed' = failed
  BY DEF Recover, FileInvariant, TypeOK, LockOK, At, Locked, Unsettled, CommitOK, Begun
<1>2. CASE RolledBack(p, [st[p] EXCEPT !.pc = "load"]) /\ UNCHANGED flock
  <2> DEFINE s == [st[p] EXCEPT !.pc = "load", !.grown = FALSE, !.needsRecovery = FALSE]
  <2>1. /\ s \in States /\ s.pc = "load" /\ ~s.grown /\ ~s.needsRecovery
        /\ s.snapshot = st[p].snapshot /\ s.committedOffset = st[p].committedOffset
        /\ s.needsSeparator = st[p].needsSeparator
    BY <1>1 DEF States, PC
  <2>2. /\ st' = [st EXCEPT ![p] = s] /\ file' = CutAt(p) /\ synced' = file' /\ known' = {p}
        /\ flock' = flock
    BY <1>1, <1>2 DEF RolledBack, States
  <2> HIDE DEF s
  <2> QED BY <1>1, <2>1, <2>2, SettleKeeps
<1>3. CASE NotRolledBack(p) /\ Return(p, st[p])
  <2> DEFINE s == Idle(st[p])
  <2>1. /\ s \in States /\ s.pc = "idle" /\ s.needsRecovery /\ s.batch = <<>>
        /\ s.snapshot = st[p].snapshot /\ s.committedOffset = st[p].committedOffset
        /\ s.needsSeparator = st[p].needsSeparator /\ s.lease = st[p].lease
    BY <1>1, IdleOf
  <2>2. /\ flock' \in Procs \cup {None} /\ \A q \in Procs \ {p} : flock = q => flock' = q
        /\ st[p].lease => flock' = p
    BY <1>3, ReleaseOf DEF Return, FileInvariant
  <2>3. st' = [st EXCEPT ![p] = s]
    BY <1>3 DEF Return
  <2>4. /\ file' \in {file, CutAt(p)} /\ synced' \in {synced, file'}
        /\ known' = {} \/ (known' = known /\ file' = file)
    BY <1>3 DEF NotRolledBack
  <2> HIDE DEF s
  <2>5. Locked(s) => flock' = p
    BY <2>1, <2>2 DEF Locked
  <2> QED BY <1>1, <2>1, <2>2, <2>3, <2>4, <2>5, SettleKeeps
<1> QED BY <1>2, <1>3 DEF Recover

\* A commit that failed cuts the file back to the snapshot, or owes it.
LEMMA RollbackKeeps ==
    ASSUME FileInvariant, OwesAlone, NEW p \in Procs, Rollback(p)
    PROVE  FileInvariant'
<1>1. /\ st[p] \in States /\ st[p].pc = "rollback" /\ Locked(st[p]) /\ ~st[p].needsRecovery
      /\ Unsettled(st[p]) /\ flock = p /\ file # None
      /\ next' = next /\ acked' = acked /\ failed' = failed \cup ToSet(st[p].batch)
  BY DEF Rollback, FileInvariant, TypeOK, LockOK, At, Locked, Unsettled, CommitOK, Begun
<1>2. CASE RolledBack(p, Idle(st[p])) /\ Release(p)
  <2> DEFINE i == Idle(st[p])
             s == [i EXCEPT !.grown = FALSE, !.needsRecovery = FALSE]
  <2>1. /\ i \in States /\ i.pc = "idle"
        /\ i.snapshot = st[p].snapshot /\ i.committedOffset = st[p].committedOffset
        /\ i.needsSeparator = st[p].needsSeparator /\ i.lease = st[p].lease
    BY <1>1, IdleOf
  <2>2. /\ st' = [st EXCEPT ![p] = s] /\ file' = CutAt(p) /\ synced' = file' /\ known' = {p}
    BY <1>2 DEF RolledBack
  <2> HIDE DEF i
  <2>3. /\ s \in States /\ s.pc = "idle" /\ ~s.grown /\ ~s.needsRecovery
        /\ s.snapshot = st[p].snapshot /\ s.committedOffset = st[p].committedOffset
        /\ s.needsSeparator = st[p].needsSeparator /\ s.lease = st[p].lease
    BY <2>1 DEF States
  <2> HIDE DEF s
  <2>4. /\ flock' \in Procs \cup {None} /\ \A q \in Procs \ {p} : flock = q => flock' = q
        /\ st[p].lease => flock' = p
    BY <1>2, ReleaseOf DEF FileInvariant
  <2>5. Locked(s) => flock' = p
    BY <2>3, <2>4 DEF Locked
  <2> QED BY <1>1, <2>2, <2>3, <2>4, <2>5, SettleKeeps
<1>3. CASE NotRolledBack(p) /\ Return(p, [st[p] EXCEPT !.needsRecovery = TRUE])
  <2> DEFINE r == [st[p] EXCEPT !.needsRecovery = TRUE]
             s == Idle(r)
  <2>1. /\ r \in States /\ r.snapshot = st[p].snapshot /\ r.committedOffset = st[p].committedOffset
        /\ r.needsSeparator = st[p].needsSeparator /\ r.lease = st[p].lease /\ r.needsRecovery
    BY <1>1 DEF States
  <2>2. Return(p, r)
    BY <1>3
  <2> HIDE DEF r
  <2>3. /\ s \in States /\ s.pc = "idle" /\ s.needsRecovery /\ s.batch = <<>>
        /\ s.snapshot = st[p].snapshot /\ s.committedOffset = st[p].committedOffset
        /\ s.needsSeparator = st[p].needsSeparator /\ s.lease = st[p].lease
    BY <2>1, IdleOf
  <2>4. /\ flock' \in Procs \cup {None} /\ \A q \in Procs \ {p} : flock = q => flock' = q
        /\ st[p].lease => flock' = p
    BY <2>2, ReleaseOf DEF Return, FileInvariant
  <2>5. st' = [st EXCEPT ![p] = s]
    BY <2>2 DEF Return
  <2>6. /\ file' \in {file, CutAt(p)} /\ synced' \in {synced, file'}
        /\ known' = {} \/ (known' = known /\ file' = file)
    BY <1>3 DEF NotRolledBack
  <2> HIDE DEF s
  <2>7. Locked(s) => flock' = p
    BY <2>3, <2>4 DEF Locked
  <2> QED BY <1>1, <2>3, <2>4, <2>5, <2>6, <2>7, SettleKeeps
<1> QED BY <1>2, <1>3 DEF Rollback

\* A good file stays one when more events are issued.
LEMMA LaterWellFormed ==
    ASSUME NEW f \in Contents, NEW m \in Nat, WellFormed(f, m), NEW k \in Nat, m <= k
    PROVE  WellFormed(f, k)
<1>1. f.recs \in Seq(Events \cup {Torn})
  BY DEF Contents
<1>2. \A i \in 1 .. Len(f.recs) : f.recs[i] \in Events \cup {Torn}
  BY <1>1
<1>3. \A i \in 1 .. Len(f.recs) : f.recs[i] # Torn => f.recs[i] \in Nat
  BY <1>2, NotTorn
<1> QED BY <1>3 DEF WellFormed

\* A step of a commit that is not over.
LEMMA CommitKeeps ==
    ASSUME FileInvariant, OwesAlone, NEW p \in Procs, Locked(st[p]),
           NEW s \in States, st' = [st EXCEPT ![p] = s],
           s.pc \in {"writing", "sync", "finish", "rollback"}, s.op = "append", ~s.needsRecovery,
           file # None, file' \in Contents, synced' \in {synced, file'},
           next' \in 1 .. MaxEvents + 1, next <= next', WellFormed(file', next'),
           UNCHANGED <<flock, acked, failed>>,
           known' \subseteq known, known' = {} \/ file' = file,
           s.loaded /\ p \in known' => Exact(s, file'),
           Agree(Len(s.snapshot), s.snapshot, file.recs), acked \subseteq ToSet(s.snapshot),
           Begun(s, file', next'), failed \cap ToSet(Whole(s)) = {},
           failed \cap ToSet(file'.recs) = {}, Phase(s, file', synced')
    PROVE  FileInvariant'
<1>1. /\ file \in Contents /\ synced \in Contents /\ next \in Nat /\ next' \in Nat
      /\ WellFormed(synced, next) /\ \A e \in failed : e < next /\ e \in Nat
  BY NotTorn DEF FileInvariant, TypeOK, FilesOK
<1>2. /\ file' # None /\ synced' # None /\ synced' \in Contents /\ WellFormed(synced', next')
  BY <1>1, LaterWellFormed, FileStoreAssumption
<1>3. FilesOK'
  <2>1. \A e \in failed' : e < next'
    BY <1>1
  <2> QED BY <1>2, <2>1 DEF FilesOK
<1>4. /\ file' \in Contents \cup {None} /\ synced' \in Contents \cup {None}
      /\ flock' \in Procs \cup {None} /\ known' \subseteq Procs
      /\ acked' \subseteq Events /\ failed' \subseteq Events
  BY <1>2 DEF FileInvariant, TypeOK
<1>5. SharedOK'
  <2>1. s.snapshot \in Seq(Events) /\ Agree(Len(s.snapshot), s.snapshot, file'.recs)
    BY DEF States, Begun
  <2> QED BY <2>1, StillShared
<1>6. FailedOK'
  BY DEF FailedOK
<1>7. flock' = p /\ \A q \in Procs \ {p} : st[q].pc # "write" /\ ~Unsettled(st[q])
  BY OneMutator DEF FileInvariant, LockOK
<1>8. /\ \A q \in Procs \ {p} : q \in known' => q \in known /\ file' = file
      /\ \A q \in Procs \ {p} : flock = q => flock' = q
  OBVIOUS
<1> QED
  BY <1>3, <1>4, <1>5, <1>6, <1>7, <1>8, Step

\* During a commit, what failed before is not in the file.
LEMMA NoneFailedInFile ==
    ASSUME FileInvariant, NEW p \in Procs, Locked(st[p]), ~st[p].needsRecovery, file # None
    PROVE  failed \cap ToSet(file.recs) = {}
<1>1. \A q \in Procs \ {p} : ~st[q].needsRecovery
  BY OneMutator DEF FileInvariant, Unsettled
<1> QED BY <1>1 DEF FileInvariant, FailedOK

\* The batch behind the snapshot reaches the disk, or will be rolled back.
LEMMA SyncKeeps ==
    ASSUME FileInvariant, OwesAlone, NEW p \in Procs, Sync(p)
    PROVE  FileInvariant'
<1>1. /\ st[p] \in States /\ st[p].pc = "sync" /\ Locked(st[p]) /\ ~st[p].needsRecovery
      /\ Unsettled(st[p]) /\ st[p].op = "append"
      /\ UNCHANGED <<file, flock, known, next, acked, failed>>
  BY DEF Sync, FileInvariant, TypeOK, LockOK, At, Locked, Unsettled
<1>2. /\ file # None /\ file \in Contents /\ synced \in Contents /\ WellFormed(file, next)
      /\ Begun(st[p], file, next) /\ acked \subseteq ToSet(st[p].snapshot)
      /\ failed \cap ToSet(Whole(st[p])) = {}
      /\ next \in 1 .. MaxEvents + 1 /\ next <= next
  BY <1>1, Unsettled1 DEF FileInvariant, TypeOK
<1>3. failed \cap ToSet(file.recs) = {}
  BY <1>1, <1>2, NoneFailedInFile
<1>4. PICK at \in {"finish", "rollback"} :
         /\ st' = [st EXCEPT ![p].pc = at] /\ synced' \in {synced, file}
         /\ at = "finish" => synced' = file
  BY DEF Sync
<1> DEFINE s == [st[p] EXCEPT !.pc = at]
<1>5. /\ s \in States /\ s.pc = at /\ s.op = "append" /\ ~s.needsRecovery
      /\ s.snapshot = st[p].snapshot /\ s.committedOffset = st[p].committedOffset
      /\ s.needsSeparator = st[p].needsSeparator /\ s.grown = st[p].grown
      /\ s.batch = st[p].batch /\ s.loaded = st[p].loaded
  BY <1>1 DEF States, PC
<1>6. st' = [st EXCEPT ![p] = s]
  BY <1>1, <1>4
<1> HIDE DEF s
<1>7. Whole(s) = Whole(st[p]) /\ Begun(s, file, next)
  BY <1>2, <1>5 DEF Whole, Begun
<1>8. Agree(Len(s.snapshot), s.snapshot, file.recs)
  BY <1>7 DEF Begun
<1>9. s.loaded /\ p \in known => Exact(s, file)
  BY <1>1, <1>2, <1>5 DEF FileInvariant, CacheSound, Exact
<1>10. Phase(s, file', synced')
  <2>1. file = [recs |-> Whole(st[p]), eol |-> TRUE]
    BY <1>1 DEF FileInvariant, CommitOK, Phase
  <2> QED BY <1>1, <1>4, <1>5, <1>7, <2>1 DEF Phase
<1> QED
  BY <1>1, <1>2, <1>3, <1>4, <1>5, <1>6, <1>7, <1>8, <1>9, <1>10, CommitKeeps

\* The whole batch is in the file, or will be rolled back.
LEMMA WrittenKeeps ==
    ASSUME FileInvariant, OwesAlone, NEW p \in Procs, Written(p)
    PROVE  FileInvariant'
<1>1. /\ st[p] \in States /\ st[p].pc = "writing" /\ Locked(st[p]) /\ ~st[p].needsRecovery
      /\ Unsettled(st[p]) /\ st[p].op = "append" /\ st[p].lines = Whole(st[p])
      /\ UNCHANGED <<synced, flock, next, acked, failed>>
  BY DEF Written, FileInvariant, TypeOK, LockOK, At, Locked, Unsettled, CommitOK, Phase
<1>2. /\ file # None /\ file \in Contents /\ synced \in Contents /\ WellFormed(file, next)
      /\ Begun(st[p], file, next) /\ acked \subseteq ToSet(st[p].snapshot)
      /\ failed \cap ToSet(Whole(st[p])) = {}
      /\ next \in 1 .. MaxEvents + 1 /\ next <= next /\ next \in Nat
  BY <1>1, Unsettled1 DEF FileInvariant, TypeOK
<1>3. failed \cap ToSet(file.recs) = {}
  BY <1>1, <1>2, NoneFailedInFile
<1>4. PICK at \in {"sync", "rollback"} :
         /\ st' = [st EXCEPT ![p].pc = at, ![p].lines = <<>>]
         /\ at = "rollback" => file' = file /\ known' = known
         /\ at = "sync" => file' = [recs |-> st[p].lines, eol |-> TRUE] /\ known' = {}
  BY DEF Written
<1> DEFINE s == [st[p] EXCEPT !.pc = at, !.lines = <<>>]
           whole == [recs |-> Whole(st[p]), eol |-> TRUE]
<1>5. /\ s \in States /\ s.pc = at /\ s.op = "append" /\ ~s.needsRecovery
      /\ s.snapshot = st[p].snapshot /\ s.committedOffset = st[p].committedOffset
      /\ s.needsSeparator = st[p].needsSeparator /\ s.grown = st[p].grown
      /\ s.batch = st[p].batch /\ s.loaded = st[p].loaded
  <2>1. <<>> \in Seq(Events \cup {Torn})
    OBVIOUS
  <2> QED BY <1>1, <2>1 DEF States, PC
<1>6. st' = [st EXCEPT ![p] = s]
  BY <1>1, <1>4
<1>7. /\ s.snapshot \in Seq(Events) /\ whole \in Contents /\ WellFormed(whole, next)
      /\ Agree(Len(s.snapshot), s.snapshot, Whole(st[p]))
      /\ Agree(Len(s.snapshot), s.snapshot, file.recs)
  BY <1>1, <1>2, <1>5, BegunOf
<1> HIDE DEF s
<1>8. whole # None
  BY <1>7, FileStoreAssumption
<1>9. file' = file \/ file' = whole
  BY <1>1, <1>4
<1>10. /\ file' \in Contents /\ file' # None /\ WellFormed(file', next)
       /\ failed \cap ToSet(file'.recs) = {}
       /\ Agree(Len(s.snapshot), s.snapshot, file'.recs)
  <2>1. CASE file' = file
    BY <1>2, <1>3, <1>7, <2>1
  <2>2. CASE file' = whole
    BY <1>2, <1>7, <1>8, <2>2
  <2> QED BY <1>9, <2>1, <2>2
<1>11. Whole(s) = Whole(st[p]) /\ Begun(s, file', next)
  BY <1>2, <1>5, <1>10 DEF Whole, Begun
<1>12. s.loaded /\ p \in known' => Exact(s, file')
  BY <1>1, <1>2, <1>4, <1>5 DEF FileInvariant, CacheSound, Exact
<1>13. Phase(s, file', synced')
  BY <1>1, <1>4, <1>5, <1>11 DEF Phase
<1>14. known' \subseteq known /\ (known' = {} \/ file' = file)
  BY <1>4
<1> QED
  BY <1>1, <1>2, <1>5, <1>6, <1>7, <1>10, <1>11, <1>12, <1>13, <1>14, CommitKeeps

\* Everything acknowledged is shared when file and disk are the same.
LEMMA AllShared ==
    ASSUME file' \in Contents, synced' = file', acked' \subseteq ToSet(file'.recs)
    PROVE  SharedOK'
<1>1. file'.recs \in Seq(Events \cup {Torn}) /\ Len(file'.recs) \in Nat
  BY DEF Contents
<1>2. \A e \in acked' : \E i \in 1 .. Len(file'.recs) : file'.recs[i] = e
  BY <1>1, Elements
<1>3. Shared(Len(file'.recs), file', synced', acked')
  BY <1>1, <1>2 DEF Shared, Agree
<1>4. Len(file'.recs) \in 0 .. Len(file'.recs)
  BY <1>1
<1> QED BY <1>3, <1>4 DEF SharedOK

\* What is acknowledged is what the file and the disk share.
LEMMA FinishKeeps ==
    ASSUME FileInvariant, OwesAlone, NEW p \in Procs, Finish(p)
    PROVE  FileInvariant'
<1>1. /\ st[p] \in States /\ st[p].pc = "finish" /\ Locked(st[p]) /\ ~st[p].needsRecovery
      /\ Unsettled(st[p]) /\ file = [recs |-> Whole(st[p]), eol |-> TRUE] /\ synced = file
      /\ UNCHANGED <<file, synced, next, failed>>
  BY DEF Finish, FileInvariant, TypeOK, LockOK, At, Locked, Unsettled, CommitOK, Phase
<1>2. /\ file # None /\ file \in Contents /\ WellFormed(file, next) /\ next \in Nat
      /\ Begun(st[p], file, next) /\ acked \subseteq ToSet(st[p].snapshot)
      /\ failed \cap ToSet(Whole(st[p])) = {} /\ \A e \in failed : e < next
      /\ acked \subseteq Events
  BY <1>1, Unsettled1 DEF FileInvariant, TypeOK
<1>3. /\ Whole(st[p]) \in Seq(Events)
      /\ \A e : e \in ToSet(Whole(st[p])) <=> e \in ToSet(st[p].snapshot) \/ e \in ToSet(st[p].batch)
      /\ \A e \in ToSet(st[p].batch) : e \in Events
  BY <1>1, <1>2, BegunOf
<1> DEFINE c == Published(p)
           s == Idle(c)
<1>4. /\ c \in States /\ c.pc = "finish" /\ c.snapshot = Whole(st[p])
      /\ c.committedOffset = Len(Whole(st[p])) /\ ~c.needsRecovery
      /\ c.grown = FALSE /\ c.needsSeparator = FALSE /\ c.lease = st[p].lease
  <2>1. PICK n, w : n = st[p].committedOffset + Len(st[p].batch) /\ w = st[p].snapshot \o st[p].batch
    OBVIOUS
  <2>2. c = [st[p] EXCEPT !.snapshot = w, !.committedOffset = n, !.grown = FALSE,
                          !.needsSeparator = FALSE]
    BY <2>1 DEF Published
  <2>3. w = Whole(st[p])
    BY <2>1 DEF Whole
  <2>4. st[p].snapshot \in Seq(Events) /\ st[p].batch \in Seq(Events)
    BY <1>1 DEF States
  <2>5. n = Len(w) /\ n \in Nat /\ w \in Seq(Events)
    <3>1. st[p].committedOffset = Len(st[p].snapshot)
      BY <1>2 DEF Begun
    <3>2. w \in Seq(Events)
      BY <2>1, <2>4, ConcatProperties
    <3>3. Len(st[p].snapshot) \in Nat /\ Len(st[p].batch) \in Nat
      BY <2>4
    <3>4. n = Len(w)
      BY <2>1, <2>4, <3>1, ConcatProperties
    <3>5. Len(w) \in Nat
      BY <3>2
    <3> QED BY <3>2, <3>4, <3>5
  <2> HIDE DEF c
  <2> QED BY <1>1, <2>2, <2>3, <2>5 DEF States
<1>5. /\ s \in States /\ s.pc = "idle" /\ s.snapshot = Whole(st[p])
      /\ s.committedOffset = Len(Whole(st[p])) /\ ~s.needsRecovery
      /\ s.grown = FALSE /\ s.needsSeparator = FALSE /\ s.lease = st[p].lease
  <2> HIDE DEF c
  <2> QED BY <1>4, IdleOf
<1>6. /\ st' = [st EXCEPT ![p] = s] /\ Release(p) /\ known' = known \cup {p}
      /\ acked' \subseteq acked \cup ToSet(st[p].batch)
  BY DEF Finish, Return
<1> HIDE DEF s
<1>7. /\ flock' \in Procs \cup {None} /\ \A q \in Procs \ {p} : flock = q => flock' = q
      /\ st[p].lease => flock' = p
  BY <1>6, ReleaseOf DEF FileInvariant
<1>8. /\ acked' \subseteq ToSet(file'.recs) /\ acked' \subseteq Events
  BY <1>1, <1>2, <1>3, <1>6
<1>9. SharedOK'
  BY <1>1, <1>2, <1>8, AllShared
<1>10. FilesOK' /\ FailedOK'
  BY <1>1, <1>2 DEF FilesOK, FailedOK, FileInvariant
<1>11. Exact(s, file')
  <2>1. HasTornTail(Whole(st[p])) = FALSE /\ Committed(Whole(st[p])) = Whole(st[p])
    BY <1>3, CleanLog
  <2>2. file'.recs = Whole(st[p]) /\ file'.eol = TRUE
    BY <1>1
  <2> QED BY <1>5, <2>1, <2>2 DEF Exact
<1>12. Phase(s, file', synced') /\ ~Unsettled(s) /\ (Locked(s) => flock' = p)
  BY <1>5, <1>7 DEF Phase, Unsettled, Locked
<1>13. \A q \in Procs \ {p} : st[q].pc # "write" /\ ~Unsettled(st[q])
  BY <1>1, OneMutator DEF FileInvariant
<1>14. \A q \in Procs \ {p} : q \in known' => q \in known /\ file' = file
  BY <1>1, <1>6
<1>15. /\ file' \in Contents \cup {None} /\ synced' \in Contents \cup {None}
       /\ known' \subseteq Procs /\ next' \in 1 .. MaxEvents + 1 /\ failed' \subseteq Events
  BY <1>1, <1>6 DEF FileInvariant, TypeOK
<1> QED
  BY <1>5, <1>6, <1>7, <1>8, <1>9, <1>10, <1>11, <1>12, <1>13, <1>14, <1>15, Step

\* What a batch is written behind is the snapshot, whatever its ending.
LEMMA BaseOf ==
    ASSUME FileInvariant, NEW p \in Procs, At(p, "write")
    PROVE  /\ file # None /\ file \in Contents /\ next \in Nat /\ WellFormed(file, next)
           /\ st[p] \in States /\ Exact(st[p], file)
           /\ st[p].snapshot = Committed(file.recs) /\ st[p].snapshot \in Seq(Events)
           /\ Len(st[p].snapshot) >= 1 /\ st[p].snapshot[1] = 0
           /\ Agree(Len(st[p].snapshot), st[p].snapshot, file.recs)
           /\ Base(p) = [recs |-> st[p].snapshot, eol |-> ~st[p].needsSeparator]
<1>1. /\ file # None /\ Exact(st[p], file) /\ st[p] \in States
      /\ file \in Contents /\ next \in Nat /\ WellFormed(file, next)
  BY DEF At, FileInvariant, CommitOK, Phase, TypeOK, FilesOK
<1> DEFINE c == Committed(file.recs)
<1>2. /\ c \in Seq(Events) /\ Agree(Len(c), c, file.recs)
      /\ c # <<>> /\ c[1] = 0 /\ (~HasTornTail(file.recs) => c = file.recs)
  BY <1>1, CommittedOf
<1>3. /\ st[p].snapshot = c /\ st[p].committedOffset = Len(c)
      /\ st[p].grown = HasTornTail(file.recs)
      /\ st[p].needsSeparator = (~file.eol /\ ~HasTornTail(file.recs))
  BY <1>1 DEF Exact
<1>4. file = [recs |-> file.recs, eol |-> file.eol] /\ file.eol \in BOOLEAN
      /\ file.recs \in Seq(Events \cup {Torn})
  BY <1>1 DEF Contents
<1>5. CASE st[p].grown
  <2>1. Len(c) <= Len(file.recs) /\ \A i \in 1 .. Len(c) : c[i] = file.recs[i]
    BY <1>2 DEF Agree
  <2>2. SubSeq(file.recs, 1, Len(c)) = c
    <3>1. Len(c) \in Nat /\ c \in Seq(Events \cup {Torn})
      BY <1>2
    <3>2. /\ SubSeq(file.recs, 1, Len(c)) \in Seq(Events \cup {Torn})
          /\ Len(SubSeq(file.recs, 1, Len(c))) = Len(c)
          /\ \A i \in 1 .. Len(c) : SubSeq(file.recs, 1, Len(c))[i] = file.recs[i]
      BY <1>4, <2>1, <3>1, Cut
    <3> QED BY <2>1, <3>1, <3>2, SeqEqual
  <2>3. CutAt(p) = [recs |-> c, eol |-> ~st[p].needsSeparator]
    BY <1>3, <2>1, <2>2 DEF CutAt
  <2>4. Base(p) = [recs |-> c, eol |-> ~st[p].needsSeparator]
    BY <1>5, <2>3 DEF Base
  <2>5. Len(c) >= 1
    BY <1>2
  <2> QED BY <1>1, <1>2, <1>3, <2>4, <2>5
<1>6. CASE ~st[p].grown
  <2>1. c = file.recs /\ ~HasTornTail(file.recs)
    BY <1>2, <1>3, <1>6
  <2>2. file.eol = ~st[p].needsSeparator
    BY <1>3, <1>4, <2>1
  <2>3. Base(p) = [recs |-> c, eol |-> ~st[p].needsSeparator]
    BY <1>4, <1>6, <2>1, <2>2 DEF Base
  <2>4. Len(c) >= 1
    BY <1>2
  <2> QED BY <1>1, <1>2, <1>3, <2>3, <2>4
<1> QED BY <1>5, <1>6

\* The events of a batch are new.
LEMMA FreshOf ==
    ASSUME next \in Nat, NEW n \in BatchSizes, next + n - 1 <= MaxEvents
    PROVE  /\ Fresh(n) \in Seq(Events) /\ Len(Fresh(n)) = n
           /\ \A i \in 1 .. n : Fresh(n)[i] = next + i - 1
<1>1. n \in Nat /\ MaxEvents \in Nat
  BY FileStoreAssumption
<1>2. \A i \in 1 .. n : next + i - 1 \in Events
  BY <1>1 DEF Events
<1> QED BY <1>1, <1>2, IsASeq DEF Fresh

\* The state of a process that has started to write behind its snapshot.
LEMMA BatchBegun ==
    ASSUME FileInvariant, NEW p \in Procs, At(p, "write"), NEW n \in BatchSizes,
           next + n - 1 <= MaxEvents, NEW s \in States,
           s.snapshot = st[p].snapshot, s.committedOffset = st[p].committedOffset,
           s.batch = Fresh(n)
    PROVE  /\ \A f \in Contents : Agree(Len(s.snapshot), s.snapshot, f.recs) => Begun(s, f, next + n)
           /\ acked \subseteq ToSet(s.snapshot)
           /\ failed \cap ToSet(Whole(s)) = {}
<1> DEFINE a == st[p].snapshot
           b == Fresh(n)
           w == Whole(s)
<1>1. /\ file # None /\ file \in Contents /\ next \in Nat /\ WellFormed(file, next)
      /\ st[p] \in States /\ Exact(st[p], file) /\ a = Committed(file.recs) /\ a \in Seq(Events)
      /\ Len(a) >= 1 /\ Agree(Len(a), a, file.recs)
  BY BaseOf
<1>2. b \in Seq(Events) /\ Len(b) = n /\ \A i \in 1 .. n : b[i] = next + i - 1
  BY <1>1, FreshOf
<1>3. n \in Nat
  BY FileStoreAssumption
<1>4. Len(a) \in Nat /\ w = a \o b
  BY <1>1 DEF Whole
<1> HIDE DEF a, b, w
<1>5. /\ w \in Seq(Events) /\ Len(w) = Len(a) + n
      /\ \A i \in 1 .. Len(a) : w[i] = a[i]
      /\ \A i \in 1 .. n : w[Len(a) + i] = b[i]
      /\ \A e : e \in ToSet(w) <=> e \in ToSet(a) \/ e \in ToSet(b)
      /\ Len(w) \in Nat
  <2>1. a \in Seq(Events) /\ b \in Seq(Events) /\ w = a \o b
    BY <1>1, <1>2, <1>4
  <2>2. /\ w \in Seq(Events) /\ Len(w) = Len(a) + Len(b)
        /\ \A i \in 1 .. Len(a) : w[i] = a[i]
        /\ \A i \in 1 .. Len(b) : w[Len(a) + i] = b[i]
    BY <2>1, Joined
  <2>3. \A e : e \in ToSet(w) <=> e \in ToSet(a) \/ e \in ToSet(b)
    BY <2>1, Joined
  <2>4. w \in Seq(Events)
    BY <2>2
  <2>5. Len(w) \in Nat
    BY <2>4
  <2> QED BY <1>2, <2>2, <2>3, <2>5
<1>6. /\ \A i \in 1 .. Len(a) : a[i] < next
      /\ \A i, j \in 1 .. Len(a) : a[i] = a[j] => i = j
  <2>1. \A i \in 1 .. Len(a) : a[i] \in Events /\ a[i] # Torn /\ a[i] = file.recs[i]
                              /\ i \in 1 .. Len(file.recs)
    BY <1>1, <1>4, NotTorn DEF Agree, Contents
  <2> QED BY <1>1, <2>1 DEF WellFormed
<1>7. \A i \in 1 .. Len(w) : \/ (i \in 1 .. Len(a) /\ w[i] = a[i] /\ w[i] < next)
                            \/ (i > Len(a) /\ w[i] = next + (i - Len(a)) - 1)
  <2> TAKE i \in 1 .. Len(w)
  <2>1. CASE i <= Len(a)
    BY <1>4, <1>5, <1>6, <2>1
  <2>2. CASE i > Len(a)
    <3>1. i - Len(a) \in 1 .. n /\ i = Len(a) + (i - Len(a))
      BY <1>3, <1>4, <1>5, <2>2
    <3>2. w[i] = b[i - Len(a)]
      BY <1>5, <3>1
    <3> QED BY <1>2, <2>2, <3>1, <3>2
  <2> QED BY <1>4, <2>1, <2>2
<1>8. \A i, j \in 1 .. Len(w) : w[i] = w[j] => i = j
  <2>1. Len(w) \in Nat /\ \A i \in 1 .. Len(a) : a[i] \in Nat
    <3>1. a \in Seq(Events) /\ Len(w) \in Nat
      BY <1>1, <1>5
    <3>2. \A i \in 1 .. Len(a) : a[i] \in Events
      BY <3>1
    <3> QED BY <3>1, <3>2, NotTorn
  <2> TAKE i, j \in 1 .. Len(w)
  <2>2. CASE i \in 1 .. Len(a) /\ j \in 1 .. Len(a)
    BY <1>5, <1>6, <2>2
  <2>3. CASE i > Len(a) /\ j > Len(a)
    <3>1. w[i] = next + (i - Len(a)) - 1 /\ w[j] = next + (j - Len(a)) - 1
      BY <1>4, <1>7, <2>1, <2>3
    <3> QED BY <1>1, <1>4, <2>1, <3>1
  <2>4. CASE i \in 1 .. Len(a) /\ j > Len(a)
    <3>1. w[i] = a[i] /\ a[i] < next /\ a[i] \in Nat /\ w[j] = next + (j - Len(a)) - 1
      BY <1>4, <1>5, <1>6, <1>7, <2>1, <2>4
    <3> QED BY <1>1, <1>4, <2>1, <2>4, <3>1
  <2>5. CASE i > Len(a) /\ j \in 1 .. Len(a)
    <3>1. w[j] = a[j] /\ a[j] < next /\ a[j] \in Nat
      BY <1>5, <1>6, <2>1, <2>5
    <3>2. w[i] = next + (i - Len(a)) - 1
      BY <1>4, <1>7, <2>1, <2>5
    <3> QED BY <1>1, <1>4, <2>1, <2>5, <3>1, <3>2
  <2> QED BY <1>4, <2>1, <2>2, <2>3, <2>4, <2>5
<1>9. \A i \in 1 .. Len(w) : w[i] < next + n
  <2> TAKE i \in 1 .. Len(w)
  <2>1. w[i] \in Nat
    <3>1. w \in Seq(Events)
      BY <1>5
    <3>2. w[i] \in Events
      BY <3>1
    <3> QED BY <3>2, NotTorn
  <2>2. CASE w[i] < next
    BY <1>1, <1>3, <2>1, <2>2
  <2>3. CASE i > Len(a) /\ w[i] = next + (i - Len(a)) - 1
    <3>1. i <= Len(a) + n /\ i \in Nat
      BY <1>5
    <3> QED BY <1>1, <1>3, <1>4, <2>3, <3>1
  <2> QED BY <1>7, <2>2, <2>3
<1>10. ASSUME NEW f \in Contents, Agree(Len(s.snapshot), s.snapshot, f.recs)
       PROVE  Begun(s, f, next + n)
  <2>1. f # None
    BY FileStoreAssumption
  <2>2. s.committedOffset = Len(s.snapshot) /\ s.snapshot # <<>>
    BY <1>1 DEF Exact, a
  <2>3. /\ \A i, j \in 1 .. Len(Whole(s)) : Whole(s)[i] = Whole(s)[j] => i = j
        /\ \A i \in 1 .. Len(Whole(s)) : Whole(s)[i] < next + n
    BY <1>8, <1>9 DEF w
  <2> QED BY <1>10, <2>1, <2>2, <2>3 DEF Begun
<1>11. acked \subseteq ToSet(a)
  <2>1. PICK k \in 0 .. Len(file.recs) : Shared(k, file, synced, acked)
    BY <1>1 DEF FileInvariant, SharedOK
  <2>2. file.recs \in Seq(Events \cup {Torn}) /\ acked \subseteq Events
    BY <1>1 DEF Contents, FileInvariant, TypeOK
  <2>3. \A e \in acked : \E i \in 1 .. Len(file.recs) : file.recs[i] = e
    BY <2>1, <2>2 DEF Shared
  <2>4. \A e \in acked : e \in ToSet(file.recs)
    BY <2>2, <2>3, Elements
  <2> QED BY <1>1, <2>2, <2>4, CommittedOf
<1>12. failed \cap ToSet(w) = {}
  <2>1. Locked(st[p]) /\ ~st[p].needsRecovery
    BY DEF FileInvariant, LockOK, Locked, At
  <2>2. failed \cap ToSet(file.recs) = {} /\ failed \subseteq Events /\ \A e \in failed : e < next
    BY <1>1, <2>1, NoneFailedInFile DEF FileInvariant, TypeOK, FilesOK
  <2>3. \A e \in ToSet(b) : \E i \in 1 .. n : e = next + i - 1
    BY <1>2, Elements
  <2>4. \A e \in failed : e \notin ToSet(b)
    <3> SUFFICES ASSUME NEW e \in failed, e \in ToSet(b) PROVE FALSE
      OBVIOUS
    <3>1. PICK i \in 1 .. n : e = next + i - 1
      BY <2>3
    <3> QED BY <1>1, <1>3, <2>2, <3>1
  <2>5. \A e \in failed : e \notin ToSet(a)
    BY <1>1, <2>2, CommittedOf
  <2> QED BY <1>5, <2>4, <2>5
<1> QED BY <1>10, <1>11, <1>12 DEF a, w

\* A batch on its way to the file, wherever the write has got to: the file is
\* what it was, its base, or a part of the whole behind that base.
LEMMA BatchKeeps ==
    ASSUME FileInvariant, OwesAlone, NEW p \in Procs, At(p, "write"), NEW n \in BatchSizes,
           next + n - 1 <= MaxEvents, next' = next + n, known' = {},
           NEW s \in States, st' = [st EXCEPT ![p] = s],
           s.snapshot = st[p].snapshot, s.committedOffset = st[p].committedOffset,
           s.batch = Fresh(n), s.op = st[p].op, s.needsRecovery = st[p].needsRecovery,
           s.pc = "rollback" \/ (s.pc = "writing" /\ s.lines = Whole(s)),
           file' \in {file, Base(p)} \/ file' \in Fragments(Base(p), Whole(s)),
           UNCHANGED <<synced, flock, acked, failed>>
    PROVE  FileInvariant'
<1> DEFINE base == Base(p)
           whole == [recs |-> Whole(s), eol |-> TRUE]
           m == next + n
<1>1. /\ file # None /\ file \in Contents /\ next \in Nat /\ WellFormed(file, next)
      /\ st[p] \in States /\ s.snapshot \in Seq(Events) /\ Len(s.snapshot) >= 1
      /\ Agree(Len(s.snapshot), s.snapshot, file.recs)
      /\ base = [recs |-> s.snapshot, eol |-> ~st[p].needsSeparator]
  BY BaseOf
<1>2. n \in Nat /\ m \in Nat /\ next <= m /\ m \in 1 .. MaxEvents + 1
  BY <1>1, FileStoreAssumption DEF FileInvariant, TypeOK
<1>3. WellFormed(file, m)
  BY <1>1, <1>2, LaterWellFormed
<1>4. /\ \A f \in Contents : Agree(Len(s.snapshot), s.snapshot, f.recs) => Begun(s, f, m)
      /\ acked \subseteq ToSet(s.snapshot) /\ failed \cap ToSet(Whole(s)) = {}
  BY BatchBegun
<1>5. Begun(s, file, m)
  BY <1>1, <1>4
<1> HIDE DEF m
<1>6. /\ Whole(s) \in Seq(Events) /\ Len(Whole(s)) >= Len(s.snapshot)
      /\ Agree(Len(s.snapshot), s.snapshot, Whole(s))
      /\ \A e : e \in ToSet(Whole(s)) <=> e \in ToSet(s.snapshot) \/ e \in ToSet(s.batch)
      /\ \A eol \in BOOLEAN :
            /\ [recs |-> s.snapshot, eol |-> eol] \in Contents
            /\ WellFormed([recs |-> s.snapshot, eol |-> eol], m)
            /\ [recs |-> Whole(s), eol |-> eol] \in Contents
            /\ WellFormed([recs |-> Whole(s), eol |-> eol], m)
  BY <1>1, <1>2, <1>3, <1>5, BegunOf
<1>7. /\ Locked(st[p]) /\ ~st[p].needsRecovery /\ st[p].op = "append"
  BY DEF At, FileInvariant, LockOK, Locked
<1>8. failed \cap ToSet(file.recs) = {} /\ failed \subseteq Events
  BY <1>1, <1>7, NoneFailedInFile DEF FileInvariant, TypeOK
<1>9. /\ file' \in Contents /\ WellFormed(file', m)
      /\ Agree(Len(s.snapshot), s.snapshot, file'.recs) /\ failed \cap ToSet(file'.recs) = {}
  <2>1. CASE file' = file
    BY <1>1, <1>3, <1>8, <2>1
  <2>2. CASE file' = base
    <3>1. PICK eol \in BOOLEAN : eol = ~st[p].needsSeparator
      BY <1>1 DEF States
    <3>2. file' = [recs |-> s.snapshot, eol |-> eol]
      BY <1>1, <2>2, <3>1
    <3> HIDE DEF base
    <3>3. file' \in Contents /\ WellFormed(file', m) /\ file'.recs = s.snapshot
      BY <1>6, <3>2
    <3>4. Len(s.snapshot) \in Nat
      BY <1>1
    <3>5. Agree(Len(s.snapshot), s.snapshot, s.snapshot)
      BY <3>4 DEF Agree
    <3> QED BY <1>4, <1>6, <3>3, <3>5
  <2>3. CASE file' \in Fragments(base, Whole(s))
    <3>1. base.recs = s.snapshot /\ Len(s.snapshot) \in Nat /\ Len(Whole(s)) \in Nat
      BY <1>1, <1>6
    <3>2. PICK r : \E eol \in BOOLEAN :
              /\ file' = [recs |-> r, eol |-> eol]
              /\ \E k \in Len(base.recs) .. Len(Whole(s)) :
                   \/ r = SubSeq(Whole(s), 1, k)
                   \/ (k < Len(Whole(s)) /\ r = Append(SubSeq(Whole(s), 1, k), Torn))
      BY <2>3, <3>1, FragmentOf
    <3>3. PICK eol \in BOOLEAN, k \in Len(s.snapshot) .. Len(Whole(s)) :
              /\ file' = [recs |-> r, eol |-> eol]
              /\ \/ r = SubSeq(Whole(s), 1, k)
                 \/ r = Append(SubSeq(Whole(s), 1, k), Torn)
      BY <3>1, <3>2
    <3>4. whole \in Contents /\ WellFormed(whole, m) /\ whole.recs = Whole(s)
      BY <1>6
    <3>5. k \in 1 .. Len(whole.recs)
      BY <1>1, <3>1, <3>4
    <3>6. \A i \in 1 .. k : whole.recs[i] # Torn
      <4>1. \A i \in 1 .. k : Whole(s)[i] \in Events
        BY <1>6, <3>1
      <4> QED BY <3>4, <4>1, NotTorn
    <3>7. \/ r = SubSeq(whole.recs, 1, k)
          \/ (r = Append(SubSeq(whole.recs, 1, k), Torn) /\ \A i \in 1 .. k : whole.recs[i] # Torn)
      BY <3>3, <3>4, <3>6
    <3> HIDE DEF whole
    <3>8. /\ [recs |-> r, eol |-> eol] \in Contents /\ WellFormed([recs |-> r, eol |-> eol], m)
          /\ Agree(k, r, whole.recs)
          /\ \A e \in Events : e \in ToSet(r) => e \in ToSet(whole.recs)
      BY <1>2, <3>4, <3>5, <3>7, StartOf
    <3>9. Agree(Len(s.snapshot), s.snapshot, r)
      BY <1>6, <3>1, <3>4, <3>8 DEF Agree
    <3> QED BY <1>4, <1>8, <3>3, <3>4, <3>8, <3>9
  <2> QED BY <2>1, <2>2, <2>3
<1>10. Begun(s, file', m) /\ next' = m
  BY <1>4, <1>9 DEF m
<1>11. Phase(s, file', synced')
  BY DEF Phase
<1>12. /\ s.pc \in {"writing", "sync", "finish", "rollback"} /\ synced' \in {synced, file'}
       /\ known' \subseteq known
  OBVIOUS
<1> HIDE DEF base, whole
<1> QED
  BY <1>1, <1>2, <1>4, <1>7, <1>9, <1>10, <1>11, <1>12, CommitKeeps

\* A batch starts behind a snapshot that is what replay would give.
LEMMA WriteKeeps ==
    ASSUME FileInvariant, OwesAlone, NEW p \in Procs, Write(p)
    PROVE  FileInvariant'
<1>1. /\ At(p, "write") /\ st[p] \in States /\ st[p].pc = "write" /\ ~st[p].needsRecovery
      /\ Exact(st[p], file) /\ next \in Nat
      /\ UNCHANGED <<synced, acked, failed>>
  <2>1. At(p, "write") /\ UNCHANGED <<synced, acked, failed>>
    BY DEF Write
  <2>2. st[p] \in States /\ st[p].pc = "write" /\ next \in Nat
    BY <2>1 DEF At, FileInvariant, TypeOK
  <2>3. ~st[p].needsRecovery /\ Exact(st[p], file)
    BY <2>2 DEF FileInvariant, LockOK, CommitOK, Phase
  <2> QED BY <2>1, <2>2, <2>3
<1>2. CASE Return(p, st[p]) /\ UNCHANGED <<file, known, next>>
  BY <1>1, <1>2, ReturnKeeps
<1>3. CASE \E n \in BatchSizes :
            /\ next + n - 1 <= MaxEvents /\ next' = next + n /\ known' = {}
            /\ \/ /\ file' \in {file, Base(p)}
                  /\ st' = [st EXCEPT ![p].pc = "rollback", ![p].batch = Fresh(n)]
               \/ LET lines == Lines(p, Base(p), Fresh(n)) IN
                  /\ file' \in Fragments(Base(p), lines)
                  /\ st' = [st EXCEPT ![p].pc = "writing", ![p].batch = Fresh(n),
                                      ![p].lines = lines]
            /\ UNCHANGED flock
  <2>1. PICK n \in BatchSizes :
            /\ next + n - 1 <= MaxEvents /\ next' = next + n /\ known' = {}
            /\ \/ /\ file' \in {file, Base(p)}
                  /\ st' = [st EXCEPT ![p].pc = "rollback", ![p].batch = Fresh(n)]
               \/ /\ file' \in Fragments(Base(p), Lines(p, Base(p), Fresh(n)))
                  /\ st' = [st EXCEPT ![p].pc = "writing", ![p].batch = Fresh(n),
                                      ![p].lines = Lines(p, Base(p), Fresh(n))]
            /\ UNCHANGED flock
    BY <1>3
  <2>2. Fresh(n) \in Seq(Events)
    BY <1>1, <2>1, FreshOf
  <2>3. CASE file' \in {file, Base(p)} /\ st' = [st EXCEPT ![p].pc = "rollback", ![p].batch = Fresh(n)]
    <3> DEFINE s == [st[p] EXCEPT !.pc = "rollback", !.batch = Fresh(n)]
    <3>1. /\ s \in States /\ s.snapshot = st[p].snapshot /\ s.committedOffset = st[p].committedOffset
          /\ s.batch = Fresh(n) /\ s.op = st[p].op /\ s.needsRecovery = st[p].needsRecovery
          /\ s.pc = "rollback"
      BY <1>1, <2>2 DEF States, PC
    <3>2. st' = [st EXCEPT ![p] = s]
      BY <2>3
    <3> HIDE DEF s
    <3> QED BY <1>1, <2>1, <2>3, <3>1, <3>2, BatchKeeps
  <2>4. CASE /\ file' \in Fragments(Base(p), Lines(p, Base(p), Fresh(n)))
             /\ st' = [st EXCEPT ![p].pc = "writing", ![p].batch = Fresh(n),
                                 ![p].lines = Lines(p, Base(p), Fresh(n))]
    <3>1. /\ st[p].snapshot \in Seq(Events) /\ st[p].needsSeparator \in BOOLEAN
          /\ Base(p).recs = st[p].snapshot /\ Base(p).eol = (~st[p].needsSeparator)
      BY <1>1, BaseOf DEF States
    <3>2. Lines(p, Base(p), Fresh(n)) = st[p].snapshot \o Fresh(n)
      BY <3>1 DEF Lines
    <3>3. PICK lines : lines = Lines(p, Base(p), Fresh(n))
      OBVIOUS
    <3>4. lines \in Seq(Events \cup {Torn})
      <4>1. lines \in Seq(Events)
        BY <2>2, <3>1, <3>2, <3>3, ConcatProperties
      <4> QED BY <4>1
    <3> DEFINE s == [st[p] EXCEPT !.pc = "writing", !.batch = Fresh(n), !.lines = lines]
    <3>5. /\ s \in States /\ s.snapshot = st[p].snapshot /\ s.committedOffset = st[p].committedOffset
          /\ s.batch = Fresh(n) /\ s.op = st[p].op /\ s.needsRecovery = st[p].needsRecovery
          /\ s.pc = "writing" /\ s.lines = lines
      BY <1>1, <2>2, <3>4 DEF States, PC
    <3>6. st' = [st EXCEPT ![p] = s]
      BY <2>4, <3>3
    <3> HIDE DEF s
    <3>7. Whole(s) = lines
      BY <3>2, <3>3, <3>5 DEF Whole
    <3>8. file' \in Fragments(Base(p), Whole(s)) /\ s.lines = Whole(s)
      BY <2>4, <3>3, <3>5, <3>7
    <3> QED BY <1>1, <2>1, <3>5, <3>6, <3>8, BatchKeeps
  <2> QED BY <2>1, <2>3, <2>4
<1> QED BY <1>1, <1>2, <1>3 DEF Write

\* A new file is the same in memory and on disk.
LEMMA CreateKeeps ==
    ASSUME FileInvariant, OwesAlone, NEW p \in Procs, Create(p)
    PROVE  FileInvariant'
<1>1. /\ st[p] \in States /\ st[p].pc = "idle" /\ file = None /\ synced = None
      /\ acked = {} /\ failed = {} /\ next \in 1 .. MaxEvents + 1 /\ next \in Nat
      /\ \A q \in Procs : ~Unsettled(st[q]) /\ st[q].pc # "write"
  BY DEF Create, FileInvariant, TypeOK, FilesOK, At, CommitOK, Phase, Begun
<1>2. /\ file' = [recs |-> <<0>>, eol |-> TRUE] /\ synced' = file'
      /\ flock' = flock /\ next' = next /\ acked' = {} /\ failed' = {}
  BY <1>1 DEF Create
<1>3. /\ file' \in Contents /\ WellFormed(file', next) /\ file' # None
      /\ HasTornTail(<<0>>) = FALSE /\ Committed(<<0>>) = <<0>> /\ <<0>> \in Seq(Events)
  <2>1. <<0>> \in Seq(Events) /\ Len(<<0>>) = 1 /\ <<0>>[1] = 0
    BY NotTorn
  <2>2. [recs |-> <<0>>, eol |-> TRUE] \in Contents /\ WellFormed([recs |-> <<0>>, eol |-> TRUE], next)
    <3>1. PICK all : all = <<0>>
      OBVIOUS
    <3>2. /\ all \in Seq(Events) /\ Len(all) >= 1 /\ all[1] = 0
          /\ \A i, j \in 1 .. Len(all) : all[i] = all[j] => i = j
          /\ \A i \in 1 .. Len(all) : all[i] < next
      BY <1>1, <2>1, <3>1
    <3>3. [recs |-> all, eol |-> TRUE] \in Contents /\ WellFormed([recs |-> all, eol |-> TRUE], next)
      BY <1>1, <3>2, WholeFile
    <3> QED BY <3>1, <3>3
  <2> QED BY <1>2, <2>1, <2>2, CleanLog, FileStoreAssumption
<1>4. FilesOK' /\ FailedOK' /\ SharedOK'
  <2>1. SharedOK'
    BY <1>2, <1>3, AllShared
  <2> QED BY <1>2, <1>3, <2>1 DEF FilesOK, FailedOK
<1>5. /\ file' \in Contents \cup {None} /\ synced' \in Contents \cup {None}
      /\ flock' \in Procs \cup {None} /\ next' \in 1 .. MaxEvents + 1
      /\ acked' \subseteq Events /\ failed' \subseteq Events
  BY <1>1, <1>2, <1>3 DEF FileInvariant, TypeOK
<1>6. PICK s \in States :
         /\ st' = [st EXCEPT ![p] = s] /\ s.pc = "idle" /\ s.lease = st[p].lease
         /\ ~s.needsRecovery
         /\ known' = {} \/ (known' = {p} /\ Exact(s, file'))
  <2>1. CASE known' = {} /\ UNCHANGED st
    <3>1. st' = [st EXCEPT ![p] = st[p]]
      BY <2>1 DEF FileInvariant, TypeOK
    <3> QED BY <1>1, <2>1, <3>1 DEF Unsettled
  <2>2. CASE /\ st' = [st EXCEPT ![p].loaded = TRUE, ![p].snapshot = <<0>>,
                                 ![p].committedOffset = 1, ![p].grown = FALSE,
                                 ![p].needsSeparator = FALSE, ![p].needsRecovery = FALSE]
             /\ known' = {p}
    <3> DEFINE s == [st[p] EXCEPT !.loaded = TRUE, !.snapshot = <<0>>, !.committedOffset = 1,
                                  !.grown = FALSE, !.needsSeparator = FALSE,
                                  !.needsRecovery = FALSE]
    <3>1. /\ s \in States /\ s.pc = "idle" /\ s.lease = st[p].lease /\ ~s.needsRecovery
          /\ s.snapshot = <<0>> /\ s.committedOffset = 1 /\ s.grown = FALSE
          /\ s.needsSeparator = FALSE
      BY <1>1, <1>3 DEF States
    <3>2. st' = [st EXCEPT ![p] = s]
      BY <2>2
    <3> HIDE DEF s
    <3>3. Exact(s, file')
      BY <1>2, <1>3, <3>1 DEF Exact
    <3> QED BY <2>2, <3>1, <3>2, <3>3
  <2> QED BY <2>1, <2>2 DEF Create
<1>7. Locked(s) => flock' = p
  BY <1>2, <1>6 DEF Locked, FileInvariant, LockOK
<1>8. Phase(s, file', synced') /\ ~Unsettled(s)
  BY <1>6 DEF Phase, Unsettled
<1>9. /\ known' \subseteq Procs /\ \A q \in Procs \ {p} : q \notin known'
      /\ p \in known' => Exact(s, file')
      /\ \A q \in Procs \ {p} : flock = q => flock' = q
  BY <1>2, <1>6
<1> QED
  BY <1>1, <1>4, <1>5, <1>6, <1>7, <1>8, <1>9, Step

\* Without a file nothing is acknowledged, failed or under way.
LEMMA DeleteKeeps ==
    ASSUME FileInvariant, OwesAlone, NEW p \in Procs, Delete(p)
    PROVE  FileInvariant'
<1>1. /\ st[p] \in States /\ st[p].pc = "idle" /\ ~st[p].lease /\ flock = None /\ file # None
      /\ file' = None /\ synced' = None /\ known' = {} /\ acked' = {} /\ failed' = {}
      /\ flock' = flock /\ next' = next
  BY DEF Delete, FileInvariant, TypeOK, At
<1> DEFINE s == [st[p] EXCEPT !.loaded = FALSE, !.needsRecovery = FALSE]
<1>2. s \in States /\ s.pc = "idle" /\ ~s.lease /\ ~s.needsRecovery
  BY <1>1 DEF States
<1>3. st' = [st EXCEPT ![p] = s]
  BY DEF Delete
<1> HIDE DEF s
<1>4. Phase(s, file', synced') /\ ~Unsettled(s) /\ ~Locked(s)
  BY <1>2 DEF Phase, Unsettled, Locked
<1>5. \A q \in Procs \ {p} : st[q].pc # "write" /\ ~Unsettled(st[q])
  <2> TAKE q \in Procs \ {p}
  <2>1. ~Locked(st[q])
    BY <1>1, FileStoreAssumption DEF FileInvariant, LockOK
  <2>2. st'[q] = st[q]
    BY <1>3 DEF FileInvariant, TypeOK
  <2>3. ~st[q].needsRecovery
    BY <1>1, <2>2 DEF OwesAlone
  <2> QED BY <2>1, <2>3 DEF Locked, Unsettled
<1>6. FilesOK' /\ FailedOK' /\ SharedOK'
  BY <1>1 DEF FilesOK, FailedOK, SharedOK
<1>7. /\ file' \in Contents \cup {None} /\ synced' \in Contents \cup {None}
      /\ flock' \in Procs \cup {None} /\ known' \subseteq Procs /\ next' \in 1 .. MaxEvents + 1
      /\ acked' \subseteq Events /\ failed' \subseteq Events
  BY <1>1 DEF FileInvariant, TypeOK
<1> QED
  BY <1>1, <1>2, <1>3, <1>4, <1>5, <1>6, <1>7, Step

\* The file is what the process left of it, and its flock is free.
LEMMA CrashKeeps ==
    ASSUME FileInvariant, OwesAlone, NEW p \in Procs, Crash(p)
    PROVE  FileInvariant'
<1>1. /\ st' = [st EXCEPT ![p] = NewState] /\ known' = known \ {p}
      /\ flock' = IF flock = p THEN None ELSE flock
      /\ failed' = IF file = None THEN {} ELSE failed \ ToSet(file.recs)
      /\ UNCHANGED <<file, synced, next, acked>>
  BY DEF Crash
<1>2. failed' \subseteq failed
  BY <1>1
<1>3. FilesOK' /\ FailedOK' /\ SharedOK'
  BY <1>1, <1>2 DEF FileInvariant, FilesOK, FailedOK, SharedOK
<1>4. /\ file' \in Contents \cup {None} /\ synced' \in Contents \cup {None}
      /\ flock' \in Procs \cup {None} /\ known' \subseteq Procs /\ next' \in 1 .. MaxEvents + 1
      /\ acked' \subseteq Events /\ failed' \subseteq Events
  BY <1>1, <1>2 DEF FileInvariant, TypeOK
<1>5. Phase(NewState, file', synced')
  BY NewIdle DEF Phase
<1>6. \A q \in Procs \ {p} : (flock = q => flock' = q) /\ (q \in known' => q \in known)
  BY <1>1
<1> QED
  BY <1>1, <1>2, <1>3, <1>4, <1>5, <1>6, NewIdle, Step

\* A set of numbers has a least one.
LEMMA Least ==
    ASSUME NEW S \in SUBSET Nat, S # {}
    PROVE  \E n \in S : \A m \in S : n <= m
<1> DEFINE R == {ss \in Nat \X Nat : ss[1] < ss[2]}
<1>1. IsWellFoundedOn(R, Nat)
  BY NatLessThanWellFounded DEF OpToRel
<1> HIDE DEF R
<1>2. \E n \in S : \A m \in S : <<m, n>> \notin R
  BY <1>1, WFMin
<1>3. \A n, m \in Nat : <<m, n>> \in R <=> m < n
  BY DEF R
<1>4. PICK n \in S : \A m \in S : <<m, n>> \notin R
  BY <1>2
<1>5. \A m \in S : ~(m < n)
  BY <1>3, <1>4
<1> QED BY <1>5

\* A prefix in the sense of the community modules.
LEMMA PrefixOf ==
    ASSUME NEW T, NEW s \in Seq(T), NEW t \in Seq(T)
    PROVE  IsPrefix(s, t) <=> Agree(Len(s), s, t)
<1>1. SubSeq(s, 1, Len(s)) = s /\ Len(s) \in Nat /\ Len(t) \in Nat
  BY SubSeqFull
<1>2. CASE Len(s) <= Len(t)
  <2>1. /\ SubSeq(t, 1, Len(s)) \in Seq(T) /\ Len(SubSeq(t, 1, Len(s))) = Len(s)
        /\ \A i \in 1 .. Len(s) : SubSeq(t, 1, Len(s))[i] = t[i]
    BY <1>1, <1>2, Cut
  <2>2. s = SubSeq(t, 1, Len(s)) <=> \A i \in 1 .. Len(s) : s[i] = t[i]
    BY <2>1, SeqEqual
  <2> QED BY <1>1, <1>2, <2>2 DEF IsPrefix, Agree
<1>3. CASE ~(Len(s) <= Len(t))
  BY <1>3 DEF IsPrefix, Agree
<1> QED BY <1>2, <1>3

\* The longest common prefix of two sequences exists, and is what they agree on.
LEMMA LongestOf ==
    ASSUME NEW T, NEW a \in Seq(T), NEW b \in Seq(T),
           NEW l, l = LongestCommonPrefix({a, b})
    PROVE  /\ l \in Seq(T) /\ Len(l) <= Len(a) /\ Len(l) <= Len(b)
           /\ \A n \in Nat : Agree(n, a, b) => n <= Len(l)
<1> DEFINE C == CommonPrefixes({a, b})
           A == {n \in 0 .. Len(a) : Agree(n, a, b)}
           D == {Len(a) - n : n \in A}
<1>1. Len(a) \in Nat /\ Len(b) \in Nat
  OBVIOUS
<1>2. \A n \in A : /\ SubSeq(a, 1, n) \in Seq(T) /\ Len(SubSeq(a, 1, n)) = n
                  /\ SubSeq(a, 1, n) \in C
  <2> SUFFICES ASSUME NEW n \in 0 .. Len(a), Agree(n, a, b)
               PROVE  /\ SubSeq(a, 1, n) \in Seq(T) /\ Len(SubSeq(a, 1, n)) = n
                      /\ SubSeq(a, 1, n) \in C
    OBVIOUS
  <2> DEFINE x == SubSeq(a, 1, n)
  <2>1. x \in Seq(T) /\ Len(x) = n /\ \A i \in 1 .. n : x[i] = a[i]
    BY Cut
  <2>2. x \in Prefixes(a)
    BY DEF Prefixes
  <2> HIDE DEF x
  <2>3. Agree(Len(x), x, a) /\ Agree(Len(x), x, b)
    BY <1>1, <2>1 DEF Agree
  <2>4. IsPrefix(x, a) /\ IsPrefix(x, b)
    BY <2>1, <2>3, PrefixOf
  <2>5. x \in C
    BY <2>2, <2>4 DEF CommonPrefixes
  <2> QED BY <2>1, <2>5 DEF x
<1>3. \A x \in C : x \in Seq(T) /\ Len(x) \in A /\ Len(x) <= Len(b)
  <2> TAKE x \in C
  <2>1. /\ x \in Prefixes(a) \cup Prefixes(b) /\ IsPrefix(x, a) /\ IsPrefix(x, b)
    BY DEF CommonPrefixes
  <2>2. x \in Seq(T)
    <3>1. ASSUME NEW s \in Seq(T), x \in Prefixes(s) PROVE x \in Seq(T)
      <4>1. PICK k \in 0 .. Len(s) : x = SubSeq(s, 1, k)
        BY <3>1 DEF Prefixes
      <4> QED BY <4>1, Cut
    <3> QED BY <2>1, <3>1
  <2>3. Agree(Len(x), x, a) /\ Agree(Len(x), x, b)
    BY <2>1, <2>2, PrefixOf
  <2>4. Len(x) \in Nat
    BY <2>2
  <2>5. Len(x) \in 0 .. Len(a) /\ Len(x) <= Len(b)
    BY <1>1, <2>3, <2>4 DEF Agree
  <2>6. Agree(Len(x), a, b)
    BY <1>1, <2>3, <2>4 DEF Agree
  <2> QED BY <2>2, <2>5, <2>6
<1>4. PICK n \in A : \A m \in A : m <= n
  <2>1. 0 \in A
    BY <1>1 DEF Agree
  <2>2. D \in SUBSET Nat /\ D # {}
    BY <1>1, <2>1
  <2> HIDE DEF D
  <2>3. PICK d \in D : \A e \in D : d <= e
    BY <2>2, Least
  <2>4. PICK n \in A : d = Len(a) - n
    BY <2>3 DEF D
  <2>5. \A m \in A : m \in Nat /\ Len(a) - m \in D
    BY DEF D
  <2>6. \A m \in A : m <= n
    BY <1>1, <2>3, <2>4, <2>5
  <2> QED BY <2>6
<1> HIDE DEF A, C, D
<1>5. \E longest \in C : \A other \in C : Len(other) <= Len(longest)
  BY <1>2, <1>3, <1>4
<1>6. l \in C /\ \A other \in C : Len(other) <= Len(l)
  BY <1>5 DEF LongestCommonPrefix, C
<1>7. \A m \in Nat : Agree(m, a, b) => m <= Len(l)
  <2> TAKE m \in Nat
  <2> HAVE Agree(m, a, b)
  <2>1. m \in A
    BY <1>1 DEF A, Agree
  <2> QED BY <1>2, <1>6, <2>1
<1>8. l \in Seq(T) /\ Len(l) \in 0 .. Len(a) /\ Len(l) <= Len(b)
  BY <1>3, <1>6 DEF A
<1>9. l \in Seq(T) /\ Len(l) <= Len(a) /\ Len(l) <= Len(b)
  BY <1>1, <1>8
<1> QED BY <1>7, <1>9, Zenon

\* What a power failure leaves is a good file that keeps whatever the file and
\* the disk agreed on.
LEMMA PowerLossLeaves ==
    ASSUME FileInvariant, PowerLoss
    PROVE  /\ file # None /\ file \in Contents /\ synced \in Contents
           /\ WellFormed(file, next) /\ WellFormed(synced, next)
           /\ file' \in Contents /\ WellFormed(file', next)
           /\ \A n \in Nat : Agree(n, file.recs, synced.recs) => Agree(n, file.recs, file'.recs)
<1> DEFINE both == LongestCommonPrefix({synced.recs, file.recs})
           f == file.recs
           d == synced.recs
<1>1. /\ file # None /\ file \in Contents /\ synced \in Contents /\ next \in Nat
      /\ WellFormed(file, next) /\ WellFormed(synced, next)
  BY DEF PowerLoss, FileInvariant, TypeOK, FilesOK
<1>2. /\ f \in Seq(Events \cup {Torn}) /\ d \in Seq(Events \cup {Torn})
      /\ Len(f) \in Nat /\ Len(d) \in Nat /\ Len(f) >= 1 /\ Len(d) >= 1
      /\ f[1] = 0 /\ d[1] = 0
  BY <1>1 DEF Contents, WellFormed
<1>3. /\ both \in Seq(Events \cup {Torn}) /\ Len(both) <= Len(f)
      /\ \A n \in Nat : Agree(n, d, f) => n <= Len(both)
  BY <1>2, LongestOf
<1>4. PICK base : /\ base.recs = both
                  /\ file' = synced \/ file' \in Fragments(base, f)
  BY DEF PowerLoss
<1> HIDE DEF both, f, d
<1>5. CASE file' = synced
  BY <1>1, <1>5 DEF f, d
<1>6. CASE file' \in Fragments(base, f)
  <2>1. Len(both) \in Nat
    BY <1>3
  <2>2. Agree(1, d, f)
    BY <1>2 DEF Agree
  <2>3. Len(both) >= 1
    BY <1>3, <2>2
  <2>4. PICK r : \E eol \in BOOLEAN :
            /\ file' = [recs |-> r, eol |-> eol]
            /\ \E k \in Len(base.recs) .. Len(f) :
                 \/ r = SubSeq(f, 1, k)
                 \/ (k < Len(f) /\ r = Append(SubSeq(f, 1, k), Torn))
    BY <1>2, <1>4, <1>6, <2>1, FragmentOf
  <2>5. PICK eol \in BOOLEAN, k \in Len(both) .. Len(f) :
            /\ file' = [recs |-> r, eol |-> eol]
            /\ \/ r = SubSeq(f, 1, k)
               \/ (k < Len(f) /\ r = Append(SubSeq(f, 1, k), Torn))
    BY <1>4, <2>4
  <2>6. k \in 1 .. Len(file.recs)
    BY <1>2, <2>1, <2>3 DEF f
  <2>7. k < Len(f) => \A i \in 1 .. k : file.recs[i] # Torn
    BY <1>1, <1>2, <2>6 DEF WellFormed, f
  <2>8. \/ r = SubSeq(file.recs, 1, k)
        \/ (r = Append(SubSeq(file.recs, 1, k), Torn) /\ \A i \in 1 .. k : file.recs[i] # Torn)
    BY <2>5, <2>7 DEF f
  <2>9. /\ [recs |-> r, eol |-> eol] \in Contents /\ WellFormed([recs |-> r, eol |-> eol], next)
        /\ Agree(k, r, file.recs)
    BY <1>1, <2>6, <2>8, StartOf
  <2>10. ASSUME NEW n \in Nat, Agree(n, f, d) PROVE Agree(n, f, r)
    <3>1. Agree(n, d, f)
      BY <2>10 DEF Agree
    <3>2. n <= Len(both) /\ n <= k
      BY <1>3, <2>1, <2>6, <3>1
    <3> QED BY <1>2, <2>6, <2>9, <2>10, <3>2 DEF Agree, f
  <2> QED BY <1>1, <2>5, <2>9, <2>10 DEF f, d
<1> QED BY <1>4, <1>5, <1>6

\* What the file and the disk shared is still there.
LEMMA PowerLossKeeps ==
    ASSUME FileInvariant, PowerLoss
    PROVE  FileInvariant'
<1>1. /\ file # None /\ file \in Contents /\ synced \in Contents
      /\ WellFormed(file, next) /\ file' \in Contents /\ WellFormed(file', next)
      /\ \A n \in Nat : Agree(n, file.recs, synced.recs) => Agree(n, file.recs, file'.recs)
  BY PowerLossLeaves
<1>2. /\ synced' = file' /\ st' = [p \in Procs |-> NewState] /\ flock' = None /\ known' = {}
      /\ failed' = failed \ ToSet(file'.recs) /\ next' = next /\ acked' = acked
  BY DEF PowerLoss
<1>3. file' # None
  BY <1>1, FileStoreAssumption
<1>4. TypeOK'
  BY <1>1, <1>2, NewIdle DEF FileInvariant, TypeOK
<1>5. FilesOK' /\ FailedOK'
  BY <1>1, <1>2, <1>3 DEF FileInvariant, FilesOK, FailedOK
<1>6. LockOK' /\ CacheSound' /\ CommitOK'
  <2>1. \A p \in Procs : st'[p] = NewState
    BY <1>2
  <2> QED BY <1>2, <2>1, NewIdle DEF LockOK, CacheSound, CommitOK, Phase
<1>7. acked' \subseteq ToSet(file'.recs)
  <2>1. PICK n \in 0 .. Len(file.recs) : Shared(n, file, synced, acked)
    BY <1>1 DEF FileInvariant, SharedOK
  <2>2. Agree(n, file.recs, file'.recs) /\ n \in Nat
    BY <1>1, <2>1 DEF Shared
  <2>3. file'.recs \in Seq(Events \cup {Torn}) /\ Len(file'.recs) \in Nat
    BY <1>1 DEF Contents
  <2>4. \A e \in acked : \E i \in 1 .. Len(file'.recs) : file'.recs[i] = e
    BY <2>1, <2>2, <2>3 DEF Shared, Agree
  <2> QED BY <1>2, <2>3, <2>4, Elements
<1>8. SharedOK'
  BY <1>1, <1>2, <1>7, AllShared
<1> QED BY <1>4, <1>5, <1>6, <1>8 DEF FileInvariant

\* No session, no process with anything under way.
LEMMA InitKeeps == Init => FileInvariant
<1> SUFFICES ASSUME Init PROVE FileInvariant
  OBVIOUS
<1>1. /\ file = None /\ synced = None /\ flock = None /\ known = {} /\ next = 1
      /\ acked = {} /\ failed = {} /\ st = [p \in Procs |-> NewState]
  BY DEF Init
<1>2. TypeOK
  BY <1>1, NewIdle, FileStoreAssumption DEF TypeOK
<1>3. FilesOK /\ SharedOK /\ FailedOK
  BY <1>1 DEF FilesOK, SharedOK, FailedOK
<1>4. LockOK /\ CacheSound /\ CommitOK
  BY <1>1, NewIdle DEF LockOK, CacheSound, CommitOK, Phase
<1> QED BY <1>2, <1>3, <1>4 DEF FileInvariant

\* Every step of a store whose owed rollbacks are made good first.
LEMMA NextKeeps ==
    ASSUME FileInvariant, Next, OwesAlone
    PROVE  FileInvariant'
<1>1. ASSUME NEW p \in Procs,
             \/ AcquireWriter(p) \/ ReleaseWriter(p)
             \/ Create(p) \/ Delete(p)
             \/ \E op \in {"append", "load"} : Begin(p, op)
             \/ Recover(p) \/ EnsureLoaded(p)
             \/ Write(p) \/ Written(p) \/ Sync(p) \/ Finish(p) \/ Rollback(p)
             \/ Crash(p)
      PROVE  FileInvariant'
  BY <1>1, AcquireKeeps, ReleaseKeeps, CreateKeeps, DeleteKeeps, BeginKeeps, RecoverKeeps,
     EnsureLoadedKeeps, WriteKeeps, WrittenKeeps, SyncKeeps, FinishKeeps, RollbackKeeps,
     CrashKeeps
<1>2. CASE PowerLoss
  BY <1>2, PowerLossKeeps
<1> QED BY <1>1, <1>2 DEF Next

\* Nothing of the invariant depends on what a stuttering step could change.
LEMMA StutterKeeps ==
    ASSUME FileInvariant, UNCHANGED vars
    PROVE  FileInvariant'
<1>1. /\ file' = file /\ synced' = synced /\ flock' = flock /\ st' = st /\ known' = known
      /\ next' = next /\ acked' = acked /\ failed' = failed
  BY DEF vars
<1> QED
  BY <1>1 DEF FileInvariant, TypeOK, FilesOK, LockOK, CacheSound, CommitOK, SharedOK, FailedOK

\* The inductive invariant of the log: types, well-formed files, one mutator at
\* a time, sound caches, and of every commit under way what it has done so far.
THEOREM FileStoreInvariant == AloneSpec => []FileInvariant
<1>1. FileInvariant /\ [Next /\ OwesAlone]_vars => FileInvariant'
  BY NextKeeps, StutterKeeps
<1> QED BY InitKeeps, <1>1, PTL DEF AloneSpec

\* No interruption, failed write, rollback, crash or power failure makes a file
\* that replay rejects as corrupted.
THEOREM LogStaysIntact == AloneSpec => []LogIntact
<1>1. FileInvariant => LogIntact
  <2> SUFFICES ASSUME FileInvariant, file # None PROVE ~Corrupted(file.recs)
    BY DEF LogIntact
  <2>1. file \in Contents /\ WellFormed(file, next) /\ next \in Nat
    BY DEF FileInvariant, TypeOK, FilesOK
  <2> QED BY <2>1, CommittedOf
<1> QED BY FileStoreInvariant, <1>1, PTL

\* A cache that ensureLoaded would trust is what replaying the file would give.
THEOREM CacheStaysSound == AloneSpec => []CacheSound
<1>1. FileInvariant => CacheSound
  BY DEF FileInvariant
<1> QED BY FileStoreInvariant, <1>1, PTL

\* What was rolled back is in no snapshot that a commit starts from or
\* publishes, and not in the file once no rollback is owed.
THEOREM FailedEventsStayOut == AloneSpec => []FailedStaysOut
<1>1. FileInvariant => FailedStaysOut
  <2> SUFFICES ASSUME FileInvariant, NEW p \in Procs
               PROVE  /\ st[p].op = "append" /\ st[p].pc \in {"write", "finish"} =>
                             failed \cap ToSet(st[p].snapshot) = {}
                      /\ (\A q \in Procs : ~st[q].needsRecovery) /\ file # None =>
                             failed \cap ToSet(file.recs) = {}
    BY DEF FailedStaysOut
  <2>1. CASE st[p].pc = "write"
    <3>1. At(p, "write") /\ Locked(st[p]) /\ ~st[p].needsRecovery
      BY <2>1 DEF FileInvariant, LockOK, Locked, At
    <3>2. /\ file # None /\ file \in Contents /\ next \in Nat /\ WellFormed(file, next)
          /\ st[p].snapshot = Committed(file.recs)
      BY <3>1, BaseOf
    <3>3. failed \cap ToSet(file.recs) = {} /\ failed \subseteq Events
      BY <3>1, <3>2, NoneFailedInFile DEF FileInvariant, TypeOK
    <3>4. \A e \in Events : e \in ToSet(file.recs) <=> e \in ToSet(Committed(file.recs))
      BY <3>2, CommittedOf
    <3> QED BY <2>1, <3>2, <3>3, <3>4
  <2>2. CASE st[p].pc = "finish"
    <3>1. Unsettled(st[p])
      BY <2>2 DEF Unsettled
    <3>2. /\ st[p] \in States /\ file \in Contents /\ next \in Nat /\ WellFormed(file, next)
          /\ Begun(st[p], file, next) /\ failed \cap ToSet(Whole(st[p])) = {}
      BY <3>1, Unsettled1
    <3>3. \A e : e \in ToSet(Whole(st[p])) <=> e \in ToSet(st[p].snapshot) \/ e \in ToSet(st[p].batch)
      BY <3>2, BegunOf
    <3>4. failed \cap ToSet(st[p].snapshot) = {}
      BY <3>2, <3>3
    <3> QED BY <3>4 DEF FileInvariant, FailedOK
  <2> QED BY <2>1, <2>2 DEF FileInvariant, FailedOK
<1> QED BY FileStoreInvariant, <1>1, PTL

\* Whatever the file and the disk share is committed in both.
LEMMA AckedInBoth == FileInvariant => AckedIsDurable
<1> SUFFICES ASSUME FileInvariant, NEW e \in acked
             PROVE  e \in ToSet(Committed(file.recs)) /\ e \in ToSet(Committed(synced.recs))
  BY DEF AckedIsDurable
<1>1. /\ file # None /\ file \in Contents /\ synced \in Contents /\ next \in Nat
      /\ WellFormed(file, next) /\ WellFormed(synced, next) /\ e \in Events
  BY DEF FileInvariant, TypeOK, FilesOK
<1>2. PICK n \in 0 .. Len(file.recs) : Shared(n, file, synced, acked)
  BY <1>1 DEF FileInvariant, SharedOK
<1>3. PICK i \in 1 .. n : file.recs[i] = e
  BY <1>2 DEF Shared
<1>4. /\ file.recs \in Seq(Events \cup {Torn}) /\ synced.recs \in Seq(Events \cup {Torn})
      /\ Len(file.recs) \in Nat /\ Len(synced.recs) \in Nat
  BY <1>1 DEF Contents
<1>5. i \in 1 .. Len(file.recs) /\ i \in 1 .. Len(synced.recs) /\ synced.recs[i] = e
  BY <1>2, <1>3, <1>4 DEF Shared, Agree
<1>6. e \in ToSet(file.recs) /\ e \in ToSet(synced.recs)
  BY <1>3, <1>4, <1>5, Elements
<1> QED BY <1>1, <1>6, CommittedOf

\* What was acknowledged is committed in the file and in what a power failure
\* cannot take.
THEOREM AcknowledgedIsDurable == AloneSpec => []AckedIsDurable
BY FileStoreInvariant, AckedInBoth, PTL

-----------------------------------------------------------------------------
(* The store implements DurableLog: of every step, what it does to the log. *)

\* The log while a commit is under way or owed is the snapshot it started from,
\* and otherwise what replay would give.
LogShape ==
    IF file = None THEN Log = None
    ELSE /\ Log \in Seq(Events) /\ Log # None
         /\ Agree(Len(Log), Log, file.recs)
         /\ \A i, j \in 1 .. Len(Log) : Log[i] = Log[j] => i = j
         /\ acked \subseteq ToSet(Log)
         /\ \A p \in Procs : Unsettled(st[p]) => Log = st[p].snapshot
         /\ (\A p \in Procs : ~Unsettled(st[p])) => Log = Committed(file.recs)

\* At most one process has something to settle.
LEMMA OneUnsettled ==
    ASSUME FileInvariant, NEW p \in Procs, Unsettled(st[p]), NEW q \in Procs, Unsettled(st[q])
    PROVE  p = q
<1>1. CASE st[p].needsRecovery
  BY <1>1, NewIdle DEF FileInvariant, LockOK
<1>2. CASE ~st[p].needsRecovery
  <2>1. Locked(st[p])
    BY <1>2 DEF Locked, Unsettled
  <2> QED BY <2>1, OneMutator DEF FileInvariant
<1> QED BY <1>1, <1>2

LEMMA LogHasShape == FileInvariant => LogShape
<1> SUFFICES ASSUME FileInvariant, file # None
             PROVE  LogShape
  BY DEF LogShape, Log
<1>1. /\ file \in Contents /\ next \in Nat /\ WellFormed(file, next)
      /\ Len(file.recs) \in Nat
  BY DEF FileInvariant, TypeOK, FilesOK, Contents
<1>2. CASE \E p \in Procs : Unsettled(st[p])
  <2> DEFINE p == CHOOSE p \in Procs : Unsettled(st[p])
  <2>1. p \in Procs /\ Unsettled(st[p])
    BY <1>2
  <2>2. Log = SubSeq(file.recs, 1, st[p].committedOffset)
    BY <1>2 DEF Log
  <2> HIDE DEF p
  <2>3. \A q \in Procs : Unsettled(st[q]) => q = p
    BY <2>1, OneUnsettled
  <2>4. st[p] \in States /\ Begun(st[p], file, next) /\ acked \subseteq ToSet(st[p].snapshot)
    BY <2>1, Unsettled1
  <2>5. /\ st[p].snapshot \in Seq(Events)
        /\ Agree(Len(st[p].snapshot), st[p].snapshot, file.recs)
        /\ SubSeq(file.recs, 1, st[p].committedOffset) = st[p].snapshot
    BY <1>1, <2>4, BegunOf
  <2>6. Log = st[p].snapshot
    BY <2>2, <2>5
  <2>7. \A i, j \in 1 .. Len(Log) : Log[i] = Log[j] => i = j
    BY <1>1, <2>5, <2>6 DEF Agree, WellFormed
  <2> QED BY <1>2, <2>1, <2>3, <2>4, <2>5, <2>6, <2>7, FileStoreAssumption DEF LogShape
<1>3. CASE \A p \in Procs : ~Unsettled(st[p])
  <2>1. Log = Committed(file.recs)
    BY <1>3 DEF Log
  <2>2. Log \in Seq(Events) /\ Agree(Len(Log), Log, file.recs)
    BY <1>1, <2>1, CommittedOf
  <2>3. \A i, j \in 1 .. Len(Log) : Log[i] = Log[j] => i = j
    BY <1>1, <2>2 DEF Agree, WellFormed
  <2>4. acked \subseteq ToSet(Log)
    BY <2>1, AckedInBoth DEF AckedIsDurable
  <2> QED BY <1>3, <2>1, <2>2, <2>3, <2>4, FileStoreAssumption DEF LogShape
<1> QED BY <1>2, <1>3

\* A step that settles nothing, starts nothing and leaves the file alone leaves
\* the log alone.
LEMMA LogStays ==
    ASSUME LogShape, LogShape', file' = file,
           \A q \in Procs : /\ Unsettled(st'[q]) <=> Unsettled(st[q])
                            /\ Unsettled(st[q]) => st'[q].snapshot = st[q].snapshot
    PROVE  Log' = Log
<1>1. CASE file = None
  BY <1>1 DEF LogShape
<1>2. CASE file # None /\ \E p \in Procs : Unsettled(st[p])
  BY <1>2 DEF LogShape
<1>3. CASE file # None /\ \A p \in Procs : ~Unsettled(st[p])
  BY <1>3 DEF LogShape
<1> QED BY <1>1, <1>2, <1>3

\* The abstract operators of prefixes and injections, by index.
LEMMA ExtendOf ==
    ASSUME Log \in Seq(Events), Log' \in Seq(Events), Log # None, Log' # None,
           Agree(Len(Log), Log, Log'),
           \A i, j \in 1 .. Len(Log') : Log'[i] = Log'[j] => i = j,
           acked \subseteq acked', acked' \subseteq acked \cup ToSet(Log')
    PROVE  Promise!Extend
<1>1. IsPrefix(Log, Log')
  BY PrefixOf
<1>2. Promise!IsPrefix(Log, Log')
  BY <1>1 DEF IsPrefix, Promise!IsPrefix
<1>3. Promise!IsInjective(Log')
  BY DEF Promise!IsInjective
<1>4. acked' \subseteq acked \cup Promise!ToSet(Log')
  BY DEF ToSet, Promise!ToSet
<1> QED BY <1>2, <1>3, <1>4 DEF Promise!Extend

\* Steps that the log does not see, of processes that have nothing to settle or
\* leave what they have.
LEMMA QuietLog ==
    ASSUME FileInvariant, LogShape, LogShape', NEW p \in Procs,
           \/ AcquireWriter(p) \/ ReleaseWriter(p)
           \/ \E op \in {"append", "load"} : Begin(p, op)
           \/ EnsureLoaded(p) \/ Sync(p)
           \/ Crash(p) /\ ~Unsettled(st[p])
    PROVE  Log' = Log /\ acked' = acked
<1>1. st \in [Procs -> States]
  BY DEF FileInvariant, TypeOK
<1>2. file' = file /\ acked' = acked
  BY DEF AcquireWriter, ReleaseWriter, Begin, EnsureLoaded, Sync, Crash
<1>3. \A q \in Procs \ {p} : st'[q] = st[q]
  BY <1>1 DEF AcquireWriter, ReleaseWriter, Begin, EnsureLoaded, Sync, Crash, Return
<1>4. /\ Unsettled(st'[p]) <=> Unsettled(st[p])
      /\ Unsettled(st[p]) => st'[p].snapshot = st[p].snapshot
  <2>1. CASE AcquireWriter(p) \/ ReleaseWriter(p)
    BY <1>1, <2>1 DEF AcquireWriter, ReleaseWriter, Unsettled, States
  <2>2. CASE \E op \in {"append", "load"} : Begin(p, op)
    BY <1>1, <2>2 DEF Begin, At, Unsettled, States
  <2>3. CASE EnsureLoaded(p)
    <3>1. ~Unsettled(st[p]) /\ ~st[p].needsRecovery
      BY <2>3 DEF EnsureLoaded, At, Unsettled, FileInvariant, LockOK
    <3>2. \A s \in {st[p], Loaded(p)} \cup {[st[p] EXCEPT !.loaded = l] : l \in {st[p].loaded, FALSE}} :
             /\ s.needsRecovery = st[p].needsRecovery
             /\ Idle(s).needsRecovery = st[p].needsRecovery /\ Idle(s).pc = "idle"
             /\ [s EXCEPT !.pc = "write"].needsRecovery = st[p].needsRecovery
             /\ [s EXCEPT !.pc = "write"].pc = "write"
      BY <1>1 DEF States, Idle, Loaded
    <3>3. PICK s \in {st[p], Loaded(p)} \cup {[st[p] EXCEPT !.loaded = l] : l \in {st[p].loaded, FALSE}} :
             \/ st' = [st EXCEPT ![p] = Idle(s)]
             \/ st' = [st EXCEPT ![p] = [s EXCEPT !.pc = "write"]]
      BY <2>3 DEF EnsureLoaded, Return
    <3>4. st'[p] \in {Idle(s), [s EXCEPT !.pc = "write"]}
      BY <1>1, <3>3
    <3> QED BY <3>1, <3>2, <3>4 DEF Unsettled
  <2>4. CASE Sync(p)
    BY <1>1, <2>4 DEF Sync, At, Unsettled, States
  <2>5. CASE Crash(p) /\ ~Unsettled(st[p])
    BY <1>1, <2>5, NewIdle DEF Crash
  <2> QED BY <2>1, <2>2, <2>3, <2>4, <2>5
<1> QED BY <1>2, <1>3, <1>4, LogStays

\* The file that holds exactly the log a process has, once it has nothing left
\* to settle.
LEMMA SettledLog ==
    ASSUME FileInvariant, LogShape, LogShape', NEW p \in Procs, NEW s \in States,
           st' = [st EXCEPT ![p] = s], Unsettled(st[p]), ~Unsettled(s), file # None,
           file' # None
    PROVE  Log = st[p].snapshot /\ Log' = Committed(file'.recs)
<1>1. \A q \in Procs \ {p} : ~Unsettled(st[q])
  BY OneUnsettled
<1>2. \A q \in Procs : ~Unsettled(st'[q])
  BY <1>1 DEF FileInvariant, TypeOK
<1> QED BY <1>2 DEF LogShape

\* A rollback gives back the log that the commit started from.
LEMMA RolledBackLog ==
    ASSUME FileInvariant, LogShape, LogShape', NEW p \in Procs,
           Recover(p) \/ Rollback(p)
    PROVE  Log' = Log /\ acked' = acked
<1>1. /\ st \in [Procs -> States] /\ Unsettled(st[p]) /\ acked' = acked
  BY DEF FileInvariant, TypeOK, Recover, Rollback, At, LockOK, Unsettled
<1>2. /\ file # None /\ file \in Contents /\ CutAt(p) \in Contents /\ CutAt(p) # None
      /\ CutAt(p).recs = st[p].snapshot /\ st[p].snapshot \in Seq(Events)
  BY <1>1, Unsettled1, CutOf DEF States
<1>3. Log = st[p].snapshot /\ \A q \in Procs \ {p} : ~Unsettled(st[q])
  BY <1>1, <1>2, OneUnsettled DEF LogShape
<1>4. file' \in {file, CutAt(p)}
  BY DEF Recover, Rollback, RolledBack, NotRolledBack
<1>5. ASSUME NEW s, s \in States, st' = [st EXCEPT ![p] = s],
             \/ Unsettled(s) /\ s.snapshot = st[p].snapshot
             \/ ~Unsettled(s) /\ file' = CutAt(p)
      PROVE  Log' = Log
  <2>1. CASE Unsettled(s) /\ s.snapshot = st[p].snapshot
    <3>1. st'[p] = s
      BY <1>1, <1>5
    <3> QED BY <1>2, <1>3, <1>4, <2>1, <3>1 DEF LogShape
  <2>2. CASE ~Unsettled(s) /\ file' = CutAt(p)
    BY <1>1, <1>2, <1>3, <1>5, <2>2, SettledLog, CleanLog
  <2> QED BY <1>5, <2>1, <2>2
<1>6. ASSUME NEW s \in States, RolledBack(p, s), s.pc \in {"load", "idle"} PROVE Log' = Log
  <2> DEFINE r == [s EXCEPT !.grown = FALSE, !.needsRecovery = FALSE]
  <2>1. r \in States /\ ~Unsettled(r)
    BY <1>6 DEF States, Unsettled
  <2>2. st' = [st EXCEPT ![p] = r] /\ file' = CutAt(p)
    BY <1>6 DEF RolledBack
  <2> HIDE DEF r
  <2> QED BY <1>5, <2>1, <2>2
<1>7. ASSUME NEW s \in States, st' = [st EXCEPT ![p] = Idle(s)], s.needsRecovery,
             s.snapshot = st[p].snapshot
      PROVE  Log' = Log
  <2>1. /\ Idle(s) \in States /\ Unsettled(Idle(s)) /\ Idle(s).snapshot = st[p].snapshot
    BY <1>7, IdleOf DEF Unsettled
  <2> QED BY <1>5, <1>7, <2>1
<1>8. CASE Recover(p)
  <2>1. st[p] \in States /\ [st[p] EXCEPT !.pc = "load"] \in States /\ st[p].needsRecovery
    BY <1>1, <1>8 DEF States, PC, Recover, At, FileInvariant, LockOK
  <2>2. CASE RolledBack(p, [st[p] EXCEPT !.pc = "load"])
    <3>1. [st[p] EXCEPT !.pc = "load"].pc = "load"
      BY <1>1 DEF States
    <3> QED BY <1>1, <1>6, <2>1, <2>2, <3>1
  <2>3. CASE Return(p, st[p])
    BY <1>1, <1>7, <2>1, <2>3 DEF Return
  <2> QED BY <1>1, <1>8, <2>2, <2>3 DEF Recover
<1>9. CASE Rollback(p)
  <2>1. st[p] \in States /\ Idle(st[p]) \in States /\ Idle(st[p]).pc = "idle"
    BY <1>1, IdleOf
  <2>2. CASE RolledBack(p, Idle(st[p]))
    BY <1>1, <1>6, <2>1, <2>2
  <2>3. CASE Return(p, [st[p] EXCEPT !.needsRecovery = TRUE])
    <3> DEFINE s == [st[p] EXCEPT !.needsRecovery = TRUE]
    <3>1. s \in States /\ s.needsRecovery /\ s.snapshot = st[p].snapshot
      BY <2>1 DEF States
    <3>2. st' = [st EXCEPT ![p] = Idle(s)]
      BY <2>3 DEF Return
    <3> HIDE DEF s
    <3> QED BY <1>1, <1>7, <3>1, <3>2
  <2> QED BY <1>1, <1>9, <2>2, <2>3 DEF Rollback
<1> QED BY <1>1, <1>8, <1>9

\* Until a commit is published the log is what it was before.
LEMMA CommitLog ==
    ASSUME FileInvariant, FileInvariant', LogShape, LogShape', NEW p \in Procs,
           Write(p) \/ Written(p)
    PROVE  Log' = Log /\ acked' = acked
<1>1. /\ st \in [Procs -> States] /\ acked' = acked /\ ~st[p].needsRecovery
      /\ st[p].pc \in {"write", "writing"} /\ Locked(st[p])
  BY DEF FileInvariant, TypeOK, Write, Written, At, LockOK, Locked
<1>2. \A q \in Procs \ {p} : ~Unsettled(st[q])
  BY <1>1, OneMutator DEF FileInvariant
<1>3. ASSUME file # None, Unsettled(st'[p]), st'[p].snapshot = st[p].snapshot,
             Log = st[p].snapshot
      PROVE  Log' = Log
  <2>1. file' # None
    BY <1>3 DEF FileInvariant, CommitOK, Begun
  <2> QED BY <1>3, <2>1 DEF LogShape
<1>4. CASE Write(p)
  <2>1. /\ At(p, "write") /\ file # None /\ st[p].snapshot = Committed(file.recs)
        /\ st[p].pc = "write" /\ ~Unsettled(st[p])
    BY <1>1, <1>4 DEF Write, At, FileInvariant, CommitOK, Phase, Exact, Unsettled
  <2>2. Log = st[p].snapshot
    BY <1>2, <2>1 DEF LogShape
  <2>3. CASE Return(p, st[p]) /\ UNCHANGED <<file, known, next>>
    <3>1. Idle(st[p]).pc = "idle" /\ ~Idle(st[p]).needsRecovery
      BY <1>1, IdleOf
    <3>2. ~Unsettled(st'[p]) /\ \A q \in Procs \ {p} : st'[q] = st[q]
      BY <1>1, <2>3, <3>1 DEF Return, Unsettled
    <3> QED BY <1>1, <1>2, <2>1, <2>3, <3>2, LogStays
  <2>4. CASE \E n \in BatchSizes : \E l, at \in {Lines(p, Base(p), Fresh(n)), "rollback", "writing"} :
             /\ at \in {"rollback", "writing"}
             /\ \/ st' = [st EXCEPT ![p].pc = at, ![p].batch = Fresh(n)]
                \/ st' = [st EXCEPT ![p].pc = at, ![p].batch = Fresh(n), ![p].lines = l]
    <3>1. Unsettled(st'[p]) /\ st'[p].snapshot = st[p].snapshot
      BY <1>1, <2>4 DEF Unsettled, States
    <3> QED BY <1>1, <1>3, <2>1, <2>2, <3>1
  <2> QED BY <1>4, <2>3, <2>4 DEF Write
<1>5. CASE Written(p)
  <2>1. Unsettled(st[p]) /\ file # None
    BY <1>1, <1>5 DEF Written, At, Unsettled, FileInvariant, CommitOK, Begun
  <2>2. Log = st[p].snapshot
    BY <2>1 DEF LogShape
  <2>3. Unsettled(st'[p]) /\ st'[p].snapshot = st[p].snapshot
    BY <1>1, <1>5 DEF Written, Unsettled, States
  <2> QED BY <1>1, <1>3, <2>1, <2>2, <2>3
<1> QED BY <1>4, <1>5

\* A commit that is published, or that a crash leaves in the file as far as it
\* came, extends the log.
LEMMA ExtendedLog ==
    ASSUME FileInvariant, FileInvariant', LogShape, LogShape', NEW p \in Procs,
           Finish(p) \/ (Crash(p) /\ Unsettled(st[p]))
    PROVE  Promise!Extend
<1>1. /\ st \in [Procs -> States] /\ Unsettled(st[p]) /\ file' = file /\ next' = next
  BY DEF FileInvariant, TypeOK, Finish, Crash, At, Unsettled
<1>2. /\ file # None /\ file \in Contents /\ next \in Nat /\ WellFormed(file, next)
      /\ Begun(st[p], file, next) /\ st[p] \in States
  BY <1>1, Unsettled1
<1>3. /\ st[p].snapshot \in Seq(Events) /\ Len(st[p].snapshot) >= 1
      /\ Agree(Len(st[p].snapshot), st[p].snapshot, file.recs)
  BY <1>2, BegunOf
<1>4. ~Unsettled(st'[p]) /\ \A q \in Procs \ {p} : st'[q] = st[q]
  <2>1. CASE Crash(p)
    BY <1>1, <2>1, NewIdle DEF Crash
  <2>2. CASE Finish(p)
    <3>1. ~st[p].needsRecovery /\ Published(p).needsRecovery = st[p].needsRecovery
      BY <1>1, <2>2 DEF Finish, At, FileInvariant, LockOK, Published, States
    <3>2. Idle(Published(p)).pc = "idle" /\ ~Idle(Published(p)).needsRecovery
      BY <1>1, <3>1 DEF Idle, Published, States
    <3> QED BY <1>1, <2>2, <3>2 DEF Finish, Return, Unsettled
  <2> QED BY <2>1, <2>2
<1>5. Log = st[p].snapshot /\ Log' = Committed(file.recs) /\ Log # None /\ Log' # None
      /\ Log' \in Seq(Events) /\ \A i, j \in 1 .. Len(Log') : Log'[i] = Log'[j] => i = j
  <2>1. \A q \in Procs : ~Unsettled(st'[q])
    BY <1>1, <1>4, OneUnsettled
  <2> QED BY <1>1, <1>2, <2>1 DEF LogShape
<1>6. Agree(Len(Log), Log, Log')
  <2>1. /\ Agree(Len(Log'), Log', file.recs)
        /\ \A i \in 1 .. Len(file.recs) : file.recs[i] # Torn => i <= Len(Log')
    BY <1>2, <1>5, CommittedOf
  <2> DEFINE n == Len(st[p].snapshot)
  <2>2. n \in 1 .. Len(file.recs) /\ file.recs[n] = st[p].snapshot[n]
    BY <1>2, <1>3 DEF Agree
  <2>3. st[p].snapshot[n] \in Events
    BY <1>3
  <2>4. n <= Len(Log')
    BY <2>1, <2>2, <2>3, NotTorn
  <2> QED BY <1>3, <1>5, <2>1, <2>2, <2>4 DEF Agree
<1>7. acked \subseteq acked' /\ acked' \subseteq acked \cup ToSet(Log')
  <2>1. CASE Crash(p)
    BY <2>1 DEF Crash
  <2>2. CASE Finish(p)
    <3>1. acked' \in {acked, acked \cup ToSet(st[p].batch)}
      BY <2>2 DEF Finish
    <3>2. acked' \subseteq ToSet(Log')
      BY <1>1, <1>2 DEF LogShape
    <3> QED BY <3>1, <3>2
  <2> QED BY <2>1, <2>2
<1> QED BY <1>3, <1>5, <1>6, <1>7, ExtendOf

\* A power failure keeps the log up to the last acknowledged event.
LEMMA LostLog ==
    ASSUME FileInvariant, FileInvariant', LogShape, LogShape', PowerLoss
    PROVE  Promise!Lose
<1>1. /\ file # None /\ file \in Contents /\ synced \in Contents
      /\ WellFormed(file, next) /\ file' \in Contents /\ WellFormed(file', next)
      /\ \A n \in Nat : Agree(n, file.recs, synced.recs) => Agree(n, file.recs, file'.recs)
  BY PowerLossLeaves
<1>2. /\ st' = [p \in Procs |-> NewState] /\ acked' = acked /\ file' # None /\ next \in Nat
      /\ Len(file.recs) \in Nat /\ Len(file'.recs) \in Nat
  BY <1>1, FileStoreAssumption DEF PowerLoss, FileInvariant, TypeOK, Contents
<1>3. /\ Log \in Seq(Events) /\ Log # None /\ Agree(Len(Log), Log, file.recs)
      /\ acked \subseteq ToSet(Log)
  BY <1>1 DEF LogShape
<1>4. /\ Log' \in Seq(Events) /\ Log' # None /\ Log' = Committed(file'.recs)
      /\ \A i, j \in 1 .. Len(Log') : Log'[i] = Log'[j] => i = j
  BY <1>2, NewIdle DEF LogShape
<1>5. PICK m \in 0 .. Len(file.recs) : Shared(m, file, synced, acked)
  BY <1>1 DEF FileInvariant, SharedOK
<1>6. PICK n \in 0 .. Len(Log) : n <= m /\ (n = m \/ n = Len(Log))
  <2>1. CASE m <= Len(Log)
    BY <1>3, <2>1
  <2>2. CASE ~(m <= Len(Log))
    BY <1>3, <2>2
  <2> QED BY <2>1, <2>2
<1> DEFINE c == SubSeq(Log, 1, n)
<1>7. c \in Seq(Events) /\ Len(c) = n /\ \A i \in 1 .. n : c[i] = Log[i]
  BY <1>3, <1>6, Cut
<1> HIDE DEF c
<1>8. acked \subseteq ToSet(c)
  <2> SUFFICES ASSUME NEW e \in acked PROVE e \in ToSet(c)
    OBVIOUS
  <2>1. PICK i \in 1 .. m : file.recs[i] = e
    BY <1>5 DEF Shared
  <2>2. PICK j \in 1 .. Len(Log) : Log[j] = e
    BY <1>3, Elements
  <2>3. file.recs[j] = e /\ j \in 1 .. Len(file.recs) /\ i \in 1 .. Len(file.recs)
    BY <1>2, <1>3, <1>5, <2>1, <2>2 DEF Agree
  <2>4. i = j
    BY <1>1, <2>1, <2>3 DEF WellFormed
  <2>5. j \in 1 .. n
    BY <1>3, <1>5, <1>6, <2>1, <2>2, <2>4
  <2>6. c[j] = e
    BY <1>7, <2>2, <2>5
  <2> QED BY <1>7, <2>5, <2>6, Elements
<1>9. Agree(Len(c), c, Log')
  <2>1. /\ Agree(Len(Log'), Log', file'.recs)
        /\ \A i \in 1 .. Len(file'.recs) : file'.recs[i] # Torn => i <= Len(Log')
    BY <1>1, <1>2, <1>4, CommittedOf
  <2>2. Agree(m, file.recs, file'.recs) /\ m \in Nat
    BY <1>1, <1>5 DEF Shared
  <2>3. \A i \in 1 .. n : /\ i \in 1 .. Len(file'.recs) /\ file'.recs[i] = Log[i]
                          /\ Log[i] \in Events
    BY <1>2, <1>3, <1>6, <2>2 DEF Agree
  <2>4. \A i \in 1 .. n : i <= Len(Log')
    BY <2>1, <2>3, NotTorn
  <2>5. Len(Log') \in Nat /\ n \in Nat
    BY <1>4, <1>6
  <2>6. n <= Len(Log')
    BY <2>4, <2>5
  <2>7. \A i \in 1 .. n : c[i] = Log'[i]
    BY <1>7, <2>1, <2>3, <2>4, <2>5 DEF Agree
  <2> QED BY <1>7, <2>5, <2>6, <2>7 DEF Agree
<1>10. Promise!IsPrefix(SubSeq(Log, 1, n), Log')
  <2>1. IsPrefix(c, Log')
    BY <1>4, <1>7, <1>9, PrefixOf
  <2> QED BY <2>1 DEF IsPrefix, Promise!IsPrefix, c
<1>11. acked \subseteq Promise!ToSet(SubSeq(Log, 1, n))
  BY <1>8 DEF ToSet, Promise!ToSet, c
<1>12. Promise!IsInjective(Log')
  BY <1>4 DEF Promise!IsInjective
<1> QED BY <1>2, <1>3, <1>4, <1>6, <1>10, <1>11, <1>12 DEF Promise!Lose

\* Every step of the store is a step of the abstract log or leaves it alone.
LEMMA StepImplements ==
    ASSUME FileInvariant, FileInvariant', LogShape, LogShape', Next
    PROVE  \/ Promise!Create \/ Promise!Delete \/ Promise!Extend \/ Promise!Lose
           \/ UNCHANGED <<Log, acked>>
<1>1. ASSUME NEW p \in Procs, Create(p) PROVE Promise!Create
  <2>1. file = None /\ acked' = acked /\ file' = [recs |-> <<0>>, eol |-> TRUE]
    BY <1>1 DEF Create
  <2>2. acked = {}
    BY <2>1 DEF FileInvariant, FilesOK
  <2>3. [recs |-> <<0>>, eol |-> TRUE] \in Contents
    BY NotTorn DEF Contents
  <2>4. file' # None
    BY <2>1, <2>3, FileStoreAssumption
  <2> QED BY <2>1, <2>2, <2>4 DEF LogShape, Promise!Create
<1>2. ASSUME NEW p \in Procs, Delete(p) PROVE Promise!Delete
  BY <1>2 DEF Delete, LogShape, Promise!Delete
<1>3. ASSUME NEW p \in Procs,
             \/ AcquireWriter(p) \/ ReleaseWriter(p)
             \/ \E op \in {"append", "load"} : Begin(p, op)
             \/ Recover(p) \/ EnsureLoaded(p)
             \/ Write(p) \/ Written(p) \/ Sync(p) \/ Finish(p) \/ Rollback(p)
             \/ Crash(p)
      PROVE  Promise!Extend \/ UNCHANGED <<Log, acked>>
  BY <1>3, QuietLog, RolledBackLog, CommitLog, ExtendedLog
<1> QED BY <1>1, <1>2, <1>3, LostLog DEF Next

\* The store implements an append-only log: it grows only at its end, an event
\* enters once, and what was acknowledged survives crashes and power failures.
THEOREM LogIsDurable == AloneSpec => ImplementsDurableLog
<1>1. Init => Promise!Init
  BY DEF Init, Log, Promise!Init
<1>2. FileInvariant /\ FileInvariant' /\ LogShape /\ LogShape' /\ [Next /\ OwesAlone]_vars
      => [Promise!Create \/ Promise!Delete \/ Promise!Extend \/ Promise!Lose]_<<Log, acked>>
  <2> SUFFICES ASSUME FileInvariant, FileInvariant', LogShape, LogShape', [Next /\ OwesAlone]_vars
               PROVE  [Promise!Create \/ Promise!Delete \/ Promise!Extend \/ Promise!Lose]_<<Log, acked>>
    OBVIOUS
  <2>1. CASE Next
    BY <2>1, StepImplements
  <2>2. CASE UNCHANGED vars
    <3>1. file' = file /\ st' = st /\ acked' = acked
      BY <2>2 DEF vars
    <3>2. Log' = Log
      BY <3>1 DEF Log
    <3> QED BY <3>1, <3>2
  <2> QED BY <2>1, <2>2
<1> QED BY FileStoreInvariant, LogHasShape, <1>1, <1>2, PTL
        DEF AloneSpec, ImplementsDurableLog, Promise!Spec
=============================================================================
