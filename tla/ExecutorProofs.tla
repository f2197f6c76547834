--------------------------- MODULE ExecutorProofs ---------------------------
(***************************************************************************)
(* Executor's invariant is inductive and implies its three safety          *)
(* properties, for any calls, scouts, modes, networks and defects.         *)
(*                                                                         *)
(* A step of a call changes one record. So there is a lemma for each way   *)
(* in which an action changes it (OK is preserved), one for each group of  *)
(* actions (the call becomes some record that is OK), and one, CallStep,   *)
(* for what all of them leave alone.                                       *)
(***************************************************************************)
EXTENDS Executor, TLAPS

USE ExecutorAssumption

\* A call in order on backend b.
OK(r, b) == r \in CallType /\ b \in Backends \cup {None} /\ CallOK(r, b)

Cmds == {"unstarted", "running", "ended", "killed"}

-----------------------------------------------------------------------------
(* Types of the records that compute a field.                               *)

\* Killed keeps the type of cmd.
LEMMA KilledType ==
    ASSUME NEW k \in Cmds
    PROVE  Killed(k) \in Cmds
BY DEF Killed, Cmds

\* Returned keeps the type of a call.
LEMMA ReturnedType ==
    ASSUME NEW r \in CallType
    PROVE  Returned(r) \in CallType
<1> DEFINE e == r.err \/ r.exit # 0
<1>1. e \in BOOLEAN
  OBVIOUS
<1> HIDE DEF e
<1>2. [r EXCEPT !.pc = "returned", !.isError = e] \in CallType
  BY <1>1 DEF CallType
<1> QED
  BY <1>2 DEF Returned, e

\* Removed keeps the type of a call.
LEMMA RemovedType ==
    ASSUME NEW r \in CallType
    PROVE  Removed(r) \in CallType
<1> DEFINE k == Killed(r.cmd)
<1>1. k \in Cmds
  BY KilledType DEF CallType, Cmds
<1> HIDE DEF k
<1>2. [r EXCEPT !.box = "gone", !.cmd = k] \in CallType
  BY <1>1 DEF CallType, Cmds
<1> QED
  BY <1>2 DEF Removed, k

\* KilledWith too, and so does what Kill and RunReturns write.
LEMMA KilledWithType ==
    ASSUME NEW r \in CallType, NEW b
    PROVE  KilledWith(b, r.cmd) \in Cmds
BY KilledType DEF KilledWith, CallType, Cmds

LEMMA KilledCallType ==
    ASSUME NEW r \in CallType, NEW b
    PROVE  [r EXCEPT !.proc = "exited", !.exit = NoStatus, !.group = FALSE,
                     !.cmd = KilledWith(b, @)] \in CallType
<1> DEFINE k == KilledWith(b, r.cmd)
<1>1. k \in Cmds
  BY KilledWithType
<1> HIDE DEF k
<1>2. [r EXCEPT !.proc = "exited", !.exit = NoStatus, !.group = FALSE, !.cmd = k] \in CallType
  BY <1>1 DEF CallType, Cmds, ExitCodes
<1> QED
  BY <1>2 DEF k

\* So do the three ways to count a start.
LEMMA StartedType ==
    ASSUME NEW r \in CallType
    PROVE  /\ [r EXCEPT !.cmd = "running", !.starts = @ + 1] \in CallType
           /\ [r EXCEPT !.pc = "run", !.proc = "running", !.cmd = "running",
                        !.starts = @ + 1] \in CallType
           /\ [r EXCEPT !.box = "running", !.cmd = "running", !.starts = @ + 1] \in CallType
<1> DEFINE n == r.starts + 1
<1>1. n \in Nat
  BY DEF CallType
<1> HIDE DEF n
<1>2. [r EXCEPT !.cmd = "running", !.starts = n] \in CallType
  BY <1>1 DEF CallType
<1>3. [r EXCEPT !.pc = "run", !.proc = "running", !.cmd = "running", !.starts = n] \in CallType
  BY <1>1 DEF CallType
<1>4. [r EXCEPT !.box = "running", !.cmd = "running", !.starts = n] \in CallType
  BY <1>1 DEF CallType
<1> QED
  BY <1>2, <1>3, <1>4 DEF n

-----------------------------------------------------------------------------
(* What one step makes of a call.                                           *)

\* A call that has not begun.
LEMMA FreshOK ==
    ASSUME NEW b \in Backends \cup {None}
    PROVE  OK(NewCall, b)
BY DEF NewCall, OK, CallType, ExitCodes, NoStatus, Statuses, Reserved, CallOK, CommandOK, ExitOK, RemainsOK,
       OutcomeOK, Unstarted

\* Declined by the registry, the approver or the first checks.
LEMMA DeclineOK ==
    ASSUME NEW r, NEW b, OK(r, b), r.pc \in {"idle", "prepare"}
    PROVE  OK([r EXCEPT !.pc = "returned", !.err = TRUE, !.isError = TRUE], b)
<1> DEFINE s == [r EXCEPT !.pc = "returned", !.err = TRUE, !.isError = TRUE]
<1>1. s \in CallType
  BY DEF OK, CallType
<1>2. CommandOK(s, b)
  BY DEF OK, CallOK, CommandOK, CallType
<1>3. ExitOK(s, b)
  BY DEF OK, CallOK, ExitOK, CallType
<1>4. RemainsOK(s, b)
  BY DEF OK, CallOK, RemainsOK, CallType, Unstarted
<1>5. OutcomeOK(s, b)
  <2>1. ~r.dir /\ r.box = "none"
    BY DEF OK, CallOK, RemainsOK, Unstarted, NewCall
  <2> QED
    BY <2>1 DEF OK, OutcomeOK, CallType
<1> QED
  BY <1>1, <1>2, <1>3, <1>4, <1>5 DEF OK, CallOK, CallType

\* Handed to Execute.
LEMMA DispatchOK ==
    ASSUME NEW r, NEW b, OK(r, b), r.pc = "idle", b # None
    PROVE  OK([r EXCEPT !.pc = "prepare"], b)
<1> DEFINE s == [r EXCEPT !.pc = "prepare"]
<1>1. s \in CallType
  BY DEF OK, CallType
<1>2. CommandOK(s, b)
  BY DEF OK, CallOK, CommandOK, CallType
<1>3. ExitOK(s, b)
  BY DEF OK, CallOK, ExitOK, CallType
<1>4. RemainsOK(s, b)
  BY DEF OK, CallOK, RemainsOK, CallType, NewCall
<1>5. OutcomeOK(s, b)
  BY DEF OK, CallOK, OutcomeOK, CallType
<1> QED
  BY <1>1, <1>2, <1>3, <1>4, <1>5 DEF OK, CallOK, CallType, Unstarted

\* Ready to start, with nothing to clean up (local, docker).
LEMMA PreparedOK ==
    ASSUME NEW r, NEW b, OK(r, b), r.pc = "prepare"
    PROVE  OK([r EXCEPT !.pc = "start"], b)
<1> DEFINE s == [r EXCEPT !.pc = "start"]
<1>1. s \in CallType
  BY DEF OK, CallType
<1>2. CommandOK(s, b)
  BY DEF OK, CallOK, CommandOK, CallType
<1>3. ExitOK(s, b)
  BY DEF OK, CallOK, ExitOK, CallType
<1>4. RemainsOK(s, b)
  BY DEF OK, CallOK, RemainsOK, CallType
<1>5. OutcomeOK(s, b)
  BY DEF OK, CallOK, OutcomeOK, CallType
<1> QED
  BY <1>1, <1>2, <1>3, <1>4, <1>5 DEF OK, CallOK, CallType, Unstarted

\* Ready to start, with a private directory (native).
LEMMA DirMadeOK ==
    ASSUME NEW r, NEW b, OK(r, b), r.pc = "prepare", b = "native"
    PROVE  OK([r EXCEPT !.pc = "start", !.dir = TRUE], b)
<1> DEFINE s == [r EXCEPT !.pc = "start", !.dir = TRUE]
<1>1. s \in CallType
  BY DEF OK, CallType
<1>2. CommandOK(s, b)
  BY DEF OK, CallOK, CommandOK, CallType
<1>3. ExitOK(s, b)
  BY DEF OK, CallOK, ExitOK, CallType
<1>4. RemainsOK(s, b)
  BY DEF OK, CallOK, RemainsOK, CallType
<1>5. OutcomeOK(s, b)
  BY DEF OK, CallOK, OutcomeOK, CallType
<1> QED
  BY <1>1, <1>2, <1>3, <1>4, <1>5 DEF OK, CallOK, CallType, Unstarted

\* The preparation fails after the directory was made.
LEMMA DirFailsOK ==
    ASSUME NEW r, NEW b, OK(r, b), r.pc = "prepare", b = "native"
    PROVE  OK([r EXCEPT !.pc = "clean", !.dir = TRUE, !.err = TRUE], b)
<1> DEFINE s == [r EXCEPT !.pc = "clean", !.dir = TRUE, !.err = TRUE]
<1>1. s \in CallType
  BY DEF OK, CallType
<1>2. CommandOK(s, b)
  BY DEF OK, CallOK, CommandOK, CallType
<1>3. ExitOK(s, b)
  BY DEF OK, CallOK, ExitOK, CallType
<1>4. RemainsOK(s, b)
  BY DEF OK, CallOK, RemainsOK, CallType, Unstarted
<1>5. OutcomeOK(s, b)
  BY DEF OK, CallOK, OutcomeOK, CallType
<1> QED
  BY <1>1, <1>2, <1>3, <1>4, <1>5 DEF OK, CallOK, CallType

\* cmd.Start fails.
LEMMA StartFailsOK ==
    ASSUME NEW r, NEW b, OK(r, b), r.pc = "start"
    PROVE  OK([r EXCEPT !.pc = "clean", !.err = TRUE], b)
<1> DEFINE s == [r EXCEPT !.pc = "clean", !.err = TRUE]
<1>1. s \in CallType
  BY DEF OK, CallType
<1>2. CommandOK(s, b)
  BY DEF OK, CallOK, CommandOK, CallType
<1>3. ExitOK(s, b)
  BY DEF OK, CallOK, ExitOK, CallType
<1>4. RemainsOK(s, b)
  BY DEF OK, CallOK, RemainsOK, CallType, Unstarted
<1>5. OutcomeOK(s, b)
  BY DEF OK, CallOK, OutcomeOK, CallType
<1> QED
  BY <1>1, <1>2, <1>3, <1>4, <1>5 DEF OK, CallOK, CallType

\* SRT or the docker CLI is started.
LEMMA StartOK ==
    ASSUME NEW r, NEW b, OK(r, b), r.pc = "start", b # "local"
    PROVE  OK([r EXCEPT !.pc = "run", !.proc = "running"], b)
<1> DEFINE s == [r EXCEPT !.pc = "run", !.proc = "running"]
<1>1. s \in CallType
  BY DEF OK, CallType
<1>2. CommandOK(s, b)
  BY DEF OK, CallOK, CommandOK, CallType
<1>3. ExitOK(s, b)
  BY DEF OK, CallOK, ExitOK, CallType
<1>4. RemainsOK(s, b)
  BY DEF OK, CallOK, RemainsOK, CallType
<1>5. OutcomeOK(s, b)
  BY DEF OK, CallOK, OutcomeOK, CallType
<1> QED
  BY <1>1, <1>2, <1>3, <1>4, <1>5 DEF OK, CallOK, CallType

\* The command itself is started.
LEMMA StartLocalOK ==
    ASSUME NEW r, NEW b, OK(r, b), r.pc = "start", b = "local"
    PROVE  OK([r EXCEPT !.pc = "run", !.proc = "running", !.cmd = "running",
                        !.starts = @ + 1], b)
<1> DEFINE s == [r EXCEPT !.pc = "run", !.proc = "running", !.cmd = "running",
                          !.starts = @ + 1]
<1>1. s \in CallType
  BY StartedType DEF OK
<1>2. CommandOK(s, b)
  BY DEF OK, CallOK, CommandOK, CallType, Unstarted
<1>3. ExitOK(s, b)
  BY DEF OK, CallOK, ExitOK, CallType
<1>4. RemainsOK(s, b)
  BY DEF OK, CallOK, RemainsOK, CallType
<1>5. OutcomeOK(s, b)
  BY DEF OK, CallOK, OutcomeOK, CallType
<1> QED
  BY <1>1, <1>2, <1>3, <1>4, <1>5 DEF OK, CallOK, CallType

\* The context ends.
LEMMA CancelledOK ==
    ASSUME NEW r, NEW b, OK(r, b), r.pc \notin {"idle", "returned"}
    PROVE  OK([r EXCEPT !.cancelled = TRUE], b)
<1> DEFINE s == [r EXCEPT !.cancelled = TRUE]
<1>1. s \in CallType
  BY DEF OK, CallType
<1>2. CommandOK(s, b)
  BY DEF OK, CallOK, CommandOK, CallType
<1>3. ExitOK(s, b)
  BY DEF OK, CallOK, ExitOK, CallType
<1>4. RemainsOK(s, b)
  BY DEF OK, CallOK, RemainsOK, CallType
<1>5. OutcomeOK(s, b)
  BY DEF OK, CallOK, OutcomeOK, CallType
<1> QED
  BY <1>1, <1>2, <1>3, <1>4, <1>5 DEF OK, CallOK, CallType, Unstarted

\* The process group is killed.
LEMMA KillOK ==
    ASSUME NEW r, NEW b, OK(r, b), r.pc = "run", r.proc = "running",
           r.cancelled
    PROVE  OK([r EXCEPT !.proc = "exited", !.exit = NoStatus, !.group = FALSE,
                        !.cmd = KilledWith(b, @)], b)
<1> DEFINE s == [r EXCEPT !.proc = "exited", !.exit = NoStatus, !.group = FALSE,
                          !.cmd = KilledWith(b, @)]
<1>1. s \in CallType
  BY KilledCallType DEF OK
<1>2. CommandOK(s, b)
  BY DEF OK, CallOK, CommandOK, CallType, KilledWith, Killed
<1>3. ExitOK(s, b)
  BY DEF OK, CallOK, ExitOK, CallType
<1>4. RemainsOK(s, b)
  BY DEF OK, CallOK, RemainsOK, CallType
<1>5. OutcomeOK(s, b)
  BY DEF OK, CallOK, OutcomeOK, CallType
<1> QED
  BY <1>1, <1>2, <1>3, <1>4, <1>5 DEF OK, CallOK, CallType

\* cmd.Run returns, with or without an error.
LEMMA RunReturnsOK ==
    ASSUME NEW r, NEW b, OK(r, b), r.pc = "run", r.proc = "exited",
           NEW h \in BOOLEAN
    PROVE  OK([r EXCEPT !.pc = "clean", !.group = FALSE, !.cmd = KilledWith(b, @),
                        !.err = r.cancelled \/ (h /\ r.exit = 0) \/ Misreported(r, b)], b)
<1> DEFINE k == KilledWith(b, r.cmd)
           e == r.cancelled \/ (h /\ r.exit = 0) \/ Misreported(r, b)
           s == [r EXCEPT !.pc = "clean", !.group = FALSE, !.cmd = k, !.err = e]
<1>1. k \in Cmds /\ e \in BOOLEAN
  BY KilledWithType DEF OK, CallType, Misreported
<1>2. /\ k = "running" => b = "docker"
      /\ k = "unstarted" <=> r.cmd = "unstarted"
      /\ k = "ended" <=> r.cmd = "ended"
      /\ k = "running" => r.cmd = "running"
  BY DEF OK, CallType, KilledWith, Killed
<1>3. ~e /\ ~r.forged /\ (b # "docker" \/ r.exit = 0) => r.cmd = "ended" /\ r.exit = r.status
  <2> SUFFICES ASSUME ~e, ~r.forged, b # "docker" \/ r.exit = 0
               PROVE  r.cmd = "ended" /\ r.exit = r.status
    OBVIOUS
  <2>1. CASE b = "native"
    <3>1. r.marker = r.exit
      BY <2>1 DEF Misreported
    <3>2. r.exit # None
      BY DEF OK, CallType, ExitCodes, Statuses, Reserved, NoStatus
    <3> QED
      BY <3>1, <3>2 DEF OK, CallOK, CommandOK
  <2>2. CASE b # "native"
    <3>1. b \in {"local", "docker"}
      BY <2>2 DEF OK, CallOK, Backends
    <3> QED
      BY <3>1 DEF OK, CallOK, ExitOK
  <2> QED
    BY <2>1, <2>2
<1> HIDE DEF k, e
<1>4. s \in CallType
  BY <1>1 DEF OK, CallType, Cmds
<1>5. CommandOK(s, b)
  BY <1>2 DEF OK, CallOK, CommandOK, CallType
<1>6. ExitOK(s, b)
  BY DEF OK, CallOK, ExitOK, CallType
<1>7. RemainsOK(s, b)
  BY DEF OK, CallOK, RemainsOK, CallType
<1>8. OutcomeOK(s, b)
  BY <1>2, <1>3 DEF OK, CallOK, OutcomeOK, CallType
<1>9. OK(s, b)
  BY <1>4, <1>5, <1>6, <1>7, <1>8 DEF OK, CallOK, CallType
<1> QED
  BY <1>9 DEF k, e

\* The private directory is removed.
LEMMA CleanOK ==
    ASSUME NEW r, NEW b, OK(r, b), r.pc = "clean", b \in {"local", "native"}
    PROVE  OK(Returned([r EXCEPT !.dir = FALSE]), b)
<1> DEFINE s == Returned([r EXCEPT !.dir = FALSE])
<1>1. s \in CallType
  BY DEF OK, CallType, Returned
<1>2. CommandOK(s, b)
  BY DEF OK, CallOK, CommandOK, CallType, Returned
<1>3. ExitOK(s, b)
  BY DEF OK, CallOK, ExitOK, CallType, Returned
<1>4. RemainsOK(s, b)
  BY DEF OK, CallOK, RemainsOK, CallType, Returned
<1>5. OutcomeOK(s, b)
  BY DEF OK, CallOK, OutcomeOK, RemainsOK, Returned
<1> QED
  BY <1>1, <1>2, <1>3, <1>4, <1>5 DEF OK, CallOK, CallType, Returned

\* Nothing to clean up.
LEMMA CleanLocalOK ==
    ASSUME NEW r, NEW b, OK(r, b), r.pc = "clean", b = "local"
    PROVE  OK(Returned(r), b)
<1> DEFINE s == Returned(r)
<1>1. s \in CallType
  BY ReturnedType DEF OK
<1>2. CommandOK(s, b)
  BY DEF OK, CallOK, CommandOK, CallType, Returned
<1>3. ExitOK(s, b)
  BY DEF OK, CallOK, ExitOK, CallType, Returned
<1>4. RemainsOK(s, b)
  BY DEF OK, CallOK, RemainsOK, CallType, Returned
<1>5. OutcomeOK(s, b)
  BY DEF OK, CallOK, OutcomeOK, RemainsOK, Returned
<1> QED
  BY <1>1, <1>2, <1>3, <1>4, <1>5 DEF OK, CallOK, CallType, Returned

\* Something could not be removed.
LEMMA LeakedOK ==
    ASSUME NEW r, NEW b, OK(r, b), r.pc \in {"clean", "remove"}
    PROVE  OK(Leaked(r), b)
<1> DEFINE s == Leaked(r)
<1>1. s \in CallType
  BY DEF OK, CallType, Returned, Leaked
<1>2. CommandOK(s, b)
  BY DEF OK, CallOK, CommandOK, CallType, Returned, Leaked
<1>3. ExitOK(s, b)
  BY DEF OK, CallOK, ExitOK, CallType, Returned, Leaked
<1>4. RemainsOK(s, b)
  BY DEF OK, CallOK, RemainsOK, CallType, Returned, Leaked
<1>5. OutcomeOK(s, b)
  BY DEF OK, CallOK, OutcomeOK, CallType, Returned, Leaked
<1> QED
  BY <1>1, <1>2, <1>3, <1>4, <1>5 DEF OK, CallOK, CallType, Returned, Leaked

\* The removal of the container begins.
LEMMA ToRemoveOK ==
    ASSUME NEW r, NEW b, OK(r, b), r.pc = "clean", b = "docker"
    PROVE  OK([r EXCEPT !.pc = "remove", !.retry = r.cancelled], b)
<1> DEFINE s == [r EXCEPT !.pc = "remove", !.retry = r.cancelled]
<1>1. s \in CallType
  BY DEF OK, CallType
<1>2. CommandOK(s, b)
  BY DEF OK, CallOK, CommandOK, CallType
<1>3. ExitOK(s, b)
  BY DEF OK, CallOK, ExitOK, CallType
<1>4. RemainsOK(s, b)
  BY DEF OK, CallOK, RemainsOK, CallType
<1>5. OutcomeOK(s, b)
  BY DEF OK, CallOK, OutcomeOK, CallType
<1> QED
  BY <1>1, <1>2, <1>3, <1>4, <1>5 DEF OK, CallOK, CallType

\* There is no container, and none can come.
LEMMA NothingToRemoveOK ==
    ASSUME NEW r, NEW b, OK(r, b), r.pc = "remove",
           r.box \in {"none", "gone"} \/ (r.box = "creating" /\ ~r.retry)
    PROVE  OK(Returned(r), b)
<1> DEFINE s == Returned(r)
<1>1. s \in CallType
  BY ReturnedType DEF OK
<1>2. CommandOK(s, b)
  BY DEF OK, CallOK, CommandOK, CallType, Returned
<1>3. ExitOK(s, b)
  BY DEF OK, CallOK, ExitOK, CallType, Returned
<1>4. RemainsOK(s, b)
  BY DEF OK, CallOK, RemainsOK, CallType, Returned
<1>5. OutcomeOK(s, b)
  BY DEF OK, CallOK, OutcomeOK, RemainsOK, Returned
<1> QED
  BY <1>1, <1>2, <1>3, <1>4, <1>5 DEF OK, CallOK, CallType, Returned

\* docker rm --force takes the container and what runs in it.
LEMMA RemovedOK ==
    ASSUME NEW r, NEW b, OK(r, b), r.pc = "remove", r.box \in {"created", "running", "ended"}
    PROVE  OK(Removed(r), b)
<1> DEFINE s == Removed(r)
<1>1. s \in CallType
  BY RemovedType DEF OK
<1>2. /\ s.pc = "remove" /\ s.box = "gone" /\ s.cmd # "running"
      /\ s.cmd = "unstarted" <=> r.cmd = "unstarted"
      /\ s.cmd = "ended" <=> r.cmd = "ended"
      /\ s.starts = r.starts /\ s.status = r.status
      /\ s.marker = r.marker /\ s.forged = r.forged /\ s.exit = r.exit
  BY DEF OK, CallType, Removed, Killed
<1>3. CommandOK(s, b)
  BY <1>2 DEF OK, CallOK, CommandOK
<1>4. ExitOK(s, b)
  BY <1>2 DEF ExitOK
<1>5. RemainsOK(s, b)
  BY DEF OK, CallOK, RemainsOK, CallType, Removed
<1>6. OutcomeOK(s, b)
  <2>1. s.err = r.err
    BY DEF OK, CallType, Removed
  <2> QED
    BY <1>2, <2>1 DEF OK, CallOK, OutcomeOK
<1> QED
  BY <1>1, <1>2, <1>3, <1>4, <1>5, <1>6 DEF OK, CallOK


\* A local command ends.
LEMMA LocalEndsOK ==
    ASSUME NEW r, NEW b, OK(r, b), r.cmd = "running", b = "local",
           NEW t \in ExitCodes, NEW left \in BOOLEAN
    PROVE  OK([r EXCEPT !.cmd = "ended", !.status = t, !.group = left,
                        !.proc = "exited", !.exit = t], b)
<1> DEFINE s == [r EXCEPT !.cmd = "ended", !.status = t, !.group = left,
                        !.proc = "exited", !.exit = t]
<1>1. s \in CallType
  BY DEF OK, CallType, ExitCodes
<1>2. CommandOK(s, b)
  BY DEF OK, CallOK, CommandOK, CallType, ExitCodes, Statuses, Reserved, NoStatus
<1>3. ExitOK(s, b)
  BY DEF OK, CallOK, ExitOK, CommandOK, CallType
<1>4. RemainsOK(s, b)
  BY DEF OK, CallOK, RemainsOK, CommandOK, CallType
<1>5. OutcomeOK(s, b)
  BY DEF OK, CallOK, OutcomeOK, RemainsOK, CommandOK, CallType
<1> QED
  BY <1>1, <1>2, <1>3, <1>4, <1>5 DEF OK, CallOK, CallType, Unstarted

\* A command ends under SRT.
LEMMA NativeEndsOK ==
    ASSUME NEW r, NEW b, OK(r, b), r.cmd = "running", b = "native",
           NEW t \in Statuses, NEW left \in BOOLEAN, NEW m \in {t, r.marker}
    PROVE  OK([r EXCEPT !.cmd = "ended", !.status = t, !.group = left,
                        !.marker = m], b)
<1> DEFINE s == [r EXCEPT !.cmd = "ended", !.status = t, !.group = left,
                        !.marker = m]
<1>1. s \in CallType
  BY DEF OK, CallType, ExitCodes
<1>2. CommandOK(s, b)
  BY DEF OK, CallOK, CommandOK, CallType, Statuses, Reserved
<1>3. ExitOK(s, b)
  BY DEF OK, CallOK, ExitOK, CommandOK, CallType
<1>4. RemainsOK(s, b)
  BY DEF OK, CallOK, RemainsOK, CommandOK, CallType
<1>5. OutcomeOK(s, b)
  BY DEF OK, CallOK, OutcomeOK, RemainsOK, CommandOK, CallType
<1> QED
  BY <1>1, <1>2, <1>3, <1>4, <1>5 DEF OK, CallOK, CallType, Unstarted

\* ... or writes the marker itself.
LEMMA ForgesMarkerOK ==
    ASSUME NEW r, NEW b, OK(r, b), r.pc = "run", b = "native",
           r.cmd = "running" \/ r.group, NEW m \in ExitCodes \cup {None}
    PROVE  OK([r EXCEPT !.marker = m, !.forged = TRUE], b)
<1> DEFINE s == [r EXCEPT !.marker = m, !.forged = TRUE]
<1>1. s \in CallType
  BY DEF OK, CallType, ExitCodes
<1>2. CommandOK(s, b)
  BY DEF OK, CallOK, CommandOK, CallType
<1>3. ExitOK(s, b)
  BY DEF OK, CallOK, ExitOK, CommandOK, CallType
<1>4. RemainsOK(s, b)
  BY DEF OK, CallOK, RemainsOK, CommandOK, CallType
<1>5. OutcomeOK(s, b)
  BY DEF OK, CallOK, OutcomeOK, RemainsOK, CommandOK, CallType
<1> QED
  BY <1>1, <1>2, <1>3, <1>4, <1>5 DEF OK, CallOK, CallType, Unstarted

\* A command ends in its container.
LEMMA DockerEndsOK ==
    ASSUME NEW r, NEW b, OK(r, b), r.cmd = "running", b = "docker",
           NEW t \in Statuses
    PROVE  OK([r EXCEPT !.cmd = "ended", !.status = t, !.box = "ended"], b)
<1> DEFINE s == [r EXCEPT !.cmd = "ended", !.status = t, !.box = "ended"]
<1>1. s \in CallType
  BY DEF OK, CallType, ExitCodes
<1>2. CommandOK(s, b)
  BY DEF OK, CallOK, CommandOK, CallType, Statuses, Reserved
<1>3. ExitOK(s, b)
  BY DEF OK, CallOK, ExitOK, CallType
<1>4. RemainsOK(s, b)
  BY DEF OK, CallOK, RemainsOK, CallType
<1>5. OutcomeOK(s, b)
  BY DEF OK, CallOK, OutcomeOK, CallType, CommandOK, ExitOK
<1> QED
  BY <1>1, <1>2, <1>3, <1>4, <1>5 DEF OK, CallOK, CallType, Unstarted

\* SRT starts the command.
LEMMA LauncherStartsOK ==
    ASSUME NEW r, NEW b, OK(r, b), r.proc = "running", b = "native",
           r.cmd = "unstarted"
    PROVE  OK([r EXCEPT !.cmd = "running", !.starts = @ + 1], b)
<1> DEFINE s == [r EXCEPT !.cmd = "running", !.starts = @ + 1]
<1>1. s \in CallType
  BY StartedType DEF OK
<1>2. CommandOK(s, b)
  BY DEF OK, CallOK, CommandOK, RemainsOK, CallType
<1>3. ExitOK(s, b)
  BY DEF OK, CallOK, ExitOK, CallType
<1>4. RemainsOK(s, b)
  BY DEF OK, CallOK, RemainsOK, CallType
<1>5. OutcomeOK(s, b)
  BY DEF OK, CallOK, OutcomeOK, CallType
<1> QED
  BY <1>1, <1>2, <1>3, <1>4, <1>5 DEF OK, CallOK, CallType, Unstarted

\* SRT exits, with any code and at any time.
LEMMA LauncherExitsOK ==
    ASSUME NEW r, NEW b, OK(r, b), r.proc = "running", b = "native",
           NEW x \in ExitCodes, NEW k \in {r.cmd, Killed(r.cmd)}
    PROVE  OK([r EXCEPT !.proc = "exited", !.exit = x, !.cmd = k], b)
<1> DEFINE s == [r EXCEPT !.proc = "exited", !.exit = x, !.cmd = k]
<1>1. s \in CallType
  BY DEF OK, CallType, ExitCodes, Killed
<1>2. CommandOK(s, b)
  BY DEF OK, CallOK, CommandOK, CallType, Killed
<1>3. ExitOK(s, b)
  BY DEF OK, CallOK, ExitOK, CommandOK, CallType, Killed
<1>4. RemainsOK(s, b)
  BY DEF OK, CallOK, RemainsOK, CommandOK, CallType, Killed
<1>5. OutcomeOK(s, b)
  BY DEF OK, CallOK, OutcomeOK, RemainsOK, CommandOK, CallType, Killed
<1> QED
  BY <1>1, <1>2, <1>3, <1>4, <1>5 DEF OK, CallOK, CallType, Unstarted, Killed

\* The docker CLI asks for a container.
LEMMA CliCreatesOK ==
    ASSUME NEW r, NEW b, OK(r, b), r.proc = "running", b = "docker",
           r.box = "none"
    PROVE  OK([r EXCEPT !.box = "creating"], b)
<1> DEFINE s == [r EXCEPT !.box = "creating"]
<1>1. s \in CallType
  BY DEF OK, CallType
<1>2. CommandOK(s, b)
  BY DEF OK, CallOK, CommandOK, CallType
<1>3. ExitOK(s, b)
  BY DEF OK, CallOK, ExitOK, CallType
<1>4. RemainsOK(s, b)
  BY DEF OK, CallOK, RemainsOK, CallType
<1>5. OutcomeOK(s, b)
  BY DEF OK, CallOK, OutcomeOK, RemainsOK
<1> QED
  BY <1>1, <1>2, <1>3, <1>4, <1>5 DEF OK, CallOK, CallType, Unstarted

\* ... starts it.
LEMMA CliStartsOK ==
    ASSUME NEW r, NEW b, OK(r, b), r.proc = "running", b = "docker",
           r.box = "created"
    PROVE  OK([r EXCEPT !.box = "running", !.cmd = "running", !.starts = @ + 1], b)
<1> DEFINE s == [r EXCEPT !.box = "running", !.cmd = "running",
                          !.starts = @ + 1]
<1>1. s \in CallType
  BY StartedType DEF OK
<1>2. CommandOK(s, b)
  BY DEF OK, CallOK, CommandOK, CallType
<1>3. ExitOK(s, b)
  BY DEF OK, CallOK, ExitOK, CallType
<1>4. RemainsOK(s, b)
  BY DEF OK, CallOK, RemainsOK, CallType
<1>5. OutcomeOK(s, b)
  BY DEF OK, CallOK, OutcomeOK, RemainsOK
<1> QED
  BY <1>1, <1>2, <1>3, <1>4, <1>5 DEF OK, CallOK, CallType, Unstarted

\* ... fails or is killed.
LEMMA CliFailsOK ==
    ASSUME NEW r, NEW b, OK(r, b), r.proc = "running", b = "docker",
           r.box # "creating", NEW x \in ExitCodes \ {0}, NEW d \in BOOLEAN
    PROVE  OK([r EXCEPT !.proc = "exited", !.exit = x, !.diagnosed = d], b)
<1> DEFINE s == [r EXCEPT !.proc = "exited", !.exit = x, !.diagnosed = d]
<1>1. s \in CallType
  BY DEF OK, CallType, ExitCodes
<1>2. CommandOK(s, b)
  BY DEF OK, CallOK, CommandOK, CallType
<1>3. ExitOK(s, b)
  BY DEF OK, CallOK, ExitOK, CommandOK, CallType
<1>4. RemainsOK(s, b)
  BY DEF OK, CallOK, RemainsOK, CommandOK, CallType
<1>5. OutcomeOK(s, b)
  BY DEF OK, CallOK, OutcomeOK, RemainsOK, CommandOK, CallType
<1> QED
  BY <1>1, <1>2, <1>3, <1>4, <1>5 DEF OK, CallOK, CallType, Unstarted

\* ... passes the command's status on.
LEMMA CliEndsOK ==
    ASSUME NEW r, NEW b, OK(r, b), r.proc = "running", b = "docker",
           r.cmd = "ended", NEW d \in BOOLEAN
    PROVE  OK([r EXCEPT !.proc = "exited", !.exit = r.status, !.diagnosed = d], b)
<1> DEFINE s == [r EXCEPT !.proc = "exited", !.exit = r.status,
                          !.diagnosed = d]
<1>1. s \in CallType
  BY DEF OK, CallOK, CommandOK, CallType, ExitCodes
<1>2. CommandOK(s, b)
  BY DEF OK, CallOK, CommandOK, CallType
<1>3. ExitOK(s, b)
  BY DEF OK, CallOK, ExitOK, CallType, Unstarted, RemainsOK, CommandOK,
         Statuses, Backends, Reserved
<1>4. RemainsOK(s, b)
  BY DEF OK, CallOK, RemainsOK, CallType, CommandOK
<1>5. OutcomeOK(s, b)
  BY DEF OK, CallOK, OutcomeOK, RemainsOK, CallType
<1> QED
  BY <1>1, <1>2, <1>3, <1>4, <1>5 DEF OK, CallOK, CallType, Unstarted

\* The daemon answers a creation.
LEMMA CreatedOK ==
    ASSUME NEW r, NEW b, OK(r, b), r.box = "creating",
           NEW x \in {"created", "gone"}
    PROVE  OK([r EXCEPT !.box = x], b)
<1> DEFINE s == [r EXCEPT !.box = x]
<1>1. s \in CallType
  BY DEF OK, CallType
<1>2. CommandOK(s, b)
  BY DEF OK, CallOK, CommandOK, CallType
<1>3. ExitOK(s, b)
  BY DEF OK, CallOK, ExitOK, CallType
<1>4. RemainsOK(s, b)
  BY DEF OK, CallOK, RemainsOK, CallType
<1>5. OutcomeOK(s, b)
  BY DEF OK, CallOK, OutcomeOK, CallType
<1> QED
  BY <1>1, <1>2, <1>3, <1>4, <1>5 DEF OK, CallOK, CallType, Unstarted

\* The daemon removes a container that has ended.
LEMMA AutoRemovedOK ==
    ASSUME NEW r, NEW b, OK(r, b), r.box = "ended"
    PROVE  OK([r EXCEPT !.box = "gone"], b)
<1> DEFINE s == [r EXCEPT !.box = "gone"]
<1>1. s \in CallType
  BY DEF OK, CallType
<1>2. CommandOK(s, b)
  BY DEF OK, CallOK, CommandOK, CallType
<1>3. ExitOK(s, b)
  BY DEF OK, CallOK, ExitOK, CallType
<1>4. RemainsOK(s, b)
  BY DEF OK, CallOK, RemainsOK, CallType
<1>5. OutcomeOK(s, b)
  BY DEF OK, CallOK, OutcomeOK, CallType
<1> QED
  BY <1>1, <1>2, <1>3, <1>4, <1>5 DEF OK, CallOK, CallType, Unstarted
-----------------------------------------------------------------------------
(* The actions.                                                             *)

ExecutorInv == TypeOK /\ ExecutorInvariant

\* What the invariant says of one call.
LEMMA CallIsOK ==
    ASSUME ExecutorInv, NEW c \in Calls
    PROVE  OK(call[c], Backend(c))
BY DEF ExecutorInv, TypeOK, ExecutorInvariant, OK, Backend

\* A step of a call during service keeps the invariant.
LEMMA CallStep ==
    ASSUME ExecutorInv, phase = "serving", NEW c \in Calls, NEW s,
           OK(s, Backend(c)), Becomes(c, s)
    PROVE  ExecutorInv'
<1>1. TypeOK'
  BY DEF ExecutorInv, TypeOK, Becomes, OK
<1>2. StartupOK'
  BY DEF ExecutorInv, ExecutorInvariant, StartupOK, Becomes, Suitable, Policy, LocalMay,
         NetworkGiven, WritesGiven, LimitsGiven
<1>3. ASSUME NEW d \in Calls PROVE CallOK(call'[d], Backend(d)')
  <2>1. Backend(d)' = Backend(d)
    BY DEF Backend, Becomes
  <2>2. OK(call'[d], Backend(d))
    BY CallIsOK DEF Becomes, ExecutorInv, TypeOK
  <2> QED
    BY <2>1, <2>2 DEF OK
<1> QED
  BY <1>1, <1>2, <1>3 DEF ExecutorInv, ExecutorInvariant

\* Before service starts no call has begun, so nothing of one can happen.
LEMMA NotServing ==
    ASSUME ExecutorInv, NEW c \in Calls, phase # "serving"
    PROVE  /\ call[c].proc = "none" /\ call[c].cmd = "unstarted" /\ call[c].box = "none"
           /\ call[c].pc = "idle"
BY DEF ExecutorInv, ExecutorInvariant, StartupOK, NewCall

\* Each group of actions makes of a call one that is in order: it is dispatched
\* and prepared, ...
LEMMA BeginOK ==
    ASSUME ExecutorInv, NEW c \in Calls, Dispatch(c) \/ Prepare(c)
    PROVE  \E s : OK(s, Backend(c)) /\ Becomes(c, s)
<1> DEFINE r == call[c]
<1>1. OK(r, Backend(c))
  BY CallIsOK
<1> HIDE DEF OK, Becomes
<1>2. CASE Dispatch(c)
  BY <1>1, <1>2, DeclineOK, DispatchOK DEF Dispatch, Decline, At
<1>3. CASE PrepareLocal(c)
  BY <1>1, <1>3, DeclineOK, PreparedOK DEF PrepareLocal, Decline, At
<1>4. CASE PrepareNative(c)
  BY <1>1, <1>4, DeclineOK, DirMadeOK, DirFailsOK DEF PrepareNative, Decline, At, On
<1>5. CASE PrepareDocker(c)
  BY <1>1, <1>5, DeclineOK, PreparedOK DEF PrepareDocker, Decline, At
<1> QED
  BY <1>2, <1>3, <1>4, <1>5 DEF Prepare

\* ... the process is started, killed or returns.
LEMMA RunOK ==
    ASSUME ExecutorInv, NEW c \in Calls,
           Start(c) \/ Cancelled(c) \/ Kill(c) \/ RunReturns(c)
    PROVE  \E s : OK(s, Backend(c)) /\ Becomes(c, s)
<1>1. OK(call[c], Backend(c))
  BY CallIsOK
<1>2. CASE Start(c)
  BY <1>1, <1>2, StartFailsOK, StartOK, StartLocalOK DEF Start, At, On
<1>3. CASE Cancelled(c)
  BY <1>1, <1>3, CancelledOK DEF Cancelled
<1>4. CASE Kill(c)
  BY <1>1, <1>4, KillOK DEF Kill, At, On
<1>5. CASE RunReturns(c)
  BY <1>1, <1>5, RunReturnsOK DEF RunReturns, At
<1> QED
  BY <1>2, <1>3, <1>4, <1>5

\* ... the execution cleans up.
LEMMA EndOK ==
    ASSUME ExecutorInv, NEW c \in Calls, Clean(c) \/ Remove(c)
    PROVE  \E s : OK(s, Backend(c)) /\ Becomes(c, s)
<1>1. OK(call[c], Backend(c))
  BY CallIsOK
<1>2. CASE Clean(c)
  BY <1>1, <1>2, CleanOK, CleanLocalOK, LeakedOK, ToRemoveOK DEF Clean, At, On
<1>3. CASE Remove(c)
  <2>1. ASSUME call[c].box \in {"created", "running", "ended"}
        PROVE  OK(Returned(Removed(call[c])), Backend(c))
    <3>1. OK(Removed(call[c]), Backend(c))
      BY <1>1, <1>3, <2>1, RemovedOK DEF Remove, At
    <3>2. Removed(call[c]).pc = "remove" /\ Removed(call[c]).box = "gone"
      BY <1>1, <1>3 DEF OK, CallType, Removed, Remove, At
    <3> QED
      BY <3>1, <3>2, NothingToRemoveOK
  <2> QED
    BY <1>1, <1>3, <2>1, NothingToRemoveOK, LeakedOK DEF Remove, At
<1> QED
  BY <1>2, <1>3

\* ... the command, SRT, the docker CLI or the daemon moves.
LEMMA OutsideOK ==
    ASSUME ExecutorInv, NEW c \in Calls,
           Command(c) \/ Launcher(c) \/ Cli(c) \/ Daemon(c)
    PROVE  \E s : OK(s, Backend(c)) /\ Becomes(c, s)
<1>1. OK(call[c], Backend(c))
  BY CallIsOK
<1>2. CASE Command(c)
  <2>1. CASE LocalEnds(c)
    BY <1>1, <2>1, LocalEndsOK DEF LocalEnds, On
  <2>2. CASE NativeEnds(c)
    BY <1>1, <2>2, NativeEndsOK DEF NativeEnds, On
  <2>3. CASE DockerEnds(c)
    BY <1>1, <2>3, DockerEndsOK DEF DockerEnds, On
  <2>4. CASE ForgesMarker(c)
    BY <1>1, <2>4, ForgesMarkerOK DEF ForgesMarker, At, On
  <2> QED
    BY <1>2, <2>1, <2>2, <2>3, <2>4 DEF Command
<1>3. CASE Launcher(c)
  BY <1>1, <1>3, LauncherStartsOK, LauncherExitsOK DEF Launcher, On
<1>4. CASE Cli(c)
  BY <1>1, <1>4, CliCreatesOK, CliStartsOK, CliFailsOK, CliEndsOK DEF Cli, On
<1>5. CASE Daemon(c)
  BY <1>1, <1>5, CreatedOK, AutoRemovedOK DEF Daemon
<1> QED
  BY <1>2, <1>3, <1>4, <1>5

-----------------------------------------------------------------------------
(* Startup.                                                                 *)

\* A candidate that is eligible and passes its probes suits the policy.
LEMMA NativeSuits ==
    ASSUME TypeOK, StartupOK, phase \in {"coding", "explorer"},
           Eligible("native"), CheckIsolation
    PROVE  Suitable("native", phase = "explorer")
<1> DEFINE p == Policy(phase = "explorer")
<1>1. opts.mode \in {"auto", "native"}
  BY DEF TypeOK, StartupOK, Eligible, Mode, Suitable, Backends
<1>2. p.network \in {"denied", "allowlist"} /\ ~p.strict
  <2>1. RequiredCapabilities(p) \subseteq {"filesystem", "network", "network-allowlist"}
    BY DEF Eligible, Capabilities
  <2>2. p.network \in {"denied", "allowlist", "unrestricted"}
    BY DEF TypeOK, Policy
  <2> QED
    BY <2>1, <2>2 DEF RequiredCapabilities
<1>3. defect \notin {"defaults", "network", "writes"}
  BY DEF CheckIsolation, CheckSettingsFailure, CheckNetworkIsolation
<1> QED
  BY <1>1, <1>2, <1>3 DEF Suitable, NetworkGiven, WritesGiven

\* The same of docker.
LEMMA DockerSuits ==
    ASSUME TypeOK, StartupOK, phase \in {"coding", "explorer"},
           Eligible("docker"), CheckResourceSupport
    PROVE  Suitable("docker", phase = "explorer")
<1> DEFINE p == Policy(phase = "explorer")
<1>1. opts.mode \in {"auto", "docker"}
  BY DEF TypeOK, StartupOK, Eligible, Mode, Suitable, Backends
<1>2. p.network \in {"denied", "unrestricted"}
  <2>1. RequiredCapabilities(p) \subseteq
            {"filesystem", "network", "unrestricted-network", "memory", "cpu", "pids"}
    BY DEF Eligible, Capabilities
  <2>2. p.network \in {"denied", "allowlist", "unrestricted"}
    BY DEF TypeOK, Policy
  <2> QED
    BY <2>1, <2>2 DEF RequiredCapabilities
<1>3. LimitsGiven("docker")
  BY DEF LimitsGiven, CheckResourceSupport
<1> QED
  BY <1>1, <1>2, <1>3 DEF Suitable, NetworkGiven, WritesGiven

\* A step of startup that changes no call and keeps the rest in order.
LEMMA StartupStep ==
    ASSUME ExecutorInv, phase # "serving", UNCHANGED call, TypeOK', StartupOK'
    PROVE  ExecutorInv'
<1>1. ASSUME NEW c \in Calls PROVE CallOK(call'[c], Backend(c)')
  <2>1. call'[c] = NewCall
    BY DEF ExecutorInv, ExecutorInvariant, StartupOK
  <2>2. Backend(c)' \in Backends \cup {None}
    BY DEF TypeOK, Backend
  <2> QED
    BY <2>1, <2>2, FreshOK DEF OK
<1> QED
  BY <1>1 DEF ExecutorInv, ExecutorInvariant

\* Choosing a suitable candidate keeps the invariant.
LEMMA ChooseOK ==
    ASSUME ExecutorInv, phase \in {"coding", "explorer"}, NEW b \in Backends,
           Suitable(b, phase = "explorer"), Choose(b), UNCHANGED <<opts, defect, call>>
    PROVE  ExecutorInv'
<1>1. TypeOK'
  BY DEF ExecutorInv, TypeOK, Choose
<1>2. ASSUME NEW d, NEW o PROVE Suitable(d, o)' = Suitable(d, o)
  BY DEF Suitable, Policy, LocalMay, NetworkGiven, WritesGiven, LimitsGiven
<1>3. StartupOK'
  <2>1. b # None
    BY DEF Backends
  <2>2. CASE phase = "coding"
    BY <1>2, <2>1, <2>2 DEF ExecutorInv, ExecutorInvariant, StartupOK, Choose
  <2>3. CASE phase = "explorer"
    BY <1>2, <2>1, <2>3 DEF ExecutorInv, ExecutorInvariant, StartupOK, Choose
  <2> QED
    BY <2>2, <2>3
<1> QED
  BY <1>1, <1>3, StartupStep

\* The three actions of startup keep the invariant.
LEMMA StartupOKStep ==
    ASSUME ExecutorInv, TryNative \/ TryDocker \/ UseLocal
    PROVE  ExecutorInv'
<1>1. TypeOK /\ StartupOK
  BY DEF ExecutorInv, ExecutorInvariant
<1>2. ASSUME NEW d, NEW o, UNCHANGED <<opts, defect>> PROVE Suitable(d, o)' = Suitable(d, o)
  BY <1>2 DEF Suitable, Policy, LocalMay, NetworkGiven, WritesGiven, LimitsGiven
<1>3. CASE TryNative
  <2>1. CASE Eligible("native") /\ CheckIsolation /\ Choose("native")
    BY <1>1, <1>3, <2>1, NativeSuits, ChooseOK DEF TryNative, Backends
  <2>2. CASE trying' = "docker" /\ UNCHANGED <<phase, coding, explorer>>
    <3>1. TypeOK'
      BY <1>1, <1>3, <2>2 DEF TryNative, TypeOK
    <3>2. StartupOK'
      BY <1>1, <1>2, <1>3, <2>2 DEF TryNative, StartupOK
    <3> QED
      BY <1>3, <3>1, <3>2, StartupStep DEF TryNative
  <2> QED
    BY <1>3, <2>1, <2>2 DEF TryNative
<1>4. CASE TryDocker
  <2>1. CASE Eligible("docker") /\ CheckResourceSupport /\ Choose("docker")
    BY <1>1, <1>4, <2>1, DockerSuits, ChooseOK DEF TryDocker, Backends
  <2>2. CASE phase' = "failed" /\ UNCHANGED <<trying, coding, explorer>>
    <3>1. TypeOK'
      BY <1>1, <1>4, <2>2 DEF TryDocker, TypeOK
    <3>2. StartupOK'
      BY <1>1, <1>2, <1>4, <2>2 DEF TryDocker, StartupOK
    <3> QED
      BY <1>4, <3>1, <3>2, StartupStep DEF TryDocker
  <2> QED
    BY <1>4, <2>1, <2>2 DEF TryDocker
<1>5. CASE UseLocal
  <2>1. TypeOK'
    BY <1>1, <1>5 DEF UseLocal, TypeOK, Backends
  <2>2. LocalMay(Policy(FALSE)) => Suitable("local", FALSE)
    BY <1>5 DEF UseLocal, Suitable
  <2>3. StartupOK'
    BY <1>1, <1>2, <1>5, <2>2 DEF UseLocal, StartupOK
  <2> QED
    BY <1>5, <2>1, <2>3, StartupStep DEF UseLocal
<1> QED
  BY <1>3, <1>4, <1>5

-----------------------------------------------------------------------------
(* The theorems.                                                            *)

\* The initial states satisfy the invariant.
LEMMA InitOK == Init => ExecutorInv
<1> SUFFICES ASSUME Init PROVE ExecutorInv
  OBVIOUS
<1>1. TypeOK
  <2>1. NewCall \in CallType
    BY FreshOK DEF OK
  <2> QED
    BY <2>1 DEF Init, TypeOK
<1>2. StartupOK
  BY DEF Init, StartupOK
<1>3. ASSUME NEW c \in Calls PROVE CallOK(call[c], Backend(c))
  <2>1. call[c] = NewCall /\ Backend(c) \in Backends \cup {None}
    BY DEF Init, Backend
  <2> QED
    BY <2>1, FreshOK DEF OK
<1> QED
  BY <1>1, <1>2, <1>3 DEF ExecutorInv, ExecutorInvariant

\* Every step keeps it.
LEMMA NextOK == ExecutorInv /\ [Next]_vars => ExecutorInv'
<1> SUFFICES ASSUME ExecutorInv, [Next]_vars PROVE ExecutorInv'
  OBVIOUS
<1>1. CASE UseLocal \/ TryNative \/ TryDocker
  BY <1>1, StartupOKStep
<1>2. ASSUME NEW c \in Calls,
             Execute(c) \/ Cancelled(c) \/ Command(c) \/ Launcher(c) \/ Cli(c) \/ Daemon(c)
      PROVE  ExecutorInv'
  <2>1. \E s : OK(s, Backend(c)) /\ Becomes(c, s)
    BY <1>2, BeginOK, RunOK, EndOK, OutsideOK DEF Execute
  <2>2. phase = "serving"
    <3> SUFFICES ASSUME phase # "serving" PROVE FALSE
      OBVIOUS
    <3>1. /\ call[c].proc = "none" /\ call[c].cmd = "unstarted" /\ call[c].box = "none"
          /\ call[c].pc = "idle"
      BY NotServing
    <3>2. ~Execute(c) /\ ~Cancelled(c)
      BY <3>1 DEF Execute, Dispatch, Prepare, PrepareLocal, PrepareNative, PrepareDocker,
                  Start, Kill, RunReturns, Clean, Remove, Cancelled, At
    <3>3. ~Command(c) /\ ~Launcher(c) /\ ~Cli(c) /\ ~Daemon(c)
      BY <3>1 DEF Command, LocalEnds, NativeEnds, ForgesMarker, DockerEnds, At, Launcher, Cli, Daemon
    <3> QED
      BY <1>2, <3>2, <3>3
  <2> QED
    BY <2>1, <2>2, CallStep
<1>3. CASE UNCHANGED vars
  BY <1>3 DEF vars, ExecutorInv, TypeOK, ExecutorInvariant, StartupOK, Backend, Suitable,
              Policy, LocalMay, NetworkGiven, WritesGiven, LimitsGiven
<1> QED
  BY <1>1, <1>2, <1>3 DEF Next, Terminated

\* Every reachable state has the types and the invariant.
THEOREM ExecutorCorrect == Spec => []ExecutorInv
BY InitOK, NextOK, PTL DEF Spec

\* No command runs in a weaker sandbox than the command line asks for.
THEOREM ContainedAlways == Spec => []RanContained
<1>1. ExecutorInv => RanContained
  <2> SUFFICES ASSUME ExecutorInv, NEW c \in Calls, call[c].starts > 0
               PROVE  LET b == Backend(c)
                          p == Policy(c \in Scouts)
                      IN IF b = "local"
                         THEN opts.mode = "local" /\ c \notin Scouts /\ ~p.strict /\ p.network # "allowlist"
                         ELSE /\ opts.mode \in {"auto", b}
                              /\ NetworkGiven(b, p) = p.network
                              /\ WritesGiven(b, p) = ~p.readOnly
                              /\ p.strict => LimitsGiven(b)
    BY DEF RanContained
  <2>1. Backend(c) # None
    BY CallIsOK DEF OK, CallOK, CommandOK
  <2>2. Suitable(Backend(c), c \in Scouts)
    <3>1. CASE c \in Scouts
      <4>1. Suitable(explorer, TRUE)
        BY <2>1, <3>1 DEF ExecutorInv, ExecutorInvariant, StartupOK, Backend
      <4>2. (c \in Scouts) = TRUE
        BY <3>1
      <4> QED
        BY <3>1, <4>1, <4>2 DEF Backend
    <3>2. CASE c \notin Scouts
      <4>1. Suitable(coding, FALSE)
        BY <2>1, <3>2 DEF ExecutorInv, ExecutorInvariant, StartupOK, Backend
      <4>2. (c \in Scouts) = FALSE
        BY <3>2
      <4> QED
        BY <3>2, <4>1, <4>2 DEF Backend
    <3> QED
      BY <3>1, <3>2
  <2>3. Policy(c \in Scouts).readOnly = (c \in Scouts)
    BY DEF Policy
  <2> QED
    BY <2>2, <2>3 DEF Suitable, LocalMay
<1> QED
  BY <1>1, ExecutorCorrect, PTL

\* A reported success is the command's own.
THEOREM SuccessAlwaysEarned == Spec => []SuccessIsEarned
<1>1. ExecutorInv => SuccessIsEarned
  <2> SUFFICES ASSUME ExecutorInv, NEW c \in Calls, call[c].pc = "returned", ~call[c].forged
               PROVE  /\ ~call[c].isError =>
                             ~call[c].err /\ Earned(call[c]) /\ call[c].status = 0
                      /\ ~call[c].err /\ Backend(c) # "docker" => Earned(call[c])
    BY DEF SuccessIsEarned
  <2>1. OK(call[c], Backend(c))
    BY CallIsOK
  <2>2. ASSUME ~call[c].err, Backend(c) # "docker" \/ call[c].exit = 0
        PROVE  call[c].cmd = "ended" /\ call[c].exit = call[c].status
    BY <2>1, <2>2 DEF OK, CallOK, OutcomeOK
  <2>3. call[c].cmd = "ended" => call[c].starts = 1
    BY <2>1 DEF OK, CallOK, CommandOK
  <2>4. ~call[c].isError => ~call[c].err /\ call[c].exit = 0
    BY <2>1 DEF OK, CallOK, OutcomeOK, CallType
  <2> QED
    BY <2>2, <2>3, <2>4 DEF Earned
<1> QED
  BY <1>1, ExecutorCorrect, PTL

\* Nothing of a call outlives it unreported.
THEOREM NothingEverLeftBehind == Spec => []NothingLeftBehind
<1>1. ExecutorInv => NothingLeftBehind
  <2> SUFFICES ASSUME ExecutorInv, NEW c \in Calls, call[c].pc = "returned", ~call[c].leaked
               PROVE  /\ call[c].proc # "running" /\ ~call[c].group /\ ~call[c].dir
                      /\ call[c].box \in {"none", "gone"} /\ call[c].cmd # "running"
    BY DEF NothingLeftBehind
  <2>1. OK(call[c], Backend(c))
    BY CallIsOK
  <2>2. call[c].proc # "running" /\ ~call[c].group
    BY <2>1 DEF OK, CallOK, RemainsOK
  <2>3. ~call[c].dir /\ call[c].box \in {"none", "gone"}
    BY <2>1 DEF OK, CallOK, OutcomeOK
  <2>4. call[c].cmd # "running"
    BY <2>1, <2>2, <2>3 DEF OK, CallOK, CommandOK
  <2> QED
    BY <2>2, <2>3, <2>4
<1> QED
  BY <1>1, ExecutorCorrect, PTL
=============================================================================
