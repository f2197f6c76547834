------------------------------ MODULE Executor ------------------------------
(***************************************************************************)
(* Choice of a sandbox at startup (cmd/claw configureExecutors, executor   *)
(* NewConfigured) and the execution of bash calls on it: tools/registry,   *)
(* tools/bash and executor's native, docker and local backends.            *)
(*                                                                         *)
(* An execution is a goroutine of claw, a host process it starts (bash,    *)
(* the SRT launcher or the docker CLI, each in a process group of its own) *)
(* and, for docker, a daemon that creates and removes the container on its *)
(* own time. They are joined by signals and exit codes only.               *)
(***************************************************************************)
EXTENDS Integers

CONSTANTS
    Calls,     \* bash calls
    Scouts,    \* those made by the read-only subagent (the explorer registry)
    Modes,     \* values of -sandbox
    Networks,  \* values of -sandbox-network
    Defects,   \* what may be wrong with the host: with SRT, that it falls back
               \* to "defaults", lets through "writes" or the "network"; with
               \* the docker daemon, that it ignores resource "limits"
    None

ASSUME ExecutorAssumption ==
    /\ Scouts \subseteq Calls
    /\ Modes \subseteq {"auto", "native", "docker", "local"}
    /\ Networks \subseteq {"denied", "allowlist", "unrestricted"}
    /\ Defects \subseteq {"defaults", "writes", "network", "limits"}
    /\ None \notin {"native", "docker", "local"} \cup Defects \cup Int

VARIABLES
    opts,     \* the command line: mode, network, strict
    defect,   \* what is wrong with the host, or None
    phase,    \* of startup: coding, explorer, serving or failed
    trying,   \* the candidate selectConfigured has come to
    coding,   \* backend of the main registry, or None
    explorer, \* backend of the subagent's registry; None: it has no bash
    call      \* each call: the goroutine, its processes and what they left

vars == <<opts, defect, phase, trying, coding, explorer, call>>

\* A command's own exit status; 125 is also what the docker CLI uses.
Reserved == 125
Statuses == {0, 1, Reserved}

\* ExitCode of a process that a signal has ended, or of none at all.
NoStatus == -1
ExitCodes == Statuses \cup {NoStatus}

NewCall == [pc        |-> "idle",
            cancelled |-> FALSE,       \* ctx ended: caller or timeout
            proc      |-> "none",      \* the host process: none, running, exited
            exit      |-> NoStatus,    \* its exit code
            diagnosed |-> FALSE,       \* docker: stderr reads like a failure of the CLI
            group     |-> FALSE,       \* other processes of its group live
            dir       |-> FALSE,       \* native: private runtime directory
            marker    |-> None,        \* native: the number in the pinned file
            forged    |-> FALSE,       \* history: the command wrote to it itself
            box       |-> "none",      \* docker: the container, in the daemon
            cmd       |-> "unstarted", \* the command: running, ended, killed
            status    |-> None,        \* its own status, when it ended
            starts    |-> 0,           \* history: how often it was started
            retry     |-> FALSE,       \* docker: removal repeats on "not found"
            err       |-> FALSE,       \* Execute's error is not nil
            leaked    |-> FALSE,       \* ... and names what was not cleaned up
            isError   |-> FALSE]       \* ToolResult.IsError

Init == /\ opts \in [mode : Modes, network : Networks, strict : BOOLEAN]
        /\ defect \in Defects \cup {None}
        /\ phase = "coding"
        /\ trying = "native"
        /\ coding = None
        /\ explorer = None
        /\ call = [c \in Calls |-> NewCall]

-----------------------------------------------------------------------------
(* Startup. Policies and what a backend can enforce.                        *)

Policy(readOnly) == [readOnly |-> readOnly, network |-> opts.network, strict |-> opts.strict]

Capabilities == [native |-> {"filesystem", "network", "network-allowlist"},
                 docker |-> {"filesystem", "network", "unrestricted-network",
                             "memory", "cpu", "pids"}]

RequiredCapabilities(p) ==
    {"filesystem", "network"}
        \cup (IF p.network = "allowlist" THEN {"network-allowlist"} ELSE {})
        \cup (IF p.network = "unrestricted" THEN {"unrestricted-network"} ELSE {})
        \cup (IF p.strict THEN {"memory", "cpu", "pids"} ELSE {})

\* validateLocalPolicy.
LocalMay(p) == ~p.readOnly /\ ~p.strict /\ p.network # "allowlist"

\* configureExecutors pins the explorer to the backend that was chosen.
Mode == IF phase = "explorer" THEN coding ELSE opts.mode

\* mutant: an explicit mode is taken at its word.
EligibleIfNamed(b) ==
    Mode = b \/ (Mode = "auto" /\ RequiredCapabilities(Policy(phase = "explorer"))
                                    \subseteq Capabilities[b])

\* The mode allows candidate b, and b can enforce what the policy requires.
Eligible(b) == /\ Mode \in {"auto", b}
               /\ RequiredCapabilities(Policy(phase = "explorer")) \subseteq Capabilities[b]

\* The fixtures with which a new native executor tries the SRT it has found.
CheckSettingsFailure  == defect # "defaults"
CheckNetworkIsolation == defect # "network"
CheckIsolation        == CheckSettingsFailure /\ defect # "writes" /\ CheckNetworkIsolation

\* What the docker executor asks the daemon, when built and for each call.
CheckResourceSupport == defect # "limits"

Choose(b) == IF phase = "coding"
             THEN coding' = b /\ phase' = "explorer" /\ trying' = "native" /\ UNCHANGED explorer
             ELSE explorer' = b /\ phase' = "serving" /\ UNCHANGED <<trying, coding>>

\* The first candidate; its installation or its probes may fail for any reason.
TryNative ==
    /\ phase \in {"coding", "explorer"} /\ trying = "native" /\ Mode # "local"
    /\ \/ Eligible("native") /\ CheckIsolation /\ Choose("native")
       \/ trying' = "docker" /\ UNCHANGED <<phase, coding, explorer>>
    /\ UNCHANGED <<opts, defect, call>>

\* The second; the daemon or the image may be missing. Local is never tried.
TryDocker ==
    /\ phase \in {"coding", "explorer"} /\ trying = "docker"
    /\ \/ Eligible("docker") /\ CheckResourceSupport /\ Choose("docker")
       \/ phase' = "failed" /\ UNCHANGED <<trying, coding, explorer>>
    /\ UNCHANGED <<opts, defect, call>>

\* Local was asked for by name; the subagent then has no bash.
UseLocal ==
    /\ phase = "coding" /\ opts.mode = "local"
    /\ \/ LocalMay(Policy(FALSE)) /\ coding' = "local" /\ phase' = "serving"
       \/ phase' = "failed" /\ UNCHANGED coding
    /\ UNCHANGED <<opts, defect, trying, explorer, call>>

-----------------------------------------------------------------------------
(* The goroutine: registry, bash tool, Execute and runProcess.              *)

Backend(c) == IF c \in Scouts THEN explorer ELSE coding
On(c, b)   == Backend(c) = b
At(c, l)   == phase = "serving" /\ call[c].pc = l

\* A step of one call: startup is over and the other calls go on as they were.
Becomes(c, r) == /\ call' = [call EXCEPT ![c] = r]
                 /\ UNCHANGED <<opts, defect, phase, trying, coding, explorer>>

\* An error result before anything was made or started.
Decline(c) == Becomes(c, [call[c] EXCEPT !.pc = "returned", !.err = TRUE, !.isError = TRUE])

\* The registry does not know the tool, the approval middleware refuses, the
\* arguments are bad; or Execute is called.
Dispatch(c) ==
    /\ At(c, "idle")
    /\ \/ Decline(c)
       \/ Backend(c) # None /\ Becomes(c, [call[c] EXCEPT !.pc = "prepare"])

\* The checks of context, timeout and working directory, repeated for each call.
PrepareLocal(c) ==
    /\ At(c, "prepare") /\ On(c, "local")
    /\ Decline(c) \/ Becomes(c, [call[c] EXCEPT !.pc = "start"])

\* ... and of environment and workspace; then the private directory is made,
\* with which later preparation may still fail.
PrepareNative(c) ==
    /\ At(c, "prepare") /\ On(c, "native")
    /\ \/ Decline(c)
       \/ Becomes(c, [call[c] EXCEPT !.pc = "start", !.dir = TRUE])
       \/ Becomes(c, [call[c] EXCEPT !.pc = "clean", !.dir = TRUE, !.err = TRUE])

\* ... and of the daemon; until the container has a name there is nothing to
\* remove.
PrepareDocker(c) ==
    /\ At(c, "prepare") /\ On(c, "docker")
    /\ Decline(c) \/ (CheckResourceSupport /\ Becomes(c, [call[c] EXCEPT !.pc = "start"]))

\* cmd.Start: fails, also when the context has ended; a local process is the
\* command itself.
Start(c) ==
    /\ At(c, "start")
    /\ \/ Becomes(c, [call[c] EXCEPT !.pc = "clean", !.err = TRUE])
       \/ /\ ~call[c].cancelled /\ ~On(c, "local")
          /\ Becomes(c, [call[c] EXCEPT !.pc = "run", !.proc = "running"])
       \/ /\ ~call[c].cancelled /\ On(c, "local")
          /\ Becomes(c, [call[c] EXCEPT !.pc = "run", !.proc = "running",
                                        !.cmd = "running", !.starts = @ + 1])

\* The caller cancels or the execution budget is used up.
Cancelled(c) ==
    /\ phase = "serving"
    /\ call[c].pc \in {"prepare", "start", "run", "clean", "remove"}
    /\ ~call[c].cancelled
    /\ Becomes(c, [call[c] EXCEPT !.cancelled = TRUE])

Killed(cmd) == IF cmd = "running" THEN "killed" ELSE cmd

\* The command when its process group is killed: in a container it lives on.
KilledWith(b, cmd) == IF b = "docker" THEN cmd ELSE Killed(cmd)

\* cmd.Cancel: SIGKILL to the process group.
Kill(c) ==
    /\ At(c, "run") /\ call[c].proc = "running" /\ call[c].cancelled
    /\ Becomes(c, [call[c] EXCEPT !.proc = "exited", !.exit = NoStatus, !.group = FALSE,
                                  !.cmd = KilledWith(Backend(c), @)])

\* mutant: any completion of the launcher counts as one of the command.
ClassifiedBlindly(r, b) == b = "docker" /\ r.exit = Reserved /\ r.diagnosed

\* The backend finds that the exit code is not the command's.
Misreported(r, b) == \/ b = "native" /\ r.marker # r.exit
                     \/ b = "docker" /\ r.exit = Reserved /\ r.diagnosed

\* cmd.Run returns, after WaitDelay when children keep the pipes open, which is
\* an error unless the process failed itself. The rest of its group is killed.
RunReturns(c) ==
    /\ At(c, "run") /\ call[c].proc = "exited"
    /\ \E heldPipes \in BOOLEAN :
          /\ heldPipes => call[c].group \/ call[c].cmd = "running"
          /\ Becomes(c, [call[c] EXCEPT !.pc = "clean", !.group = FALSE,
                                        !.cmd = KilledWith(Backend(c), @),
                                        !.err = \/ call[c].cancelled
                                                \/ (heldPipes /\ call[c].exit = 0)
                                                \/ Misreported(call[c], Backend(c))])

\* Registry and bash tool turn an error or a non-zero exit into an error result.
Returned(r) == [r EXCEPT !.pc = "returned", !.isError = r.err \/ r.exit # 0]

\* What could not be removed is an error, joined to the one there is.
Leaked(r) == Returned([r EXCEPT !.err = TRUE, !.leaked = TRUE])

\* The deferred clean-up; docker goes on to remove the container, and repeats
\* that only if the context has ended by now.
Clean(c) ==
    /\ At(c, "clean")
    /\ \/ On(c, "local") /\ Becomes(c, Returned(call[c]))
       \/ On(c, "native") /\ Becomes(c, Returned([call[c] EXCEPT !.dir = FALSE]))
       \/ On(c, "native") /\ Becomes(c, Leaked(call[c]))
       \/ /\ On(c, "docker")
          /\ Becomes(c, [call[c] EXCEPT !.pc = "remove", !.retry = call[c].cancelled])

\* docker rm --force takes the container and what runs in it.
Removed(r) == [r EXCEPT !.box = "gone", !.cmd = Killed(@)]

\* mutant: the first "no such container" ends the removal.
RemoveOnce(c) ==
    /\ At(c, "remove")
    /\ \/ call[c].box \in {"none", "creating", "gone"} /\ Becomes(c, Returned(call[c]))
       \/ call[c].box \in {"created", "running", "ended"} /\ Becomes(c, Returned(Removed(call[c])))

\* "No such container" ends the loop at once, or after the retry second, in
\* which (an assumption) the daemon completes a creation it has accepted; any
\* other failure is reported.
Remove(c) ==
    /\ At(c, "remove")
    /\ \/ /\ call[c].box \in {"none", "gone"} \/ (call[c].box = "creating" /\ ~call[c].retry)
          /\ Becomes(c, Returned(call[c]))
       \/ /\ call[c].box \in {"created", "running", "ended"}
          /\ Becomes(c, Returned(Removed(call[c])))
       \/ Becomes(c, Leaked(call[c]))

-----------------------------------------------------------------------------
(* The command, the SRT launcher, the docker CLI and its daemon.            *)

\* A local command ends by itself or by a signal, perhaps with children left in
\* its group.
LocalEnds(c) ==
    /\ call[c].cmd = "running" /\ On(c, "local")
    /\ \E s \in ExitCodes, left \in BOOLEAN :
          Becomes(c, [call[c] EXCEPT !.cmd = "ended", !.status = s, !.group = left,
                                     !.proc = "exited", !.exit = s])

\* Under SRT the line that follows it writes its status to the marker, unless
\* the command has made that impossible.
NativeEnds(c) ==
    /\ call[c].cmd = "running" /\ On(c, "native")
    /\ \E s \in Statuses, left \in BOOLEAN :
          \E m \in {s, call[c].marker} :
              Becomes(c, [call[c] EXCEPT !.cmd = "ended", !.status = s, !.group = left,
                                         !.marker = m])

\* The command, or a child it has left, may write to the marker what it likes.
ForgesMarker(c) ==
    /\ At(c, "run") /\ On(c, "native") /\ (call[c].cmd = "running" \/ call[c].group)
    /\ \E m \in ExitCodes \cup {None} :
          Becomes(c, [call[c] EXCEPT !.marker = m, !.forged = TRUE])

\* In a container nothing is left of it.
DockerEnds(c) ==
    /\ call[c].cmd = "running" /\ On(c, "docker")
    /\ \E s \in Statuses :
          Becomes(c, [call[c] EXCEPT !.cmd = "ended", !.status = s, !.box = "ended"])

Command(c) == LocalEnds(c) \/ NativeEnds(c) \/ ForgesMarker(c) \/ DockerEnds(c)

\* SRT starts the command and passes its status on; or it fails or is killed,
\* before, beside or after it, and the command may outlive it in the group.
Launcher(c) ==
    /\ On(c, "native") /\ call[c].proc = "running"
    /\ \/ /\ call[c].cmd = "unstarted"
          /\ Becomes(c, [call[c] EXCEPT !.cmd = "running", !.starts = @ + 1])
       \/ \E x \in ExitCodes, k \in {call[c].cmd, Killed(call[c].cmd)} :
             Becomes(c, [call[c] EXCEPT !.proc = "exited", !.exit = x, !.cmd = k])

\* docker run: create, start, wait. It passes on the status of a command that has
\* ended, whose stderr may read like a failure of docker. Or it fails by itself: it
\* is killed, or what it asks of the daemon fails, which is 125 and said in known
\* words before the command has started, in any words afterwards. Two assumptions:
\* it exits 0 only for a command that has, and does not fail while the daemon has
\* yet to answer its request for a container.
Cli(c) ==
    /\ On(c, "docker") /\ call[c].proc = "running"
    /\ \/ /\ call[c].box = "none"
          /\ Becomes(c, [call[c] EXCEPT !.box = "creating"])
       \/ /\ call[c].box = "created"
          /\ Becomes(c, [call[c] EXCEPT !.box = "running", !.cmd = "running", !.starts = @ + 1])
       \/ \E d \in BOOLEAN :
             \/ /\ call[c].cmd = "ended"
                /\ Becomes(c, [call[c] EXCEPT !.proc = "exited", !.exit = call[c].status,
                                              !.diagnosed = d])
             \/ /\ call[c].box # "creating"
                /\ \E x \in ExitCodes \ {0} :
                      /\ x = Reserved /\ call[c].cmd = "unstarted" => d
                      /\ Becomes(c, [call[c] EXCEPT !.proc = "exited", !.exit = x,
                                                    !.diagnosed = d])

\* The daemon answers a creation, also for a CLI that is dead, and removes a
\* container that has ended (--rm).
Daemon(c) ==
    \/ /\ call[c].box = "creating"
       /\ \E b \in {"created", "gone"} : Becomes(c, [call[c] EXCEPT !.box = b])
    \/ /\ call[c].box = "ended"
       /\ Becomes(c, [call[c] EXCEPT !.box = "gone"])

-----------------------------------------------------------------------------
Prepare(c) == PrepareLocal(c) \/ PrepareNative(c) \/ PrepareDocker(c)
Execute(c) == \/ Dispatch(c) \/ Prepare(c) \/ Start(c)
              \/ Kill(c) \/ RunReturns(c) \/ Clean(c) \/ Remove(c)

Terminated == /\ \/ phase = "failed"
                 \/ phase = "serving" /\ \A c \in Calls : call[c].pc = "returned"
              /\ UNCHANGED vars

Next == \/ UseLocal \/ TryNative \/ TryDocker
        \/ \E c \in Calls : Execute(c) \/ Cancelled(c) \/ Command(c)
                                \/ Launcher(c) \/ Cli(c) \/ Daemon(c)
        \/ Terminated

Spec == Init /\ [][Next]_vars

-----------------------------------------------------------------------------
(* What the sandbox amounts to.                                             *)

\* What a command gets from the settings and flags a backend makes of a policy,
\* on this host: buildSRTSettings, buildFilesystemPolicy, buildDockerArgsContext.
NetworkGiven(b, p) ==
    IF b = "native" /\ defect \notin {"defaults", "network"}
    THEN IF p.network = "allowlist" THEN "allowlist" ELSE "denied"
    ELSE IF b = "docker" /\ p.network = "denied" THEN "denied" ELSE "unrestricted"
WritesGiven(b, p) ==
    b = "local" \/ ~p.readOnly \/ (b = "native" /\ defect \in {"defaults", "writes"})
LimitsGiven(b) == b = "docker" /\ defect # "limits"

-----------------------------------------------------------------------------
(* Properties. *)

\* "Implementations must never silently switch execution backends": a command
\* that was started ran where the network is exactly the one configured, a
\* subagent cannot write and required limits are enforced; or on the host,
\* when that was asked for by name, never for a subagent or a strict policy.
RanContained ==
    \A c \in Calls : call[c].starts > 0 =>
        LET b == Backend(c)
            p == Policy(c \in Scouts)
        IN IF b = "local"
           THEN opts.mode = "local" /\ c \notin Scouts /\ ~p.strict /\ p.network # "allowlist"
           ELSE /\ opts.mode \in {"auto", b}
                /\ NetworkGiven(b, p) = p.network
                /\ WritesGiven(b, p) = ~p.readOnly
                /\ p.strict => LimitsGiven(b)

\* The command was started once, ended by itself, and its status is the exit code.
Earned(r) == r.starts = 1 /\ r.cmd = "ended" /\ r.exit = r.status

\* A tool result that is not an error stands for a command that was started once,
\* came to its end and succeeded, whatever happened to the process that carried
\* it; on the host and under SRT an exit code without an error is always the
\* command's, which under docker a failure of the CLI may counterfeit. A command
\* under SRT that has written the marker itself deceives only about itself
\* ("not a security boundary") and is left out.
SuccessIsEarned ==
    \A c \in Calls :
        LET r == call[c] IN
        r.pc = "returned" /\ ~r.forged =>
            /\ ~r.isError => ~r.err /\ Earned(r) /\ r.status = 0
            /\ ~r.err /\ Backend(c) # "docker" => Earned(r)

\* "Cancellation must stop execution": once Execute has returned, no process of
\* the group, no private directory and no container of the call exists or can
\* still come into being, unless the error says what could not be removed.
NothingLeftBehind ==
    \A c \in Calls :
        LET r == call[c] IN
        r.pc = "returned" /\ ~r.leaked =>
            /\ r.proc # "running" /\ ~r.group
            /\ ~r.dir
            /\ r.box \in {"none", "gone"}
            /\ r.cmd # "running"

-----------------------------------------------------------------------------
(* The inductive invariant of the three.                                    *)

Backends == {"native", "docker", "local"}

CallType == [pc        : {"idle", "prepare", "start", "run", "clean", "remove", "returned"},
             cancelled : BOOLEAN,
             proc      : {"none", "running", "exited"},
             exit      : ExitCodes,
             diagnosed : BOOLEAN,
             group     : BOOLEAN,
             dir       : BOOLEAN,
             marker    : ExitCodes \cup {None},
             forged    : BOOLEAN,
             box       : {"none", "creating", "created", "running", "ended", "gone"},
             cmd       : {"unstarted", "running", "ended", "killed"},
             status    : ExitCodes \cup {None},
             starts    : Nat,
             retry     : BOOLEAN,
             err       : BOOLEAN,
             leaked    : BOOLEAN,
             isError   : BOOLEAN]

\* The type of every variable.
TypeOK == /\ opts \in [mode : Modes, network : Networks, strict : BOOLEAN]
          /\ defect \in Defects \cup {None}
          /\ phase \in {"coding", "explorer", "serving", "failed"}
          /\ trying \in {"native", "docker"}
          /\ coding \in Backends \cup {None}
          /\ explorer \in Backends \cup {None}
          /\ call \in [Calls -> CallType]

\* Backend b may run what a registry's policy allows.
Suitable(b, readOnly) ==
    LET p == Policy(readOnly) IN
    IF b = "local" THEN opts.mode = "local" /\ LocalMay(p)
    ELSE /\ opts.mode \in {"auto", b}
         /\ NetworkGiven(b, p) = p.network
         /\ WritesGiven(b, p) = ~p.readOnly
         /\ p.strict => LimitsGiven(b)

\* What startup has settled so far.
StartupOK == /\ phase = "coding" => coding = None
             /\ phase = "explorer" => coding # None
             /\ phase \in {"coding", "explorer"} => explorer = None
             /\ coding # None => Suitable(coding, FALSE)
             /\ explorer # None => Suitable(explorer, TRUE)
             /\ phase # "serving" => \A c \in Calls : call[c] = NewCall

\* A call before its process is started.
Unstarted(r) == /\ r.proc = "none" /\ r.cmd = "unstarted" /\ r.box = "none"
                /\ r.marker = None /\ ~r.group

\* The command is started once, ends or is killed with what carries it.
CommandOK(r, b) == /\ r.starts = IF r.cmd = "unstarted" THEN 0 ELSE 1
                   /\ r.cmd = "ended" => r.status # None
                   /\ r.marker # None /\ ~r.forged => r.cmd = "ended" /\ r.marker = r.status
                   /\ r.cmd = "running" =>
                          IF b = "docker" THEN r.box = "running" ELSE r.pc = "run"
                   /\ b = "docker" /\ r.cmd # "unstarted" =>
                          r.box \in {"running", "ended", "gone"}
                   /\ b = None => r.cmd = "unstarted"

\* What an exit code says of the command before anybody looks at the marker.
ExitOK(r, b) ==
    /\ r.pc = "run" /\ r.proc = "exited" /\ ~r.cancelled
    /\ b = "local" \/ (b = "docker" /\ r.exit = 0)
    => r.cmd = "ended" /\ r.exit = r.status

\* What an execution has made is there to be removed until it is.
RemainsOK(r, b) == /\ r.proc = "running" => r.pc = "run"
                   /\ r.pc \in {"clean", "remove", "returned"} => ~r.group
                   /\ r.dir => b = "native" /\ r.pc # "prepare"
                   /\ r.pc = "remove" => b = "docker"
                   /\ r.box # "none" => b = "docker"
                   /\ r.box = "creating" /\ r.proc # "running" => r.cancelled
                   /\ r.box = "creating" /\ r.pc = "remove" => r.retry

\* The outcome, once Run has returned.
OutcomeOK(r, b) ==
    /\ /\ r.pc \in {"clean", "remove", "returned"} /\ ~r.err /\ ~r.forged
       /\ b # "docker" \/ r.exit = 0
       => r.cmd = "ended" /\ r.exit = r.status
    /\ r.pc = "returned" => r.isError = (r.err \/ r.exit # 0)
    /\ r.pc = "returned" /\ ~r.leaked => ~r.dir /\ r.box \in {"none", "gone"}

\* Everything about one call on backend b.
CallOK(r, b) == /\ r.pc \in {"idle", "prepare", "start"} => Unstarted(r)
                /\ r.pc = "idle" => r = NewCall
                /\ r.pc # "idle" => b # None \/ r.pc = "returned"
                /\ CommandOK(r, b) /\ ExitOK(r, b) /\ RemainsOK(r, b) /\ OutcomeOK(r, b)

\* Everything above together.
ExecutorInvariant == StartupOK /\ \A c \in Calls : CallOK(call[c], Backend(c))
=============================================================================
