\* One chat: safety, the refinement and the liveness properties under FairSpec.
SPECIFICATION FairSpec
CONSTANTS
    a1 = a1
    a2 = a2
    approve = approve
    noise = noise
    A = A
    Messages = {a1, a2, approve, noise}
    Controls = {approve}
    Unaddressed = {noise}
    Routes = {A}
    RouteOf <- MCRouteOf
    Handlers = {h1, h2}
    Runtimes = {c1, c2}
    QueueSize = 1
    MaxSeen = 1
    IdleTimeout = TRUE
    ShowAccepted = TRUE
    MaxReceives = 2
    None = None
INVARIANTS
    OneRuntimePerRoute
    NoTaskStranded
    QuietAfterShutdown
PROPERTIES
    AcceptedNoticeFirst
    ImplementsIntake
    IdleRuntimesEvicted
    ShutdownCompletes
CHECK_DEADLOCK TRUE
