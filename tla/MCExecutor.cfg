\* Every mode, network and strictness; a call of either registry.
SPECIFICATION Spec
CONSTANTS
    Calls = {agent, scout}
    Scouts = {scout}
    Modes = {"auto", "native", "docker", "local"}
    Networks = {"denied", "allowlist", "unrestricted"}
    Defects = {"defaults", "writes", "network", "limits"}
    None = None
CONSTRAINT OneCall
INVARIANTS
    RanContained
    SuccessIsEarned
    NothingLeftBehind
CHECK_DEADLOCK TRUE
