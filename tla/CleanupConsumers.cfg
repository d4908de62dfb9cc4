\* The wiki is imported again while the retired corpus is removed.
CONSTANTS
    MediaKeys = {1, 2}
    Observers = {"apply", "verify"}
    Operations = {"restore"}
    NoObject = NoObject
    MaxForeign = 1
    MaxMediaFaults = 0
    Legacy = {1, 2}
    Rag = {}
    Probes = {}
    LocalPaths = {1}

SPECIFICATION CleanupSpec

\* An accepted cleanup is the end.
CHECK_DEADLOCK FALSE

INVARIANTS
    ShownIsKept
