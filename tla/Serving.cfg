\* Two requests, streamed or not, on one conversation that is never cleared,
\* answers without increments, and one connection that goes: how streams end.
\* Two generations, two writes, one verifier that fails and two starts: what is
\* ready and loaded.
CONSTANTS
    r1 = r1
    r2 = r2
    c1 = c1
    o1 = o1
    Requests = {r1, r2}
    Conversations = {c1}
    Objects = {o1}
    None = None
    MaxSessions = 1
    MaxTurns = 1
    MaxStored = 1
    MaxProjected = 1
    TTL = 0
    TurnSizes = {1}
    MaxClock = 0
    MaxClears = 0
    MaxCuts = 1
    MaxTokens = 0
    LastGeneration = 1
    MaxRootWrites = 2
    Dependencies = {"mysql"}
    MaxVerifierFaults = 1
    MaxServiceStarts = 2

SPECIFICATION ServingSpec

\* Every request may have been answered and nothing be left to do.
CHECK_DEADLOCK FALSE

INVARIANTS
    ServiceTrue

PROPERTIES
    KeepsMemoryContract
    PageSettles
    ReadinessFollows
