\* Two requests, streamed or not, on one conversation that is never
\* cleared: is a turn stored that was never delivered?
CONSTANTS
    r1 = r1
    r2 = r2
    c1 = c1
    o1 = o1
    Requests = {r1, r2}
    Conversations = {c1}
    Objects = {o1}
    None = None
    MaxSessions = 1
    MaxTurns = 1
    MaxStored = 1
    MaxProjected = 1
    TTL = 0
    TurnSizes = {1}
    MaxClock = 0
    MaxClears = 0
    MaxCuts = 2
    MaxTokens = 0

SPECIFICATION Spec

\* Every request may have been answered and nothing be left to do.
CHECK_DEADLOCK FALSE

INVARIANT
    TurnOnlyAfterDone
