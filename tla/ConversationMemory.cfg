CONSTANTS
    Requests = {r1, r2, r3}
    Conversations = {c1, c2}
    Objects = {o1, o2}
    None = None
    MaxSessions = 1
    MaxTurns = 2
    MaxStored = 3
    MaxProjected = 2
    TTL = 1
    TurnSizes = {1, 2}
    MaxClock = 2
    MaxClears = 1
SPECIFICATION Spec
INVARIANTS
    LeaseProtocol
    SerialHolder
    ClearedIsForgotten
    ProjectionCurrent
    StoreBounded
PROPERTIES
    WaiterServed
