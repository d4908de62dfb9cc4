\* One request, streamed or not, with up to two increments and one connection
\* that goes, on a conversation that may be cleared; a build of three voice
\* lines and one that lacks some; three wiki pages and an import; two builds of
\* one version, with a crawl, a recovery and a fault; up to two resources for
\* a phase.
CONSTANTS
    r1 = r1
    c1 = c1
    o1 = o1
    o2 = o2
    Requests = {r1}
    Conversations = {c1}
    Objects = {o1, o2}
    None = None
    MaxSessions = 1
    MaxTurns = 1
    MaxStored = 1
    MaxProjected = 1
    TTL = 0
    TurnSizes = {1}
    MaxClock = 0
    MaxClears = 1
    MaxCuts = 1
    MaxTokens = 2
    VoiceLines = {1, 2, 3}
    Languages = {"zh"}
    MaxVoiceRows = 3
    MaxAsked = 4
    MaxProcesses = 2
    PageLines = 1
    MaxCursors = 2
    LastPage = 3
    PageLimit = 1
    MaxWikiMoves = 4
    MaxImports = 1
    k1 = k1
    k2 = k2
    q1 = q1
    CorpusRuns = {k1, k2}
    Proposals = {q1}
    MaxCrawls = 1
    MaxRecoveries = 1
    MaxCorpusFaults = 1
    MaxResources = 2
    PlanSizes = {1, 2}
    FreeBytes = {4}
    CloudBytes = {9}
    GrowthBytes = {1}
    PlanWorkers = 1
    P0Budget = 2
    P1Budget = 3
    MinimumFree = 2
    LocalFloor = 1
    CloudFloor = 1
    ExpansionUnit = 2

SPECIFICATION PagesSpec
SYMMETRY Alike

\* Every request may have been answered, every page be shown and every plan be
\* made, and nothing be left to do.
CHECK_DEADLOCK FALSE

INVARIANTS
    StreamContract
    VoicesInOrder
    WikiShown
    CandidateTrue
    PlanSound
