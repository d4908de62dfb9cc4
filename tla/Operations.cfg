\* Deployments with two kills or failed commands over three generations; two
\* uploads of one plan and one cleanup, each with one write of others and one
\* fault; two builds of a collection and two downloads with two faults; two
\* closures of three parts.
CONSTANTS
    blue = blue
    green = green
    r1 = r1
    r2 = r2
    Slots = {blue, green}
    Releases = {r1, r2}
    None = None
    Failing = {"unlink"}
    MaxGen = 3
    MaxFaults = 2
    MediaKeys = {1, 2, 3}
    Uploaders = {"u1", "u2"}
    Observers = {"u1", "u2", "apply", "verify"}
    Operations = {"u1", "u2", "restore"}
    NoObject = NoObject
    MaxForeign = 1
    MaxMediaFaults = 1
    Approved = {1, 2}
    Legacy = {1, 2, 3}
    Rag = {1}
    Probes = {}
    LocalPaths = {1}
    ShadowBuilders = {"s1", "s2"}
    Collections = {"live", "shadow"}
    Serving = "live"
    Batches = {1, 2}
    MaxShadowFaults = 2
    MediaFiles = {"f1", "f2"}
    Frozen = {"f2"}
    Length = 2
    Workers = 1
    Retries = 1
    MaxTrouble = 2
    Closers = {"c1", "c2"}
    NParts = 3
    MaxMoves = 4
    MaxCloseFaults = 1

SPECIFICATION OperationsSpec

\* Uploads, builds and closures end.
CHECK_DEADLOCK FALSE

INVARIANTS
    DeploymentsKept
    RecordsUsable
    EvidenceTrue

PROPERTIES
    AuthorityKept
    BlindWorkEnds
    NothingOverwritten
    DownloadsConverge
