\* Two bootstraps, a page of each namespace and a file, one base database, two
\* builds with three failures of the network allowed and four in all, and
\* requests of two subtasks whose searches may find one source in two states.
CONSTANTS
    Bootstraps = {b1, b2}
    MaxKills = 2
    MaxDrifts = 1
    MainPages = {m1}
    DataPages = {d1}
    WikiFiles = {f1}
    MaxFaults = 1
    MaxChanges = 1
    Base = "base"
    Edited = {"edited"}
    Target = "target"
    MaxMishaps = 2
    Builds = {b1, b2}
    MaxTransient = 3
    MaxOutages = 4
    Sources = {s1}
    Prints = {p1, p2}
    MaxTasks = 2

SPECIFICATION Spec

\* A request is answered, and bootstraps and bounds are used up.
CHECK_DEADLOCK FALSE

INVARIANTS
    ComponentsSound
    PointerExplained
    BootstrapEvidence
    ReceiptsRestore
    DroppedIsSaved

PROPERTIES
    RecoverFinishes
    CrawlConverges
    ImportRecovers
    ReleasesImmutable
    CommitReleased
