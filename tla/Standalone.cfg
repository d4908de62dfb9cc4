\* An activation with up to three kills, errors or process deaths and one edit;
\* a worker of the supervisor with two runners at a time and one kill or error;
\* three rows of one or two characters for two sources and three characters.
CONSTANTS
    MaxFaults = 3
    MaxEdits = 1
    Runners = {p1, p2, p3}
    MaxAlive = 2
    MaxStops = 1
    Intents = {"skill", "voice"}
    MaxRows = 3
    Sizes = {1, 2}
    SourceLimits = {2}
    CharLimits = {3}
    PageSizes = {1, 2}

SPECIFICATION StandaloneSpec

INVARIANTS
    SettledAuthority
    EvidenceExclusive
    BackendsKnown
    OneRunner
    AllocationIsBest

PROPERTIES
    UnknownKept
    OneFaultRecovered
    RunningSettles
