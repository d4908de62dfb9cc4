\* A journal whose unlink fails outlives the backups it depends on.
CONSTANTS
    blue = blue
    green = green
    r1 = r1
    r2 = r2
    Slots = {blue, green}
    Releases = {r1, r2}
    None = None
    Failing = {"unlink"}
    MaxGen = 3
    MaxFaults = 2

SPECIFICATION Spec

PROPERTIES
    InterruptedWorkEnds
