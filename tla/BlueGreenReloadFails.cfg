\* A reload that fails inside a trap leaves Caddy on the wrong slot.
CONSTANTS
    blue = blue
    green = green
    r1 = r1
    r2 = r2
    Slots = {blue, green}
    Releases = {r1, r2}
    None = None
    Failing = {"reload"}
    MaxGen = 3
    MaxFaults = 2

SPECIFICATION Spec

INVARIANTS
    CaddyServesActive
