\* Does a command report a rollback of what is committed?
CONSTANTS
    MaxFaults = 1
    MaxEdits = 0

SPECIFICATION Spec

INVARIANT
    RolledBackIsTrue
