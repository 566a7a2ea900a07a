SPECIFICATION Spec
CONSTANTS
    MaxLsn = 3
    MaxChunk = 1
    MaxTime = 0
    Retain = 1
    Cap = 2
    MaxCrashes = 0
INVARIANT ReadYourWrites
CHECK_DEADLOCK FALSE
