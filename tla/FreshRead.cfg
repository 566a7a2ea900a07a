SPECIFICATION FairSpec
CONSTANTS
    MaxLsn = 3
    MaxChunk = 2
    MaxTime = 1
    Retain = 1
    Cap = 1
    MaxCrashes = 1
INVARIANTS TypeOK NeverLost NoGap
PROPERTY WaitEnds
CHECK_DEADLOCK FALSE
