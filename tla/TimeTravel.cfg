CONSTANTS
    NBlocks = 2
    MaxLsn = 3
    MaxFragments = 3
SPECIFICATION Spec
CHECK_DEADLOCK FALSE
INVARIANTS TypeOK BaseKept BranchReads
