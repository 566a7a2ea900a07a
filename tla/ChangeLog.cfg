CONSTANTS
    k1 = k1
    k2 = k2
    c1 = c1
    c2 = c2
    x1 = x1
    x2 = x2
    None = None
    Keys = {k1, k2}
    Ctids = {c1, c2}
    Xids = {x1, x2}
    Modes = {TRUE, FALSE}
    PageSlack = 0
    MaxRecords = 5
    MaxEmbedded = 3
    MaxDdl = 1
    MaxFaults = 1
SPECIFICATION Spec
SYMMETRY Symmetry
CONSTRAINT Sound
CHECK_DEADLOCK FALSE
INVARIANTS TypeOK LakeExact MirrorCovers CrashRepairs
