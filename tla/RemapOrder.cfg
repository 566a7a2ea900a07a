CONSTANTS
    k1 = k1
    c1 = c1
    c2 = c2
    x1 = x1
    x2 = x2
    None = None
    Keys = {k1}
    Ctids = {c1, c2}
    Xids = {x1, x2}
    Modes = {FALSE}
    PageSlack = 0
    MaxRecords = 6
    MaxEmbedded = 0
    MaxDdl = 2
    MaxFaults = 0
SPECIFICATION Spec
SYMMETRY Symmetry
CONSTRAINT Burst
CHECK_DEADLOCK FALSE
INVARIANT OldStateGone
