CONSTANTS
    t1 = t1
    t2 = t2
    x1 = x1
    x2 = x2
    Tables = {t1, t2}
    InitTables = {t1}
    ToastTables = {}
    Xids = {x1, x2}
    PageBreaks = {1, 3, 4}
    MaxChanges = 3
    MaxCrashes = 1
SPECIFICATION Spec
SYMMETRY Symmetry
CHECK_DEADLOCK FALSE
INVARIANTS TypeOK ExactlyOnce CutoverExact RestartSafe NothingStranded
