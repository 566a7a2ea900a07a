CONSTANTS
    t1 = t1
    t2 = t2
    x1 = x1
    x2 = x2
    Tables = {t1}
    InitTables = {t1}
    ToastTables = {t1}
    Xids = {x1, x2}
    PageBreaks = {1, 3, 4}
    MaxChanges = 2
    MaxCrashes = 2
SPECIFICATION FairSpec
CHECK_DEADLOCK FALSE
INVARIANT SlotRetains
PROPERTIES CommittedArrives WatermarkAdvances ImplementsContract
