SPECIFICATION Spec
CONSTANTS
    Xids <- MCXids
    SubOf <- MCSubOf
    Lockers = {5}
    NSlots = 3
    MaxVers = 3
    MaxMultis = 2
    PageBytes = 1
    PageSize = 144
INVARIANTS TypeOK EmitLinear ReadersAgree MultixactExact RebuildExact
CHECK_DEADLOCK FALSE
