CONSTANTS
    RecHdr = 3
    LenField = 2
    BlckSz = 3
    PageSize = 16
    SegSize = 32
    ShortHdr = 4
    LongHdr = 8
    Align = 4
    Shapes <- MCShapes
    NRecords = 3
    MaxChunk = 9
    Layouts <- MCLayouts
    AttrChoices <- MCAttrChoices
    BitsPerByte = 2
    ShortMax = 6
    PtrLen = 3
    ItemsPerCtrl = 2
    MaxNibble = 2
SPECIFICATION MCSpec
CONSTRAINT NoGuess
CHECK_DEADLOCK FALSE
INVARIANTS TypeOK InStep FramingExact ParsedExact RowExact BytesExact NoneDropped
