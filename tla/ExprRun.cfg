CONSTANTS
    Bits2 = 2
    Bits4 = 3
    Bits8 = 6
    FloatMax = 4
    UnorderedEqual = TRUE
    UnorderedLess = TRUE
    TextOf <- MCTextOf
    Xor <- MCXor
    Apply <- MCApply
    MakeReadOnly <- MCMakeReadOnly
    Word = 2
    LoopColumns = 3
    TableMin = 2
    Lanes = 2
    PadStep = 1
    Crc32 <- MCCrc32
    TextHash <- MCTextHash
    MinBranches = 2
    Programs <- MCPrograms
    Backends = {"sljit", "mir", "fallback"}

SPECIFICATION Spec
INVARIANTS
    TypeOK
    ResultAgrees
    ColumnsAreCurrent
PROPERTIES
    BooleanStepsAgree
    RowAdvances
CHECK_DEADLOCK FALSE
