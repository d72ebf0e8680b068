CONSTANTS
    Threshold = 3
    SparseFrom = 6
    GroupFrom = 4
    BitmapByte = 2
    BatchFrom = 2
    BatchMax = 3
    Tables <- MCTables
    TuplesOf <- MCTuplesOf

SPECIFICATION Spec
INVARIANTS
    TypeOK
    SlotIsCurrent
    OffsetIsRight
PROPERTIES
    WritesOnlyAsked
    ImplementsLazyTuple
