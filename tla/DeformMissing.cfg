CONSTANTS
    Threshold = 3
    SparseFrom = 6
    GroupFrom = 4
    BitmapByte = 2
    BatchFrom = 2
    BatchMax = 3
    Tables <- MCGrownTables
    TuplesOf <- MCGrownTuplesOf

SPECIFICATION Spec
INVARIANT SlotIsCurrent
