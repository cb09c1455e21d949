SPECIFICATION Spec
CONSTANTS
    Vals = {0, 1}
    Literals <- MCLiterals
    Widths = {1, 2}
    MaxLen = 3
    MaxBlocks = 2
    MaxOps = 2
    SelfAppend = FALSE
INVARIANTS
    WithinArrays
    CellsDistinct
    AsDefined
CHECK_DEADLOCK FALSE
