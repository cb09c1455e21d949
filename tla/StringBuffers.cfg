SPECIFICATION Spec
CONSTANTS
    l = l
    b1 = b1
    b2 = b2
    Buffers = {l, b1, b2}
    Literals = {l}
    None = None
    Cells = {c}
    LiteralLen = 2
    MinCap = 1
    Lengths = {1}
    MaxLen = 3
    MaxStack = 3
SYMMETRY Symmetry
VIEW View
INVARIANTS
    WithinCapacity
    FlagsCoverOwners
PROPERTIES
    NoAliasMutated
CHECK_DEADLOCK FALSE
