SPECIFICATION Spec
CONSTANTS
    Names = {x}
    Null = Null
    Unbound = Unbound
    Data <- MCData
    HeapCheck = FALSE
    MaxSerial = 3
    MaxDepth = 5
INVARIANTS
    TypeOK
    NoDangling
    NoLeak
    TryTarget
PROPERTIES
    ImplementsScopes
CHECK_DEADLOCK FALSE
