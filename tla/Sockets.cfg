SPECIFICATION Spec
CONSTANTS
    Messages <- MCMessages
    Sizes <- MCSizes
    MaxSends = 3
    MaxReceives = 3
    WireSize = 5
CHECK_DEADLOCK FALSE
INVARIANTS
    ShortLinesWhole
PROPERTY
    ReceiveReturns
