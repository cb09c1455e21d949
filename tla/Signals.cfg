SPECIFICATION Spec
CONSTANTS
    Anywhere = FALSE
    MaxDepth = 5
INVARIANTS
    RaisedStopsAll
    AttrsOfInnermost
PROPERTIES
    ImplementsControl
