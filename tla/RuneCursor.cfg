SPECIFICATION CursorSpec
CONSTANTS
    Strings = {s1, s2}
    NoString = NoString
    MaxBytes = 4
SYMMETRY Symmetry
INVARIANTS
    LookupsScan

