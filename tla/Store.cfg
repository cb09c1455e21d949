SPECIFICATION Spec
CONSTANTS
    Paths = {p, q}
    Keys = {a, b}
    Values = {0, 1}
    Torn = 9
    MaxSets = 3
    MaxOpens = 2
INVARIANTS
    AutosavedIsOnFile
    ExitSaves
    FilesArePrefixes
