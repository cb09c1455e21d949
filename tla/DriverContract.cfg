SPECIFICATION Spec
CONSTANTS
    Files = {"main", "a", "d/main", "d/e", "d/x"}
    Packages = {"d"}
    Main = "main"
    MainOf <- MCMainOf
    Entries <- MCEntries
    MaxDepth = 5
    Names = {"x", "f"}
    MaxInt = 7
    Radix = 3
    LimbDigits = 2
    PowLoops = 2
    MaxIter = 8
    Inputs <- MCBeyond
    Small <- MCSmall
    MaxRuns = 1
INVARIANTS
    MeaningKept
CHECK_DEADLOCK FALSE
