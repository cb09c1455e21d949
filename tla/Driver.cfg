SPECIFICATION Spec
CONSTANTS
    Files = {"main", "a", "d/main", "d/e", "d/x"}
    Packages = {"d"}
    Main = "main"
    MainOf <- MCMainOf
    Entries <- MCEntries
    MaxDepth = 5
    Names = {"x", "f"}
    MaxInt = 7
    Radix = 3
    LimbDigits = 2
    PowLoops = 2
    MaxIter = 8
    Inputs <- MCInputs
    Small <- MCSmall
    MaxRuns = 2
INVARIANTS
    VerdictRight
    InPlace
    StaysTree
    MeaningKept
    ArithmeticExact
    IntermediatesRemoved
    SuccessIsBuilt
PROPERTIES
    OutputWhole
CHECK_DEADLOCK FALSE
