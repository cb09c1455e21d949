SPECIFICATION Spec
CONSTANTS
    Words <- MCWords
    Predicates <- MCPredicates
    Builtins <- MCBuiltins
    BuiltinArity <- MCArity
    InfixAlias <- MCInfix
    PrefixAlias <- MCPrefix
    Shadowable = {"add"}
    Names = {"x", "y", "add"}
    MaxInt = 7
    Radix = 3
    LimbDigits = 2
    PowLoops = 2
    Constants <- MCConstants
    Shadow <- MCShadow
    Fixed <- MCFixed
    Verbatim <- MCVerbatim
    Binop <- MCInfix
    Hidable = {"add"}
    Programs <- MCPrograms
INVARIANTS
    GroupedAsGrammar
    EmittedWellFormed
    StoredAsInline
    SkipsWhatRuns
