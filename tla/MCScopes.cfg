CONSTANTS
    Symbol = {"x"}
    MaxScopes = 4
    MaxFunctions = 4
    MaxLazy = 1
    MaxCalls = 4
    MaxBound = 2
SPECIFICATION Spec
CHECK_DEADLOCK FALSE
INVARIANTS
    BindsHere
    LookupIsLexical
    LookupStaysInside
