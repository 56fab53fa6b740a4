SPECIFICATION Spec
CONSTANTS
    Env = {r, a}
    Root = r
    Plain = {x, y}
    Prefix = {g}
    First = 1
    MaxNumber = 4
    W = 4
    R = 3
    P = 2
    S = 1
    Nanos = 2
    Value <- MCValue
    IntegralPair <- MCIntegralPairs
    SampleDate <- MCSampleDate
    Year <- MCYear
SYMMETRY NameSymmetry
INVARIANTS
    TablesInverse
    GensymFresh
    CompareIsOrder
    IntegersAgree
    DatesAgree
    BusinessDays
