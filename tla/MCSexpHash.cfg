CONSTANTS
    Key <- MCKey
    Val = {"3", "3.0"}
    NoValue = NoValue
    Code = {1, 2, 3}
    HashCode <- MCHashCode
    Elem <- MCElem
    Equal <- MCEqual
    Accepts <- MCAccepts
    Name <- MCName
    Rank <- MCRank
    Reread <- MCReread
    MaxOrder = 3
    MaxLoss = 1
SPECIFICATION Spec
CHECK_DEADLOCK FALSE
INVARIANTS
    TypeOK
    BucketsByCode
    OnePairPerKey
    OrderCoversLive
    CountNotAbove
    RecordWellTyped
    PairiTotal
PROPERTY ImplementsDict
