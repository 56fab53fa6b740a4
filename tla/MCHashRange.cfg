CONSTANTS
    Key <- MCKey
    Val = {1}
    NoValue = NoValue
    Code = {1, 2}
    HashCode <- MCHashCode
    Elem <- MCElem
    Equal <- MCEqual
    Accepts <- MCAccepts
    Name <- MCName
    Rank <- MCRank
    Reread <- MCReread
    MaxOrder = 4
    MaxLoss = 0
SPECIFICATION RangeSpec
CHECK_DEADLOCK FALSE
INVARIANTS
    PristineLoopExact
    ForNeverInternal
PROPERTY LoopTerminates
