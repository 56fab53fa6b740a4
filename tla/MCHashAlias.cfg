CONSTANTS
    p = p
    q = q
    Hash = {p, q}
    one = p
    Key <- MCKey
    Val = {1}
    NoValue = NoValue
    Code = {1, 2}
    HashCode <- MCHashCode
    Elem <- MCElem
    Equal <- MCEqual
    MaxOrder = 3
    MaxLoss = 0
    MaxArrays = 6
SPECIFICATION Spec
CHECK_DEADLOCK FALSE
INVARIANTS
    SlicesInBounds
PROPERTIES
    AliasFreeIsSexpHash
    DisturbanceConfined
