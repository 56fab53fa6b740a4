SPECIFICATION Spec
CONSTANTS
    Var = {a, b}
    Elem = {x, y}
    NilCell = NilCell
    Error = Error
    MaxArrays = 2
    MaxSize = 2
    MaxCells = 4
SYMMETRY Symmetry
INVARIANTS
    ReadsElements
    ConcatJoins
PROPERTY WritesBeyondEnds
