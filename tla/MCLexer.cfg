SPECIFICATION Spec
CONSTANTS
    MaxLexemes = 2
INVARIANTS
    ReadsBack
CHECK_DEADLOCK FALSE
