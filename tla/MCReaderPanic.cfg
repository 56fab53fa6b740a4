SPECIFICATION Spec
CONSTANTS
    MaxLines = 2
INVARIANTS
    ReturnsFirstError
CHECK_DEADLOCK FALSE
