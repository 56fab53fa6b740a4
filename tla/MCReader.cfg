SPECIFICATION Spec
CONSTANTS
    MaxLines = 3
INVARIANTS
    DeliversWhatWasTyped
    AsksOnlyWhenOpen
    RefusesWithReason
    PanicsOnlyWhenAbandoned
PROPERTIES
    AnswersEveryLine
CHECK_DEADLOCK FALSE
