SPECIFICATION Spec
CONSTANTS
    MaxTokens = 4
INVARIANTS
    SpellsTheStream
    ClimbsPrecedence
