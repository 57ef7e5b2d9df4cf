SPECIFICATION Spec
CONSTANTS
    NULL = NULL
    States = {1, 2}
    Sources = {1, 2}
    Digest <- ContentDigest
    Recurring = TRUE
    Policies <- OnlyAll
    MaxAttempts = 2
INVARIANTS RetainedIsFresh
