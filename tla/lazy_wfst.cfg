SPECIFICATION Spec
CONSTANTS
    NULL = NULL
    States = {1, 2, 3}
    Sources = {1, 2, 3}
    Digest <- SharedDigest
    Recurring = FALSE
    Policies <- AllKinds
    MaxAttempts = 2
INVARIANTS RetainedIsFresh SoleOwner OneRecordEach AttemptsIdentify LinksCoherent
PROPERTIES ImplementsLifecycle
