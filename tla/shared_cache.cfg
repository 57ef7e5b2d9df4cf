SPECIFICATION Spec
CONSTANTS
    NULL = NULL
    Workers = {w1, w2}
    Ids = {i1, i2, i3}
    Policies <- EveryKind
    Addresses = {a1, a2, a3}
    CounterMax = 0
SYMMETRY Symmetric
INVARIANTS MarkerIdentifiesGeneration RecencyIndexCoherent
PROPERTIES NoStaleAdmission AnswerIsCanonical ImplementsExactResidency
