SPECIFICATION Spec
CONSTANTS
    Threads = {t1, t2}
    Operands <- OperandPairs
    Eps = eps
    NULL = NULL
INVARIANTS
    RegistryIsExact
    AnswersAgree
    CacheComposes
    OnePathPerPair
SYMMETRY Interchangeable
