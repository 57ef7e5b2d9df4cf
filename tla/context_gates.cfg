SPECIFICATION Spec
CONSTANTS
    Threads = {t1,t2,t3}
    Contexts = {c1,c2}
    Gates = {g1,g2,g3}
    Claims <- AnyByTurns
    NULL = NULL
SYMMETRY Symmetric
INVARIANTS
    OneGatePerContext RegistryIsTight SerialCallbacksExclude
