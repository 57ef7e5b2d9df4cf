SPECIFICATION Spec
CONSTANTS
    Machines <- MCMachines
    Configs <- MCConfigs
    MaxWeight = 3
    NULL = NULL
INVARIANTS
    CursorInv
    YieldsInOrder
    OutcomeIsHonest
PROPERTIES
    OutcomeIsSticky
    PollingEnds
