SPECIFICATION Spec
CONSTANTS
    NULL = NULL
    Null = NULL
    Inf = Inf
    Top = Inf
    MaxCount = 16
    Unit = 4
    Whole = 4
    Faintest = 8
    PageSize = 2
    Machines <- AllMachines
    Configs <- CaptureConfigs
    Uses <- AllUses
INVARIANTS CaptureIsExact CaptureIsHonest DistancesAreExact RankedAreExact 
