SPECIFICATION Spec
CONSTANTS
    Ids = {i1, i2, i3, i4, i5}
    Capacities = {1, 2, 4}
    Threads = {t1, t2}
    Owner = t1
    Values <- GrowingValues
    Largest = 2
    Attempts = 3
    Absent = Absent
    Workers = {w1, w2}
    Destinations = {d1, d2}
    ArcCount = 2
    Half = 4
    Nothing = Nothing
    Requests <- AllRequests
    Unlimited = Unlimited
    MostCount = 5
    Whole = 1
    Top = Top
SYMMETRY TokenSymmetry
INVARIANTS RecencyIsExact GateIsHeld CopyIsWhole CheapestSurvives WinnersAreStored PathsAreAccounted
