SPECIFICATION StatisticsSpec
CONSTANTS
    NULL = NULL
    Workers = {w1, w2}
    Ids = {i1, i2, i3}
    Policies <- LruTwoOrAll
    Addresses = {a1, a2, a3}
    CounterMax = 5
    Operations = 5
SYMMETRY Symmetric
CHECK_DEADLOCK FALSE
INVARIANT StatisticsAddUp
