SPECIFICATION FairSpec
CONSTANTS
    NULL = NULL
    Workers = {w1, w2}
    Ids = {i1, i2}
    Policies <- LruTwo
    Addresses = {a1, a2, a3}
    CounterMax = 0
PROPERTIES LockFree
