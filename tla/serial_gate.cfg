SPECIFICATION FairSpec
CONSTANTS
    Threads = {t1, t2, t3, t4}
    Gates = {g1, g2}
    NULL = NULL
INVARIANTS MutualExclusion WaitersHoldNothing NoLostWakeup
PROPERTIES GateIsTakenUp
