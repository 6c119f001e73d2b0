CONSTANTS
    t1 = t1
    t2 = t2
    t3 = t3
    Thread = {t1, t2, t3}
    Creator = t1
    Serialised = TRUE
    Word = 16
    MaxHandles = 2
SPECIFICATION FairSpec
INVARIANTS NoDangling DeinitOnce CountExact
PROPERTY Reclaimed
CHECK_DEADLOCK FALSE
