CONSTANTS
    t1 = t1
    t2 = t2
    Thread = {t1, t2}
    Creator = t1
    Serialised = FALSE
    Word = 16
    MaxHandles = 2
SPECIFICATION Spec
INVARIANT NeverReleasedAtZero
CHECK_DEADLOCK FALSE
