CONSTANTS
    w1 = w1
    r1 = r1
    None = None
    Waiter = {w1}
    Resolver = {r1}
    Coroutine = {}
    MaxSpurious = 0
SPECIFICATION FairSpec
PROPERTY GetReturns
CHECK_DEADLOCK FALSE
