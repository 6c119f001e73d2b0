CONSTANTS
    w1 = w1
    r1 = r1
    k1 = k1
    None = None
    Waiter = {w1}
    Resolver = {r1}
    Coroutine = {k1}
    MaxSpurious = 2
SPECIFICATION FairSpec
INVARIANTS ResolvedHasValue NeverUnreachable LockReleased
PROPERTIES OneShot AsleepIsWoken SuspendedIsResumed ResolverReturns
CHECK_DEADLOCK FALSE
