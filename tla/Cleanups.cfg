SPECIFICATION Spec
CONSTANTS
    MaxValues = 3
    MaxOpen = 7
    Generous = {}
INVARIANTS DestroyedOnce NothingLeft LoopBalanced
CHECK_DEADLOCK FALSE
