SPECIFICATION FairSpec
CONSTANTS
    Var = {"a", "b", "c"}
    Type = {"Int", "String", "Any"}
    AnyType = "Any"
    Unbound = Unbound
    Infinity = Infinity
    Systems <- AllSystems
INVARIANTS ScopesExact SolutionSound LowestScore FailureReal
PROPERTY SolveReturns
CHECK_DEADLOCK FALSE
