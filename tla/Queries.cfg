CONSTANTS
    Query <- Queries
    Kind <- KindOf
    Refresh <- RefreshOf
    Deps <- DepsOf
    GivesUpOn <- GivesUp
    Jobs <- DriverJobs
    CanBeDependent = {"ConformsTo"}
    EarlyFinish = {"PrepareGlobalVarInterface(v)"}
    NeverFails = {"VerifyConstraints(f)"}
    Invalidated = {"GetNeededAssociatedTypes"}
    MaxRevision = 2
    MaxDepth = 6
SPECIFICATION Spec
INVARIANTS RunningIsExecuting GenuineCycles NoReentry ConsistentAnswers
           CacheServesCurrent
