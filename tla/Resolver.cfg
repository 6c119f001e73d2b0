SPECIFICATION Spec
CONSTANTS
    Record = {"S", "T", "U"}
    Marker = {"S.m", "T.m"}
    AssociatedType = {"S.A", "S.C", "T.A"}
    NestedType = {"S.A.B"}
    Instantiation = {"T", "U"}
    Owner <- Owners
    Nothing = Nothing
    Programs <- PossiblePrograms
INVARIANTS TypeOK OrderRespectsEdges OffendingPairExists DependenciesFirst NothingForgotten
PROPERTIES CyclesFound CompleteTogether PrepareReturns
CHECK_DEADLOCK FALSE
