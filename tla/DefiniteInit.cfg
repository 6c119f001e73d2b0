SPECIFICATION FairSpec
CONSTANTS
    Block <- Blocks
    Var <- Names
    Fields <- FieldList
    Functions <- FunctionSet
INVARIANTS   MeetOverPaths
PROPERTY FlowEnds
CHECK_DEADLOCK FALSE
