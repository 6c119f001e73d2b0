SPECIFICATION Spec
CONSTANTS
    Block <- Blocks
    Var <- Names
    Fields <- FieldList
    Functions <- FunctionSet
INVARIANT AnyUseChecked
CHECK_DEADLOCK FALSE
