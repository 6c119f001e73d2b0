SPECIFICATION Spec
CONSTANTS
    module = module
    redecl = redecl
    other = other
    file = file
    record = record
    Ctx <- Contexts
    Primary <- PrimaryOf
    Scopes <- ScopesOf
    Module <- Modules
    Transparent = {file}
    Instance = {record}
    Importer = {file}
    Decl = {"d1", "d2"}
    Overloadable = {"d1"}
    Asked <- Lookups
    MaxRevision = 2
INVARIANTS DirectCurrent InnermostCurrent OverloadsOnly
CHECK_DEADLOCK FALSE
