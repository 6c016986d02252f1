\* addFunction(FuncType, Id) at a forward-declared id, with a parameter.
CONSTANTS
    MaxId = 5
    Widths <- MCWidths
    Lits <- MCLits
    StorageClasses <- MCStorageClasses
    Strs <- MCStrs
    Targets <- MCTargets
    MDs <- MCMDs
    SC1 = SC1
    FwdFuncParams = {0, 1}
    ReservedOnly = TRUE
    None = None
SPECIFICATION BuildSpec
INVARIANT NoIdClash
CHECK_DEADLOCK FALSE
