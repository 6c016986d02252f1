\* eraseValue of a cached type or constant, then more builder calls.
CONSTANTS
    MaxId = 5
    Widths <- MCWidths
    Lits <- MCLits
    StorageClasses <- MCStorageClasses
    Strs <- MCStrs
    Targets <- MCTargets
    MDs <- MCMDs
    SC1 = SC1
    FwdFuncParams = {0}
    ReservedOnly = TRUE
    None = None
SPECIFICATION Spec
INVARIANT CachesCoherent
CHECK_DEADLOCK FALSE
