\* Builder calls and eraseValue, in any order; a module may stop anywhere.
CONSTANTS
    MaxId = 4
    Widths <- MCWidths
    Lits <- MCLits
    StorageClasses <- MCStorageClasses
    Strs <- MCStrs
    Targets <- MCTargets
    MDs <- MCMDs
    SC1 = SC1
    FwdFuncParams = {0}
    ReservedOnly = TRUE
    None = None
SPECIFICATION Spec
INVARIANT TypeOK
INVARIANT UniqueTypes
INVARIANT VectorsConsistent
INVARIANT IdsBelowBound
INVARIANT NoIdClash
CHECK_DEADLOCK FALSE
