\* The binary reader with a header whose id bound (2) is below ids the body uses.
CONSTANTS
    MaxId = 4  Widths = {32}  Lits = {0}  StorageClasses = {SC1}  SC1 = SC1  Strs = {}  Targets = {}  MDs = {}
    FwdFuncParams = {0}  ReservedOnly = TRUE  None = NoneV  NoneV = NoneV
    XA = XA  XB = XB  XU = XU
    KnownVersions = {1, 2}  MaxVersion = 1  AllowedExts = {XA}  KnownExts = {XA, XB}
    Headers <- MCBadBoundHeaders  Bodies <- MCBodies
SPECIFICATION ReaderSpec
INVARIANT AcceptedModuleIdsBelowBound
CHECK_DEADLOCK FALSE
