\* Both readers over every header outcome and every well-formed body of up to four instructions.
CONSTANTS
    MaxId = 4  Widths = {32}  Lits = {0}  StorageClasses = {SC1}  SC1 = SC1  Strs = {}  Targets = {}  MDs = {}
    FwdFuncParams = {0}  ReservedOnly = TRUE  None = NoneV  NoneV = NoneV
    XA = XA  XB = XB  XU = XU
    KnownVersions = {1, 2}  MaxVersion = 1  AllowedExts = {XA}  KnownExts = {XA, XB}
    Headers <- MCHeaders  Bodies <- MCBodies
SPECIFICATION ReaderSpec
INVARIANT ReaderTypeOK ReadsUpToFirstError NoFatalOnInput ConvertOutcome
PROPERTY ReaderTerminates
CHECK_DEADLOCK FALSE
