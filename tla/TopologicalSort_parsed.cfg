\* Modules read from a binary: ids in any order.
CONSTANTS
    N = 3
    NoRet = NoRet
    KindSet <- PlainKinds
    OperandMaps <- ParsedOperands
SPECIFICATION Spec
INVARIANT AllEmitted
CHECK_DEADLOCK FALSE
