\* Built modules in which a constant expression became an OpSpecConstantOp.
CONSTANTS
    N = 4
    NoRet = NoRet
    KindSet <- Kinds
    OperandMaps <- BuiltOperands
SPECIFICATION Spec
INVARIANT DefBeforeUse
CHECK_DEADLOCK FALSE
