\* Built modules (getId() order) with types, constants and variables.
\* The sort stops in "done" or "fatal"; those states have no successor.
CONSTANTS
    N = 4
    NoRet = NoRet
    KindSet <- PlainKinds
    OperandMaps <- BuiltOperands
SPECIFICATION Spec
INVARIANT TypeOK
INVARIANT AllEmitted
INVARIANT DefBeforeUse
INVARIANT SortVerdict
PROPERTY Terminates
CHECK_DEADLOCK FALSE
