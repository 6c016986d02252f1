\* Annotations of one variable and one function under one execution model,
\* one entry-point condition, two decorations and two groups.
CONSTANTS
    Objs = {V1}
    Funcs = {F1}
    Models = {M1}
    Conds = {K1}
    MaxDecs = 2
    MaxGroups = 2
    MaxGroupDecs = 1
    MaxEPs = 2
    NoOut = NoOut
SPECIFICATION Spec
INVARIANT AnnotTypeOK
INVARIANT GroupsAbsorbInOrder
