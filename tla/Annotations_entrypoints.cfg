\* Annotations of one variable and two functions under one execution model,
\* two entry-point conditions, three decorations and two groups: enough for
\* an unconditional and a conditional entry point of the same model, and
\* for the erasure of an entry-point function.
CONSTANTS
    Objs = {V1}
    Funcs = {F1, F2}
    Models = {M1}
    Conds = {K1, K2}
    MaxDecs = 3
    MaxGroups = 2
    MaxGroupDecs = 1
    MaxEPs = 2
    NoOut = NoOut
SPECIFICATION Spec
INVARIANT EntryPointQueriesMatchVectors
