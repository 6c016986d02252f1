-------------------------- MODULE MC_BinaryReader --------------------------
(* Inputs for the readers: every header built from the checks' outcomes,  *)
(* and bodies of up to four distinct instructions drawn from a forward     *)
(* pointer P (id 3), a struct S (id 2) with member P, the pointer P to S,  *)
(* an i32 type (id 1), an unimplemented opcode (id 4), OpNop and three     *)
(* OpExtension names (allowed, disallowed, unknown).                       *)
EXTENDS BinaryReader, FiniteSets, Functions

CONSTANTS SC1, NoneV, XA, XB, XU

Instr(op, id, key, ext, mem, ptr) ==
    [op |-> op, id |-> id, key |-> key, ext |-> ext, members |-> mem, ptr |-> ptr]

TInt  == Instr("TypeInt", 1, 32, NoneV, {}, 0)
TFwd  == Instr("TypeForwardPointer", 0, NoneV, NoneV, {}, 3)
TStr  == Instr("TypeStruct", 2, NoneV, NoneV, {3}, 0)
TPtr  == Instr("TypePointer", 3, <<SC1, 2>>, NoneV, {}, 0)
ExtOK == Instr("Extension", 0, NoneV, XA, {}, 0)
ExtNo == Instr("Extension", 0, NoneV, XB, {}, 0)
ExtUn == Instr("Extension", 0, NoneV, XU, {}, 0)
Unimp == Instr("Unimplemented", 4, NoneV, NoneV, {}, 0)
NopI  == Instr("Nop", 0, NoneV, NoneV, {}, 0)

Alphabet == {TInt, TFwd, TStr, TPtr, ExtOK, ExtNo, ExtUn, Unimp, NopI}

\* Sequences of distinct instructions of length at most 4.
RECURSIVE Distinct(_)
Distinct(n) ==
    IF n = 0 THEN {<<>>}
    ELSE LET shorter == Distinct(n - 1)
         IN  shorter \cup UNION {{t \o <<x>> : x \in Alphabet \ Range(t)} :
                                  t \in {u \in shorter : Len(u) = n - 1}}

Before(s, a, b) == \E i, j \in 1..Len(s) : i < j /\ s[i] = a /\ s[j] = b
Has(s, a) == \E i \in 1..Len(s) : s[i] = a

\* Valid SPIR-V order: the struct's member P is forward-declared before it,
\* and the pointer P to S comes after S.
WellFormed(s) ==
    /\ Has(s, TStr) => Before(s, TFwd, TStr)
    /\ Has(s, TPtr) => Before(s, TStr, TPtr)

MCBodies == {s \in Distinct(4) : WellFormed(s)}
MCHeaders == [empty : BOOLEAN, magic : BOOLEAN, version : {1, 2, 9},
              schema : BOOLEAN, bound : {5}]
MCBadBoundHeaders == [empty : {FALSE}, magic : {TRUE}, version : {1},
                      schema : {TRUE}, bound : {2}]
=============================================================================
