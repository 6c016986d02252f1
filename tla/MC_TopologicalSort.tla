------------------------- MODULE MC_TopologicalSort -------------------------
(***************************************************************************)
(* Operand graphs for model checking TopologicalSort.                     *)
(*                                                                         *)
(* The shapes are the operand lists the sorted opcodes have: a pointer     *)
(* names its pointee, a struct its member types, an array its element type *)
(* and length constant, a constant its type, an OpSpecConstantOp its type  *)
(* and a value operand, a variable its pointer type.                       *)
(*                                                                         *)
(* Two id disciplines:                                                     *)
(*  - built: ids come from getId() as the factory functions run, so every  *)
(*    operand exists (has a smaller id) before its user, except the        *)
(*    members of a struct, which are created between openStructType (which *)
(*    takes the struct's id) and closeStructType;                          *)
(*  - parsed: the ids are whatever the producer of the binary chose.       *)
(***************************************************************************)
EXTENDS TopologicalSort

OfKind(k, S) == {i \in Ids : k[i] \in S}

\* The ids an operand of a non-struct entry e may have.  "built": getId()
\* order, an operand is created before its user; "parsed": ids chosen by
\* another producer, in any order.
Below(e, d) == IF d = "built" THEN 1..(e - 1) ELSE Ids

\* The operand lists entry e may have, given the kinds k of all entries.
Shapes(k, e, d) ==
    LET types  == OfKind(k, TypeKinds) \ {e}
        early  == Below(e, d)
        scalar == OfKind(k, {"TypeInt", "TypeFloat"}) \cap early
    IN CASE k[e] \in {"TypeInt", "TypeFloat"} -> {<<>>}
         [] k[e] = "TypePointer" -> {<<t>> : t \in types \cap early}
         [] k[e] = "TypeStruct"  -> {<<t>> : t \in types}
                                     \cup {<<t, u>> : t, u \in types}
         [] k[e] = "TypeArray"   -> {<<t, c>> : t \in types \cap early,
                                         c \in OfKind(k, {"Constant"}) \cap early}
         [] k[e] = "Constant"    -> {<<t>> : t \in scalar}
         [] k[e] = "SpecConstantOp" ->
                {<<t, v>> : t \in scalar,
                            v \in (OfKind(k, {"Constant", "Variable"}) \cap early) \ {e}}
         [] k[e] = "Variable"    -> {<<t>> : t \in OfKind(k, {"TypePointer"}) \cap early}

\* Every choice of one shape per entry 1..n.
RECURSIVE ShapeChoices(_, _, _)
ShapeChoices(k, n, d) ==
    IF n = 0 THEN {<<>>}
    ELSE {Append(s, x) : s \in ShapeChoices(k, n - 1, d),
                         x \in Shapes(k, n, d)}

\* An array length is an integer constant.
WellFormed(g) ==
    \A e \in Ids : g.kind[e] = "TypeArray" =>
        g.kind[g.ops[g.ops[e][2]][1]] = "TypeInt"

\* The operand maps for kinds k that are well formed.
OperandsOf(k, d) ==
    {o \in ShapeChoices(k, N, d) : WellFormed([kind |-> k, ops |-> o])}

\* Modules built through the factory functions.
BuiltOperands(k) == OperandsOf(k, "built")

\* Modules read from a binary with arbitrary ids.
ParsedOperands(k) == OperandsOf(k, "parsed")

PlainKinds == Kinds \ {"SpecConstantOp"}

=============================================================================
