--------------------------- MODULE ModuleRegistry ----------------------------
(***************************************************************************)
(* Identifier space, entity registry and deduplication caches of           *)
(* SPIRVModuleImpl (src/lib/SPIRV/libSPIRV/SPIRVModule.cpp).               *)
(*                                                                         *)
(* The module object is one record variable `mod` whose fields carry the   *)
(* names of the C++ members.  An entity is a record [op, key]: the opcode  *)
(* class and the part of its operands the caches key on.  The category     *)
(* vectors hold ids, since every entity keeps the id it was created with   *)
(* on these paths.  A failed assert("Id used twice") is recorded in        *)
(* IdClash; a release build goes on past it, and so does the model.        *)
(* Capability and extension inference inside addEntry is the subject of    *)
(* module CapabilityGate.                                                  *)
(***************************************************************************)
EXTENDS Naturals, Sequences, FiniteSets

CONSTANTS
    MaxId,          \* ids are 1..MaxId; no operation allocates past it
    Widths,         \* integer bit widths requested, 32 among them
    Lits,           \* 32-bit literal values materialized as constants
    StorageClasses, \* pointer storage classes
    Strs,           \* strings given to getString
    Targets,        \* inline assembly target strings
    MDs,            \* alias.scope/noalias metadata nodes
    FwdFuncParams,  \* parameter counts of functions defined at a forward id
    ReservedOnly,   \* TRUE: explicit forward ids are ids below NextId not in use
    None            \* model value: an absent map entry

Ids       == 1..MaxId
InvalidId == 0                      \* SPIRVID_INVALID

\* OpExtInst: the instruction set (the four debug-info sets are "Debug",
\* NonSemantic.AuxData is "AuxData", any other set "OpenCL"), the debug
\* operation ("Scope" for the DebugDeclare, DebugValue, DebugScope and
\* DebugNoScope that stay in their block, "FunctionDefinition", and
\* "Other"), and whether it has a parent block.
ExtSets == {"Debug", "AuxData", "OpenCL"}
ExtOps  == {"Scope", "FunctionDefinition", "Other"}

Entities ==
    [op : {"TypeInt", "TypeFloat"}, key : Widths]
      \cup [op : {"TypePointer"}, key : StorageClasses \X Ids]
      \cup [op : {"TypeUntypedPointer"}, key : StorageClasses]
      \cup [op : {"Constant", "SpecConstant"}, key : Ids \X Lits]
      \cup [op : {"SpecConstantOp"}, key : Ids]
      \cup [op : {"Variable", "UntypedVariable"}, key : Ids \X BOOLEAN]
      \cup [op : {"String"}, key : Strs]
      \cup [op : {"AsmTarget"}, key : Targets]
      \cup [op : {"Asm"}, key : Ids]
      \cup [op : {"AliasDecl"}, key : MDs]
      \cup [op : {"ExtInst"}, key : ExtSets \X ExtOps \X BOOLEAN]
      \cup [op : {"TypeVoid", "TypeBool", "TypeOpaque", "TypeStruct", "Forward",
                  "Function", "FunctionParameter", "Instruction"},
            key : {None}]

\* The type caches of SPIRVModuleImpl and the type each one keeps.  The
\* VoidTy and BoolTy pointers are one-entry maps under the key None.
TypeCaches == [IntTypeMap |-> "TypeInt", FloatTypeMap |-> "TypeFloat",
               PointerTypeMap |-> "TypePointer",
               UntypedPtrTyMap |-> "TypeUntypedPointer",
               VoidTy |-> "TypeVoid", BoolTy |-> "TypeBool"]
\* With StrMap, the string cache of getString, and AliasInstMDMap, the
\* cache of the memory-aliasing declarations: every map cache.
Caches == [c \in DOMAIN TypeCaches \cup {"StrMap", "AliasInstMDMap"} |->
              CASE c = "StrMap"         -> "String"
                [] c = "AliasInstMDMap" -> "AliasDecl"
                [] OTHER                -> TypeCaches[c]]
CachedOps == {Caches[c] : c \in DOMAIN Caches}

\* TypeOpaque stands for every type built by addType(new T(this, getId(),
\* ...)) with no cache: arrays, opaque, event, queue, pipe, image, sampler...
TypeOps  == {TypeCaches[c] : c \in DOMAIN TypeCaches} \cup {"TypeStruct", "TypeOpaque"}
ConstOps == {"Constant", "SpecConstant", "SpecConstantOp"}
\* OpVariable and OpUntypedVariableKHR; the key is the pointer type and
\* whether the variable has a parent basic block.
VarOps   == {"Variable", "UntypedVariable"}

VARIABLE mod

MaxOf(a, b) == IF a >= b THEN a ELSE b

\* The ids an operation needs from NextId on stay within the model.
CanAllocate(m, n) == m.NextId + n <= MaxId + 1

Live(m)        == {i \in Ids : m.IdEntryMap[i] # None}
LiveOf(m, ops) == {i \in Live(m) : m.IdEntryMap[i].op \in ops}
Forwards(m)    == LiveOf(m, {"Forward"})
Elems(s)       == {s[i] : i \in DOMAIN s}

-----------------------------------------------------------------------------
(* Helpers: each maps a module value to the module value after the call.   *)

\* Variant of GetId that hands out the id after the one it reserves.
GetIdPostIncrement(m, Id, Inc) ==
    IF Id = InvalidId
    THEN [id |-> m.NextId + Inc, m |-> [m EXCEPT !.NextId = @ + Inc]]
    ELSE [id |-> Id, m |-> [m EXCEPT !.NextId = MaxOf(Id, @) + Inc]]

\* getId(Id, Increment): the next free id, or the requested one with NextId
\* moved past it.
GetId(m, Id, Inc) ==
    IF Id = InvalidId
    THEN [id |-> m.NextId, m |-> [m EXCEPT !.NextId = @ + Inc]]
    ELSE [id |-> Id, m |-> [m EXCEPT !.NextId = MaxOf(Id, @) + Inc]]

\* Variant of LayoutEntry without the constant branch.
LayoutEntryNoConst(m, id, e) ==
    IF e.op \in TypeOps THEN [m EXCEPT !.TypeVec = Append(@, id)] ELSE m

\* A debug-info OpExtInst that layoutEntry files into DebugInstVec.
IsModuleDebugInst(e) ==
    e.op = "ExtInst" /\ e.key[1] = "Debug" /\ e.key[2] # "Scope"

\* layoutEntry: file the entry into its category vector: OpString into
\* StringVec, a variable without a parent block into VariableVec, a debug
\* OpExtInst other than the block-local four into DebugInstVec (with or
\* without a block), an aux-data one into AuxDataInstVec, the inline
\* assembly and aliasing declarations into theirs, a type or constant into
\* TypeVec or ConstVec; any other instruction of a block nowhere.
LayoutEntry(m, id, e) ==
    CASE e.op = "String"      -> [m EXCEPT !.StringVec = Append(@, id)]
      [] e.op \in VarOps     -> IF e.key[2] THEN m
                                 ELSE [m EXCEPT !.VariableVec = Append(@, id)]
      [] IsModuleDebugInst(e) -> [m EXCEPT !.DebugInstVec = Append(@, id)]
      [] e.op = "ExtInst" /\ e.key[1] = "AuxData"
                              -> [m EXCEPT !.AuxDataInstVec = Append(@, id)]
      [] e.op = "AsmTarget"   -> [m EXCEPT !.AsmTargetVec = Append(@, id)]
      [] e.op = "AliasDecl"   -> [m EXCEPT !.AliasInstMDVec = Append(@, id)]
      [] e.op = "Asm"         -> [m EXCEPT !.AsmVec = Append(@, id)]
      [] e.op \in TypeOps    -> [m EXCEPT !.TypeVec = Append(@, id)]
      [] e.op \in ConstOps   -> [m EXCEPT !.ConstVec = Append(@, id)]
      [] OTHER               -> m

\* replaceForward with the forward's id equal to the entry's: the entry
\* takes the forward's slot and its annotations, which stay under the id.
ReplaceForward(m, id, e) == [m EXCEPT !.IdEntryMap[id] = e]

\* Variant of AddEntry that treats a mapped forward like any other entry.
AddEntryNoForward(m, id, e) ==
    LET m1 == IF m.IdEntryMap[id] = None
              THEN [m EXCEPT !.IdEntryMap[id] = e]
              ELSE [m EXCEPT !.IdClash = TRUE]
    IN  LayoutEntry(m1, id, e)

\* addEntry for an entry with an id.
AddEntry(m, id, e) ==
    LET mapped == m.IdEntryMap[id]
        m1 == CASE mapped = None          -> [m EXCEPT !.IdEntryMap[id] = e]
                [] mapped.op = "Forward"  -> ReplaceForward(m, id, e)
                [] OTHER                  -> [m EXCEPT !.IdClash = TRUE]
    IN  LayoutEntry(m1, id, e)

\* Variant of IntegerType without the cache lookup.
IntegerTypeNoLookup(m, w) ==
    LET g  == GetId(m, InvalidId, 1)
        m1 == [g.m EXCEPT !.IntTypeMap[w] = g.id]
    IN  [id |-> g.id, m |-> AddEntry(m1, g.id, [op |-> "TypeInt", key |-> w])]

\* The shape of every cached factory: the entity cache c keeps under key
\* k, or add(new T(this, getId(), ...)) filed into the cache.
CachedType(m, c, k) ==
    IF m[c][k] # None
    THEN [id |-> m[c][k], m |-> m]
    ELSE LET g  == GetId(m, InvalidId, 1)
             m1 == [g.m EXCEPT ![c][k] = g.id]
         IN  [id |-> g.id, m |-> AddEntry(m1, g.id, [op |-> Caches[c], key |-> k])]

\* addIntegerType: the cached type of that width, or a new one.
IntegerType(m, w) == CachedType(m, "IntTypeMap", w)

\* Variant of LiteralAsConstant with the constant's operands swapped.
LiteralAsConstantSwapped(m, lit) ==
    IF m.LiteralMap[lit] # None
    THEN [id |-> m.LiteralMap[lit], m |-> m]
    ELSE LET t  == IntegerType(m, 32)
             g  == GetId(t.m, InvalidId, 1)
             m1 == [g.m EXCEPT !.LiteralMap[lit] = g.id]
         IN  [id |-> g.id,
              m  |-> AddEntry(m1, g.id, [op |-> "Constant", key |-> <<lit, t.id>>])]

\* getLiteralAsConstant: the cached 32-bit constant, or a new one typed by
\* addIntegerType(32).
LiteralAsConstant(m, lit) ==
    IF m.LiteralMap[lit] # None
    THEN [id |-> m.LiteralMap[lit], m |-> m]
    ELSE LET t  == IntegerType(m, 32)
             g  == GetId(t.m, InvalidId, 1)
             m1 == [g.m EXCEPT !.LiteralMap[lit] = g.id]
         IN  [id |-> g.id,
              m  |-> AddEntry(m1, g.id, [op |-> "Constant", key |-> <<t.id, lit>>])]

-----------------------------------------------------------------------------
Init ==
    mod = [NextId         |-> 1,
           IdEntryMap     |-> [i \in Ids |-> None],
           TypeVec        |-> <<>>,
           ConstVec       |-> <<>>,
           VariableVec    |-> <<>>,
           StringVec      |-> <<>>,
           DebugInstVec   |-> <<>>,
           AuxDataInstVec |-> <<>>,
           AsmTargetVec   |-> <<>>,
           AsmVec         |-> <<>>,
           AliasInstMDVec |-> <<>>,
           FuncVec        |-> <<>>,
           IntTypeMap     |-> [w \in Widths |-> None],
           PointerTypeMap |-> [d \in StorageClasses \X Ids |-> None],
           FloatTypeMap   |-> [w \in Widths |-> None],
           UntypedPtrTyMap |-> [sc \in StorageClasses |-> None],
           VoidTy         |-> [k \in {None} |-> None],
           BoolTy         |-> [k \in {None} |-> None],
           LiteralMap     |-> [l \in Lits |-> None],
           StrMap         |-> [s \in Strs |-> None],
           AliasInstMDMap |-> [md \in MDs |-> None],
           OpenStructs    |-> {},
           IdClash        |-> FALSE]

AddIntegerType(w) ==
    /\ mod.IntTypeMap[w] = None => CanAllocate(mod, 1)
    /\ mod' = IntegerType(mod, w).m

\* A call of a cached factory: a hit changes nothing, a miss takes an id.
AddCachedType(c, k) ==
    /\ mod[c][k] = None => CanAllocate(mod, 1)
    /\ mod' = CachedType(mod, c, k).m

AddVoidType == AddCachedType("VoidTy", None)

AddBoolType == AddCachedType("BoolTy", None)

\* addFloatType(BitWidth, Encoding); the encoding is the default one.
AddFloatType(w) == AddCachedType("FloatTypeMap", w)

\* addPointerType with no element type: an untyped pointer.
AddUntypedPointerType(sc) == AddCachedType("UntypedPtrTyMap", sc)

\* addPointerType for a typed pointer to an existing type, or to a struct
\* that openStructType has taken an id for and that is still being built
\* (a recursive struct's member).
AddPointerType(sc, elem) ==
    /\ elem \in LiveOf(mod, TypeOps) \cup mod.OpenStructs
    /\ AddCachedType("PointerTypeMap", <<sc, elem>>)

\* The factories without a cache: every call is a new type at getId().
AddUncachedType ==
    /\ CanAllocate(mod, 1)
    /\ LET g == GetId(mod, InvalidId, 1)
       IN  mod' = AddEntry(g.m, g.id, [op |-> "TypeOpaque", key |-> None])

\* The ids a miss takes: the constant's, and the i32 type's when
\* IntTypeMap has none yet; a hit takes none.
LiteralIds(lit) ==
    IF mod.LiteralMap[lit] # None THEN 0
    ELSE 1 + (IF mod.IntTypeMap[32] = None THEN 1 ELSE 0)

GetLiteralAsConstant(lit) ==
    /\ CanAllocate(mod, LiteralIds(lit))
    /\ mod' = LiteralAsConstant(mod, lit).m

\* addIntegerConstant(Ty, V): 32-bit values go through the literal cache,
\* which types them by addIntegerType(32) whatever Ty is; others are new
\* constants of type Ty.
AddIntegerConstant(ty, v) ==
    /\ ty \in LiveOf(mod, {"TypeInt"})
    /\ IF mod.IdEntryMap[ty].key = 32
       THEN GetLiteralAsConstant(v)
       ELSE /\ CanAllocate(mod, 1)
            /\ LET g == GetId(mod, InvalidId, 1)
               IN  mod' = AddEntry(g.m, g.id, [op |-> "Constant", key |-> <<ty, v>>])

\* addConstant(Ty, V): a new OpConstantTrue or OpConstantFalse for a bool
\* type, addIntegerConstant for an integer type, a new OpConstant else.
AddConstant(ty, v) ==
    /\ ty \in LiveOf(mod, TypeOps)
    /\ IF mod.IdEntryMap[ty].op = "TypeInt"
       THEN AddIntegerConstant(ty, v)
       ELSE /\ CanAllocate(mod, 1)
            /\ LET g == GetId(mod, InvalidId, 1)
               IN  mod' = AddEntry(g.m, g.id, [op |-> "Constant", key |-> <<ty, v>>])

\* A new entity of type ty at getId(), through add().
AddTyped(op, key) ==
    /\ CanAllocate(mod, 1)
    /\ LET g == GetId(mod, InvalidId, 1)
       IN  mod' = AddEntry(g.m, g.id, [op |-> op, key |-> key])

\* addSpecConstant(Ty, V): OpSpecConstantTrue/False for a bool type, else
\* OpSpecConstant; never looked up in a cache.
AddSpecConstant(ty, v) ==
    /\ ty \in LiveOf(mod, TypeOps)
    /\ AddTyped("SpecConstant", <<ty, v>>)

\* addInstruction(Inst, nullptr): an instruction with no basic block is
\* turned into an OpSpecConstantOp (createSpecConstantOpInst) and added as
\* a constant.
AddInstructionNoBB(ty) ==
    /\ ty \in LiveOf(mod, TypeOps)
    /\ AddTyped("SpecConstantOp", ty)

\* An entity made with a parent block.
InBlock(e) ==
    \/ e.op = "Instruction"
    \/ e.op \in VarOps /\ e.key[2]
    \/ e.op = "ExtInst" /\ e.key[3]

\* A basic block exists only inside a function.
HasBlock == LiveOf(mod, {"Function"}) # {}

\* addVariable(..., BB): an OpVariable, or an OpUntypedVariableKHR for an
\* untyped pointer type, at getId(); with a block it goes through
\* addInstruction and BB->addInstruction, which calls add() in turn.
\* Linkage and constness are the variable's own attributes.
AddVariable(ty, inBB) ==
    /\ ty \in LiveOf(mod, {"TypePointer", "TypeUntypedPointer"})
    /\ inBB => HasBlock
    /\ AddTyped(IF mod.IdEntryMap[ty].op = "TypePointer" THEN "Variable"
                ELSE "UntypedVariable", <<ty, inBB>>)

\* The add*Inst factories with a block (addLoadInst, addPhiInst,
\* addExtInst, addCallInst, addVectorTimesScalarInst...): an instruction
\* with a result id at getId(), handed to BB->addInstruction and so to
\* add().  The ones without a result id (addStoreInst, addSwitchInst)
\* leave the id map alone.
AddInstructionInBB ==
    /\ HasBlock
    /\ AddTyped("Instruction", None)

\* getString: the cached OpString, or a new one at getId().
GetString(str) == AddCachedType("StrMap", str)

\* getOrAddAsmTargetINTEL: the target of that name found by a search of
\* AsmTargetVec, or a new one at getId().
GetOrAddAsmTargetINTEL(t) ==
    IF \E i \in Elems(mod.AsmTargetVec) : mod.IdEntryMap[i].key = t
    THEN UNCHANGED mod
    ELSE AddTyped("AsmTarget", t)

\* addAsmINTEL: a new OpAsmINTEL of a target, never looked up.
AddAsmINTEL(target) ==
    /\ target \in LiveOf(mod, {"AsmTarget"})
    /\ AddTyped("Asm", target)

\* getOrAddMemAliasingINTELInst, behind getOrAddAliasDomainDeclINTELInst,
\* getOrAddAliasScopeDeclINTELInst and getOrAddAliasScopeListDeclINTELInst:
\* the declaration AliasInstMDMap keeps for the metadata node, or a new one.
GetOrAddMemAliasingINTELInst(md) == AddCachedType("AliasInstMDMap", md)

\* addDebugInfo: createDebugInfo (an OpExtInst of the OpenCL.DebugInfo.100
\* set at getId(), no block) handed to addEntry: a module-level debug
\* operation (compile unit, types, ...).
AddDebugInfo == AddTyped("ExtInst", <<"Debug", "Other", FALSE>>)

\* addAuxData: an OpExtInst of NonSemantic.AuxData at getId(), no block.
AddAuxData == AddTyped("ExtInst", <<"AuxData", "Other", FALSE>>)

\* addExtInst with a block: through addInstruction to BB->addInstruction
\* and add(); layoutEntry still files a debug operation of a block other
\* than the four it names.  The debug operations of a block are those four
\* and DebugFunctionDefinition, which the writer drops from DebugInstVec;
\* the non-semantic aux data is module-level and made by addAuxData only.
AddExtInstInBB(set, dop) ==
    /\ HasBlock
    /\ \/ set = "Debug" /\ dop \in {"Scope", "FunctionDefinition"}
       \/ set = "OpenCL" /\ dop = "Other"
    /\ AddTyped("ExtInst", <<set, dop, TRUE>>)

\* eraseInstruction(I, BB): BB->eraseInstruction, then the id leaves the
\* map (assert: it is there); no category vector is told.
EraseInstruction(id) ==
    /\ id \in Live(mod)
    /\ InBlock(mod.IdEntryMap[id])
    /\ mod' = [mod EXCEPT !.IdEntryMap[id] = None]

\* openStructType: the struct takes its id now and is registered only by
\* closeStructType, after its members have been created.
OpenStructType ==
    /\ CanAllocate(mod, 1)
    /\ LET g == GetId(mod, InvalidId, 1)
       IN  mod' = [g.m EXCEPT !.OpenStructs = @ \cup {g.id}]

CloseStructType(id) ==
    /\ id \in mod.OpenStructs
    /\ LET m1 == [mod EXCEPT !.OpenStructs = @ \ {id}]
       IN  mod' = AddEntry(m1, id, [op |-> "TypeStruct", key |-> None])

\* addForward(Ty): a placeholder at a fresh id.
AddForward ==
    /\ CanAllocate(mod, 1)
    /\ LET g == GetId(mod, InvalidId, 1)
       IN  mod' = AddEntry(g.m, g.id, [op |-> "Forward", key |-> None])

\* addForward(Id, Ty): a placeholder at an id the caller chose; NextId is
\* not consulted.
AddForwardWithId(id) ==
    /\ id \notin Live(mod)
    /\ ReservedOnly => id < mod.NextId /\ id \notin mod.OpenStructs
    /\ mod' = AddEntry(mod, id, [op |-> "Forward", key |-> None])

\* addFunction(FuncType, Id): getId(Id, NumParameters + 1), then the
\* function and its parameters at the ids following the function's.
AddFunction(id, n) ==
    /\ \/ id = InvalidId /\ CanAllocate(mod, n + 1)
       \/ id \in Forwards(mod) /\ n \in FwdFuncParams
          /\ MaxOf(id, mod.NextId) + n + 1 <= MaxId + 1
    /\ LET g   == GetId(mod, id, n + 1)
           fn  == AddEntry(g.m, g.id, [op |-> "Function", key |-> None])
           Par[k \in 0..n] ==
               IF k = 0 THEN fn
               ELSE AddEntry(Par[k - 1], g.id + k,
                             [op |-> "FunctionParameter", key |-> None])
       IN  mod' = [Par[n] EXCEPT !.FuncVec = Append(@, g.id)]

\* eraseValue for a type, OpVariable (with or without a block), constant,
\* OpAsmINTEL or OpAsmTargetINTEL: drop it from its vector and the map.  Other entities, an
\* OpUntypedVariableKHR among them, make it return false.
EraseValue(id) ==
    /\ id \in LiveOf(mod, TypeOps \cup ConstOps \cup {"Variable", "Asm", "AsmTarget"})
    /\ LET NotId(x) == x # id
           op == mod.IdEntryMap[id].op
           m1 == CASE op \in TypeOps -> [mod EXCEPT !.TypeVec = SelectSeq(@, NotId)]
                   [] op = "Variable" -> [mod EXCEPT !.VariableVec = SelectSeq(@, NotId)]
                   [] op \in ConstOps -> [mod EXCEPT !.ConstVec = SelectSeq(@, NotId)]
                   [] op = "Asm" -> [mod EXCEPT !.AsmVec = SelectSeq(@, NotId)]
                   [] OTHER -> [mod EXCEPT !.AsmTargetVec = SelectSeq(@, NotId)]
       IN  mod' = [m1 EXCEPT !.IdEntryMap[id] = None]

\* The builder calls, in any order and with any arguments.
Build ==
    \/ \E w \in Widths : AddIntegerType(w) \/ AddFloatType(w)
    \/ AddVoidType \/ AddBoolType \/ AddUncachedType
    \/ \E sc \in StorageClasses : AddUntypedPointerType(sc)
    \/ \E sc \in StorageClasses, t \in Ids : AddPointerType(sc, t)
    \/ \E l \in Lits : GetLiteralAsConstant(l)
    \/ \E t \in Ids, v \in Lits : AddIntegerConstant(t, v) \/ AddConstant(t, v)
                                  \/ AddSpecConstant(t, v)
    \/ \E t \in Ids : AddInstructionNoBB(t)
    \/ \E t \in Ids, b \in BOOLEAN : AddVariable(t, b)
    \/ AddInstructionInBB
    \/ \E str \in Strs : GetString(str)
    \/ \E t \in Targets : GetOrAddAsmTargetINTEL(t)
    \/ \E i \in Ids : AddAsmINTEL(i)
    \/ \E md \in MDs : GetOrAddMemAliasingINTELInst(md)
    \/ AddDebugInfo
    \/ AddAuxData
    \/ \E set \in ExtSets, dop \in ExtOps : AddExtInstInBB(set, dop)
    \/ OpenStructType
    \/ \E i \in Ids : CloseStructType(i)
    \/ AddForward
    \/ \E i \in Ids : AddForwardWithId(i)
    \/ \E i \in {InvalidId} \cup Ids, n \in 0..1 : AddFunction(i, n)

Next == Build \/ \E i \in Ids : EraseValue(i) \/ EraseInstruction(i)

\* The module without erasure.
BuildSpec == Init /\ [][Build]_mod

Spec == Init /\ [][Next]_mod

-----------------------------------------------------------------------------
(* Properties.                                                             *)

TypeOK ==
    /\ mod.NextId \in 1..(MaxId + 1)
    /\ mod.IdEntryMap \in [Ids -> Entities \cup {None}]
    /\ \A f \in {"TypeVec", "ConstVec", "VariableVec", "StringVec", "FuncVec",
                 "DebugInstVec", "AuxDataInstVec", "AsmTargetVec", "AsmVec",
                 "AliasInstMDVec"} :
          mod[f] \in Seq(Ids)
    /\ mod.IntTypeMap \in [Widths -> Ids \cup {None}]
    /\ mod.PointerTypeMap \in [StorageClasses \X Ids -> Ids \cup {None}]
    /\ mod.FloatTypeMap \in [Widths -> Ids \cup {None}]
    /\ mod.UntypedPtrTyMap \in [StorageClasses -> Ids \cup {None}]
    /\ mod.VoidTy \in [{None} -> Ids \cup {None}]
    /\ mod.BoolTy \in [{None} -> Ids \cup {None}]
    /\ mod.LiteralMap \in [Lits -> Ids \cup {None}]
    /\ mod.StrMap \in [Strs -> Ids \cup {None}]
    /\ mod.AliasInstMDMap \in [MDs -> Ids \cup {None}]
    /\ mod.OpenStructs \subseteq Ids
    /\ mod.IdClash \in BOOLEAN

\* Every cached type, string, aliasing declaration or constant (IntTypeMap,
\* FloatTypeMap, PointerTypeMap, UntypedPtrTyMap, VoidTy, BoolTy, StrMap,
\* AliasInstMDMap, LiteralMap) is
\* a live entity with the key it is cached under, a 32-bit literal constant
\* being typed by a live 32-bit integer type: a later factory call,
\* getString or getLiteralAsConstant never hands out a deleted or foreign
\* entity.
CachesCoherent ==
    LET E == mod.IdEntryMap IN
    /\ \A c \in DOMAIN Caches : \A k \in DOMAIN mod[c] : mod[c][k] # None =>
          E[mod[c][k]] = [op |-> Caches[c], key |-> k]
    /\ \A l \in Lits : mod.LiteralMap[l] # None =>
          /\ E[mod.LiteralMap[l]] # None
          /\ E[mod.LiteralMap[l]].op = "Constant"
          /\ E[mod.LiteralMap[l]].key[2] = l
          /\ E[E[mod.LiteralMap[l]].key[1]] = [op |-> "TypeInt", key |-> 32]

\* Deduplication: no two live types of one cached kind with one key (two
\* void, bool, i32, f32 or pointer types to one pointee, no two OpStrings
\* of one text, no two aliasing declarations of one metadata node, no two
\* inline assembly targets of one name), and no two live 32-bit integer
\* constants of one value.
UniqueTypes ==
    LET E == mod.IdEntryMap
        Int32Const(i) == E[i].op = "Constant" /\ E[E[i].key[1]] # None
                         /\ E[E[i].key[1]] = [op |-> "TypeInt", key |-> 32]
    IN  \A i, j \in Live(mod) : i # j =>
          /\ E[i].op \in CachedOps \cup {"AsmTarget"} => E[i] # E[j]
          /\ Int32Const(i) /\ Int32Const(j) => E[i].key[2] # E[j].key[2]

\* What each category vector the writer emits at module scope must hold:
\* the live entities of its kind.
VectorContents ==
    LET E == mod.IdEntryMap IN
    [TypeVec        |-> LiveOf(mod, TypeOps),
     ConstVec       |-> LiveOf(mod, ConstOps),
     StringVec      |-> LiveOf(mod, {"String"}),
     VariableVec    |-> {i \in LiveOf(mod, VarOps) : ~E[i].key[2]},
     AuxDataInstVec |-> {i \in LiveOf(mod, {"ExtInst"}) : E[i].key[1] = "AuxData"},
     AsmTargetVec   |-> LiveOf(mod, {"AsmTarget"}),
     AsmVec         |-> LiveOf(mod, {"Asm"}),
     AliasInstMDVec |-> LiveOf(mod, {"AliasDecl"})]

\* The category vectors mirror the map: each of VectorContents holds every
\* live entity of its kind exactly once and nothing else, so the writer
\* emits each of them once, no function-local variable at module scope and
\* no erased type, constant or inline assembly; and DebugInstVec holds
\* every debug instruction layoutEntry files there, once.
VectorsConsistent ==
    LET C == VectorContents IN
    /\ \A f \in DOMAIN C \cup {"DebugInstVec"} :
          \A i, j \in DOMAIN mod[f] : i # j => mod[f][i] # mod[f][j]
    /\ \A f \in DOMAIN C : Elems(mod[f]) = C[f]
    /\ {i \in Live(mod) : IsModuleDebugInst(mod.IdEntryMap[i])} \subseteq Elems(mod.DebugInstVec)

\* The id bound written into the header (NextId) exceeds every id in use,
\* so a later getId() never returns an id that is taken.
IdsBelowBound == \A i \in Live(mod) \cup mod.OpenStructs : i < mod.NextId

\* addEntry never meets an id already mapped to a different real entity
\* (assert "Id used twice").
NoIdClash == ~mod.IdClash

=============================================================================
