--------------------------- MODULE CapabilityGate ---------------------------
(***************************************************************************)
(* The capability / extension gate of SPIRVModuleImpl (SPIRVModule.cpp,    *)
(* SPIRVModule.h): CapMap, ConditionalCapMap, SPIRVExt, SPIRVVersion,      *)
(* MaxVersion and IsValid, driven by addEntry, addCapability,              *)
(* addExtension, the conditional-capability calls and the version setters. *)
(* An entry is reduced to what addEntry asks of it: the capabilities and   *)
(* the extension it requires.  The tables getCapability (implicit          *)
(* capabilities), getRequiredExtension and the allow list of               *)
(* TranslatorOpts live outside the module and are constants here.          *)
(***************************************************************************)
EXTENDS Naturals, FiniteSets, ToolMain, LongComposite

CONSTANTS
    Caps,         \* SPIRVCapabilityKind values
    Kernel,       \* CapabilityKernel, added by setMemoryModel(OpenCL)
    Deps,         \* [Caps -> SUBSET Caps]: SPIRV::getCapability(Cap)
    Exts,         \* ExtensionID values
    NoExt,        \* an empty std::optional<ExtensionID>
    CapExt,       \* [Caps -> Exts \cup {NoExt}]: SPIRVCapability::getRequiredExtension
    Float16Add,   \* SPV_EXT_shader_atomic_float16_add
    FloatAdd,     \* SPV_EXT_shader_atomic_float_add
    Entries,      \* kinds of entries handed to addEntry
    ReqCaps,      \* [Entries -> SUBSET Caps]: getRequiredCapability()
    EntryExt,     \* [Entries -> Exts \cup {NoExt}]: getRequiredExtension()
    Conds,        \* condition ids of conditional capabilities
    Versions,     \* VersionNumber values, ordered as numbers
    Modes,        \* flag settings <<AutoAddCapability, ValidateCapability, AutoAddExtensions>>
    ExtOptions,   \* --spirv-ext item lists given to llvm-spirv
    ToolOptions,  \* llvm-spirv command lines (records of ToolMain)
    NonSemanticInfo, \* SPV_KHR_non_semantic_info
    LongComposites, \* SPV_INTEL_long_composites
    ContinuedEntry, \* the kind of a ...CompositeContinuedINTEL entry
    ElementCounts,  \* sizes of the element vectors of composite constants
    NoComposite     \* model value: no composite constant added yet

ASSUME Kernel \in Caps /\ CapExt[Kernel] = NoExt /\ Deps[Kernel] = {}
ASSUME {Float16Add, FloatAdd} \subseteq Exts /\ NoExt \notin Exts

MinVersion == CHOOSE v \in Versions : \A w \in Versions : v <= w

VARIABLES
    gate,      \* the gate's members of SPIRVModuleImpl, as one record
    flags,     \* AutoAddCapability, ValidateCapability, AutoAddExtensions
    allowed,   \* TranslationOpts: the extensions the run may use
    added,     \* history: entries passed to addEntry so far
    composite  \* the last composite constant: its size and slices

vars == <<gate, flags, allowed, added, composite>>

AutoAddCapability == flags[1]
ValidateCapability == flags[2]
AutoAddExtensions == flags[3]

\* The reader's mode (no inference) is llvm-spirv -r.
IsReverse == ~AutoAddExtensions

-----------------------------------------------------------------------------
(* addExtension: a refused extension only marks the module invalid; the    *)
(* float16 atomic extension also enables the float atomic extension.        *)
AddExtension(g, x) ==
    IF x \notin allowed
    THEN [g EXCEPT !.IsValid = FALSE]
    ELSE [g EXCEPT !.SPIRVExt = @ \cup {x} \cup (IF x = Float16Add THEN {FloatAdd} ELSE {})]

(* Mutant: the implicit capabilities are inserted without their own. *)
AddCapabilityShallow(g, c) ==
    [g EXCEPT !.CapMap = @ \cup Deps[c] \cup {c}]

RECURSIVE AddCapability(_, _), AddCapabilities(_, _)

(* addCapabilities: addCapability for every element, in some order; the   *)
(* result does not depend on it, each call only adds to the sets and       *)
(* only clears IsValid.                                                    *)
AddCapabilities(g, S) ==
    IF S = {} THEN g
    ELSE LET c == CHOOSE c \in S : TRUE
         IN  AddCapabilities(AddCapability(g, c), S \ {c})

(* addCapability: first the implicitly declared capabilities, then the     *)
(* early return when Cap is present, then its extension (when extensions   *)
(* are inferred) and the insertion into CapMap.                            *)
AddCapability(g, c) ==
    LET d == AddCapabilities(g, Deps[c])
        e == IF AutoAddExtensions /\ CapExt[c] # NoExt
             THEN AddExtension(d, CapExt[c]) ELSE d
    IN  IF c \in d.CapMap THEN d
        ELSE [e EXCEPT !.CapMap = @ \cup {c}]

(* setSPIRVVersion: a version above MaxVersion invalidates the module and *)
(* leaves the version as it was.                                          *)
SetSPIRVVersion(g, v) ==
    IF v > g.MaxVersion
    THEN [g EXCEPT !.IsValid = FALSE]
    ELSE [g EXCEPT !.SPIRVVersion = v]

-----------------------------------------------------------------------------
(* llvm-spirv's main builds TranslatorOpts from a command line that      *)
(* reaches the translator of the gate's mode (ToolMain): the --spirv-ext *)
(* fold and the extensions main allows by itself, and the maximum         *)
(* version of --spirv-max-version.  The constructor: SPIRVVersion 1.0,   *)
(* MaxVersion from the options, and setMemoryModel(MemoryModelOpenCL),   *)
(* which adds CapabilityKernel.  The reader then turns the inference     *)
(* flags off, the writer keeps them.                                      *)
Init ==
    /\ flags \in Modes
    /\ \E mv \in Versions, o \in ToolOptions :
         LET run == Main(Exts, NonSemanticInfo, o) IN
         /\ run.action = IF IsReverse THEN "convertSPIRVToLLVM" ELSE "convertLLVMToSPIRV"
         /\ allowed = run.allowed
         /\ gate = AddCapability([CapMap |-> {}, ConditionalCapMap |-> {},
                                  SPIRVExt |-> {}, SPIRVVersion |-> MinVersion,
                                  MaxVersion |-> mv, IsValid |-> TRUE], Kernel)
    /\ added = {}
    /\ composite = NoComposite

(* Mutant: the entry's own extension is not added. *)
AddEntryNoEntryExt(e) ==
    LET g1 == IF AutoAddCapability THEN AddCapabilities(gate, ReqCaps[e]) ELSE gate
    IN  /\ ValidateCapability => ReqCaps[e] \subseteq g1.CapMap
        /\ gate' = g1
        /\ added' = added \cup {e}
        /\ UNCHANGED <<flags, allowed, composite>>

(* The capability part of addEntry: infer the required capabilities, or   *)
(* (under ValidateCapability) assert they are present, then infer the     *)
(* entry's extension.  The assert is a precondition: a debug build aborts *)
(* there, so the step only happens when it holds.                         *)
EntryStep(e) ==
    LET g1 == IF AutoAddCapability THEN AddCapabilities(gate, ReqCaps[e]) ELSE gate
        g2 == IF AutoAddExtensions /\ EntryExt[e] # NoExt
              THEN AddExtension(g1, EntryExt[e]) ELSE g1
    IN  /\ ValidateCapability => ReqCaps[e] \subseteq g1.CapMap
        /\ gate' = g2
        /\ added' = added \cup {e}

AddEntry(e) ==
    /\ EntryStep(e)
    /\ UNCHANGED <<flags, allowed, composite>>

(* addCompositeConstant: the composite is added through addConstant (it  *)
(* needs no capability of its own) and each continued slice through       *)
(* add(), that is addEntry of an OpConstantCompositeContinuedINTEL.       *)
(* Every continued entry asks the same of the gate, so one addEntry       *)
(* stands for all of them.  addSpecConstantComposite is the same code     *)
(* over the spec-constant classes and is this action too.                 *)
AddCompositeConstant(n) ==
    LET slices == CompositeSlices(n, LongComposites \in allowed)
    IN  /\ composite' = [n |-> n, slices |-> slices]
        /\ IF Len(slices) > 1 THEN EntryStep(ContinuedEntry)
                              ELSE UNCHANGED <<gate, added>>
        /\ UNCHANGED <<flags, allowed>>

AddCapabilityCall(c) ==
    /\ gate' = AddCapability(gate, c)
    /\ UNCHANGED <<flags, allowed, added, composite>>

AddExtensionCall(x) ==
    /\ gate' = AddExtension(gate, x)
    /\ UNCHANGED <<flags, allowed, added, composite>>

(* checkExtension: a refused extension marks the module invalid, nothing  *)
(* is added.                                                               *)
CheckExtension(x) ==
    /\ x \notin allowed
    /\ gate' = [gate EXCEPT !.IsValid = FALSE]
    /\ UNCHANGED <<flags, allowed, added, composite>>

(* addCapabilityInternal: only under AutoAddCapability, no implicit       *)
(* capabilities and no extension.                                          *)
AddCapabilityInternal(c) ==
    /\ AutoAddCapability
    /\ c \notin gate.CapMap
    /\ gate' = [gate EXCEPT !.CapMap = @ \cup {c}]
    /\ UNCHANGED <<flags, allowed, added, composite>>

(* Mutant: the pair is stored as (Cap, Condition). *)
AddConditionalCapabilitySwapped(k, c) ==
    /\ <<k, c>> \in gate.ConditionalCapMap \/ ~AutoAddExtensions
    /\ gate' = [gate EXCEPT !.ConditionalCapMap = @ \cup {<<c, k>>}]
    /\ UNCHANGED <<flags, allowed, added, composite>>

(* addConditionalCapability: a present pair returns early; otherwise the  *)
(* assert against AutoAddExtensions is a precondition.                     *)
AddConditionalCapability(k, c) ==
    /\ <<k, c>> \in gate.ConditionalCapMap \/ ~AutoAddExtensions
    /\ gate' = [gate EXCEPT !.ConditionalCapMap = @ \cup {<<k, c>>}]
    /\ UNCHANGED <<flags, allowed, added, composite>>

EraseConditionalCapability(k, c) ==
    /\ gate' = [gate EXCEPT !.ConditionalCapMap = @ \ {<<k, c>>}]
    /\ UNCHANGED <<flags, allowed, added, composite>>

EraseCapability(c) ==
    /\ gate' = [gate EXCEPT !.CapMap = @ \ {c}]
    /\ UNCHANGED <<flags, allowed, added, composite>>

SetSPIRVVersionCall(v) ==
    /\ gate' = SetSPIRVVersion(gate, v)
    /\ UNCHANGED <<flags, allowed, added, composite>>

(* setMinSPIRVVersion: setSPIRVVersion(max(Ver, current)). *)
SetMinSPIRVVersion(v) ==
    /\ gate' = SetSPIRVVersion(gate, IF v > gate.SPIRVVersion THEN v ELSE gate.SPIRVVersion)
    /\ UNCHANGED <<flags, allowed, added, composite>>

(* setMaxSPIRVVersion: the limit only ever decreases.  The assert         *)
(* Ver >= SPIRVVersion ends a debug build; a release build goes on and     *)
(* may leave the limit below the current version.                          *)
SetMaxSPIRVVersion(v) ==
    /\ gate' = [gate EXCEPT !.MaxVersion = IF v < @ THEN v ELSE @]
    /\ UNCHANGED <<flags, allowed, added, composite>>

(* The calls a producer or the reader makes on the public interface. *)
Build ==
    \/ \E e \in Entries : AddEntry(e)
    \/ \E n \in ElementCounts : AddCompositeConstant(n)
    \/ \E c \in Caps : AddCapabilityCall(c)
    \/ \E x \in Exts : AddExtensionCall(x)
    \/ \E x \in Exts : CheckExtension(x)
    \/ \E k \in Conds, c \in Caps : AddConditionalCapability(k, c)
    \/ \E k \in Conds, c \in Caps : EraseConditionalCapability(k, c)
    \/ \E v \in Versions : SetSPIRVVersionCall(v)
    \/ \E v \in Versions : SetMinSPIRVVersion(v)
    \/ \E v \in Versions : SetMaxSPIRVVersion(v)

(* Build plus the calls entries make on themselves and the clean-up calls *)
(* of later passes.                                                        *)
Next ==
    \/ Build
    \/ \E c \in Caps : AddCapabilityInternal(c)
    \/ \E c \in Caps : EraseCapability(c)

BuildSpec == Init /\ [][Build]_vars
Spec == Init /\ [][Next]_vars

-----------------------------------------------------------------------------
TypeOK ==
    /\ gate.CapMap \subseteq Caps
    /\ gate.ConditionalCapMap \subseteq Conds \X Caps
    /\ gate.SPIRVExt \subseteq Exts
    /\ gate.SPIRVVersion \in Versions /\ gate.MaxVersion \in Versions
    /\ gate.IsValid \in BOOLEAN
    /\ flags \in Modes /\ allowed \subseteq Exts /\ added \subseteq Entries
    /\ composite = NoComposite \/ composite.n \in ElementCounts

(* Every capability in CapMap comes with the capabilities it implicitly   *)
(* declares (addCapability's recursive addCapabilities before the         *)
(* hasCapability early return), whatever order addEntry, addCapability    *)
(* and the constructor's Kernel request them in.                           *)
ImplicitCapabilitiesClosed ==
    \A c \in gate.CapMap : Deps[c] \subseteq gate.CapMap

(* Capability gating: while the module is valid and extensions are        *)
(* inferred, every entry added so far has its capabilities in CapMap and  *)
(* its extension in SPIRVExt, and every capability in CapMap has its      *)
(* required extension in SPIRVExt: a capability that is already present  *)
(* never has its extension re-inferred by addCapability's early return.  *)
RequirementsMet ==
    AutoAddExtensions /\ gate.IsValid =>
        /\ \A e \in added : ReqCaps[e] \subseteq gate.CapMap
                            /\ EntryExt[e] \in gate.SPIRVExt \cup {NoExt}
        /\ \A c \in gate.CapMap : CapExt[c] \in gate.SPIRVExt \cup {NoExt}

(* parseSPVExtOption's loop computes what --spirv-ext documents: in the  *)
(* direction of this run (-r or not), every option list over the items   *)
(* of ExtOptions is rejected exactly when an item is malformed or        *)
(* unknown, and otherwise gives each extension the sign of the last item *)
(* naming it or "all", or the direction's default.                       *)
ExtOptionFoldMatches ==
    [rev \in BOOLEAN |->
        \A l \in ExtOptions :
            ParseSPVExtOption(Exts, l, rev) = ExtOptionReference(Exts, l, rev)]

ExtOptionMatchesReference == ExtOptionFoldMatches[IsReverse]

(* A composite constant keeps the caller's elements in order across its   *)
(* slices: when SPV_INTEL_long_composites may be used, slice j carries     *)
(* elements (j-1)*MaxNumElements+1 .. min(j*MaxNumElements, n), none      *)
(* empty and none too long, and the continued slices went through         *)
(* addEntry (so their capability and extension were inferred); otherwise  *)
(* the composite carries all n elements itself.                           *)
CompositeSlicesMatchReference ==
    composite # NoComposite =>
        IF composite.n > MaxNumElements /\ LongComposites \in allowed
        THEN /\ composite.slices = ReferenceSlices(composite.n)
             /\ ContinuedEntry \in added
        ELSE composite.slices = <<Positions(1, composite.n)>>
=============================================================================
