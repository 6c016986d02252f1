------------------------- MODULE MC_CapabilityGate -------------------------
(* A small capability table: a chain C3 -> C2 -> C1 of implicit           *)
(* capabilities, C2 needing extension X1 and C3 the float16 atomic one;    *)
(* entry E1 needs C3, entry E2 needs C1 and X1 itself.  X1 also stands    *)
(* for SPV_INTEL_long_composites and E2 for its continued instructions.   *)
(* With two elements per instruction, n = 2, 4 and 5 are one full slice, *)
(* two full ones (the loop's last comparison at equality) and three with *)
(* a short last one.                                                      *)
EXTENDS CapabilityGate

CONSTANTS KernelCap, C1, C2, C3, X1, XF16, XF, XU, NoExtension, E1, E2, K1

MCCaps == {KernelCap, C1, C2, C3}
MCDeps == [c \in MCCaps |-> CASE c = C3 -> {C2}
                              [] c = C2 -> {C1}
                              [] OTHER  -> {}]
MCExts == {X1, XF16, XF}
MCCapExt == [c \in MCCaps |-> CASE c = C2 -> X1
                                [] c = C3 -> XF16
                                [] OTHER  -> NoExtension]
MCEntries == {E1, E2}
MCReqCaps == [e \in MCEntries |-> IF e = E1 THEN {C3} ELSE {C1}]
MCEntryExt == [e \in MCEntries |-> IF e = E2 THEN X1 ELSE NoExtension]
MCConds == {K1}
MCVersions == 1..3
\* the writer (inference on), the reader (everything off), strict validation
MCModes == {<<TRUE, FALSE, TRUE>>, <<FALSE, FALSE, FALSE>>, <<FALSE, TRUE, TRUE>>}
\* --spirv-ext items: a sign or another first character, and a known
\* extension, "all", nothing or an unknown name; lists of up to two items
MCItems == [sign : {"+", "-", "other"}, name : {X1, XF16, "all", "", XU}]
MCExtOptions == UNION {[1..k -> MCItems] : k \in 0..2}
\* command lines: every --spirv-ext list, every combination of the mode
\* options, of the options that allow SPV_KHR_non_semantic_info and of the
\* --fnvar-xxx checks; --spirv-ext-inst and the input file take one good
\* value each; -spec-const is given, accepted or refused, only on reverse
\* command lines without --spirv-ext (SpecConstOption checks its parsing);
\* the module has specialization constant 1 of 4 bytes and no constant 2
MCSpecConsts ==
    {<<[fmt |-> "ok", id |-> 1, idOk |-> TRUE, ty |-> <<"i", 32>>, lit |-> "dec", num |-> 7]>>,
     <<[fmt |-> "ok", id |-> 2, idOk |-> TRUE, ty |-> <<"i", 32>>, lit |-> "dec", num |-> 7]>>}
MCBaseToolOptions ==
    [emptyInput : {FALSE}, ext : MCExtOptions, extInst : {0}, fmulAdd : {FALSE},
     specConst : {<<>>}, specInfoOk : {TRUE}, specInfo : {<<4>>}, preserveAux : BOOLEAN,
     debugEIS : {"none", "ocl100", "nsdi100", "nsdi200"},
     fnvar : BOOLEAN, fnvarEnable : BOOLEAN, fnvarBad : {FALSE},
     toText : BOOLEAN, toBinary : BOOLEAN, reverse : BOOLEAN,
     regularize : BOOLEAN, specConstInfo : {FALSE}, printReport : {FALSE}]
MCToolOptions ==
    MCBaseToolOptions \cup
    {[o EXCEPT !.specConst = l] : o \in {b \in MCBaseToolOptions : b.reverse /\ b.ext = <<>>},
                                 l \in MCSpecConsts}
MCElementCounts == {2, 4, 5}
\* integer widths around every power of two up to 128 and values at the
\* edges of 1, 2, 8 and 16 bits
MCSpecWidths == (0..17) \cup {31, 32, 33, 63, 64, 65, 128}
MCSpecValues == {0, 1, 2, 3, 4, 127, 128, 255, 256, 65535, 65536}
=============================================================================
