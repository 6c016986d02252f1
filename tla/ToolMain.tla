------------------------------ MODULE ToolMain ------------------------------
(***************************************************************************)
(* main of llvm-spirv (tools/llvm-spirv/llvm-spirv.cpp) up to the call of  *)
(* a translator: the TranslatorOpts it builds (the --spirv-ext fold of     *)
(* SpvExtOption and the extensions main allows on its own), the option    *)
(* conflicts it rejects, and the mode it dispatches to.  The command line *)
(* is a record of the options main consults; an option's value matters    *)
(* only as far as main's branches tell it apart.  Verdicts of code that   *)
(* main calls and that is modelled elsewhere or not at all are fields of  *)
(* the record: the input file being empty, what getSpecConstInfo reads   *)
(* from it for parseSpecConstOpt (SpecConstParse), and                    *)
(* TranslatorOpts::validateFnVarOpts failing.                             *)
(***************************************************************************)
EXTENDS Integers, Sequences, SpvExtOption, SpecConstParse

\* The extensions main allows by itself besides the fold: --spirv-preserve-
\* auxdata and a NonSemantic --spirv-debug-info-version both allow
\* SPV_KHR_non_semantic_info (nsi), and only when writing SPIR-V.
ExtraAllowed(o, nsi) ==
    IF ~o.reverse /\ (o.preserveAux \/ o.debugEIS \in {"nsdi100", "nsdi200"})
    THEN {nsi} ELSE {}

Exit(ret) == [ret |-> ret, action |-> "exit", allowed |-> {}]

\* --fnvar-spec-enable or another --fnvar-xxx flag is given without -r,
\* another one without --fnvar-spec-enable, or
\* TranslatorOpts::validateFnVarOpts refuses them.
FnVarRejected(o) ==
    \/ (o.fnvar \/ o.fnvarEnable) /\ ~o.reverse
    \/ o.fnvar /\ ~o.fnvarEnable
    \/ o.fnvarBad

(* The option conflicts main rejects with -1 after the fold, in the order *)
(* it checks them: --spirv-ext-inst twice or with the deprecated fmuladd  *)
(* option, a failed -spec-const (read only with -r), the --fnvar-xxx      *)
(* flags.                                                                 *)
Rejected(o) ==
    \/ o.extInst > 1
    \/ o.extInst = 1 /\ o.fmulAdd
    \/ /\ o.reverse /\ o.specConst # <<>>
       /\ ParseSpecConstOpt(o.specInfoOk, o.specInfo, o.specConst).err
    \/ FnVarRejected(o)

(* The dispatch at the end of main: -to-text and -to-binary exclude each  *)
(* other and -r and -s; then LLVM to SPIR-V when no mode option is given, *)
(* -r and -s exclude each other, and -spec-const-info / -spirv-print-     *)
(* report print what the module holds.                                    *)
Dispatch(o) ==
    CASE o.toText /\ (o.toBinary \/ o.reverse \/ o.regularize)     -> "exit"
      [] o.toBinary /\ (o.toText \/ o.reverse \/ o.regularize)     -> "exit"
      [] o.toText \/ o.toBinary                                    -> "convertSPIRV"
      [] ~o.reverse /\ ~o.regularize /\ ~o.specConstInfo /\ ~o.printReport
                                                                   -> "convertLLVMToSPIRV"
      [] o.reverse /\ o.regularize                                 -> "exit"
      [] o.reverse                                                 -> "convertSPIRVToLLVM"
      [] o.regularize                                              -> "regularizeLLVM"
      [] OTHER                                                     -> "report"

(* main: an empty input file and a failed --spirv-ext fold return first;  *)
(* then the options are checked and the TranslatorOpts completed; then    *)
(* the dispatch.  The result is the exit code when main returns before a  *)
(* translator, the translator it calls, and the extensions it allows.     *)
Main(known, nsi, o) ==
    LET ext == ParseSPVExtOption(known, o.ext, o.reverse)
        act == Dispatch(o)
    IN  CASE o.emptyInput         -> Exit(-1)
          [] ext.ret # 0          -> Exit(ext.ret)
          [] Rejected(o)          -> Exit(-1)
          [] act = "exit"         -> Exit(-1)
          [] OTHER -> [ret |-> 0, action |-> act,
                       allowed |-> AllowedBy(known, ext) \cup ExtraAllowed(o, nsi)]
=============================================================================
