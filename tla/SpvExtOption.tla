---------------------------- MODULE SpvExtOption ----------------------------
(***************************************************************************)
(* parseSPVExtOption of llvm-spirv (tools/llvm-spirv/llvm-spirv.cpp): the  *)
(* --spirv-ext list folded into the ExtensionsStatusMap that main hands   *)
(* to TranslatorOpts.  An item of the list is a record: its first         *)
(* character ("+", "-", or "other" for any other character and for the    *)
(* empty string) and the name after it ("all", "" or an extension name,   *)
(* known or not).  A status is "true", "false" or Unset (std::nullopt). *)
(***************************************************************************)
EXTENDS Integers, Sequences
LOCAL INSTANCE SequencesExt

Unset == "unset"     \* std::nullopt

\* The status an item sets: true for "+", false for "-".
SignOf(item) == IF item.sign = "+" THEN "true" ELSE "false"

\* The return value of parseSPVExtOption and the status map it leaves.
Failed == [ret |-> -1, status |-> <<>>]

\* An item that fails the format check: no sign, or nothing after it.
Malformed(item) == item.sign \notin {"+", "-"} \/ item.name = ""

(* Mutant: "all" only sets the extensions that are still unset. *)
ApplyItemAllKeeps(known, acc, item) ==
    IF acc.ret # 0 \/ Malformed(item) THEN Failed
    ELSE IF item.name = "all"
         THEN [acc EXCEPT !.status = [x \in known |->
                 IF @[x] = Unset THEN SignOf(item) ELSE @[x]]]
    ELSE IF item.name \notin known THEN Failed
    ELSE [acc EXCEPT !.status[item.name] = SignOf(item)]

(* One turn of the loop: a malformed item or an unknown name returns -1; *)
(* "all" sets every known extension, a name sets its own.               *)
ApplyItem(known, acc, item) ==
    IF acc.ret # 0 \/ Malformed(item) THEN Failed
    ELSE IF item.name = "all"
         THEN [acc EXCEPT !.status = [x \in known |-> SignOf(item)]]
    ELSE IF item.name \notin known THEN Failed
    ELSE [acc EXCEPT !.status[item.name] = SignOf(item)]

(* The initial state: every known extension allowed when reading SPIR-V  *)
(* (-r), unset otherwise; then the items in order.                      *)
ParseSPVExtOption(known, list, isReverse) ==
    FoldLeft(LAMBDA acc, item : ApplyItem(known, acc, item),
             [ret |-> 0, status |-> [x \in known |-> IF isReverse THEN "true" ELSE Unset]],
             list)

(* TranslatorOpts::isAllowedToUseExtension: only a status that is set and *)
(* true allows an extension.                                              *)
AllowedBy(known, res) == {x \in known : res.status[x] = "true"}

-----------------------------------------------------------------------------
(* The documented meaning of --spirv-ext, stated without the loop: the   *)
(* option is rejected when any item is malformed or names an unknown     *)
(* extension; otherwise an extension's status is the sign of the last    *)
(* item that names it or "all", and the mode's default when none does.   *)
ExtOptionReference(known, list, isReverse) ==
    IF \E i \in DOMAIN list : Malformed(list[i]) \/ list[i].name \notin known \cup {"all"}
    THEN Failed
    ELSE [ret |-> 0, status |-> [x \in known |->
            LET hits == {i \in DOMAIN list : list[i].name \in {x, "all"}}
            IN  IF hits = {} THEN (IF isReverse THEN "true" ELSE Unset)
                ELSE SignOf(list[CHOOSE i \in hits : \A j \in hits : j <= i])]]
=============================================================================
