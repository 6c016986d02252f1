--------------------------- MODULE SpecConstParse -----------------------------
(***************************************************************************)
(* parseSpecConstOpt of llvm-spirv (tools/llvm-spirv/llvm-spirv.cpp): the *)
(* -spec-const string "id1:type1:value1 id2:type2:value2 ..." checked      *)
(* against the specialization constants of the input module (the         *)
(* SpecConstInfo that getSpecConstInfo reads) and stored in              *)
(* TranslatorOpts.  The string is already split at the spaces: an item is *)
(* a record of what the loop tells apart in one option:                   *)
(*   fmt   "ok", or "short" when Option.split(':', 2) gives fewer than 3   *)
(*         parts;                                                          *)
(*   id    the id, with idOk FALSE when it is no 32-bit unsigned integer; *)
(*   ty    <<"i", w>> or <<"f", w>> for the prefix and the width that      *)
(*         getAsInteger reads after it (0 when it reads none), or <<"x", 0>> *)
(*         for any other prefix;                                           *)
(*   lit   for "i": "dec" for the decimal integer num, "bad" when it is no *)
(*         decimal integer, "wide" when it needs more than one 64-bit     *)
(*         word; for "f": "exact", "inexact", "overflow" (a status beyond *)
(*         opInexact), "invalid" (convertFromString fails) or "hex"       *)
(*         (the value contains 0x).                                        *)
(* SpecConstInfo maps the ids of the module to their size in bytes.        *)
(***************************************************************************)
EXTENDS Naturals, Sequences
LOCAL INSTANCE SequencesExt

CONSTANTS
    SpecWidths,   \* integer widths given after "i"
    SpecValues    \* decimal values, all below 2^31

\* isPowerOf2_32: a nonzero w with a single bit set.
RECURSIVE IsPowerOf2(_)
IsPowerOf2(w) == w = 1 \/ (w > 1 /\ w % 2 = 0 /\ IsPowerOf2(w \div 2))

\* The active bits of n: Value >> Width is nonzero iff Bits(Value) > Width.
RECURSIVE Bits(_)
Bits(n) == IF n = 0 THEN 0 ELSE 1 + Bits(n \div 2)

\* The bytes an integer type of width w takes: `Width < 8 ? 1 : Width / 8`.
IntSize(w) == IF w < 8 THEN 1 ELSE w \div 8

\* An accumulated result: the verdict (TRUE is an error, as the function
\* returns) and TranslatorOpts' map id -> [ty, val] set so far.
Start == [err |-> FALSE, specs |-> <<>>]

SetSpecConst(acc, id, item) ==
    [acc EXCEPT !.specs = [x \in DOMAIN @ \cup {id} |->
                             IF x = id THEN [ty |-> item.ty, lit |-> item.lit]
                             ELSE @[x]]]

Error(acc) == [acc EXCEPT !.err = TRUE]

IntOption(info, acc, item) ==
    LET w == item.ty[2] IN
    CASE ~IsPowerOf2(w) \/ w > 64          -> Error(acc)
      [] IntSize(w) # info[item.id]         -> Error(acc)
      [] item.lit \in {"bad", "wide"}       -> Error(acc)
      [] w < 64 /\ Bits(item.num) > w       -> Error(acc)
      [] OTHER                              -> SetSpecConst(acc, item.id, item)

\* The float branch: widths 16, 32 and 64; a hexadecimal value is stored
\* as it is, a decimal one when it converts at most inexactly.
FloatOption(acc, item) ==
    CASE item.ty[2] \notin {16, 32, 64}             -> Error(acc)
      [] item.lit = "hex"                           -> SetSpecConst(acc, item.id, item)
      [] item.lit \in {"invalid", "overflow"}       -> Error(acc)
      [] OTHER                                      -> SetSpecConst(acc, item.id, item)

\* One turn of the loop over the options; the first error returns.
ApplySpecConst(info, acc, item) ==
    CASE acc.err                     -> acc
      [] item.fmt = "short"          -> Error(acc)
      [] ~item.idOk                  -> Error(acc)
      [] item.id \notin DOMAIN info  -> Error(acc)
      [] item.ty[1] = "i"            -> IntOption(info, acc, item)
      [] item.ty[1] = "f"            -> FloatOption(acc, item)
      [] OTHER                       -> Error(acc)

\* parseSpecConstOpt: getSpecConstInfo failing returns true at once
\* (infoOk FALSE); otherwise the options in order.
ParseSpecConstOpt(infoOk, info, items) ==
    IF ~infoOk THEN Error(Start)
    ELSE FoldLeft(LAMBDA acc, item : ApplySpecConst(info, acc, item), Start, items)

-----------------------------------------------------------------------------
(* Reference for an integer option: iw is accepted for a constant of size *)
(* bytes exactly when w is a power of two up to 64 that takes that many   *)
(* bytes, and the value is below 2^w (every width from 31 up holds the    *)
(* values of SpecValues).                                                 *)
IntAcceptedReference(size, w, n) ==
    /\ w \in {2^k : k \in 0..6}
    /\ (IF w < 8 THEN 1 ELSE w \div 8) = size
    /\ w >= 31 \/ n < 2^w

\* The integer branch agrees with the reference on every bounded input.
IntRangeMatchesReference ==
    \A w \in SpecWidths, n \in SpecValues, size \in {1, 2, 4, 8} :
        LET item == [fmt |-> "ok", id |-> 1, idOk |-> TRUE, ty |-> <<"i", w>>,
                     lit |-> "dec", num |-> n]
        IN  ~ApplySpecConst([x \in {1} |-> size], Start, item).err
              <=> IntAcceptedReference(size, w, n)

=============================================================================
