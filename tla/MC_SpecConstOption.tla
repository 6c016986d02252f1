------------------------- MODULE MC_SpecConstOption -------------------------
(***************************************************************************)
(* A module with specialization constants 1 (4 bytes) and 2 (2 bytes), as *)
(* getSpecConstInfo reads them, and -spec-const strings of one or two      *)
(* options.  Widths 0 and 128 fail the power-of-two and the 64-bit checks, *)
(* 2 is a power of two below 8, 16 and 32 match one constant each; the     *)
(* values 0 and 256 fit or do not fit the narrow widths.  Id 3 is not in   *)
(* the module.                                                             *)
(***************************************************************************)
EXTENDS SpecConstOption

MCInfos == {[x \in {1, 2} |-> IF x = 1 THEN 4 ELSE 2]}

MCItems ==
    [fmt : {"ok"}, id : {1, 2, 3}, idOk : {TRUE},
     ty : {<<"i", w>> : w \in {0, 2, 16, 32, 128}}, lit : {"dec"}, num : {0, 256}]
    \cup
    [fmt : {"ok"}, id : {1, 2}, idOk : {TRUE}, ty : {<<"f", w>> : w \in {8, 16, 64}},
     lit : {"exact", "overflow", "hex"}, num : {0}]
    \cup
    {[fmt |-> "short", id |-> 1, idOk |-> TRUE, ty |-> <<"i", 32>>, lit |-> "dec", num |-> 0],
     [fmt |-> "ok", id |-> 1, idOk |-> FALSE, ty |-> <<"i", 32>>, lit |-> "dec", num |-> 0],
     [fmt |-> "ok", id |-> 1, idOk |-> TRUE, ty |-> <<"x", 0>>, lit |-> "dec", num |-> 0],
     [fmt |-> "ok", id |-> 1, idOk |-> TRUE, ty |-> <<"i", 32>>, lit |-> "bad", num |-> 0],
     [fmt |-> "ok", id |-> 1, idOk |-> TRUE, ty |-> <<"i", 32>>, lit |-> "wide", num |-> 0],
     [fmt |-> "ok", id |-> 1, idOk |-> TRUE, ty |-> <<"f", 32>>, lit |-> "invalid", num |-> 0],
     [fmt |-> "ok", id |-> 1, idOk |-> TRUE, ty |-> <<"f", 32>>, lit |-> "inexact", num |-> 0]}

MCItemLists == {<<a>> : a \in MCItems} \cup {<<a, b>> : a, b \in MCItems}

\* integer widths around every power of two up to 128 and values at the
\* edges of 1, 2, 8 and 16 bits
MCSpecWidths == (0..17) \cup {31, 32, 33, 63, 64, 65, 128}
MCSpecValues == {0, 1, 2, 3, 4, 127, 128, 255, 256, 65535, 65536}
=============================================================================
