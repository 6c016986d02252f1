--------------------------- MODULE SpecConstOption ---------------------------
(***************************************************************************)
(* The loop of parseSpecConstOpt (SpecConstParse) as a state machine, one *)
(* option per step, from the module's SpecConstInfo and a -spec-const      *)
(* string to the verdict main acts on.                                     *)
(***************************************************************************)
EXTENDS SpecConstParse

CONSTANTS Infos, ItemLists

VARIABLES info, todo, opts, status

vars == <<info, todo, opts, status>>

Init ==
    /\ info \in Infos
    /\ todo \in ItemLists
    /\ opts = Start
    /\ \E infoOk \in BOOLEAN :
          status = IF infoOk THEN "parsing" ELSE "error"

ParseOption ==
    /\ status = "parsing" /\ todo # <<>>
    /\ LET acc == ApplySpecConst(info, opts, Head(todo)) IN
       /\ opts' = acc
       /\ todo' = Tail(todo)
       /\ status' = IF acc.err THEN "error" ELSE status
    /\ UNCHANGED info

Finish ==
    /\ status = "parsing" /\ todo = <<>>
    /\ status' = "ok"
    /\ UNCHANGED <<info, todo, opts>>

Next == ParseOption \/ Finish

Spec == Init /\ [][Next]_vars

-----------------------------------------------------------------------------
\* The bytes a type of the documented list takes.
ListedSize == [t \in {<<"i", 1>>, <<"i", 8>>, <<"i", 16>>, <<"i", 32>>, <<"i", 64>>,
                      <<"f", 16>>, <<"f", 32>>, <<"f", 64>>} |->
                 IF t[2] < 8 THEN 1 ELSE t[2] \div 8]

(* What the option documents ("Supported types are: i1, i8, i16, i32, i64, *)
(* f16, f32, f64") and the CL_INVALID_VALUE error of the integer branch    *)
(* enforces ("Size of type ... does not match the size of the             *)
(* specialization constant in the module"): once parseSpecConstOpt has     *)
(* returned false, every value stored in TranslatorOpts has a supported    *)
(* type whose size is the size of its specialization constant.            *)
SpecConstMatchesModule ==
    status = "ok" =>
        \A id \in DOMAIN opts.specs :
            /\ opts.specs[id].ty \in DOMAIN ListedSize
            /\ ListedSize[opts.specs[id].ty] = info[id]

=============================================================================
