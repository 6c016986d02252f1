---------------------------- MODULE Annotations ----------------------------
(***************************************************************************)
(* The annotation bookkeeping of SPIRVModuleImpl (SPIRVModule.cpp): names  *)
(* (NamedId), member names (MemberNameVec), decorations (DecorateVec),     *)
(* decoration groups (DecGroupVec) and group decorates (GroupDecVec),      *)
(* entry points (EntryPointVec with its per-execution-model index          *)
(* EntryPointSet) and conditional entry points (ConditionalEntryPointVec,  *)
(* ConditionalEntryPointSet); eraseReferencesOfInst, which strips them for *)
(* an id; and the annotation sections of operator<<, the module writer.   *)
(*                                                                         *)
(* Ids are model values: Objs are types, constants and variables (what    *)
(* eraseValue can erase), Funcs are functions (eraseValue returns false   *)
(* for them).  A decoration is its number in the creation history dec;    *)
(* dec[d] is its target and the number of groups that existed when it was *)
(* added.  A decoration group is its position in DecGroupVec.  Capability  *)
(* propagation by addDecorate and addEntryPoint is the CapabilityGate's.  *)
(***************************************************************************)
EXTENDS Naturals, Sequences, FiniteSets, Functions

CONSTANTS
    Objs,          \* ids of types, constants and variables
    Funcs,         \* ids of functions
    Models,        \* execution models
    Conds,         \* condition ids of conditional entry points
    MaxDecs,       \* bound on addDecorate calls
    MaxGroups,     \* bound on addDecorationGroup calls
    MaxGroupDecs,  \* bound on addGroupDecorate/addGroupMemberDecorate calls
    MaxEPs,        \* bound on addEntryPoint/addConditionalEntryPoint calls
    NoOut          \* no write has happened yet

Ids == Objs \cup Funcs

VARIABLES
    live,                     \* ids in IdEntryMap
    NamedId, MemberNameVec,
    dec, DecorateVec, DecGroupVec, GroupDecVec,
    EntryPointVec, EntryPointSet,
    ConditionalEntryPointVec, ConditionalEntryPointSet,
    epAdds,                   \* entry points added so far (the bound)
    out                       \* what the last operator<< wrote

avars == <<live, NamedId, MemberNameVec, dec, DecorateVec, DecGroupVec,
           GroupDecVec, EntryPointVec, EntryPointSet, ConditionalEntryPointVec,
           ConditionalEntryPointSet, epAdds, out>>

\* std::map<ExecModel, std::set<SPIRVId>>: operator[] creates the key.
InsertAt(map, m, f) ==
    IF m \in DOMAIN map THEN [map EXCEPT ![m] = @ \cup {f}]
    ELSE [k \in DOMAIN map \cup {m} |-> IF k = m THEN {f} ELSE map[k]]

\* An execution-model map lists f under some model.
Lists(map, f) == \E m \in DOMAIN map : f \in map[m]

\* isEntryPoint: the execution model's set in EntryPointSet, and only when
\* EntryPointSet has no key for the model, its set in
\* ConditionalEntryPointSet.
IsEntryPoint(m, f) ==
    IF m \in DOMAIN EntryPointSet THEN f \in EntryPointSet[m]
    ELSE m \in DOMAIN ConditionalEntryPointSet /\ f \in ConditionalEntryPointSet[m]

\* The writer leaves out the OpName of an id that any execution model of
\* either set lists: the name is redundant for an entry point.
WriterSkipsName(i) == Lists(EntryPointSet, i) \/ Lists(ConditionalEntryPointSet, i)

-----------------------------------------------------------------------------
Init ==
    /\ live = Ids
    /\ NamedId = {} /\ MemberNameVec = {}
    /\ dec = <<>> /\ DecorateVec = <<>> /\ DecGroupVec = <<>> /\ GroupDecVec = <<>>
    /\ EntryPointVec = <<>> /\ EntryPointSet = [m \in {} |-> {}]
    /\ ConditionalEntryPointVec = <<>> /\ ConditionalEntryPointSet = [m \in {} |-> {}]
    /\ epAdds = 0
    /\ out = NoOut

(* setName: a non-empty name records the id in NamedId, an empty one      *)
(* removes it.  The caller holds the entry, so it is live.                *)
SetName(id, nonEmpty) ==
    /\ id \in live
    /\ NamedId' = IF nonEmpty THEN NamedId \cup {id} ELSE NamedId \ {id}
    /\ UNCHANGED <<live, MemberNameVec, dec, DecorateVec, DecGroupVec, GroupDecVec,
                   EntryPointVec, EntryPointSet, ConditionalEntryPointVec,
                   ConditionalEntryPointSet, epAdds, out>>

(* addMemberName: add() lays the OpMemberName out into MemberNameVec. *)
AddMemberName(st) ==
    /\ st \in live \cap Objs
    /\ MemberNameVec' = MemberNameVec \cup {st}
    /\ UNCHANGED <<live, NamedId, dec, DecorateVec, DecGroupVec, GroupDecVec,
                   EntryPointVec, EntryPointSet, ConditionalEntryPointVec,
                   ConditionalEntryPointSet, epAdds, out>>

(* Mutant: the decoration is recorded under the number before its own. *)
AddDecorateOffByOne(t) ==
    /\ t \in live
    /\ Len(dec) < MaxDecs
    /\ dec' = Append(dec, [target |-> t, epoch |-> Len(DecGroupVec)])
    /\ DecorateVec' = Append(DecorateVec, Len(dec))
    /\ UNCHANGED <<live, NamedId, MemberNameVec, DecGroupVec, GroupDecVec,
                   EntryPointVec, EntryPointSet, ConditionalEntryPointVec,
                   ConditionalEntryPointSet, epAdds, out>>

(* addDecorate: the target must exist (assert); a decoration without an  *)
(* owning group goes to the flat DecorateVec.  Only the decoration        *)
(* classes outside src/ set an owner, so the decorations made here have   *)
(* none, and groups take them by addDecorationGroup.                      *)
AddDecorate(t) ==
    /\ t \in live
    /\ Len(dec) < MaxDecs
    /\ dec' = Append(dec, [target |-> t, epoch |-> Len(DecGroupVec)])
    /\ DecorateVec' = Append(DecorateVec, Len(dec) + 1)
    /\ UNCHANGED <<live, NamedId, MemberNameVec, DecGroupVec, GroupDecVec,
                   EntryPointVec, EntryPointSet, ConditionalEntryPointVec,
                   ConditionalEntryPointSet, epAdds, out>>

(* Mutant: a new group also takes the decorations of the previous group. *)
AddDecorationGroupCumulative ==
    /\ Len(DecGroupVec) < MaxGroups
    /\ DecGroupVec' = Append(DecGroupVec, Range(DecorateVec) \cup
                        (IF DecGroupVec = <<>> THEN {} ELSE DecGroupVec[Len(DecGroupVec)]))
    /\ DecorateVec' = <<>>
    /\ UNCHANGED <<live, NamedId, MemberNameVec, dec, GroupDecVec,
                   EntryPointVec, EntryPointSet, ConditionalEntryPointVec,
                   ConditionalEntryPointSet, epAdds, out>>

(* addDecorationGroup: the new group takes every pending decoration       *)
(* (takeDecorates) and DecorateVec is left empty (asserted).              *)
AddDecorationGroup ==
    /\ Len(DecGroupVec) < MaxGroups
    /\ DecGroupVec' = Append(DecGroupVec, Range(DecorateVec))
    /\ DecorateVec' = <<>>
    /\ UNCHANGED <<live, NamedId, MemberNameVec, dec, GroupDecVec,
                   EntryPointVec, EntryPointSet, ConditionalEntryPointVec,
                   ConditionalEntryPointSet, epAdds, out>>

(* addGroupDecorate / addGroupMemberDecorate through                      *)
(* addGroupDecorateGeneric: record the group's targets in GroupDecVec.    *)
AddGroupDecorate(g, targets, member) ==
    /\ g \in 1..Len(DecGroupVec)
    /\ targets # {} /\ targets \subseteq live
    /\ Len(GroupDecVec) < MaxGroupDecs
    /\ GroupDecVec' = Append(GroupDecVec, [group |-> g, targets |-> targets,
                                           member |-> member])
    /\ UNCHANGED <<live, NamedId, MemberNameVec, dec, DecorateVec, DecGroupVec,
                   EntryPointVec, EntryPointSet, ConditionalEntryPointVec,
                   ConditionalEntryPointSet, epAdds, out>>

(* addEntryPoint: append the OpEntryPoint and index its target under the *)
(* execution model.                                                       *)
AddEntryPoint(m, f) ==
    /\ f \in live \cap Funcs
    /\ epAdds < MaxEPs
    /\ EntryPointVec' = Append(EntryPointVec, [model |-> m, target |-> f])
    /\ EntryPointSet' = InsertAt(EntryPointSet, m, f)
    /\ epAdds' = epAdds + 1
    /\ UNCHANGED <<live, NamedId, MemberNameVec, dec, DecorateVec, DecGroupVec,
                   GroupDecVec, ConditionalEntryPointVec, ConditionalEntryPointSet, out>>

(* addConditionalEntryPoint: the same for OpConditionalEntryPointINTEL. *)
AddConditionalEntryPoint(c, m, f) ==
    /\ f \in live \cap Funcs
    /\ epAdds < MaxEPs
    /\ ConditionalEntryPointVec' =
         Append(ConditionalEntryPointVec, [cond |-> c, model |-> m, target |-> f])
    /\ ConditionalEntryPointSet' = InsertAt(ConditionalEntryPointSet, m, f)
    /\ epAdds' = epAdds + 1
    /\ UNCHANGED <<live, NamedId, MemberNameVec, dec, DecorateVec, DecGroupVec,
                   GroupDecVec, EntryPointVec, EntryPointSet, out>>

(* specializeConditionalEntryPoints: the conditional entry points on c    *)
(* are removed from the vector (and, when kept, re-added in order by      *)
(* addEntryPoint); then their target ids are erased from every model's    *)
(* set of ConditionalEntryPointSet.                                       *)
SpecializeConditionalEntryPoints(c, keep) ==
    LET onC(ep)  == ep.cond = c
        removed  == SelectSeq(ConditionalEntryPointVec, onC)
        ids      == {removed[i].target : i \in DOMAIN removed}
        promoted == [i \in DOMAIN removed |-> [model |-> removed[i].model,
                                               target |-> removed[i].target]]
    IN
    /\ removed # <<>>
    /\ ConditionalEntryPointVec' = SelectSeq(ConditionalEntryPointVec, LAMBDA ep : ~onC(ep))
    /\ ConditionalEntryPointSet' =
         [m \in DOMAIN ConditionalEntryPointSet |-> ConditionalEntryPointSet[m] \ ids]
    /\ IF keep
       THEN /\ EntryPointVec' = EntryPointVec \o promoted
            /\ EntryPointSet' =
                 [m \in DOMAIN EntryPointSet \cup {p.model : p \in Range(promoted)} |->
                    {p.target : p \in {q \in Range(promoted) : q.model = m}}
                    \cup (IF m \in DOMAIN EntryPointSet THEN EntryPointSet[m] ELSE {})]
       ELSE UNCHANGED <<EntryPointVec, EntryPointSet>>
    /\ UNCHANGED <<live, NamedId, MemberNameVec, dec, DecorateVec, DecGroupVec,
                   GroupDecVec, epAdds, out>>

(* The body of eraseReferencesOfInst once getEntry found a live entry     *)
(* with an id: drop its OpName and OpMemberNames, the flat decorations    *)
(* that target it, and, for a function, its OpEntryPoints.                *)
StripReferences(id) ==
    /\ NamedId' = NamedId \ {id}
    /\ MemberNameVec' = MemberNameVec \ {id}
    /\ DecorateVec' = SelectSeq(DecorateVec, LAMBDA d : dec[d].target # id)
    /\ EntryPointVec' = IF id \in Funcs
                        THEN SelectSeq(EntryPointVec, LAMBDA ep : ep.target # id)
                        ELSE EntryPointVec

(* eraseReferencesOfInst on an id the caller holds. *)
EraseReferencesOfInst(id) ==
    /\ id \in live
    /\ StripReferences(id)
    /\ UNCHANGED <<live, dec, DecGroupVec, GroupDecVec, EntryPointSet,
                   ConditionalEntryPointVec, ConditionalEntryPointSet, epAdds, out>>

(* eraseValue of a type, constant or variable drops the id from          *)
(* IdEntryMap and its category vector (the registry's EraseValue); it     *)
(* leaves every annotation alone, so a client strips them first with      *)
(* eraseReferencesOfInst, or does not.                                    *)
EraseValue(id) ==
    /\ id \in live \cap Objs
    /\ live' = live \ {id}
    /\ UNCHANGED <<NamedId, MemberNameVec, dec, DecorateVec, DecGroupVec,
                   GroupDecVec, EntryPointVec, EntryPointSet, ConditionalEntryPointVec,
                   ConditionalEntryPointSet, epAdds, out>>

(* The annotation sections of operator<<: OpEntryPoints and conditional  *)
(* ones, the execution modes of each (get<SPIRVFunction> of the target,   *)
(* which asserts it exists), an OpName for every NamedId that no         *)
(* execution model lists as an entry point (getEntry, which asserts),    *)
(* then member names, groups, decorations and group decorates, which are *)
(* written as they are.  The outcome is whether an assert was reached.   *)
Write ==
    LET eps   == Range(EntryPointVec) \cup Range(ConditionalEntryPointVec)
        names == {i \in NamedId : ~WriterSkipsName(i)}
    IN
    /\ out' = IF \/ \E ep \in eps : ep.target \notin live
                  \/ \E i \in names : i \notin live
               THEN "fatal" ELSE "written"
    /\ UNCHANGED <<live, NamedId, MemberNameVec, dec, DecorateVec, DecGroupVec,
                   GroupDecVec, EntryPointVec, EntryPointSet, ConditionalEntryPointVec,
                   ConditionalEntryPointSet, epAdds>>

Next ==
    \/ \E id \in Ids, b \in BOOLEAN : SetName(id, b)
    \/ \E st \in Objs : AddMemberName(st)
    \/ \E t \in Ids : AddDecorate(t)
    \/ AddDecorationGroup
    \/ \E g \in 1..MaxGroups, ts \in SUBSET Ids, b \in BOOLEAN : AddGroupDecorate(g, ts, b)
    \/ \E m \in Models, f \in Funcs : AddEntryPoint(m, f)
    \/ \E c \in Conds, m \in Models, f \in Funcs : AddConditionalEntryPoint(c, m, f)
    \/ \E c \in Conds, b \in BOOLEAN : SpecializeConditionalEntryPoints(c, b)
    \/ \E id \in Ids : EraseReferencesOfInst(id)
    \/ \E id \in Objs : EraseValue(id)
    \/ Write

Spec == Init /\ [][Next]_avars

-----------------------------------------------------------------------------
AnnotTypeOK ==
    /\ live \subseteq Ids /\ NamedId \subseteq Ids /\ MemberNameVec \subseteq Objs
    /\ dec \in Seq([target : Ids, epoch : 0..MaxGroups])
    /\ DecorateVec \in Seq(1..Len(dec))
    /\ DecGroupVec \in Seq(SUBSET (1..Len(dec)))
    /\ \A m \in DOMAIN EntryPointSet : m \in Models /\ EntryPointSet[m] \subseteq Funcs
    /\ \A m \in DOMAIN ConditionalEntryPointSet :
         m \in Models /\ ConditionalEntryPointSet[m] \subseteq Funcs

(* Group k holds exactly decorations added after group k-1 and before it, *)
(* the pending list holds only decorations added after the last group,   *)
(* in the order they were added (the OpDecorationGroup wire rule).       *)
GroupsAbsorbInOrder ==
    /\ \A k \in DOMAIN DecGroupVec : \A d \in DecGroupVec[k] : dec[d].epoch = k - 1
    /\ \A i \in DOMAIN DecorateVec : dec[DecorateVec[i]].epoch = Len(DecGroupVec)
    /\ \A i, j \in DOMAIN DecorateVec : i < j => DecorateVec[i] < DecorateVec[j]

\* An OpEntryPoint or OpConditionalEntryPointINTEL of model m targets f.
DeclaredEntryPoint(m, f) ==
    \/ [model |-> m, target |-> f] \in Range(EntryPointVec)
    \/ \E ep \in Range(ConditionalEntryPointVec) : ep.model = m /\ ep.target = f

(* isEntryPoint and the writer's OpName filter, the two readers of        *)
(* EntryPointSet and ConditionalEntryPointSet, see exactly the entry      *)
(* points the vectors hold (and the writer writes): isEntryPoint(m, f)    *)
(* holds iff an entry point of m targets f, and the writer drops the      *)
(* OpName of f iff some entry point targets f, after any sequence of      *)
(* addEntryPoint, addConditionalEntryPoint,                               *)
(* specializeConditionalEntryPoints and eraseReferencesOfInst.            *)
EntryPointQueriesMatchVectors ==
    \A f \in Funcs :
        /\ \A m \in Models : IsEntryPoint(m, f) <=> DeclaredEntryPoint(m, f)
        /\ WriterSkipsName(f) <=> \E m \in Models : DeclaredEntryPoint(m, f)
=============================================================================
