--------------------------- MODULE TopologicalSort ---------------------------
(***************************************************************************)
(* The depth-first topological sort that orders the module's types,        *)
(* constants and variables before serialization                            *)
(* (class TopologicalSort, src/lib/SPIRV/libSPIRV/SPIRVModule.cpp).        *)
(*                                                                         *)
(* The recursive visit(E) is modelled with an explicit call stack: a frame *)
(* holds the entry being visited and the operands its loop has not yet     *)
(* looked at; `ret` carries the boolean a finished call returns to its     *)
(* caller ("cyclic dependency detected").  The graph of entries is chosen  *)
(* in Init (kinds from KindSet, operands from OperandMaps) and never       *)
(* changes.                                                                *)
(***************************************************************************)
EXTENDS Naturals, Sequences, FiniteSets

CONSTANTS
    N,          \* number of entries; ids are 1..N
    KindSet,       \* the opcode classes the entries may have
    OperandMaps(_), \* for a map id -> kind, the possible maps id -> operands
    NoRet       \* model value: no call result pending

Ids == 1..N

TypeKinds  == {"TypeInt", "TypeFloat", "TypePointer", "TypeStruct", "TypeArray"}
ConstKinds == {"Constant", "SpecConstantOp"}
Kinds      == TypeKinds \cup ConstKinds \cup {"Variable"}

DFSState == {"Unvisited", "Discovered", "Visited"}

VARIABLES
    kind,         \* id -> opcode class of the entry
    ops,          \* id -> sequence of its non-literal operand ids
    entryState,   \* EntryStateMap
    stack,        \* frames of the active visit() calls, top is Last
    roots,        \* entries the root loop over EntryStateMap has not reached
    ret,          \* value returned by the call that just finished, or NoRet
    typeIntVec, constIntVec, typeVec, constAndVarVec,
    fwdPtrs,      \* ForwardPointerSet: pointer ids given a forward declaration
    status        \* "running", "done" or "fatal" (llvm_unreachable)

graph  == <<kind, ops>>
sorter == <<entryState, stack, roots, ret, status>>
output == <<typeIntVec, constIntVec, typeVec, constAndVarVec, fwdPtrs>>
vars   == <<graph, sorter, output>>

Top == stack[Len(stack)]
Pop == SubSeq(stack, 1, Len(stack) - 1)
SeqSet(s) == {s[i] : i \in DOMAIN s}

\* Variant of Output that writes the integer constants before the integer
\* types.
OutputConstFirst == constIntVec \o typeIntVec \o typeVec \o constAndVarVec

\* The emitted stream: TypeIntVec, ConstIntVec, TypeVec, ConstAndVarVec.
Output == typeIntVec \o constIntVec \o typeVec \o constAndVarVec

IsPointer(e) == kind[e] = "TypePointer"

\* Operand resolution: an operand that is an OpTypeForwardPointer is
\* redirected to the entry at its pointer id.  Operands in this model are
\* already the ids of the real entries.
Resolve(o) == o

-----------------------------------------------------------------------------
(* Entering visit(E): the checks before the operand loop.                  *)
Call(e, rest) ==
    \/ /\ entryState[e] = "Visited"
       /\ ret' = FALSE
       /\ UNCHANGED <<entryState, stack>>
       /\ stack' = rest
    \/ /\ entryState[e] = "Discovered"
       /\ ret' = TRUE
       /\ UNCHANGED entryState
       /\ stack' = rest
    \/ /\ entryState[e] = "Unvisited"
       /\ entryState' = [entryState EXCEPT ![e] = "Discovered"]
       /\ stack' = Append(rest, [e |-> e, todo |-> ops[e]])
       /\ ret' = NoRet

Init ==
    /\ kind \in [Ids -> KindSet]
    /\ ops \in OperandMaps(kind)
    /\ entryState = [e \in Ids |-> "Unvisited"]
    /\ stack = <<>>
    /\ roots = [i \in 1..N |-> i]
    /\ ret = NoRet
    /\ typeIntVec = <<>> /\ constIntVec = <<>>
    /\ typeVec = <<>> /\ constAndVarVec = <<>>
    /\ fwdPtrs = {}
    /\ status = "running"

\* Variant of RootVisit whose loop never advances past the current root.
RootVisitNoAdvance ==
    /\ status = "running"
    /\ stack = <<>> /\ ret = NoRet /\ roots # <<>>
    /\ roots' = roots
    /\ Call(Head(roots), <<>>)
    /\ UNCHANGED <<graph, output, status>>

\* The constructor's loop `for (ES : EntryStateMap) visit(ES.first)`,
\* iterating in id order.
RootVisit ==
    /\ status = "running"
    /\ stack = <<>> /\ ret = NoRet /\ roots # <<>>
    /\ roots' = Tail(roots)
    /\ Call(Head(roots), <<>>)
    /\ UNCHANGED <<graph, output, status>>

\* The result of a root call: true means an unbreakable cycle.
RootResult ==
    /\ status = "running"
    /\ stack = <<>> /\ ret # NoRet
    /\ ret' = NoRet
    /\ status' = IF ret THEN "fatal" ELSE "running"
    /\ UNCHANGED <<graph, entryState, stack, roots, output>>

\* One iteration of the operand loop of the top frame.
VisitOperand ==
    /\ status = "running"
    /\ stack # <<>> /\ ret = NoRet /\ Top.todo # <<>>
    /\ LET op   == Resolve(Head(Top.todo))
           rest == [stack EXCEPT ![Len(stack)].todo = Tail(Top.todo)]
       IN  IF entryState[op] = "Visited"
           THEN /\ stack' = rest
                /\ UNCHANGED <<entryState, ret>>
           ELSE Call(op, rest)
    /\ UNCHANGED <<graph, roots, output, status>>

\* A callee returned false: the caller's loop goes on.
ContinueAfterCall ==
    /\ status = "running"
    /\ stack # <<>> /\ ret = FALSE
    /\ ret' = NoRet
    /\ UNCHANGED <<graph, entryState, stack, roots, output, status>>

\* Variants of CycleFound: without the pointer test (every cycle is fatal),
\* forward-declaring whatever entry is on the cycle, and without the reset
\* `State = Unvisited`.
CycleFoundNoPointerBreak ==
    /\ status = "running"
    /\ stack # <<>> /\ ret = TRUE
    /\ entryState' = [entryState EXCEPT ![Top.e] = "Unvisited"]
    /\ stack' = Pop
    /\ ret' = TRUE
    /\ UNCHANGED <<graph, roots, output, status>>

CycleFoundForwardsAny ==
    /\ status = "running"
    /\ stack # <<>> /\ ret = TRUE
    /\ entryState' = [entryState EXCEPT ![Top.e] = "Unvisited"]
    /\ stack' = Pop
    /\ fwdPtrs' = fwdPtrs \cup {Top.e}
    /\ ret' = FALSE
    /\ UNCHANGED <<graph, roots, typeIntVec, constIntVec, typeVec,
                   constAndVarVec, status>>

CycleFoundNoReset ==
    /\ status = "running"
    /\ stack # <<>> /\ ret = TRUE
    /\ stack' = Pop
    /\ IF IsPointer(Top.e)
       THEN /\ fwdPtrs' = fwdPtrs \cup {Top.e}
            /\ ret' = FALSE
       ELSE /\ UNCHANGED fwdPtrs
            /\ ret' = TRUE
    /\ UNCHANGED <<graph, entryState, roots, typeIntVec, constIntVec, typeVec,
                   constAndVarVec, status>>

\* A callee returned true: forget the caller; a pointer breaks the cycle
\* with a forward declaration and returns false, anything else returns true.
CycleFound ==
    /\ status = "running"
    /\ stack # <<>> /\ ret = TRUE
    /\ entryState' = [entryState EXCEPT ![Top.e] = "Unvisited"]
    /\ stack' = Pop
    /\ IF IsPointer(Top.e)
       THEN /\ fwdPtrs' = fwdPtrs \cup {Top.e}
            /\ ret' = FALSE
       ELSE /\ UNCHANGED fwdPtrs
            /\ ret' = TRUE
    /\ UNCHANGED <<graph, roots, typeIntVec, constIntVec, typeVec,
                   constAndVarVec, status>>

\* Variant of Settle that loses the `else` branch for constants whose type
\* is not an integer.
SettleDropsNonIntConst ==
    /\ status = "running"
    /\ stack # <<>> /\ ret = NoRet /\ Top.todo = <<>>
    /\ LET e == Top.e IN
       /\ typeIntVec' = IF kind[e] = "TypeInt"
                        THEN Append(typeIntVec, e) ELSE typeIntVec
       /\ constIntVec' = IF kind[e] \in ConstKinds /\ kind[ops[e][1]] = "TypeInt"
                         THEN Append(constIntVec, e) ELSE constIntVec
       /\ typeVec' = IF kind[e] \in TypeKinds \ {"TypeInt"}
                     THEN Append(typeVec, e) ELSE typeVec
       /\ constAndVarVec' = IF kind[e] = "Variable"
                            THEN Append(constAndVarVec, e) ELSE constAndVarVec
       /\ entryState' = [entryState EXCEPT ![e] = "Visited"]
    /\ stack' = Pop
    /\ ret' = FALSE
    /\ UNCHANGED <<graph, roots, fwdPtrs, status>>

\* All operands done: file the entry by its opcode (post-order) and return.
Settle ==
    /\ status = "running"
    /\ stack # <<>> /\ ret = NoRet /\ Top.todo = <<>>
    /\ LET e == Top.e IN
       /\ typeIntVec' = IF kind[e] = "TypeInt"
                        THEN Append(typeIntVec, e) ELSE typeIntVec
       /\ constIntVec' = IF kind[e] \in ConstKinds /\ kind[ops[e][1]] = "TypeInt"
                         THEN Append(constIntVec, e) ELSE constIntVec
       /\ typeVec' = IF kind[e] \in TypeKinds \ {"TypeInt"}
                     THEN Append(typeVec, e) ELSE typeVec
       /\ constAndVarVec' =
            IF \/ kind[e] = "Variable"
               \/ kind[e] \in ConstKinds /\ kind[ops[e][1]] # "TypeInt"
            THEN Append(constAndVarVec, e) ELSE constAndVarVec
       /\ entryState' = [entryState EXCEPT ![e] = "Visited"]
    /\ stack' = Pop
    /\ ret' = FALSE
    /\ UNCHANGED <<graph, roots, fwdPtrs, status>>

\* The root loop is exhausted: the sort is complete.
Finish ==
    /\ status = "running"
    /\ stack = <<>> /\ ret = NoRet /\ roots = <<>>
    /\ status' = "done"
    /\ UNCHANGED <<graph, entryState, stack, roots, ret, output>>

Next ==
    \/ RootVisit \/ RootResult \/ VisitOperand \/ ContinueAfterCall
    \/ CycleFound \/ Settle \/ Finish

\* visit() and the root loop run to completion on the calling thread.
Spec == Init /\ [][Next]_vars /\ WF_vars(Next)

-----------------------------------------------------------------------------
(* Graph notions used by the properties.                                   *)
Edges == {<<e, o>> \in Ids \X Ids : o \in SeqSet(ops[e])}

\* The entries reachable in one or more steps from the set s through
\* entries of `allowed`; `seen` accumulates the result.
RECURSIVE ReachWithin(_, _, _)
ReachWithin(s, seen, allowed) ==
    LET next == {o \in allowed : \E e \in s : <<e, o>> \in Edges} \ seen
    IN  IF next = {} THEN seen ELSE ReachWithin(next, seen \cup next, allowed)

Reach(e) == ReachWithin({e}, {}, Ids)

NonPointers == {e \in Ids : ~IsPointer(e)}

\* A cycle no forward pointer declaration can break.
HasPointerFreeCycle ==
    \E e \in NonPointers : e \in ReachWithin({e}, {}, NonPointers)

Pos(e) == CHOOSE i \in DOMAIN Output : Output[i] = e

-----------------------------------------------------------------------------
(* Properties.                                                             *)

\* The sort's state is well typed; ForwardPointerSet holds only
\* OpTypeForwardPointer declarations of pointer types.
TypeOK ==
    /\ entryState \in [Ids -> DFSState]
    /\ \A i \in DOMAIN stack : stack[i].e \in Ids
    /\ ret \in BOOLEAN \cup {NoRet}
    /\ fwdPtrs \subseteq {e \in Ids : IsPointer(e)}
    /\ status \in {"running", "done", "fatal"}

\* Completeness of the emission: when the sort finishes, every type,
\* constant and variable handed to it is emitted exactly once
\* (TopologicalSort constructor and visit(), SPIRVModule.cpp).
AllEmitted ==
    status = "done" =>
        /\ SeqSet(Output) = Ids
        /\ Len(Output) = N

\* Declaration before use: in the concatenated stream every operand of an
\* emitted entry is emitted strictly earlier, or is a pointer whose
\* OpTypeForwardPointer precedes the whole stream.
DefBeforeUse ==
    status = "done" =>
        \A i \in DOMAIN Output : \A o \in SeqSet(ops[Output[i]]) :
            \/ o \in fwdPtrs
            \/ \E j \in 1..(i - 1) : Output[j] = o

\* The sort aborts (llvm_unreachable) exactly when the graph has a cycle
\* with no pointer type on it, and finishes otherwise.
SortVerdict ==
    status \in {"done", "fatal"} =>
        (status = "fatal" <=> HasPointerFreeCycle)

\* The constructor returns: the root loop over EntryStateMap ends, with a
\* complete sort or with llvm_unreachable, whatever the cycles and however
\* often an entry is reset to Unvisited.
Terminates == <>(status \in {"done", "fatal"})

=============================================================================
