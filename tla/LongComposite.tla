---------------------------- MODULE LongComposite ----------------------------
(***************************************************************************)
(* The splitting of a composite constant whose operands do not fit in one *)
(* instruction (addCompositeConstant and addSpecConstantComposite,        *)
(* src/lib/SPIRV/libSPIRV/SPIRVModule.cpp).  When SPV_INTEL_long_composites *)
(* may be used, the first MaxNumElements elements form the composite       *)
(* itself and the rest follow in ...ContinuedINTEL instructions of at most *)
(* MaxNumElements elements each; otherwise the composite keeps them all   *)
(* and its own validation reports the size.  Elements are their positions *)
(* 1..n in the caller's vector; a slice is the sequence of positions one  *)
(* instruction carries.                                                   *)
(***************************************************************************)
EXTENDS Naturals, Sequences

CONSTANT MaxNumElements   \* MaxWordCount - FixedWC of the composite class

Positions(from, to) == [i \in 1..(to - from + 1) |-> from + i - 1]

\* Variant of ContinuedSlices whose next slice starts one element late.
RECURSIVE ContinuedSlicesSkipFirst(_, _)
ContinuedSlicesSkipFirst(end, n) ==
    IF end >= n THEN <<>>
    ELSE LET next == IF n - end > MaxNumElements THEN end + MaxNumElements ELSE n
         IN  <<Positions(end + 2, next)>> \o ContinuedSlicesSkipFirst(next, n)

\* The loop `for (; End != Elements.end();)`: the slice after End ends
\* MaxNumElements further on, or at the end of the elements when fewer
\* remain.
RECURSIVE ContinuedSlices(_, _)
ContinuedSlices(end, n) ==
    IF end = n THEN <<>>
    ELSE LET next == IF n - end > MaxNumElements THEN end + MaxNumElements ELSE n
         IN  <<Positions(end + 1, next)>> \o ContinuedSlices(next, n)

\* The slices of a composite of n elements; `long` is
\* isAllowedToUseExtension(SPV_INTEL_long_composites).
CompositeSlices(n, long) ==
    IF n <= MaxNumElements \/ ~long
    THEN <<Positions(1, n)>>
    ELSE <<Positions(1, MaxNumElements)>> \o ContinuedSlices(MaxNumElements, n)

-----------------------------------------------------------------------------
(* Reference: slice j holds the positions (j-1)*M+1 .. min(j*M, n).       *)
ReferenceSlices(n) ==
    LET M == MaxNumElements
        Last(j) == IF j * M < n THEN j * M ELSE n
    IN  [j \in 1..((n + M - 1) \div M) |-> Positions((j - 1) * M + 1, Last(j))]

=============================================================================
