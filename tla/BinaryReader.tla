---------------------------- MODULE BinaryReader ----------------------------
(***************************************************************************)
(* The readers of SPIRVModuleImpl (SPIRVModule.cpp): parseSPIRV for the    *)
(* binary form, parseSPT for the text form, and parseAndCreateSPIRVEntry,  *)
(* which both call for every instruction, composed with the registry of    *)
(* module ModuleRegistry that every parsed entry is added to.              *)
(*                                                                         *)
(* The input is a header and a sequence of instructions, chosen in Init.  *)
(* An instruction is a record: its opcode class, its id (0 for none), the  *)
(* registry key, the extension name of an OpExtension, the member ids of   *)
(* an OpTypeStruct and the pointer id of an OpTypeForwardPointer.  Word    *)
(* counts, the line context and operand decoding are not modelled: decode *)
(* is the entry's own (not in src/), except the one thing it tells the     *)
(* module, the struct members not yet defined (addUnknownStructField).     *)
(***************************************************************************)
EXTENDS ModuleRegistry

CONSTANTS
    Headers,       \* candidate headers [empty, magic, version, schema, bound]
    Bodies,        \* candidate instruction sequences
    KnownVersions, \* isSPIRVVersionKnown
    MaxVersion,    \* TranslatorOpts maximum version
    AllowedExts,   \* TranslatorOpts extensions that are allowed
    KnownExts      \* names SPIRVMap<ExtensionID, std::string>::rfind knows

VARIABLES
    input,   \* [format, header, body]: what the stream holds
    rd       \* the reader: phase, position, IsValid, SPIRVVersion, and the
             \* module's IdTypeForwardMap keys and UnknownStructFieldMap ids

rvars == <<input, rd, mod>>

Body == input.body
Hdr  == input.header

\* parseAndCreateSPIRVEntry leaves the module valid for this instruction:
\* a known, allowed extension name, and an implemented opcode.
Acceptable(i) ==
    /\ i.op = "Extension" => i.ext \in KnownExts /\ i.ext \in AllowedExts
    /\ i.op # "Unimplemented"

\* The registry entity of an instruction with an id.
EntityOf(i) == [op |-> i.op, key |-> i.key]

-----------------------------------------------------------------------------
(* isSpirvText: the image read as text starts with the decimal magic     *)
(* number.  A binary image never does, and neither does an empty one.     *)
IsSpirvText == input.format = "text" /\ ~Hdr.empty /\ Hdr.magic

\* convertSPIRV of llvm-spirv: exactly one of -to-text and -to-binary is
\* given, and the input is read as text when -to-binary is.
ToolFromText(toText) == ~toText

(* The module starts as the registry's constructor leaves it.  A reader   *)
(* (readSpirv) runs with SPIRVUseTextFormat as the -spirv-text option     *)
(* left it.  convertSpirv(Input, Out, ErrMsg, ToText) takes FromText from  *)
(* isSpirvText: when it equals ToText the input is copied and nothing is  *)
(* parsed; otherwise the flag is saved and set to FromText for the read.  *)
(* llvm-spirv -to-text / -to-binary (convertSPIRV of the tool) calls the  *)
(* stream form with FromText = ToBinary, the opposite of ToText, and no   *)
(* look at the input.                                                     *)
ReaderInit ==
    /\ input \in [format : {"binary", "text"}, header : Headers, body : Bodies]
    /\ \E client \in {"read", "convert", "tool"}, toText, saved \in BOOLEAN :
         LET copy == client = "convert" /\ toText = IsSpirvText
         IN  rd = [phase |-> IF copy THEN "copied" ELSE "header", pos |-> 1,
                   IsValid |-> TRUE, SPIRVVersion |-> 1, fwd |-> {}, unknown |-> {},
                   client |-> client, toText |-> toText /\ client # "read",
                   saved |-> saved, out |-> IF copy THEN "copy" ELSE "none",
                   parser |-> "none",
                   SPIRVUseTextFormat |->
                     CASE client = "tool"   -> ToolFromText(toText)
                       [] client = "read" \/ copy -> saved
                       [] OTHER           -> IsSpirvText]
    /\ Init

(* operator>> dispatches on SPIRVUseTextFormat, not on what the stream     *)
(* holds (rd.parser records its choice): a parser meets the magic number  *)
(* only in an image of its own format.                                    *)
Parser == IF rd.SPIRVUseTextFormat THEN "text" ELSE "binary"
MagicSeen(p) == Hdr.magic /\ input.format = p

\* The header passes every check of parseSPIRV (and of parseSPT).
HeaderAcceptedBy(p) ==
    /\ ~Hdr.empty /\ MagicSeen(p) /\ Hdr.version \in KnownVersions
    /\ Hdr.version <= MaxVersion /\ Hdr.schema

\* The header as the parser operator>> chose, and as the one that ran.
HeaderAccepted == HeaderAcceptedBy(Parser)
HeaderAcceptedAtRead == HeaderAcceptedBy(rd.parser)

(* parseSPIRV: the five header words are read at once and checked in     *)
(* order; any failure marks the module invalid and returns before the     *)
(* loop.  Only then are the version and NextId (the id bound) taken.      *)
ParseSPIRVHeader ==
    /\ rd.phase = "header" /\ ~rd.SPIRVUseTextFormat
    /\ IF HeaderAccepted
       THEN /\ rd' = [rd EXCEPT !.phase = "loop", !.SPIRVVersion = Hdr.version,
                                !.parser = "binary"]
            /\ mod' = [mod EXCEPT !.NextId = Hdr.bound]
       ELSE /\ rd' = [rd EXCEPT !.phase = "done", !.IsValid = FALSE,
                                !.parser = "binary"]
            /\ UNCHANGED mod
    /\ UNCHANGED input

(* parseSPT: word by word; the version is stored before it is checked and *)
(* NextId before the schema is, so a rejected header can leave them set.  *)
ParseSPTHeader ==
    /\ rd.phase = "header" /\ rd.SPIRVUseTextFormat
    /\ LET early == Hdr.empty \/ ~MagicSeen(Parser)
           verOK == Hdr.version \in KnownVersions /\ Hdr.version <= MaxVersion
       IN  /\ rd' = [rd EXCEPT !.phase = IF HeaderAccepted THEN "loop" ELSE "done",
                               !.IsValid = HeaderAccepted,
                               !.SPIRVVersion = IF early THEN @ ELSE Hdr.version,
                               !.parser = "text"]
           /\ mod' = IF ~early /\ verOK THEN [mod EXCEPT !.NextId = Hdr.bound]
                     ELSE mod
    /\ UNCHANGED input

(* Mutant: an empty instruction (OpNop or word count 0) also skips the   *)
(* word after it.                                                         *)
LoopTurnSkipsEmpty ==
    /\ IF ~rd.IsValid
       THEN /\ rd' = [rd EXCEPT !.phase = "resolve"]
            /\ UNCHANGED mod
       ELSE LET i == Body[rd.pos] IN
            /\ rd' = [rd EXCEPT !.pos = @ + (IF i.op = "Nop" THEN 2 ELSE 1),
                                !.IsValid = Acceptable(i),
                                !.fwd = IF i.op = "TypeForwardPointer" THEN @ \cup {i.ptr} ELSE @,
                                !.unknown = IF i.op = "TypeStruct"
                                            THEN @ \cup (i.members \ Live(mod)) ELSE @]
            /\ mod' = IF i.id # 0 THEN AddEntry(mod, i.id, EntityOf(i)) ELSE mod
    /\ UNCHANGED input

(* Mutant: the loop goes on parsing after the module became invalid. *)
LoopTurnNoStop ==
    /\ LET i == Body[rd.pos] IN
       /\ rd' = [rd EXCEPT !.pos = @ + 1,
                           !.IsValid = @ /\ Acceptable(i),
                           !.fwd = IF i.op = "TypeForwardPointer" THEN @ \cup {i.ptr} ELSE @,
                           !.unknown = IF i.op = "TypeStruct"
                                       THEN @ \cup (i.members \ Live(mod)) ELSE @]
       /\ mod' = IF i.id # 0 THEN AddEntry(mod, i.id, EntityOf(i)) ELSE mod
    /\ UNCHANGED input

(* One turn of either read loop once an instruction's word count and      *)
(* opcode were read: stop when the module is already invalid, else create *)
(* the entry (nothing for OpNop or a zero word count), check an           *)
(* OpExtension's name against the known names and the allow list and the  *)
(* opcode against the implemented ones, and add the entry whatever the    *)
(* checks said.  A forward pointer has no id: it goes to IdTypeForwardMap. *)
(* A struct records the members not yet in IdEntryMap.                    *)
LoopTurn ==
    /\ IF ~rd.IsValid
       THEN /\ rd' = [rd EXCEPT !.phase = "resolve"]
            /\ UNCHANGED mod
       ELSE LET i == Body[rd.pos] IN
            /\ rd' = [rd EXCEPT !.pos = @ + 1,
                                !.IsValid = Acceptable(i),
                                !.fwd = IF i.op = "TypeForwardPointer" THEN @ \cup {i.ptr} ELSE @,
                                !.unknown = IF i.op = "TypeStruct"
                                            THEN @ \cup (i.members \ Live(mod)) ELSE @]
            /\ mod' = IF i.id # 0 THEN AddEntry(mod, i.id, EntityOf(i)) ELSE mod
    /\ UNCHANGED input

(* parseSPIRV's loop reads one word, the word count and opcode together. *)
ReadSPIRVInstruction ==
    /\ rd.phase = "loop" /\ ~rd.SPIRVUseTextFormat /\ rd.pos <= Len(Body)
    /\ LoopTurn

(* parseSPT's loop reads the word count, then the opcode by its name. *)
ReadSPTInstruction ==
    /\ rd.phase = "loop" /\ rd.SPIRVUseTextFormat /\ rd.pos <= Len(Body)
    /\ LoopTurn

(* Mutant: a failed read at the end of the stream does not leave the loop. *)
EndOfInputNoBreak ==
    /\ rd.phase = "loop" /\ rd.pos > Len(Body)
    /\ UNCHANGED <<input, rd, mod>>

(* The read of the next word fails at the end of the stream: break. *)
EndOfInput ==
    /\ rd.phase = "loop" /\ rd.pos > Len(Body)
    /\ rd' = [rd EXCEPT !.phase = "resolve"]
    /\ UNCHANGED <<input, mod>>

(* Mutant: getEntry without the IdTypeForwardMap fallback. *)
GetEntryFoundNoForward(id) == id \in Live(mod)

(* getEntry finds the id in IdEntryMap or in IdTypeForwardMap; otherwise  *)
(* it reaches assert(false && "Id is not in map").                        *)
GetEntryFound(id) == id \in Live(mod) \/ id \in rd.fwd

(* resolveUnknownStructFields after the loop, also when the loop stopped  *)
(* on an invalid module: getEntry for every recorded member id.           *)
ResolveUnknownStructFields ==
    /\ rd.phase = "resolve"
    /\ rd' = [rd EXCEPT !.phase = IF \A id \in rd.unknown : GetEntryFound(id)
                                  THEN "done" ELSE "fatal"]
    /\ UNCHANGED <<input, mod>>

(* Mutant: the flag is restored before the module is written. *)
ConvertFinishRestoreFirst ==
    /\ rd.phase = "done" /\ rd.client # "read"
    /\ rd' = [rd EXCEPT !.phase = IF rd.IsValid THEN "converted" ELSE "failed",
                        !.out = IF rd.IsValid THEN (IF rd.saved THEN "text" ELSE "binary")
                                ELSE @,
                        !.SPIRVUseTextFormat = rd.saved]
    /\ UNCHANGED <<input, mod>>

(* The rest of convertSpirv(IS, OS, ...): a module with an error restores *)
(* the flag and returns false; otherwise the flag is set to ToText, the   *)
(* module written by operator<< in that form, and the flag restored.  The *)
(* second getError cannot differ from the first: no step of the writer    *)
(* modelled here records an error (its asserts are TopologicalSort's).    *)
ConvertFinish ==
    /\ rd.phase = "done" /\ rd.client # "read"
    /\ rd' = [rd EXCEPT !.phase = IF rd.IsValid THEN "converted" ELSE "failed",
                        !.out = IF rd.IsValid THEN (IF rd.toText THEN "text" ELSE "binary")
                                ELSE @,
                        !.SPIRVUseTextFormat = rd.saved]
    /\ UNCHANGED <<input, mod>>

ReaderNext ==
    \/ ParseSPIRVHeader \/ ParseSPTHeader
    \/ ReadSPIRVInstruction \/ ReadSPTInstruction \/ EndOfInput
    \/ ResolveUnknownStructFields \/ ConvertFinish

(* The reader runs to completion on the calling thread. *)
ReaderSpec == ReaderInit /\ [][ReaderNext]_rvars /\ WF_rvars(ReaderNext)

-----------------------------------------------------------------------------
ReaderTypeOK ==
    /\ rd.parser \in {"none", "binary", "text"}
    /\ rd.phase \in {"header", "loop", "resolve", "done", "fatal",
                    "converted", "failed", "copied"}
    /\ rd.out \in {"none", "copy", "binary", "text"}
    /\ rd.pos \in 1..Len(Body) + 1
    /\ rd.IsValid \in BOOLEAN
    /\ rd.fwd \subseteq Ids /\ rd.unknown \subseteq Ids

Consumed == rd.pos - 1

(* The reader consumes the input up to and including the first           *)
(* instruction parseAndCreateSPIRVEntry rejects and no further, the       *)
(* module is valid exactly when the header and everything consumed were  *)
(* accepted, and a finished read has either reached the end of the        *)
(* stream or stopped right after a rejected instruction (the validity     *)
(* check at the top of the loop, SPIRVModule.cpp 2622 and 2548).          *)
ReadsUpToFirstError ==
    /\ \A k \in 1..Consumed - 1 : Acceptable(Body[k])
    /\ rd.phase \notin {"header", "loop", "copied"} =>
         rd.IsValid = (HeaderAcceptedAtRead /\ \A k \in 1..Consumed : Acceptable(Body[k]))
    /\ rd.phase \in {"resolve", "done"} /\ HeaderAcceptedAtRead =>
         Consumed = Len(Body) \/ ~rd.IsValid

(* convertSpirv returns true exactly when the module it read has no      *)
(* error, and then the output is in the requested form (text for ToText) *)
(* and the other form went in; a copied input was already in the         *)
(* requested form; and whatever the outcome SPIRVUseTextFormat is back to *)
(* the value it had before the call (SPIRVModule.cpp 2749-2771).          *)
ConvertOutcome ==
    /\ rd.phase \in {"converted", "failed", "copied"} =>
         rd.SPIRVUseTextFormat = rd.saved
    /\ rd.phase = "converted" =>
         /\ rd.IsValid /\ HeaderAcceptedAtRead
         /\ rd.out = (IF rd.toText THEN "text" ELSE "binary")
         /\ input.format # rd.out
    /\ rd.phase = "copied" => IsSpirvText = rd.toText
    /\ rd.phase = "failed" => ~rd.IsValid

(* Input that names every struct member before the struct (defined or     *)
(* forward-declared) never reaches the assert in getEntry from            *)
(* resolveUnknownStructFields, also when the loop stopped early.           *)
NoFatalOnInput == rd.phase # "fatal"

(* A read that finished with a valid module hands the client a module     *)
(* whose id bound (NextId, taken from the header by parseSPIRV and         *)
(* parseSPT) exceeds every id it defines, so the translator's next         *)
(* getId() returns an id that is not in use (spec section 4.1).           *)
AcceptedModuleIdsBelowBound ==
    rd.phase \in {"done", "converted"} /\ rd.IsValid => IdsBelowBound

(* Every read and every conversion ends: the loop consumes one           *)
(* instruction per turn and convertSpirv returns after the read.          *)
ReaderTerminates ==
    <>(rd.phase \in {"fatal", "converted", "failed", "copied"}
       \/ (rd.phase = "done" /\ rd.client = "read"))
=============================================================================
