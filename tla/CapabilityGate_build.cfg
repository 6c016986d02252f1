\* The gate under every public call, in the writer, reader and strict modes.
CONSTANTS
    SpecWidths <- MCSpecWidths  SpecValues <- MCSpecValues
    KernelCap = KernelCap  C1 = C1  C2 = C2  C3 = C3
    X1 = X1  XF16 = XF16  XF = XF  XU = XU  NoExtension = NoExtension
    E1 = E1  E2 = E2  K1 = K1
    Caps <- MCCaps  Kernel = KernelCap  Deps <- MCDeps
    Exts <- MCExts  NoExt = NoExtension  CapExt <- MCCapExt
    Float16Add = XF16  FloatAdd = XF
    Entries <- MCEntries  ReqCaps <- MCReqCaps  EntryExt <- MCEntryExt
    Conds <- MCConds  Versions <- MCVersions  Modes <- MCModes
    ExtOptions <- MCExtOptions  ToolOptions <- MCToolOptions  NonSemanticInfo = X1
    LongComposites = X1  ContinuedEntry = E2  MaxNumElements = 2
    ElementCounts <- MCElementCounts  NoComposite = NoComposite
SPECIFICATION BuildSpec
INVARIANT TypeOK ImplicitCapabilitiesClosed RequirementsMet ExtOptionMatchesReference CompositeSlicesMatchReference 
CHECK_DEADLOCK FALSE
