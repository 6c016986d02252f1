CONSTANTS
    SpecWidths <- MCSpecWidths  SpecValues <- MCSpecValues
    Infos <- MCInfos
    ItemLists <- MCItemLists
SPECIFICATION Spec
INVARIANT SpecConstMatchesModule
CHECK_DEADLOCK FALSE
