CONSTANTS
    MaxStringLength = 2
    Declarations <- ManyTypes
    Names = {"a"}
    Texts <- MCTexts
    Clean <- MCClean
    Fold <- MCFold
    Long = {"a"}
    NoBit = NoBit
    NoType = NoType
    MaxDbNumber = 2
    MaxByteOffset = 20
    MaxMembers = 4
    MaxNesting = 1
    MaxLines = 5
    SymbolFiles <- Exports
    TagPrefixes <- NoPrefixOrP
    DbNumbers = {0, 1}
    MaxImportTags = 2
    MaxReadChunk = 2
    MaxEdits = 1
    MaxShared = 2
SPECIFICATION Spec
INVARIANTS TypeOK LaidOut ReadsItsMember ReportMatches
CHECK_DEADLOCK FALSE
