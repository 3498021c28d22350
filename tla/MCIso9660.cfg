CONSTANTS
    Images <- MCImages
    Paths <- MCPaths
    ReadReqs <- MCReadReqs
    CaseInsensitive = FALSE
    Sector = 8
    MinRec = 2
    MaxDesc = 3
    MaxDir = 16
    MaxExtents = 3
SPECIFICATION Spec
INVARIANTS TypeOK FindIsFirstMatch ReadConcat NoLeak
PROPERTY CallReturns
