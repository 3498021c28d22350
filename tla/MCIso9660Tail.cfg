CONSTANTS
    Images <- MCImagesTail
    Paths <- MCPaths
    ReadReqs <- MCReadReqs
    CaseInsensitive = FALSE
    Sector = 8
    MinRec = 2
    MaxDesc = 3
    MaxDir = 16
    MaxExtents = 3
SPECIFICATION Spec
INVARIANT RecordsInBuffer
