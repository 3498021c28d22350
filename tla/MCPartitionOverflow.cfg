CONSTANTS
    Images <- MCImages
    Word = 128
    MaxLogical = 3
    MaxIndex = 7
SPECIFICATION Spec
INVARIANT OverflowInvalid
