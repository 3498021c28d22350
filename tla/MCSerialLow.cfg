CONSTANTS
    Bauds <- MCBaudsLow
    Bytes = {1, 2}
    Enabled = TRUE
    MaxMsgs = 3
SPECIFICATION Spec
INVARIANT DivisorProgrammed
