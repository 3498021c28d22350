CONSTANTS
    Bauds <- MCBauds
    Bytes = {1, 2}
    Enabled = TRUE
    MaxMsgs = 3
SPECIFICATION Spec
INVARIANTS DivisorProgrammed StreamsInOrder
PROPERTY OutReturns
