CONSTANTS
    Volumes <- MCNative4K
    Transient = FALSE
    MaxLoc = 8
    MaxCount = 4
    Garbage = Garbage
SPECIFICATION Spec
INVARIANTS ReadWithinVolume
