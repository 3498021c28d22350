CONSTANTS
    Volumes <- MCVolumes
    Transient = FALSE
    MaxLoc = 8
    MaxCount = 4
    Garbage = Garbage
SPECIFICATION Spec
INVARIANTS TypeOK CacheCoherent
PROPERTIES ReadTransparent CallReturns
