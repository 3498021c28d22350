CONSTANTS
    Volumes <- MCVolumes
    Transient = TRUE
    MaxLoc = 8
    MaxCount = 4
    Garbage = Garbage
SPECIFICATION Spec
PROPERTIES ReadTransparent
