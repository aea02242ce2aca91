SPECIFICATION Spec
CONSTANTS
    MaxEdits = 3
    MaxLength = 2
    MaxFaults = 1
INVARIANTS
    MirrorAgrees
