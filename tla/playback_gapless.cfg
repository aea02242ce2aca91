SPECIFICATION FairSpec
CONSTANTS
    Capacity = 2
    Threshold = 2
    MaxChunk = 2
    Lengths = {1, 3}
    MaxSources = 3
    Quantum = 2
    MaxCommands = 4
    MaxFaults = 1
    Prompt = TRUE
INVARIANTS
    IdentityFollowsSound
    PositionCountsFrames
PROPERTIES
    Gapless
    EveryStreamEnds
CHECK_DEADLOCK FALSE
