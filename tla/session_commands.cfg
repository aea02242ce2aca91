SPECIFICATION FairSpec
CONSTANTS
    MaxCommands = 3
    MaxPending = 2
    MaxFaults = 1
INVARIANTS
    OneAnswer
    NeverReplayed
    TruthfulVerdict
    SnapshotBeforeWire
PROPERTIES
    EveryCommandAnswered
