SPECIFICATION EditSpec
CONSTANTS
    Scenes = {"questions", "search", "controls", "playlist", "queue"}
    Texts = {"a", "b"}
    MaxConnections = 2
    MaxOps = 2
    MaxForeign = 1
    MaxBacklog = 3
    MaxFaults = 1
INVARIANTS
    OneCompletion
    OneSearchShown
    SettledShowsServer
PROPERTIES
    QueueEditsLandAsAimed
    QuestionsEnd
CHECK_DEADLOCK FALSE
