\* A concept created again after the client of the first went away.
SPECIFICATION ISpec
CONSTANTS
    Lower <- LowerOf
    Refused = Refused
    NoBase = NoBase
    Names <- OneName
    Schemas <- AllSchemas
    Scenes <- CancelledScenes
    Sources <- AllSources
    BatchSize = 2
    PruneMin = 4
    MaxId = 3
INVARIANTS
    PreparedReplays
