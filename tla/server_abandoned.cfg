\* A compaction whose client goes away.
SPECIFICATION ISpec
CONSTANTS
    Lower <- LowerOf
    Refused = Refused
    NoBase = NoBase
    Names <- AllNames
    Schemas <- AllSchemas
    Scenes <- AbandonedScenes
    Sources <- AllSources
    BatchSize = 2
    PruneMin = 4
    MaxId = 4
INVARIANTS
    Journaled
CHECK_DEADLOCK FALSE
