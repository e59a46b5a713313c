\* A rule renamed after the concept it names is gone.
SPECIFICATION ISpec
CONSTANTS
    Lower <- LowerOf
    Refused = Refused
    NoBase = NoBase
    Names <- OneName
    Schemas <- AllSchemas
    Scenes <- DanglingScenes
    Sources <- AllSources
    BatchSize = 2
    PruneMin = 4
    MaxId = 3
INVARIANTS
    ReplayAccepted
