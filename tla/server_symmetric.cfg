\* Two edges of a symmetric type journaled in one batch.
SPECIFICATION ISpec
CONSTANTS
    Lower <- LowerOf
    Refused = Refused
    NoBase = NoBase
    Names <- OneName
    Schemas <- AllSchemas
    Scenes <- SymmetricScenes
    Sources <- SymmetricSources
    BatchSize = 2
    PruneMin = 4
    MaxId = 9
INVARIANTS
    RestartShowsLinks
