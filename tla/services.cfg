\* Every part of the server, one at a time.  Each bounds its calls and may then
\* sit idle.
SPECIFICATION ServicesSpec
CONSTANTS
    Off = Off
    None = None
    NoBase = NoBase
    Refused = Refused
    Lower <- LowerOf
    Names <- AllNames
    Schemas <- AllSchemas
    Scenes <- AllScenes
    Sources <- AllSources
    BatchSize = 2
    PruneMin = 4
    MaxId = 4
    ListIds <- OneToThree
    NameSet <- OneToThree
    LoadedIds <- OneTwo
    Limit = 1
    MaxWrites = 2
    LegacyItems <- JustX
    MaxSeq = 3
    MaxWhole = 4
    Chunk = 2
    MaxPart = 4
    MaxRecs = 4
    Requests = 2
    Handlers <- OneTwo
    Emails <- ThreeFour
    MaxIds = 3
    Scripts <- TwoScripts
    Deltas <- TwoDeltas
    MaxRetries = 2
    GivenIds <- OneTwo
    Invented <- JustThree
    MaxErrors = 2
    Document <- FourLines
    Keys <- ThreeKeys
    PieceBudget = 3
    MaxPieces = 6
    IndexTexts <- TwoTexts
    MaxConcepts = 3
    MaxVersions = 3
    MaxSwaps = 1
    Limits <- TwoLimits
    MaxCreated = 1
    Nodes <- OneToFour
    NodeType <- TypeOfNode
    LinkPool <- SevenLinks
    Walks <- AllWalks
    MaxDrops = 1
    MaxCells = 4
    MaxFaults = 2
    Patches <- SomePatches
    Clients <- OneTwo
    MaxPatches = 2
    MaxRecords = 2
    MaxRequests = 2
    Window = 3
    Spacing = 2
    Capacity = 2
    Horizon = 8
INVARIANTS
    ServerRestart
    ServerReplay
    ServerJournal
    ServerNames
    ServerIds
    ServerSchema
    PageFresh
    WalkComplete
    LegacyKept
    ServesWhole
    ReviewDurable
    OneAdmin
    StreamWhole
    ProposalWhole
    IndexCurrent
    ReadsCurrent
    PlanFits
    ExpansionSound
    RecoverySound
    AdminSound
PROPERTIES
    RestoresTaken
CHECK_DEADLOCK FALSE
