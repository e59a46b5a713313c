\* One reader beside one writer.
SPECIFICATION PSpec
CONSTANTS
    Ids <- ThreeIds
    NameSet <- ThreeIds
    Loaded <- TwoIds
    Limit = 1
    MaxWrites = 2
    None = None
INVARIANTS
    NoneStuck
