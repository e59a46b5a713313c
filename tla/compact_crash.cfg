\* The ontology and two entities of the other stream; crashes between any two
\* steps, I/O errors while staging, opens and compactions that end.
SPECIFICATION FairSpec
CONSTANTS
    o = o
    b = b
    c = c
    Absent = {missing}
    Ontology = o
    Streams <- TwoStreams
    Keys <- AllKeys
    Home <- HomeOfAll
    MaxWrites = 2
    MaxSeq = 7
    MaxPid = 8
    RollRecords = 2
    Failures = {"stage", "seal"}
INVARIANTS
    TypeOK
    GraphSurvives
    PartitionsOrdered
    PidFree
PROPERTIES
    NothingLeft
    KeepsTable
    CompactionEnds
