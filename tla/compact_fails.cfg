\* I/O errors in the middle of a compaction.
SPECIFICATION Spec
CONSTANTS
    o = o
    b = b
    c = c
    Absent = {missing}
    Ontology = o
    Streams <- TwoStreams
    Keys <- TwoKeys
    Home <- HomeOfTwo
    MaxWrites = 3
    MaxSeq = 6
    MaxPid = 9
    RollRecords = 2
    Failures = {"stage", "seal", "mark", "move", "fresh", "delete", "clear"}
INVARIANTS
    GraphSurvives
