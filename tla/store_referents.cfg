\* A killed process, then a power cut.
SPECIFICATION Spec
CONSTANTS
    a = a
    b = b
    c = c
    Absent = Absent
    Streams <- TwoStreams
    Initial <- TwoStreams
    Keys <- TwoKeys
    Home <- HomeOfTwo
    MaxVersion = 2
    MaxPid = 2
    MaxBatch = 1
    RollRecords = 3
INVARIANTS
    ReferentsReplayed
