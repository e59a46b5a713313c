\* Meta and the default domain exist; a third domain is created by the first
\* record routed to it; every call ends.
SPECIFICATION FairSpec
CONSTANTS
    a = a
    b = b
    c = c
    Absent = Absent
    Streams <- ThreeStreams
    Initial <- TwoStreams
    Keys <- LateKeys
    Home <- HomeOfLate
    MaxVersion = 3
    MaxPid = 6
    MaxBatch = 3
    RollRecords = 2
INVARIANTS
    TypeOK
    AckedOnDisk
    StreamOrdered
    SeqUnique
    SealedWhole
    GraphIsReplay
    DomainKnown
    RollIdFree
PROPERTIES
    SealedForever
    KeepsPromise
    CallsEnd
