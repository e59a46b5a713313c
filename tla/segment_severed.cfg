\* A sector with the length of a record in the middle of the file goes bad.
SPECIFICATION CSpec
CONSTANTS
    MaxCells = 2
    MaxFaults = 2
    None = None
INVARIANTS
    CutsOnlyBad
CHECK_DEADLOCK FALSE
