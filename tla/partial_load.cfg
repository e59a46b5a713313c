SPECIFICATION LSpec
CONSTANTS
    Limits = {14}
    MaxCreated = 0
    None = None
INVARIANTS
    OnlyDeadDisappear
