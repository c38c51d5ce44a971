CONSTANTS
    Client = {c1, c2}
    WindowMs = 2
    Shift = 10
    MaxRequests = 2
    MaxCount = 3
    StartMs = 1
    MaxClock = 6

SPECIFICATION LimitSpec
INVARIANTS
    BurstBounded
PROPERTIES
    RefusalEarned
    EntriesDropped
