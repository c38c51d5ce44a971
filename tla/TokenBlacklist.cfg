CONSTANTS
    TokenId = {j1, j2}
    User = {u1, u2}
    SevenDays = 2
    MaxTtl = 2
    MaxTime = 4

SPECIFICATION FairSpec
PROPERTIES
    ImplementsPromise
    ExpiredEntriesDropped
