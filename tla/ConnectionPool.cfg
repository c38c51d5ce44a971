CONSTANTS
    Handler = {h1, h2}
    Pools = {2, 4, 5}
    Used = {"update", "upsert", "create", "remove", "change", "sync", "request", "count"}
    MaxWait = 2
    PoolTimeout = 6
    TxTimeout = 4
    SyncTimeout = 8
    QueryTime = 1
    LinearTime = 2

SPECIFICATION PoolSpec
INVARIANT
    SparePreventsStandstill
PROPERTIES
    RoomyServes
    DeletesWithinTransaction
