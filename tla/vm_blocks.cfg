CONSTANTS
    Account <- MCAccount
    Genesis <- MCGenesis
    ShardOf <- MCShardOf
    NumBooks = 2
    PERSIST_BATCH = 1
    MaxBlock = 3
    Allow = {}
SPECIFICATION FairSpec
INVARIANTS
    NoException
    DatabaseExact
    ShardsExact
    StoresOrdered
PROPERTY
    PersistFinishes
CHECK_DEADLOCK FALSE
