CONSTANTS
    Account <- MCAccount
    Genesis <- MCGenesis
    ShardOf <- MCShardOf
    NumBooks = 1
    PERSIST_BATCH = 2
    MaxBlock = 2
    Allow = {"gap"}
INIT Init
NEXT Next
INVARIANT
    NoException
CHECK_DEADLOCK FALSE
