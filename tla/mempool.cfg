\* The threads around the mempool over three blocks; two replicas that flood
\* two batches and one.
SPECIFICATION MCSpec
CONSTANTS
  TxId <- MCTxId
  Account = {"a", "b", "u"}
  Batches <- MCBatches
  Source <- MCSource
  SeqNum <- MCSeqNum
  UnknownAccounts = {"u"}
  TARGET_CHUNK_SIZE = 3
  MAX_MEMPOOL_SIZE = 1
  MaxSeqNum = 2
  MaxRounds = 3
  Replicas = {1, 2}
  NumBatches <- MCNumBatches
  Garbled <- MCGarbled
  FLOOD_THRESHOLD = 1
  MaxFaults = 1
INVARIANTS
  NoTxLost
  SizesExact
  FilterQuiescent
  Lockstep
  NoBatchLost
PROPERTIES
  VMReturns
  FloodCompletes
