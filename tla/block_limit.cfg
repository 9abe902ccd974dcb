\* Two threads over small mempools: the limit of the block.
SPECIFICATION MCSpec
CONSTANTS
  Worker = {w1, w2}
  ChunkSizes <- MCChunkSizes
  max_block_size = 2
  ValidateThreads = {v1, v2}
  Account = {1, 2, 3}
  Existing = {1, 2}
  Asset = {"N", "U"}
  NATIVE_ASSET = "N"
  TxId <- MCTxId
  Tx <- MCTx
  RestingOffer <- MCRestingOffer
  InitAvailable <- MCInitAvailable
  LastCommittedId <- MCLastCommittedId
  ForeignBlocks <- MCForeignBlocks
  ThresholdKey <- MCThresholdKey
  NullKey = 99
  Prices <- MCPrices
  TaxRate = 1
  BASE_FEE_PER_TX = 1
  FEE_PER_OP = 0
  MAX_OPS_PER_TX = 4
  MAX_SEQ_GAP = 3
  CREATE_ACCOUNT_MIN_STARTING_BALANCE = 2
  MAX_AMOUNT = 9
  WORD = 5
  FilterThreads = {f1, f2}
  FilterBlocks <- MCFilterBlocks
  Holdings <- MCHoldings
  LastSeq = 1
  Nobody = "x"
  NewIds = {"n"}
  MaxAmount = 7
INVARIANT BlockLimit
