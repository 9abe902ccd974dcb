CONSTANTS
  Worker = {w1, w2}
  Account <- MCAccount
  Existing <- MCExisting
  Asset <- MCAsset
  NATIVE_ASSET = "N"
  TxId <- MCTxId
  NoTx = "none"
  Mempool <- Mempools
  Tx <- MCTx
  RestingOffer <- MCRestingOffer
  InitAvailable <- MCInitAvailable
  LastCommittedId <- MCLastCommittedId
  BASE_FEE_PER_TX = 1
  FEE_PER_OP = 1
  MAX_OPS_PER_TX = 4
  MAX_SEQ_GAP = 2
  CREATE_ACCOUNT_MIN_STARTING_BALANCE = 2
  MAX_AMOUNT = 9
SPECIFICATION Spec
INVARIANTS
  TypeOK
  NoOverdraft
  ReservationsHeldOnce
  ModLogComplete
  OnlyCommittedEffects
PROPERTIES
  BlockFinishes
  ImplementsLedger
