\* Three keys and three blocks of one orderbook; one block of a market of two
\* assets in words of 8 bits.
SPECIFICATION MCSpec
CONSTANTS
  K = 3
  Amount = 2
  MaxBlock = 3
  Allow = {}
  WORD = 8
  PRICE_RADIX = 3
  FRACTION = 1
  NumAssets = 2
  Books <- MCBooks
  Relativizers <- MCRelativizers
  StartPrices <- MCPrices
  TaxRates = {2}
  SmoothMults = {0, 1}
  StepRadix = 8
  MinStep = 8
  MaxRelativizer = 15
  LPCheckFreq = 2
  RelativizeFreq = 3
  NormalizeFreq = 3
  MaxRounds = 4
INVARIANTS
  BookExact
  PersistExact
  ThunksOrdered
  DemandSound
  TradesSound
  ValidatorAgrees
  SolutionSound
