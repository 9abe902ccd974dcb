SPECIFICATION Spec
CONSTANTS
  Searchers = {w1, w2}
  NumBlocks = 2
  Ticks = 2
  CheckFreq = 3
  Ratios = {1, 2, NaN}
  NaN = NaN
  None = None
  NumHelpers = 2
  WorkUnits = {0, 2, 6}
  NumQueries = 2
  NumRounds = 2
  WORD = 8
  PRICE_RADIX = 3
  FRACTION = 1
  SolverAssets = 3
  WordCols = 8
  Maxima <- MCMaxima
  Bounds <- MCBounds
INVARIANTS AnswerIsBest BlocksIsolated DemandExact SolverExact
PROPERTIES EveryQueryEnds EveryRoundEnds SolverEnds
CHECK_DEADLOCK FALSE
