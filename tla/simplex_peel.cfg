\* Every three orderbooks of four assets.
SPECIFICATION simplex_Spec
CONSTANTS
  WORD = 8
  PRICE_RADIX = 3
  FRACTION = 1
  SolverAssets = 4
  WordCols = 14
  Maxima <- ThreeOrderbooks
  Bounds = {}
INVARIANTS EveryEdgePeeled
CHECK_DEADLOCK FALSE
