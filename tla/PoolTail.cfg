SPECIFICATION Spec
CONSTANTS
  IntMax = 3
  RuleSet <- PoolRules
  Assets = {usd}
  Amounts <- AmountSet
  Margins = {0, 1}
  MaxClock = 2
  MaxMoves = 2
PROPERTIES PoolReadsSeeTheBalance
CHECK_DEADLOCK FALSE
