SPECIFICATION Spec
CONSTANTS
  IntMax = 3
  RuleSet <- AllRules
  Assets = {usd}
  Amounts <- AmountSet
  Margins = {1}
  MaxClock = 3
  MaxMoves = 3
INVARIANTS TypeOK VerdictsAreExact ReplaysAgree LegacyPortsOver
CHECK_DEADLOCK FALSE
