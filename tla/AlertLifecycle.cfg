SPECIFICATION Spec
CONSTANTS
  Fingerprints = {f1}
  EngineError = engineError
  RulePeriods = {march, april}
  Continuous = continuous
  Evidence = {e1, e2}
  MaxClock = 2
  MaxEvents = 5
SYMMETRY Symmetry
INVARIANTS TypeOK LogTellsTheRow OccurrencesCountFails ClosedCasesAreQuiet
  AcceptedEvidenceIsFrozen ConsumersKnowTheCase NoRepeatPaging
PROPERTIES ReopenPages EvaluationDecidesItsPeriod ErrorsJudgeNothing
