SPECIFICATION FairSpec
CONSTANTS
  Fingerprints = {f1}
  EngineError = engineError
  RulePeriods = {continuous}
  Continuous = continuous
  Evidence = {e1}
  MaxClock = 2
  MaxEvents = 3
  MaxRefusals = 1
  Operators = {o1}
INVARIANTS TypeOK OnlyCommittedEventsAreSent
PROPERTIES ImplementsAtomic AttemptedUnlessCutOff
