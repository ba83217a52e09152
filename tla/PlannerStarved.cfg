SPECIFICATION FairSpec
CONSTANTS
  Rules = {r1, r2}
  Schedules = {0, 1}
  Planners = {p1}
  BatchSize = 1
  CatchUp = 2
  MaxOccurrences = 2
  MaxClock = 2
  MaxRevision = 1
  MaxDeaths = 0
PROPERTIES DueRulesArePlanned
