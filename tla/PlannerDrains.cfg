SPECIFICATION FairSpec
CONSTANTS
  Rules = {r1, r2}
  Schedules = {1, 2}
  Planners = {p1, p2}
  BatchSize = 1
  CatchUp = 1
  MaxOccurrences = 1
  MaxClock = 2
  MaxRevision = 2
  MaxDeaths = 1
PROPERTIES DueRulesArePlanned
