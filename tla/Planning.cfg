SPECIFICATION Spec
CONSTANTS
  Rules = {r1, r2}
  Schedules = {0, 1, 2}
  Planners = {p1, p2}
  BatchSize = 1
  CatchUp = 2
  MaxOccurrences = 2
  MaxClock = 4
  MaxRevision = 2
  MaxDeaths = 0
SYMMETRY Symmetry
INVARIANTS TypeOK QueuedBehindTheCursor
PROPERTIES DropsOnlyTheOldest
