SPECIFICATION Spec
CONSTANTS
  Clients = {c1, c2}
  Kinds = {"parity", "invariant", "unknown"}
  Specs = {"both", "two_sides"}
  Accepts <- MCAccepts
  CronTimes <- MCCronTimes
  Margins <- MCMargins
  DefaultMargin = 2
  PeriodLength <- MCPeriodLength
  PeriodKeys = {"", "continuous", "daily", "hourly"}
  MaxClock = 1
  MaxRevision = 3
  Absent = Absent
INVARIANTS TypeOK StoredTemplateIsValid WhatWasAskedIsKept PeriodOfTheReadings
  CursorFitsTheSchedule
SYMMETRY Symmetry
