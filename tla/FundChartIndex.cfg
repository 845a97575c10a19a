\* The index has a day the fund has no row for.
SPECIFICATION Spec
CONSTANTS
  None = None
  Garbage = Garbage
  Histories <- SomeHistories
  LiveRecords <- SomeLive
  BackfillRows <- SomeBackfill
  RepairDays = {3}
  Start = 5
  MaxDay = 6
  MaxChanges = 1
  Closed = {3}
  MaxEvents = 0
  MaxFaults = 1
  ChartDays = 4
  RiskRows = 6
INVARIANT EndsOnTheDay
CHECK_DEADLOCK FALSE
