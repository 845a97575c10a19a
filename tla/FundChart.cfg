\* The chart shows four days, the risk metrics six rows; the index rests on day 3.
SPECIFICATION FairSpec
CONSTANTS
  None = None
  Garbage = Garbage
  Histories <- SomeHistories
  LiveRecords <- SomeLive
  BackfillRows <- SomeBackfill
  RepairDays = {3}
  Start = 5
  MaxDay = 6
  MaxChanges = 1
  Closed = {3}
  MaxEvents = 1
  MaxFaults = 1
  ChartDays = 4
  RiskRows = 6
INVARIANTS ComparisonIsFair CurveWithinMaximum NoFlowWithoutUnits NoHoles
PROPERTY IndexCatchesUp
CHECK_DEADLOCK FALSE
