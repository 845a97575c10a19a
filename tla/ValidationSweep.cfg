\* The windows of validation.py and web.py, divided by about four.
SPECIFICATION FairSpec
CONSTANTS
  None = None
  Histories <- SomeHistories
  LiveRecords <- SomeLive
  BackfillRows <- SomeBackfill
  RepairDays = {6, 21}
  Start = 22
  MaxDay = 25
  MaxChanges = 2
  Window = 22
  MaxGap = 8
  StaleAfter = 3
  StaleAfterMM = 22
  MinReturns = 5
  Summary = 8
  Scale = 440
  MaxMissed = 2
  MaxFaults = 1
INVARIANT GapsUncounted
PROPERTIES OutlierPointsBack LoneJump SilenceIsRecorded
CHECK_DEADLOCK FALSE
