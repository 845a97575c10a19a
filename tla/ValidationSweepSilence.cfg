\* The windows of validation_sweep; one history is a single row that grows older
\* than the window.
SPECIFICATION Spec
CONSTANTS
  None = None
  Histories <- SomeHistories
  LiveRecords <- SomeLive
  BackfillRows <- SomeBackfill
  RepairDays = {6, 21}
  Start = 22
  MaxDay = 26
  MaxChanges = 0
  Window = 22
  MaxGap = 8
  StaleAfter = 3
  StaleAfterMM = 22
  MinReturns = 5
  Summary = 8
  Scale = 440
  MaxMissed = 2
  MaxFaults = 0
PROPERTY MarketMakingSilenceFound
CHECK_DEADLOCK FALSE
