\* One fund goes through every class while a request runs, with any delay.
SPECIFICATION ReportSpec
CONSTANTS
  f1 = f1
  f2 = f2
  f3 = f3
  None = None
  Funds <- OnlyF1
  EtfFunds <- OnlyF1
  Dead <- NoFunds
  Days <- TwoDays
  Target = 2
  BatchSize = 1
  FailedRetry = 1
  Retry = 2
  MaxAge = 3
  MaxElapsed = 4
  MaxFaults = 1
INVARIANTS NoDoubleCount MissedIsFull
PROPERTY RetrySpacing
