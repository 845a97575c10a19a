\* One source never answers; every batch ends within the failed-retry window.
SPECIFICATION FairSpec
CONSTANTS
  f1 = f1
  f2 = f2
  f3 = f3
  None = None
  Funds <- TwoFunds
  EtfFunds <- OnlyF1
  Dead <- OnlyF1
  Days <- TwoDays
  Target = 2
  BatchSize = 1
  FailedRetry = 2
  Retry = 3
  MaxAge = 12
  MaxElapsed = 1
  MaxFaults = 1
INVARIANT EvidenceBacked
PROPERTIES KeepsTheLedger CompleteStays QueueNotBlocked
