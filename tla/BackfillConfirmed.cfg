SPECIFICATION AuditSpec
CONSTANTS
  f1 = f1
  f2 = f2
  f3 = f3
  None = None
  Funds <- TwoFunds
  EtfFunds <- TwoFunds
  Dead <- NoFunds
  Days <- OneDay
  Target = 2
  BatchSize = 1
  FailedRetry = 1
  Retry = 2
  MaxAge = 4
  MaxElapsed = 2
  MaxFaults = 0
INVARIANT ConfirmedRecently

SYMMETRY Symmetry
