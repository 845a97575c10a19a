SPECIFICATION FairSpec
CONSTANTS
  web = web
  worker = worker
  fundSync = fundSync
  etfSync = etfSync
  etf = etf
  f1 = f1
  f2 = f2
  Nobody = Nobody
  Procs = {web, worker}
  Worker = worker
  Writers = {fundSync, etfSync}
  SeedOrder <- Snapshot
  Target <- SyncOf
  FundRows = {f1, f2}
  NumFiles = 2
  MaxFaults = 2
INVARIANTS SchemaOK SeedIsWhole WarmWhenUp
PROPERTIES KeepsTheDeployment EverythingUp
