SPECIFICATION Spec
CONSTANTS
  None = None
  Garbage = Garbage
  Categories <- BothCategories
  StockOnly <- StockCategory
  Responses <- SomeResponses
  Stamps <- TwoStamps
  MaxFaults = 1
INVARIANTS TypeOK QuarantineHolds
PROPERTIES KeepsThePromise HealthyMeansStored QuarantineAudited MovesAreAudited RerunAddsUndatedOnly
