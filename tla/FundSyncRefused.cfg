SPECIFICATION Spec
CONSTANTS
  None = None
  Garbage = Garbage
  Categories <- BothCategories
  StockOnly <- StockCategory
  Responses <- RefusedResponses
  Stamps <- TwoStamps
  MaxFaults = 0

PROPERTY SoundRecordsSurvive
