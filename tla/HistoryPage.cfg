CONSTANTS
  None = None
  whole = whole
  early = early
  reversed = reversed
  Whole = whole
  Reversed = {reversed}
  InPeriod <- EarlyOrWhole
  MaxExperiments = 2
  MaxBeside = 1
SPECIFICATION Safe
INVARIANTS
  TypeOK
  ListIsOfTheQuery
  EmptyIsExplained
  IndicatorHasCause
PROPERTY ExportMatchesList
CHECK_DEADLOCK FALSE
