CONSTANTS
  None = None
  Part = {target}
  ResultPages = 2
  MaxLate = 1
SPECIFICATION Spec
INVARIANTS
  TypeOK
  NeverBlank
  LostRunIsSignalled
  LatestPageWins
  IndicatorHasRequest
PROPERTIES
  StatusNeverRegresses
  RunEnds
CHECK_DEADLOCK FALSE
