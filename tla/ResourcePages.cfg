CONSTANTS
  None = None
  Size = 1
  MaxCases = 3
  MaxEdits = 1
  MaxDatasetActs = 3
  MaxTargetActs = 3
  MaxLate = 1
SPECIFICATION Spec
INVARIANTS
  TypeOK
  ListsAreOfThePage
  ChangesAreShown
  FailuresAreShown
CHECK_DEADLOCK FALSE
