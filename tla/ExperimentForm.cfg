CONSTANTS
  None = None
  Kind = {dataset}
  Parent = {a, b}
  a = a
  b = b
  ParentPages = 1
  ParentPage <- OnOnePage
  PagesOf <- TwoPagesAndOne
  MaxLate = 1
  MaxCreated = 2
SPECIFICATION Spec
INVARIANTS
  TypeOK
  ListIsOfTheChoice
  IndicatorHasRequest
  SubmittedIsShown
  OneExperimentUnlessLost
PROPERTY SubmissionEnds
CHECK_DEADLOCK FALSE
