CONSTANTS
  None = None
  Kind = {dataset}
  Parent = {a, b}
  a = a
  b = b
  ParentPages = 2
  ParentPage <- OnAPageEach
  PagesOf <- TwoPagesAndOne
  MaxLate = 1
  MaxCreated = 2
SPECIFICATION Spec
INVARIANT VersionIsOfTheChoice
CHECK_DEADLOCK FALSE
