CONSTANTS
  good = good
  bad = bad
  word = word
  c1 = c1
  c2 = c2
  None = None
  Text = {good, bad}
  Operand = {word}
  Matches <- WordInGood
  TargetVersion = {"tGood", "tNone"}
  TargetSnapshot <- GoodOrNone
  EvaluatorVersion = {"eWith", "eBroken", "eRaising"}
  EvaluatorSnapshot <- WithOrBrokenOrRaising
  DatasetVersion = {"dv"}
  Case = {c1, c2}
  CasesOf <- TwoCases
  Session = {s1, s2}
  Experiment = {"x", "y"}
SPECIFICATION Safe
INVARIANTS
  TypeOK
  RunsAreExclusive
  OutcomeMatchesResults
  ReaderSeesWholeRun
PROPERTY IsLedger
SYMMETRY SessionCaseSymmetry
