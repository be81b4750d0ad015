CONSTANTS
  good = good
  bad = bad
  word = word
  c1 = c1
  c2 = c2
  None = None
  Text = {good, bad}
  Operand = {word}
  Matches <- WordInGood
  TargetVersion = {"tBad", "tNoText"}
  TargetSnapshot <- BadOrNoText
  EvaluatorVersion = {"eWith", "eWithout"}
  EvaluatorSnapshot <- WithOrWithout
  DatasetVersion = {"dv"}
  Case = {c1, c2}
  CasesOf <- TwoCases
  Session = {s1, s2, s3}
  Experiment = {"x"}
SPECIFICATION Spec
PROPERTY EveryRequestEnds
