CONSTANTS
  None = None
  Experiment = {current, e1, e2}
  Current = current
  Size = 1
  MaxLate = 1
  Policy = {p1, p2}
SPECIFICATION Spec
SYMMETRY Alike
INVARIANTS
  TypeOK
  WalkSkipsNone
  ShownIsCommitted
  GateWayForward
  AlreadyEvaluatedIsFound
  RecoveryFailsOnlyWhenNotLatest
CHECK_DEADLOCK FALSE
