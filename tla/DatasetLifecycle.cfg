CONSTANTS
  text = text
  raw = raw
  other = other
  None = None
  Session = {s1, s2}
  Case = {c1, c2}
  Content = {text}
  Canon <- OneCanon
SPECIFICATION Safe
INVARIANTS
  TypeOK
  NoVersionConflict
PROPERTY IsVersionRegistry
SYMMETRY SessionCaseSymmetry
