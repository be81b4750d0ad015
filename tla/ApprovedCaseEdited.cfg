CONSTANTS
  text = text
  raw = raw
  other = other
  None = None
  Session = {s1, s2}
  Case = {c1}
  Content = {text, raw, other}
  Canon <- SpellingCanon
SPECIFICATION Safe
PROPERTY ApprovedCaseIsFrozen
