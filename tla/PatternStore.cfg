SPECIFICATION Spec
CONSTANTS
  Workers = {w1, w2}
  Targets = {t1, t2}
  Selectors = {s1, s2}
  Full = 1
  NoPattern = NoPattern
  NoTarget = NoTarget
INVARIANTS TypeOK SavesAgree QuiescentAgreement
PROPERTIES AckedIsDurable
CHECK_DEADLOCK FALSE
