SPECIFICATION Spec
CONSTANTS
  Workers = {w1, w2}
  Targets = {t1}
  Selectors = {s1, s2}
  Full = 1
  NoPattern = NoPattern
  NoTarget = NoTarget
PROPERTIES SelectorsChangeByRegistration
CHECK_DEADLOCK FALSE
