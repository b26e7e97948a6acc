SPECIFICATION Spec
CONSTANTS
  Scenarios = 1
  Confidences = {20, 90}
  Threshold = 35
  MaxCandidates = 1
  MaxElements = 1
INVARIANTS NeverNavigatesLate
CHECK_DEADLOCK FALSE
