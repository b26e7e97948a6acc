SPECIFICATION Spec
CONSTANTS
  Healers = {h1, h2}
  Enabled = {1, 3, 5}
  MaxHeals = 3
  HealThreshold = 1
  Plan <- Plans
  Elements <- Lists
  k1 = k1
  k2 = k2
  t1 = t1
  t2 = t2
  Tasks = {k1, k2}
  Targets = {t1, t2}
  Rounds = 4
  TaskThreshold = 2
  SuccessThreshold = 2
  WindowSize = 0
  CounterCap = 5
  p1 = p1
  p2 = p2
  e1 = e1
  e2 = e2
  e3 = e3
  Pages = {p1, p2}
  NoPage = NoPage
  Elsewhere = Elsewhere
  MostConcurrency = 2
  Workers = {w1, w2}
  HasVLM = TRUE
  HitThreshold = 2
  WarmUp = 1
  MaxActions = 3
  BreakerThreshold = 1
  FailureCap = 2
  DiscoveryThreshold = 3
  EscalationTrigger = 2
  PhaseCap = 3
INVARIANTS RepeatedlyFailingIsSkipped
CHECK_DEADLOCK FALSE
