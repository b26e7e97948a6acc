SPECIFICATION Spec
CONSTANTS
  c1 = c1
  c2 = c2
  c3 = c3
  p1 = p1
  p2 = p2
  p3 = p3
  Callers = {c1, c2, c3}
  Requests = {r1, r2}
  Workers = {w1, w2}
  MaxPending = 1
  MaxMemory = 2
  MaxRetries = 3
  MaxAllowed = 2
  Window = 3
  MaxTime = 7
  MaxGrants = 5
  Threshold = 3
  NodeCount = 2
  NoTier = NoTier
  Clients = {k1, k2}
  UnhealthyThreshold = 2
  Size <- Sizes
  Providers <- Three
  ModelTier <- Models
  Capabilities <- Abilities
  Rank <- Ranks
  Tiers = {"fast", "heavy", "agent"}
  Tier <- ServedTiers
  HealthChecks = TRUE
INVARIANTS TypeOK ProvidersSpared ReportsAddUp ShutdownIsOrderly
PROPERTIES QueueImplementsService CallsReturn
CHECK_DEADLOCK FALSE
