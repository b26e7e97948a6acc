SPECIFICATION Spec
CONSTANTS
  Clients = {"r1", "r2", "r3"}
  UserOf <- Owners
  TierOf <- AnyTier
  NoTier = NoTier
  NodeCount = 1
  Tiers = {"fast"}
  Tier <- OneNode
  UnhealthyThreshold = 1
  HealthChecks = FALSE
  MaxQueueDepth = 1
  MaxConcurrency = 1
  Impatient = {"r1"}
  QueueFactor = 1
INVARIANTS QueueDepthCountsPending
CHECK_DEADLOCK FALSE
