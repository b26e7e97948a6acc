SPECIFICATION Spec
CONSTANTS
  Setups <- SomeSetups
  Cost <- OneDear
  Targets <- TwoTargets
  Capsules <- ThreeCapsules
  Tasks <- OneTask
  Batch <- ThreeRisks
  Runners = {r1, r2}
  Limit = 1
  MaxMutationsPerRun = 2
  MaxSignals = 3
  MaxCycles = 2
  x1 = x1
  x2 = x2
  x3 = x3
  Traces = {x1, x2, x3}
  Failures = {x1, x2}
  Slow = {x2}
  RepeatThreshold = 2
  SpikeFactor = 2
  MaxFaults = 1
  MaxStarts = 2
  n1 = n1
  n2 = n2
  n3 = n3
  Nodes = {n1, n2, n3}
  Source = n1
  c1 = c1
  c2 = c2
  c3 = c3
  Active = {c1, c3}
  MaxCapsules = 0
  MaxTime = 1
  MaxCalls = 1
  MaxRestarts = 1
  NodeIDs = {v1, v2, v3}
  NoNode = NoNode
  MaxEdges = 3
  Scores = {0, 20, 21, 30}
  Threshold = 5
  MaxIterations = 4
  MutationsPerIteration = 1
  Quiet = 3
  Sizes = {5, 30}
  Latencies = {400, 9000}
  Costs = {5, 200}
  MaxRuns = 2
  MaxRisk = "medium"
  Mutations = {m1, m2}
  Absent = Absent
  Stored = {b1, b2}
  MaxSaves = 2
  MaxBroken = 1
  MaxSyncs = 2
INVARIANTS TypeOK DecisionsAreRight ReportsAreTrue NothingIsLost
PROPERTIES WorkEnds
CHECK_DEADLOCK FALSE
