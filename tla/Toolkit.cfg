SPECIFICATION Spec
CONSTANTS
  Goroutines = {g1, g2}
  Items = {i1}
  Null = Null
  StoreKeys = {k}
  TierLists <- TwoTierLists
  Contexts <- TwoContexts
  Imported <- ThreePatterns
  Tasks <- ThreeTasks
  Contents = {h1, h2, h3}
  FingerprintSim <- FingerprintSims
  StructuralSim <- StructuralSims
  Htmls <- TwoHtmls
  Handlers = {x, y}
  FailureThreshold = 2
  MaxWrites = 2
  MaxCalls = 1
  MaxRestarts = 1
  DailyCap = 4
  MonthlyCap = 6
  MaxSelects = 7
  Patterns = {p1, p2}
  TestingSuccesses = 2
  StableSuccesses = 4
  TrustedSuccesses = 6
  DegradedFailures = 2
  NumArms = 2
  WarmupRounds = 1
  MaxPulls = 4
  MaxResets = 1
  MaxSnapshots = 1
  RepeatThreshold = 1
  MaxHist = 1
  MaxActions = 1
  MaxTicks = 2
  MaxLoads = 1
  MaxConf = 3
  MaxLearned = 1
  StableFor = 2
  MaxMutations = 2
  Length = 3
  Undoable = {1, 3}
  MaxRuns = 2
  MaxScanned = 1
  Frames = {f1, f2}
  Top = Top
  MaxHeals = 2
  Scores = {0, 5, 9}
  BreakerThreshold = 2
  FailureCap = 2
  MaxDetections = 2
  MaxSaves = 1
  PageIDs = {q1, q2}
  Broken = Broken
  MaxPatterns = 3
  MaxEntries = 3
  MaxCrashes = 1
  Boost = 5
  MaxChecks = 3
  MaxUpdates = 3
  MaxHandoffs = 2
  Counts = {1, 2, 11}
  MaxPerStrategy = 2
  Scenarios = 2
  Confidences = {20, 50, 90}
  Threshold = 35
  MaxCandidates = 2
  MaxElements = 3
  Hooked = {"heal"}
  MaxEmits = 2
  MaxIntervals = 1
  h1 = h1
  h2 = h2
  h3 = h3
INVARIANTS DecisionsAreRight RecordsAreTrue
PROPERTIES CallsReturn
CHECK_DEADLOCK FALSE
