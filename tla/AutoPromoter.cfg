SPECIFICATION Spec
CONSTANTS
  Callers = {c1, c2}
  Mutations = {m1, m2}
  LowRisk = {m1}
  NoMutation = NoMutation
  SignalOf <- OneSignal
  MaxSubmits = 2
  MaxRollbacks = 1
  Day = 1
  MinCooldown = 1
  MaxClock = 2
  Capsules = {k}
INVARIANTS TypeOK SavedHasPassed LateOncePerCaller NoPhantomApproval
CHECK_DEADLOCK FALSE
