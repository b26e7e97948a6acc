SPECIFICATION FairSpec
CONSTANTS
  FailureThreshold = 3
  SuccessThreshold = 2
  WindowSize = 3
  CounterCap = 5
  HistoryLen = 4
  Callers = {c1, c2, c3}
INVARIANTS TypeOK NoMissedTransition RingIsRecent
PROPERTIES TripsOnRunOfFailures ClosesOnRunOfSuccesses OpenIsProbed
CHECK_DEADLOCK TRUE
