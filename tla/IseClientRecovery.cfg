\* Recovery of both hosts under fairness, no cancellation.
SPECIFICATION FairSpec
CONSTANTS
  r1 = r1
  r2 = r2
  r3 = r3
  Reqs = {r1, r2}
  Drip = r1
  Split = TRUE
  RetryAttempts = 1
  Cancellable = {}
  Threshold = 2
  RecoveryTimeout = 1
  MaxCount = 2
INVARIANT HalfOpenHasProbe
PROPERTY Recovers
CHECK_DEADLOCK FALSE
