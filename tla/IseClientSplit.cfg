\* Read/write split, two concurrent callers, one of which may be cancelled.
SPECIFICATION Spec
CONSTANTS
  r1 = r1
  r2 = r2
  r3 = r3
  Reqs = {r1, r2}
  Drip = r1
  Split = TRUE
  RetryAttempts = 2
  Cancellable = {r2}
  Threshold = 2
  RecoveryTimeout = 1
  MaxCount = 3
INVARIANTS TypeOK TripsAtThreshold AuthFailuresTrip ReadFailureReachesPrimary
CHECK_DEADLOCK FALSE
