\* One MAC; other endpoints may have sessions or not (GetSessions).
SPECIFICATION FairSpec
CONSTANTS
  m1 = m1
  m2 = m2
  Macs = {m1}
  Kinds = {"event", "bulk", "stale"}
  MaxSession = 2
  MaxStream = 2
INVARIANTS TypeOK PhantomsAreStale MissingWereCut
PROPERTY Converges
CHECK_DEADLOCK FALSE
