SPECIFICATION FairSpec
CONSTANTS
  i1 = i1
  i2 = i2
  u1 = u1
  u2 = u2
  rA = rA
  rB = rB
  Roles = {rA, rB}
  Values <- Versions
  RolesOf <- RolesOfVersion
  SizeOf <- SizeOfVersion
  Ids = {i1}
  Users = {u1}
  MaxVersion = 1
  MaxEntries = 0
  MaxBytes = 0
  TTLs <- OneTier
  StaleMax = 2
  BackoffAge = 1
  HalfTTL = 1
  MaxAge = 3
  SWR = TRUE
  DripBatch = 1
  Jobs = {"view", "update", "delete"}
  Workers = {"drip", "sync"}
  Events = {}
INVARIANTS OldOnlyIfOvertaken
PROPERTIES Converges ReadsReturn
