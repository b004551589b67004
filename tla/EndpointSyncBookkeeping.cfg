SPECIFICATION Spec
CONSTANTS
  i1 = i1
  i2 = i2
  u1 = u1
  u2 = u2
  rA = rA
  rB = rB
  Roles = {rA, rB}
  Values <- Versions
  RolesOf <- RolesOfVersion
  SizeOf <- SizeOfVersion
  Ids = {i1, i2}
  Users = {u1}
  MaxVersion = 1
  MaxEntries = 1
  MaxBytes = 3
  TTLs <- OneTier
  StaleMax = 1
  BackoffAge = 1
  HalfTTL = 1
  MaxAge = 2
  SWR = TRUE
  DripBatch = 1
  Jobs = {"view", "edit"}
  Workers = {"drip", "sync"}
  Events = {"endpoint", "flush"}
SYMMETRY IdSymmetry
INVARIANTS TypeOK AccountsExact BytesExact
