CONSTANTS
  N = 2
  Sizes = {1, 2}
  MaxCalls = 2
  MaxActs = 3
  DecommSetAuthz = TRUE
  Gone = Gone
SPECIFICATION Spec
INVARIANTS EditsSurvive  FilterFindsAll
CHECK_DEADLOCK FALSE
