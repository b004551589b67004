CONSTANTS
  a = a
  b = b
  DialogEndpoints = {a, b}
  Null = Null
  Loading = Loading
  Ready = Ready
  MaxDialogCalls = 2
  MaxClicks = 5
SPECIFICATION DialogSpec
SYMMETRY Symmetry
INVARIANTS
  OwnValues
  RolesSurvive
  TruthShown
CHECK_DEADLOCK FALSE
