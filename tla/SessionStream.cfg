SPECIFICATION Spec
CONSTANTS
  Macs = {a, b}
  QueueCap = 2
  MaxCalls = 2
  MaxActs = 5
SYMMETRY Symmetry
INVARIANTS TypeOK StreamExact PaintFollows SilentAfterLeave
CHECK_DEADLOCK FALSE
