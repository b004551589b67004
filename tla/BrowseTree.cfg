SPECIFICATION TreeSpec
CONSTANTS
    e1 = e1
    e2 = e2
    e3 = e3
    TreeEndpoints = {e1, e2, e3}
    Dims <- MCDims
    TreeValues = {"a", "b", "x", "y", "z"}
    FirstRows <- MCRows
    DefaultDims <- MCDefault
    FirstStored <- MCStored
    MaxDepth = 3
    MaxTreeActs = 3
INVARIANT LayoutKept
PROPERTY MergeLands
CHECK_DEADLOCK FALSE
