SPECIFICATION Spec
CONSTANTS
    Sets = {A, B}
    Profiles = {p}
    Conds <- MCConds
    MaxNodes = 5
    MaxOut = 2
    MaxActs = 5
    Packages = {fit, unfit}
    Good = {fit}
    MaxPolls = 2
    Acls = {"a1", "a2", "a3"}
    FirstAcls = {"a1", "a2"}
    Ids = {"t1", "t2", "t3"}
    FirstIds = {"t1", "t2"}
    WithGroup = {"t2", "t3"}
    Clicks <- MCClicks
INVARIANTS RulesOwnSet ConditionsKept SavedStays UpdatesFit EditorsOwn
CHECK_DEADLOCK FALSE
