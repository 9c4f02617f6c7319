SPECIFICATION Spec
CONSTANTS
    MaxRnti = 3
    TopN = 2
    MaxTti = 10
    ActiveTti = 2
    ActiveCnt = 1
    ActiveThd = 3
    InactiveThd = 2
    MaxCnt = 3
    Window = 1
    MaxLost = 1
INVARIANTS TopConsistent StaleRemoved
PROPERTIES FreshKept
