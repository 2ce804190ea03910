SPECIFICATION PromiseSpec
CONSTANTS
    Agents = {a1, a2, a3}
    Root = Root
    MaxDepth = 2
    MaxPerLevel = 1
    ResetBound = 1
INVARIANT DoomedAreTold
CHECK_DEADLOCK FALSE
