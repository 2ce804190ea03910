SPECIFICATION AnyFairSpec
CONSTANTS
    a1 = a1
    Root = Root
    Agents = {a1}
    Parent <- MCParent
    Jobs = {j1, j2}
    MaxPerAgent = 1
    MaxPerTeam = 2
    MaxHistory = 1
    ResetBound = 1
    NoOwner = NoOwner
    Threads = {t1, t2}
    Generations = {1}
    MaxRestarts = 1
    Capacity = 1
    LatestOnly = FALSE
    None = None
    MaxRequests = 2
    Workers = {w1}
    MaxWaiting = 0
    MaxGeneration = 2
    Generated = {generated}
    Fallback = fallback
    Preview = preview
    UserNames = {user}
    MaxTokens = 2
    MaxExpected = 2
    MaxChanges = 2
    MaxEvents = 3
    Nil = Nil
CHECK_DEADLOCK FALSE
INVARIANTS PartsTypeOK AliveIsAttended StoppedForGood ChosenStands
PROPERTIES EndIsFinal WorkEnds UserNameWins
