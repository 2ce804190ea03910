SPECIFICATION FairSpec
CONSTANTS
    Agents = {a1, a2, a3}
    Root = Root
    MaxDepth = 2
    MaxPerLevel = 1
    ResetBound = 1
INVARIANTS TypeOK LevelCapacity CapabilityDies RunningReachable
PROPERTIES TerminalIsFinal InterruptEnds
CHECK_DEADLOCK FALSE
