SPECIFICATION Spec
CONSTANTS
    x = x
    y = y
    Tokens = {x, y}
    ContentLength = 2
    Absent = Absent
    Empty = Empty
    None = None
    NoRequest = NoRequest
    Threads = {t1, t2}
    Agents = {a1, a2}
    Paths = {p1}
    TicketModulus = 2
    MutationLimit = 2
    EditLists <- MCEditLists
    WriteContents <- MCWriteContents
    InitialDisk <- MCInitialDisk
    OfferedBases <- MCOfferedBases
    BypassContents <- MCBypassContents
CONSTRAINT MCBypassBound
SYMMETRY MCSymmetry
INVARIANTS TypeOK CommitFresh HistoryChain ConflictExplained
PROPERTY RefinesRegister
