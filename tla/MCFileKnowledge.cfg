SPECIFICATION KnowSpec
CONSTANTS
    x = x
    y = y
    Tokens = {x, y}
    ContentLength = 2
    Absent = Absent
    Empty = Empty
    None = None
    NoRequest = NoRequest
    Threads = {t1}
    Agents = {a1, a2}
    Paths = {p1}
    TicketModulus = 2
    MutationLimit = 2
    EditLists <- MCEditLists
    WriteContents <- MCWriteContents
    OfferedBases <- MCOfferedBases
    InitialDisk <- MCWriteContents
    BypassContents = {}
INVARIANT NoStaleOverwrite
