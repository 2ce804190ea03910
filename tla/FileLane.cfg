SPECIFICATION FairLaneSpec
CONSTANTS
    Threads = {t1, t2, t3}
    Paths = {p1, p2}
    TicketModulus = 3
INVARIANTS Exclusion CountersExact QueueExact
PROPERTY EveryoneServed
