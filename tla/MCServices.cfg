SPECIFICATION AnySpec
CONSTANTS
    a1 = a1
    a2 = a2
    rm = rm
    cp = cp
    t1 = t1
    t2 = t2
    p1 = p1
    p2 = p2
    s1 = s1
    s2 = s2
    r1 = r1
    r2 = r2
    m1 = m1
    m2 = m2
    Agents = {a1, a2}
    Parent <- MCParent
    Above <- MCAbove
    Ids = {i1}
    Ops = {rm, cp}
    Threads = {t1, t2}
    Root = Root
    None = None
    Callers = {t1, t2}
    Plain = {observer}
    Gated = {gated}
    MaxValue = 3
    Nil = Nil
    Projects = {p1, p2}
    Sessions = {s1, s2}
    Home <- MCHome
    CommandBound = 2
    PipeBound = 1
    UpsetBound = 1
    Nothing = Nothing
    Roots = {r1, r2}
    RootSessions = {x1, x2}
    Recipients = {x1}
    Messages = {m1, m2}
    MaxInbox = 1
    Handlers = {t1, t2}
    Nobody = Nobody
SYMMETRY Symmetry
CHECK_DEADLOCK FALSE
INVARIANTS
    PartsTypeOK TicketsAuthoriseOnce GrantedByItsOwner UserIsAsked
    OneDrainer HearsAllSince
    InOrder SettlesOnce DirectHome
    EachInOnePlace
PROPERTY DecisionStands
