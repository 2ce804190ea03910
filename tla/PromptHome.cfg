SPECIFICATION RouteSpec
CONSTANTS
    p1 = p1
    p2 = p2
    s1 = s1
    s2 = s2
    Nothing = Nothing
    Projects = {p1, p2}
    Sessions = {s1, s2}
    Home <- MCHome
    CommandBound = 1
    PipeBound = 1
    UpsetBound = 1
INVARIANT HomeProject
