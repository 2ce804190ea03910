SPECIFICATION SignalSpec
CONSTANTS
    Nil = Nil
    Callers = {t1, t2}
    Plain = {observer}
    Gated = {gated}
    MaxValue = 2
CHECK_DEADLOCK FALSE
INVARIANT ReplayFirst
