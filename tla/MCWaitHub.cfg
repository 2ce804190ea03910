SPECIFICATION Spec
CONSTANTS
    Clients = {c1, c2}
    Coordinator = Coordinator
    Tasks = {k1, k2}
    owner = owner
    Owner <- MCOwner
    Sources = {s1}
    Payloads = {p}
    Selections = {{s1}, {}}
    EventRetention = 1
    CompletedRetention = 1
    HubLimit = 2
    OwnerLimit = 2
    MaxSequence = 2
INVARIANTS TypeOK ExactlyOnce TaskStateFresh NoLostWakeup
PROPERTY EventWins
CHECK_DEADLOCK FALSE
