SPECIFICATION FairSpec
CONSTANTS
    Clients = {c1}
    Coordinator = Coordinator
    k1 = k1
    k2 = k2
    k3 = k3
    owner1 = owner1
    owner2 = owner2
    Tasks = {k1, k2, k3}
    Owner <- MCOwner
    Sources = {s1}
    Payloads = {p}
    Selections = {{s1}}
    EventRetention = 1
    CompletedRetention = 0
    HubLimit = 2
    OwnerLimit = 1
    MaxSequence = 0
INVARIANT TasksBounded
PROPERTY TasksEnd
CHECK_DEADLOCK FALSE
