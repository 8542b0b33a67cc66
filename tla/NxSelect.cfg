SPECIFICATION Spec
CONSTANTS
    c1 = c1
    c2 = c2
    c3 = c3
    Clients = {c1, c2, c3}
    Talkers = {c1, c2}
    Slow = {c2}
    NULL = NULL
CHECK_DEADLOCK FALSE
INVARIANTS
    ListSound
    OvertakenTwice
PROPERTIES
    ServesTheLiving
    EveryoneServed
