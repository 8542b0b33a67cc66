SPECIFICATION Spec
CONSTANTS
    t1 = t1
    t2 = t2
    Threads = {t1, t2}
    Nobody = Nobody
    Calls = {"get", "query"}
    MaxEvents = 2
    WmEvents = {}
    Supersedes <- Positions
    MaxReqs = 2
    MaxInput = 0
CHECK_DEADLOCK FALSE
INVARIANTS
    ReadIsAnswered
