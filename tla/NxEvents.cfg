SPECIFICATION Spec
CONSTANTS
    t1 = t1
    t2 = t2
    Threads = {t1}
    Nobody = Nobody
    Calls = {"get", "timed", "check", "peek", "peekwait", "query", "main"}
    MaxEvents = 5
    WmEvents = {2}
    Supersedes <- Exposures
    MaxReqs = 3
    MaxInput = 2
CHECK_DEADLOCK FALSE
INVARIANTS
    ReadIsAnswered
    NoWrongPacket
PROPERTIES
    InOrder
    WaitingCallReturns
