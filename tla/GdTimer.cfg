SPECIFICATION Spec
CONSTANTS
    UsPerMs = 2
    MsPerSec = 3
    Ids = {"a"}
    Periods = {1, 3}
    Delays = {2}
    VtPeriod = 1
    Timeouts = {0, 2}
    StepsBack = {7}
    MaxSteps = 1
    MaxTimers = 2
    MaxLate = 1
INVARIANTS
    NotEarly
    NoIdleWake
    WakesInTime
    TimeoutTold
    SaverArmed
