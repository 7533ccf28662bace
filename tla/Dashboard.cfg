SPECIFICATION FairSpec
CONSTANTS
    Calls = {c1, c2}
    MaxToken = 2
    MaxGestures = 3
    MaxFaults = 1
    Timers = {t1, t2, t3}
    NoTimer = NoTimer
    MaxTurns = 1
INVARIANTS
    TypeOK
    OnePoll
    WeakGate
PROPERTIES
    LeavesClean
    LeavesAlways
    PollingNeverStops
CHECK_DEADLOCK FALSE
