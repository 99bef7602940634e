CONSTANTS
    e1 = e1
    e2 = e2
    e3 = e3
    e4 = e4
    e5 = e5
    e6 = e6
    Entries <- Six
    Locked <- Six
    Pollers = {w1}
    Schedulers = {s1}
    Count = 1
    MaxTime = 1
    MaxPoll = 2
    MaxScheduled = 6
SPECIFICATION HeapSpec
ACTION_CONSTRAINT FirstAlike
INVARIANTS Located LocksAccounted
PROPERTIES ServiceSpec
CHECK_DEADLOCK FALSE
