CONSTANTS
    w1 = w1
    w2 = w2
    r1 = r1
    a1 = a1
    s1 = s1
    Workers <- OneWorker
    Readers <- OneReader
    Apps <- OneApp
    Senders <- OneSender
    Roles = {"UAC", "UAS"}
    Invites <- Bools
    H200s <- Yes
    AppOps = {"terminate", "set_timeout", "stop", "retransmit"}
    Faults = {"async", "fail", "next", "api", "switch", "disc"}
SPECIFICATION Spec
INVARIANTS
    TypeOK
    RefsAccounted
    FreedUnreferenced
    FinalStatus
CHECK_DEADLOCK FALSE
