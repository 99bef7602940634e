CONSTANTS
    w1 = w1
    w2 = w2
    r1 = r1
    a1 = a1
    s1 = s1
    Workers <- OneWorker
    Readers <- OneReader
    Apps <- NoApp
    Senders <- OneSender
    Roles = {"UAC", "UAS"}
    Invites <- Bools
    H200s <- Yes
    AppOps = {"set_timeout", "retransmit"}
    Faults = {"fail", "next", "switch", "api"}
SPECIFICATION LiveSpec
INVARIANTS
    Resent
PROPERTIES
    LifecycleSpec
    CallingEnds
CHECK_DEADLOCK FALSE
