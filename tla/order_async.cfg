CONSTANTS
    w1 = w1
    w2 = w2
    r1 = r1
    a1 = a1
    s1 = s1
    Workers <- TwoWorkers
    Readers <- OneReader
    Apps <- NoApp
    Senders <- OneSender
    Roles = {"UAC", "UAS"}
    Invites <- Bools
    H200s <- Bools
    AppOps = {"set_timeout", "retransmit"}
    Faults = {"async", "next", "switch", "api"}
SPECIFICATION Spec
INVARIANTS
    Armed
    Told
PROPERTIES
    ForwardOnly
    AckGiven
CHECK_DEADLOCK FALSE
