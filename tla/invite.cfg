SPECIFICATION LiveSpec
CONSTANTS
    MaxInvites = 3
    Codes = {200, 603}
    Faults = {"ack","noanswer"}
INVARIANTS Agreement NoGlare CallerKnows NoStuckOffer
PROPERTIES EndedEnds BothEnd
CHECK_DEADLOCK FALSE
