SPECIFICATION LiveSpec
CONSTANTS
    Users = {u1, u2}
    Workers = {w1}
    Io = io
    Faults = {"refused", "closed", "error", "expired"}
INVARIANTS RefsAccounted
PROPERTIES Answered Reaped
CHECK_DEADLOCK FALSE
