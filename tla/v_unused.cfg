SPECIFICATION Spec
CONSTANTS
    Users = {u1, u2}
    Workers = {w1}
    Io = io
    Faults = {}
INVARIANTS FreedUnused
CHECK_DEADLOCK FALSE
