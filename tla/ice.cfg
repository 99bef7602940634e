SPECIFICATION LiveSpec
CONSTANTS
    Lists <- BothLists
    Modes = {TRUE, FALSE}
    Workers = {w1, w2}
    Faults = {"conflict", "learned", "lost", "unsent", "race"}
INVARIANTS OneController NominatedByBoth
PROPERTIES Told Success
CHECK_DEADLOCK FALSE
