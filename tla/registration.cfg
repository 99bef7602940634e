SPECIFICATION LiveSpec
CONSTANTS
    Apps = {a1}
    Workers = {w1, w2}
    Faults = {"failed", "refused"}
    TsxCbs = {TRUE, FALSE}
    MaxTries = 1
INVARIANTS BusyAccounted FreedQuiet OpTracked NoLostRefresh
PROPERTIES SentTold DestroyedFreed
CHECK_DEADLOCK FALSE
