SPECIFICATION LiveSpec
CONSTANTS Workers = {w1, w2}  Users = {u1}  Inv = inv  Extra = {t1, t2}
          Roles = {"client", "server"}  Faults = {"error", "unsent"}  None = None
INVARIANTS CountsAccounted FreedUnwatched NoCircularWait
PROPERTIES DialogFreed
CHECK_DEADLOCK FALSE
