SPECIFICATION Spec
CONSTANTS Workers = {w1, w2}  Users = {u1}  Inv = inv  Extra = {t1, t2}
          Roles = {"client", "server"}  Faults = {"error", "unsent"}  None = None
INVARIANTS NoDeadlock
CHECK_DEADLOCK FALSE
