CONSTANTS
    Invites <- Bools
    Answers = {100, 180, 200, 300}
    Faults = {"async"}
SPECIFICATION LiveSpec
INVARIANTS
    Agreement
    ConfirmedRejected
PROPERTIES
    BothEnd
CHECK_DEADLOCK FALSE
