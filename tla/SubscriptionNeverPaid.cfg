CONSTANTS
    Days = {d1}
    Extra = {}
    Procs = {p1}
    OneAtATime = TRUE
    BatchLimit = 2
    MaxIntents = 2
    MaxRuns = 0
    MaxAborts = 0
SPECIFICATION Spec
INVARIANTS
    HeardIsPaid
CHECK_DEADLOCK FALSE
