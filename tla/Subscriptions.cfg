CONSTANTS
    Days = {d1, d2}
    Extra = {}
    Procs = {p1, p2, p3}
    OneAtATime = TRUE
    BatchLimit = 2
    MaxIntents = 2
    MaxRuns = 2
    MaxAborts = 1
SPECIFICATION Spec
SYMMETRY Symmetry
INVARIANTS
    MatchedOnce
    AnsweredIsComplete
    RemindedOnce
PROPERTIES
    NeverRescheduled
CHECK_DEADLOCK FALSE
