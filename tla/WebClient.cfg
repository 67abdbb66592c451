CONSTANTS
    Users = {ann, bob}
    Calls = {c1, c2}
    MaxPairs = 2
    Orderly = TRUE
SPECIFICATION Spec
INVARIANTS
    RunsAtMostOnce
    NoOrphanTimer
    StreamIsOwn
    
PROPERTIES
    CallsMoveOn
CHECK_DEADLOCK FALSE
