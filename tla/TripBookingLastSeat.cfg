SPECIFICATION Spec
CONSTANTS
    Riders = {r1, r2}
    Requests = {q1}
    NoRider = none
    TotalSeats = 2
    MaxParty = 2
    SeatFloor = 1
    SeatCap = 4
    OneRequestPerRider = TRUE
    AbortAt = {}
    MaxAborts = 0
SYMMETRY Symmetry
PROPERTIES
    FailedAcceptRollsBack
CHECK_DEADLOCK FALSE
