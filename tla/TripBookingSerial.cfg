SPECIFICATION Spec
CONSTANTS
    Riders = {r1, r2}
    Requests = {q1, q2, q3}
    NoRider = none
    TotalSeats = 2
    MaxParty = 2
    SeatFloor = 0
    SeatCap = 4
    OneRequestPerRider = TRUE
    AbortAt <- AnyStepButAccept
    MaxAborts = 1
SYMMETRY Symmetry
INVARIANTS
    NoOverbooking
    PromotedHasBooking
    CompletedRidersRode
PROPERTIES
    SeatsArePooled
    TripSettledOnce
    RevivedOnlyByPromotion
    LeftTheLine
CHECK_DEADLOCK FALSE
