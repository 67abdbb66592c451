SPECIFICATION Spec
CONSTANTS
    Trips = {t1}
    Riders = {r1, r2}
    Calls = {c1, c2}
    NoTrip = notrip
    NoRider = norider
    TotalSeats = 2
    MaxSaves = 3
    FaultAt <- AnyStep
    MaxFaults = 1
SYMMETRY Symmetry
INVARIANTS
    MatchedHasMatch

    
CHECK_DEADLOCK FALSE
