SPECIFICATION PoolSpec
CONSTANTS
    Requesters = {ann, bob}
    Points <- RoadPoints
    Routes <- RoadRoutes
    MaxWalk = 1
    Padding = 1
    MaxDetour = 4
    MaxRiders = 2
SYMMETRY RiderSymmetry
INVARIANTS
    
    PickupFirst
    MarginalIsInsertion
    SoleRiderFits
CHECK_DEADLOCK FALSE
