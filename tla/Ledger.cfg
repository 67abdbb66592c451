CONSTANTS
    Users = {ann, ben, cid}
    Trips = {t1, t2}
    Requests = {q1, q2}
    Nobody = nobody
    MaxUses = 1
    HasKv = TRUE
    OneAtATime = TRUE
    MaxServed = 4
    MaxAborts = 1
    MaxTrouble = 1
SPECIFICATION Spec
SYMMETRY Symmetry
INVARIANTS
    OverrunBounded
    
    ReferrerFollowsFriend
    
    OfferedOnce
CHECK_DEADLOCK FALSE
