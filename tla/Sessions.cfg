CONSTANTS
    SessionIds = {s1, s2}
    Links = {l1, l2}
    Requests = {q1, q2}
    Nobody = Nobody
    MaxTime = 1
    MaxPassword = 2
    OneAtATime = TRUE
    MaxAborts = 1
SPECIFICATION Spec
SYMMETRY Symmetry
INVARIANTS
    OnlyVerifiedSignIn
    LinkUsedOnce
    
PROPERTIES
    RevokedStaysRevoked
    
CHECK_DEADLOCK FALSE
