CONSTANTS
    Users = {ann, ben}
    Root = ann
    Driver = ben
    Nobody = nobody
    Kinds = {licence, insurance}
    Docs = {d1, d2}
    Orgs = {o1}
    NoOrg = noorg
    Disputes = {c1, c2}
    Procs = {p1, p2}
    OneAtATime = TRUE
    MaxServed = 3
    MaxTrouble = 1
SPECIFICATION Spec
SYMMETRY Symmetry
INVARIANTS
    ReviewsDecide
    
    FounderSeesOrganization
CHECK_DEADLOCK FALSE
