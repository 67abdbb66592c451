SPECIFICATION FairSpec
CONSTANTS
    Requests = {q1, q2}
    Cron = cron
    Intents = {i1}
    NoIntent = none
    MaxParty = 1
    FirstTier = 0
    AdminRefunds = TRUE
    Onboards = TRUE
    FaultAt <- AnyStep
    MaxFaults = 2
INVARIANTS
    TransfersAccounted
PROPERTIES
    FailedPayoutIsRetried
CHECK_DEADLOCK FALSE
