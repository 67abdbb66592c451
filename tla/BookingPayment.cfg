SPECIFICATION Spec
CONSTANTS
    Requests = {q1, q2}
    Cron = cron
    Intents = {i1, i2}
    NoIntent = none
    MaxParty = 1
    FirstTier = 1
    AdminRefunds = FALSE
    Onboards = FALSE
    FaultAt <- AnyStep
    MaxFaults = 1
SYMMETRY Symmetry
INVARIANTS
    PaidIsCharged
    RefundedGotMoneyBack
PROPERTIES
    PaidIsNotDowngraded
CHECK_DEADLOCK FALSE
