CONSTANTS
    States <- TestStates
    Initial = "initial"
    Allowable <- TestTable
    StopOptions = {TRUE, FALSE}
    Clients = {c1, c2}
    RandFails = TRUE
    MaxCalls = 5
SPECIFICATION Spec
INVARIANTS NonceInv OneAttemptPerNonce
PROPERTY StopsForGood
CHECK_DEADLOCK FALSE
