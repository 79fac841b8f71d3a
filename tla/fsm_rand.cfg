CONSTANTS
    States <- TestStates
    Initial = "initial"
    Allowable <- TestTable
    StopOptions = {TRUE}
    Clients = {c1, c2}
    RandFails = TRUE
    MaxCalls = 5
SPECIFICATION Spec
INVARIANT ReturnsErrors
CHECK_DEADLOCK FALSE
