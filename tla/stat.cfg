CONSTANTS
    Ids = {1, 2}
    Modes = {{}, {2}}
    Pdfs = {{}, {1, 2}}
    Capacity = 2
    Strategy = "sum"
    Inputs = {0, 2, 3}
    MaxDone = 1
    MaxEvents = 3
    MaxErrors = 2
    Requests = {"reset", "ucl_initial", "lcl_initial"}
SPECIFICATION Spec
INVARIANTS AlarmIsFounded RefusedOnlyAtRestart InStep
PROPERTY AlarmStands
CHECK_DEADLOCK FALSE
