CONSTANTS
    Ids = {1}
    Modes = {{}}
    Pdfs = {{}}
    Capacity = 2
    Strategy = "sum"
    Inputs = {2, 3}
    MaxDone = 0
    MaxEvents = 3
    MaxErrors = 2
    Requests = {"reset"}
SPECIFICATION Spec
INVARIANT RecordFailsOnlyUndefined
CHECK_DEADLOCK FALSE
