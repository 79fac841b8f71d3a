CONSTANTS
    Ids = {1, 2}
    Modes = {{}}
    Pdfs = {{1}}
    Capacity = 2
    Strategy = "sum"
    Inputs = {0, 3}
    MaxDone = 0
    MaxEvents = 3
    MaxErrors = 2
    Requests = {"ucl_initial", "reset"}
SPECIFICATION Spec
PROPERTY EveryStatisticAsked
CHECK_DEADLOCK FALSE
