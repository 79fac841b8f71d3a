CONSTANTS
    Outputs = {"stdout", "stderr"}
    Limits = {2, 3, 4, 5}
    MaxLines = 9
SPECIFICATION HistorySpec
INVARIANT Full
CHECK_DEADLOCK FALSE
