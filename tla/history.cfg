CONSTANTS
    Outputs = {"stdout", "stderr"}
    Limits = {0, 1, 2, 3}
    MaxLines = 9
SPECIFICATION HistorySpec
INVARIANT Recent
CHECK_DEADLOCK FALSE
