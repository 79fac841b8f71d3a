CONSTANTS
    Durations = {0, 1, 2}
    MaxHistories = {0, 2}
    MaxAges = {0, 2}
    Amounts = {1}
    MaxTime = 5
    MaxAdds = 5
    MaxHeld = 1
SPECIFICATION Spec
INVARIANT HistoryIsExact
PROPERTY HeldHistoriesStand
CHECK_DEADLOCK FALSE
