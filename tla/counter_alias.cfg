CONSTANTS
    Durations = {1}
    MaxHistories = {0}
    MaxAges = {0}
    Amounts = {1}
    MaxTime = 5
    MaxAdds = 5
    MaxHeld = 1
SPECIFICATION Spec
PROPERTY HeldHistoriesFixed
CHECK_DEADLOCK FALSE
