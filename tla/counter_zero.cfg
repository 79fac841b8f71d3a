CONSTANTS
    Durations = {0}
    MaxHistories = {0}
    MaxAges = {0}
    Amounts = {1}
    MaxTime = 5
    MaxAdds = 5
    MaxHeld = 1
SPECIFICATION Spec
INVARIANT ActsAsCounter
CHECK_DEADLOCK FALSE
