CONSTANTS
    Ids = {"direct", "windowed"}
    Modes = {{"windowed"}}
    Capacity = 2
    Strategy = "max"
    Inputs = {1, 2}
    MaxDone = 2
    MaxEvents = 3
SPECIFICATION SeriesSpec
INVARIANTS ValuesAreLatest EachObservationOnce
PROPERTY DoneReturns
CHECK_DEADLOCK FALSE
