CONSTANTS
    FlagNames = {"id", "memory-warn", "daemon"}
    FileNames = {"id", "rule", "rule-json", "memory-warn", "daemon", "verbose"}
    Values = {"", "f:a", "f:(", "2G"}
    MaxFlags = 3
    MaxFiles = 1
    MaxKeys = 2
SPECIFICATION Spec
INVARIANT ConfigIsAsGiven
CHECK_DEADLOCK FALSE
