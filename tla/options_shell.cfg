CONSTANTS
    FlagNames = {"id", "shell"}
    FileNames = {}
    Values = {"", "sh", "f:a"}
    MaxFlags = 2
    MaxFiles = 0
    MaxKeys = 0
SPECIFICATION Spec
INVARIANT ShellIsAsGiven
CHECK_DEADLOCK FALSE
