CONSTANTS
    Streams = {"stdout", "stderr"}
    Configs <- RaceOnly
SPECIFICATION Spec
INVARIANT SendIsSafe
