CONSTANTS
    Streams = {"stdout", "stderr"}
    Configs <- Ending
SPECIFICATION FairSpec
PROPERTY RunEnds
