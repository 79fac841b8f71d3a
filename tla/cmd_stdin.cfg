CONSTANTS
    Streams = {"stdout", "stderr"}
    Configs <- PipedOnly
SPECIFICATION FairSpec
PROPERTY FinishedCalled
