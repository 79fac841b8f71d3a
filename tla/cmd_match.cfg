CONSTANTS
    Streams = {"stdout", "stderr"}
    Configs <- AlertsOnly
SPECIFICATION Spec
INVARIANT MatchesReported
