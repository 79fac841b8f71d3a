CONSTANTS
    Streams = {"stdout"}
    Configs <- LimitsOnly
SPECIFICATION Spec
INVARIANT KilledAfterStart
