CONSTANTS
    Streams = {"stdout"}
    Configs <- LimitsOnly
SPECIFICATION Spec
INVARIANT TimeWarningTransmitted
