CONSTANTS
    Streams = {"stdout"}
    Configs <- GivingUpOnly
SPECIFICATION Spec
INVARIANT ErrorsReported
