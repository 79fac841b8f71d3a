CONSTANTS
    Streams = {"stdout", "stderr"}
    Configs <- PlainOnly
SPECIFICATION Spec
INVARIANT AllReportsTransmitted
