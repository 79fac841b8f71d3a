CONSTANTS
    Hists = {2}
    MaxLines = 2
    Commands = {"wrapped"}
    OptionSets = {{}}
    Faulty = {}
SPECIFICATION Spec
INVARIANT AllProcessed
CHECK_DEADLOCK FALSE
