CONSTANTS
    Hists = {2}
    MaxLines = 2
    Commands = {"wrapped"}
    OptionSets = {{}}
    Faulty = {}
SPECIFICATION Spec
PROPERTY ErrorOnlyIfCut
CHECK_DEADLOCK FALSE
