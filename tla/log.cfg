CONSTANTS
    Hists = {1, 2}
    MaxLines = 3
    Commands = {"wrapped", "piped"}
    OptionSets = {{}, {"noStderrOut"}, {"noOutput"}, {"noStdoutIn", "noStdoutOut"}}
    Faulty = {"mStdout"}
SPECIFICATION FairSpec
INVARIANTS TypeOK HistoryKept EveryLineOnce StreamsApart WaitComplete
PROPERTY WaitReturns
CHECK_DEADLOCK FALSE
