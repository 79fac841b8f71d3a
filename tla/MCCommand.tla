----------------------------- MODULE MCCommand -----------------------------
(* Configurations of Command for TLC. *)
EXTENDS Command

Plain == [notifyOnSuccess |-> FALSE, notifyOnFailure |-> TRUE, daemon |-> FALSE,
          rules |-> FALSE, ruleQuantity |-> 0, rulePeriod |-> FALSE,
          creates |-> <<>>, killTimeout |-> FALSE, notifyTimeout |-> FALSE,
          memoryWarn |-> 0, memoryKill |-> 0, stdinPipe |-> FALSE, longLines |-> FALSE,
          jsonRules |-> FALSE, outputFails |-> FALSE, orphan |-> FALSE,
          maxLines |-> 0, maxChecks |-> 0, maxTries |-> 0, canGiveUp |-> FALSE]

\* A kill timeout, a time warning and memory limits, all at once.
Limits == [Plain EXCEPT !.killTimeout = TRUE, !.notifyTimeout = TRUE,
                        !.memoryWarn = 1, !.memoryKill = 2]

\* Two files to check, and reports of success wanted.
Artifacts == [Plain EXCEPT !.creates = <<"f1", "f2">>, !.notifyOnSuccess = TRUE]

\* Rules, without other reports.
Alerts == [Plain EXCEPT !.rules = TRUE, !.notifyOnFailure = FALSE]
Rate   == [Alerts EXCEPT !.ruleQuantity = 1, !.rulePeriod = TRUE]

Piped  == [Plain EXCEPT !.stdinPipe = TRUE, !.longLines = TRUE]

\* The same with a server that fails, with memory readings and with output.
Troubled(cfg)    == [cfg EXCEPT !.maxTries = 1, !.canGiveUp = TRUE]
Measured(cfg, n) == [cfg EXCEPT !.maxChecks = n]
Printing(cfg, n) == [cfg EXCEPT !.maxLines = n]

\* Alerts to a server that fails, about lines that may crash the scanner.
Crashing == [Printing(Alerts, 1) EXCEPT !.jsonRules = TRUE, !.outputFails = TRUE]

Everything ==
    {Measured(Limits, 2), Artifacts, Printing(Rate, 2)}
    \cup {Troubled(cfg) : cfg \in {Piped, Crashing}}
Ending ==
    {Printing(Artifacts, 1), Printing(Alerts, 1), Measured(Limits, 1)}
PlainOnly    == {Plain}
GivingUpOnly == {[Plain EXCEPT !.canGiveUp = TRUE]}
LimitsOnly   == {Limits}
AlertsOnly   == {Printing(Alerts, 2)}
RaceOnly     == {Printing(Alerts, 3)}
PipedOnly    == {Piped}
=============================================================================
