------------------------------ MODULE Command ------------------------------
(***************************************************************************)
(* A supervised run of the user's command: Exec and its goroutines         *)
(* (pkg/monny/command.go), the handlers its select loop calls                *)
(* (handlers.go), the reports they send (Report) and main (cmd/monny).       *)
(*                                                                           *)
(* The goroutines are main, the two scanners, the stdin copier, the waiter   *)
(* and those of the reports; the child, its standard streams, the timers and *)
(* the memory readings are the environment.                                  *)
(***************************************************************************)
EXTENDS Report

CONSTANTS
    Streams      \* the scanned streams: "stdout", "stderr" or both

ASSUME CommandAssumption == Streams \subseteq {"stdout", "stderr"}

VARIABLES
    main,        \* where the main goroutine is
    child,       \* "none", "running", or exited: "ok" or "fail"
    scanner,     \* stream -> "scan", "check" (after the append), "eof"
    stdin,       \* the copier: "copying" or "done"
    waiter,      \* "waiting", "reaped" (cmd.Wait returned), "finished" (runFinished)
    warned,      \* the time.After of NotifyTimeout has been received
    left,        \* the files handleFileCreation has still to check
    lines,       \* lines read so far
    matched,     \* history: the lines that matched a rule
    checks       \* memory readings above the first threshold

procVars == <<child, scanner, stdin, waiter>>
vars     == <<reportVars, procVars, main, warned, left, lines, matched, checks>>

Init ==
    /\ ReportInit
    /\ main = "start" /\ child = "none"
    /\ scanner = [s \in Streams |-> "scan"] /\ stdin = "copying" /\ waiter = "waiting"
    /\ warned = FALSE /\ left = <<>> /\ lines = 0 /\ matched = {} /\ checks = 0

-----------------------------------------------------------------------------
(* The child and the goroutines that serve it *)

\* cmd.Start, which may fail: main then exits with 1.
Start ==
    /\ main = "start"
    /\ \/ main' = "loop" /\ child' = "running"
       \/ main' = "exited1" /\ child' = child
    /\ UNCHANGED <<reportVars, scanner, stdin, waiter, warned, left, lines, matched, checks>>

ChildExits ==
    /\ child = "running"
    /\ child' \in {"ok", "fail"}
    /\ UNCHANGED <<reportVars, scanner, stdin, waiter, main, warned, left, lines, matched, checks>>

\* What checkRule may find in a line.
Matches(line) == IF config.rules THEN {{}, {line}} ELSE {{}}

HasLine(s) == child # "none" /\ scanner[s] = "scan" /\ lines < config.maxLines

\* A line is read and copied to monny's output; its matches are appended.
Scan(s) ==
    /\ HasLine(s)
    /\ lines' = lines + 1
    /\ scanner' = [scanner EXCEPT ![s] = "check"]
    /\ \E new \in Matches(lines + 1) :
          /\ matched' = matched \cup new
          /\ AppendMatches(new)
    /\ UNCHANGED <<config, dead, child, stdin, waiter, main, warned, left, checks>>

\* The line cannot be copied: the nil c.errors is called.
OutputBroken(s) ==
    /\ HasLine(s) /\ config.outputFails
    /\ dead' = "nil reporter"
    /\ UNCHANGED <<config, c, sends, procVars, main, warned, left, lines, matched, checks>>

\* extractTextFromJSON converts the list, not its element, to a number.
BadAssertion(s) ==
    /\ HasLine(s) /\ config.jsonRules
    /\ dead' = "bad assertion"
    /\ UNCHANGED <<config, c, sends, procVars, main, warned, left, lines, matched, checks>>

\* len(c.RuleMatches) > 0, read after the unlock, decides about an alert, for
\* the matches of whatever line they are; then the line goes into the history.
AlertIfMatched(s) ==
    /\ scanner[s] = "check"
    /\ scanner' = [scanner EXCEPT ![s] = "scan"]
    /\ \E m \in MatchesSeen :
          sends' = IF m = {} THEN sends
                   ELSE WithSend(IF config.ruleQuantity > 0 THEN "AlertRate" ELSE "Alert")
    /\ UNCHANGED <<config, c, dead, child, stdin, waiter, main, warned, left, lines>>
    /\ UNCHANGED <<matched, checks>>

\* bufio.Scanner stops at a line longer than its buffer and reads no more.
ScanStops(s) ==
    /\ child # "none" /\ scanner[s] = "scan" /\ config.longLines
    /\ scanner' = [scanner EXCEPT ![s] = "eof"]
    /\ UNCHANGED <<reportVars, child, stdin, waiter, main, warned, left, lines, matched, checks>>

\* All processes that hold the child's output have closed it.
ScanEOF(s) ==
    /\ child \in {"ok", "fail"} /\ scanner[s] = "scan"
    /\ scanner' = [scanner EXCEPT ![s] = "eof"]
    /\ UNCHANGED <<reportVars, child, stdin, waiter, main, warned, left, lines, matched, checks>>

\* The copier is done at once unless stdin is a pipe, and then at its end.
StdinEnds ==
    /\ child # "none" /\ stdin = "copying"
    /\ stdin' = "done"
    /\ UNCHANGED <<reportVars, child, scanner, waiter, main, warned, left, lines, matched, checks>>

\* io.Copy fails as the child no longer reads: the nil c.errors is called.
StdinBroken ==
    /\ child \in {"ok", "fail"} /\ stdin = "copying" /\ config.stdinPipe
    /\ dead' = "nil reporter"
    /\ UNCHANGED <<config, c, sends, procVars, main, warned, left, lines, matched, checks>>

\* Mutant of Reap: only a child that succeeded is waited for.
ReapSuccess ==
    /\ waiter = "waiting" /\ child = "ok" /\ stdin = "done"
    /\ \A s \in Streams : scanner[s] = "eof"
    /\ waiter' = "reaped"
    /\ UNCHANGED <<reportVars, child, scanner, stdin, main, warned, left, lines, matched, checks>>

\* wg.Wait() and cmd.Wait()
Reap ==
    /\ waiter = "waiting" /\ child \in {"ok", "fail"} /\ stdin = "done"
    /\ \A s \in Streams : scanner[s] = "eof"
    /\ waiter' = "reaped"
    /\ UNCHANGED <<reportVars, child, scanner, stdin, main, warned, left, lines, matched, checks>>

\* runFinished <- true
RunFinished ==
    /\ waiter = "reaped"
    /\ waiter' = "finished"
    /\ UNCHANGED <<reportVars, child, scanner, stdin, main, warned, left, lines, matched, checks>>

-----------------------------------------------------------------------------
(* The select loop and the handlers *)

\* Finished, first critical section.
Finished ==
    /\ main = "loop" /\ waiter = "finished"
    /\ c' = [c EXCEPT !.duration = 1]
    /\ main' = "finished"
    /\ UNCHANGED <<config, sends, dead, procVars, warned, left, lines, matched, checks>>

\* Mutant of FinishedVerdict: the reason is read before it is set.
VerdictUnset ==
    /\ main = "finished"
    /\ c' = [c EXCEPT !.success = (child = "ok"),
                      !.reportReason = IF child = "ok" THEN "Success" ELSE "Failure"]
    /\ sends' = WithSend(c.reportReason)
    /\ left' = config.creates
    /\ main' = "files"
    /\ UNCHANGED <<config, dead, procVars, warned, lines, matched, checks>>

\* Finished, the switch on ProcessState.Success().
FinishedVerdict ==
    /\ main = "finished"
    /\ LET r == IF child = "ok" THEN "Success" ELSE "Failure" IN
          /\ c' = [c EXCEPT !.success = (child = "ok"), !.reportReason = r]
          /\ sends' = WithSend(r)
    /\ left' = config.creates
    /\ main' = "files"
    /\ UNCHANGED <<config, dead, procVars, warned, lines, matched, checks>>

\* Mutant of FileMissing: c.Success is not withdrawn.
FileMissingQuietly ==
    /\ main = "files" /\ left # <<>>
    /\ c' = [c EXCEPT !.missing = @ \cup {Head(left)}, !.reportReason = "FileNotCreated"]
    /\ sends' = WithSend("FileNotCreated")
    /\ left' = Tail(left)
    /\ UNCHANGED <<config, dead, procVars, main, warned, lines, matched, checks>>

\* handleFileCreation, one turn of its loop, by the result of os.Stat.
FileMissing ==
    /\ main = "files" /\ left # <<>>
    /\ c' = [c EXCEPT !.success = FALSE, !.missing = @ \cup {Head(left)},
                      !.reportReason = "FileNotCreated"]
    /\ sends' = WithSend("FileNotCreated")
    /\ left' = Tail(left)
    /\ UNCHANGED <<config, dead, procVars, main, warned, lines, matched, checks>>

FileFound ==
    /\ main = "files" /\ left # <<>>
    /\ c' = [c EXCEPT !.created = @ \cup {Head(left)}]
    /\ left' = Tail(left)
    /\ UNCHANGED <<config, sends, dead, procVars, main, warned, lines, matched, checks>>

FileUnknown ==
    /\ main = "files" /\ left # <<>>
    /\ left' = Tail(left)
    /\ UNCHANGED <<reportVars, procVars, main, warned, lines, matched, checks>>

FilesChecked ==
    /\ main = "files" /\ left = <<>>
    /\ main' = "wait"
    /\ UNCHANGED <<reportVars, procVars, warned, left, lines, matched, checks>>

\* Mutant of Kill: the handler's result does not end the select loop.
KillContinues(reason) ==
    /\ c' = [c EXCEPT !.killed = TRUE, !.killReason = reason, !.reportReason = "Killed",
                      !.duration = IF reason = "Timeout" THEN -1 ELSE 1]
    /\ sends' = WithSend("Killed")
    /\ main' = "loop"
    /\ Len(sends) < 4
    /\ UNCHANGED <<config, dead, procVars, warned, left, lines, matched, checks>>

\* Mutant of Kill: the report is sent in a critical section of its own, before
\* the fields are set.
KillReportFirst(reason) ==
    /\ c' = [c EXCEPT !.reportReason = "Killed"]
    /\ sends' = WithSend("Killed")
    /\ main' = "killing"
    /\ UNCHANGED <<config, dead, procVars, warned, left, lines, matched, checks>>

\* The critical section and the report of Signal, Timeout and KillOnHighMemory;
\* Timeout subtracts Finish from Start.
Kill(reason) ==
    /\ c' = [c EXCEPT !.killed = TRUE, !.killReason = reason, !.reportReason = "Killed",
                      !.duration = IF reason = "Timeout" THEN -1 ELSE 1]
    /\ sends' = WithSend("Killed")
    /\ main' = "killing"
    /\ UNCHANGED <<config, dead, procVars, warned, left, lines, matched, checks>>

Signal  == main = "loop" /\ Kill("Signal")
Timeout == main = "loop" /\ config.killTimeout /\ Kill("Timeout")

\* cmd.Process.Signal fails once cmd.Wait has returned, and with it Exec: main
\* exits with 1 and does not call Wait.
KillSignal ==
    /\ main = "killing"
    /\ IF waiter = "waiting"
       THEN main' = "wait" /\ child' \in
               IF child # "running" THEN {child}
               ELSE IF c.killReason = "Signal" THEN {"running", "ok", "fail"} ELSE {"fail"}
       ELSE main' = "exited1" /\ child' = child
    /\ UNCHANGED <<reportVars, scanner, stdin, waiter, warned, left, lines, matched, checks>>

TimeWarning ==
    /\ main = "loop" /\ config.notifyTimeout /\ ~warned
    /\ warned' = TRUE
    /\ c' = [c EXCEPT !.reportReason = "TimeWarning", !.timeWarnSent = TRUE]
    /\ sends' = WithSend("TimeWarning")
    /\ UNCHANGED <<config, dead, procVars, main, left, lines, matched, checks>>

Warns(mem) == config.memoryWarn > 0 /\ mem >= config.memoryWarn /\ ~c.memWarnSent
Kills(mem) == config.memoryKill > 0 /\ mem >= config.memoryKill

\* Mutant of CheckMemory: the maximum is not kept.
CheckMemoryOnly(mem) ==
    /\ main = "loop" /\ checks < config.maxChecks /\ child = "running"
    /\ checks' = checks + 1
    /\ c' = IF Warns(mem) THEN [c EXCEPT !.reportReason = "MemoryWarning",
                                         !.memWarnSent = TRUE] ELSE c
    /\ sends' = IF Warns(mem) THEN WithSend("MemoryWarning") ELSE sends
    /\ main' = IF Kills(mem) THEN "highmem" ELSE "loop"
    /\ UNCHANGED <<config, dead, procVars, warned, left, lines, matched>>

\* A reading of the child's memory; below the first threshold it changes nothing.
CheckMemory(mem) ==
    /\ main = "loop" /\ checks < config.maxChecks /\ child = "running"
    /\ checks' = checks + 1
    /\ LET max == IF mem > c.maxMemory THEN mem ELSE c.maxMemory IN
       c' = IF Warns(mem)
            THEN [c EXCEPT !.maxMemory = max, !.reportReason = "MemoryWarning",
                           !.memWarnSent = TRUE]
            ELSE [c EXCEPT !.maxMemory = max]
    /\ sends' = IF Warns(mem) THEN WithSend("MemoryWarning") ELSE sends
    /\ main' = IF Kills(mem) THEN "highmem" ELSE "loop"
    /\ UNCHANGED <<config, dead, procVars, warned, left, lines, matched>>

KillOnHighMemory == main = "highmem" /\ Kill("Memory")

-----------------------------------------------------------------------------
(* main *)

\* Command.Wait returns; os.Exit(0) follows.
WaitReturns ==
    /\ main = "wait" /\ AllDone
    /\ main' = "exiting"
    /\ UNCHANGED <<reportVars, procVars, warned, left, lines, matched, checks>>

Exit ==
    /\ main = "exiting"
    /\ main' = "exited"
    /\ UNCHANGED <<reportVars, procVars, warned, left, lines, matched, checks>>

Over == main \in {"exited", "exited1"} \/ dead # "no"

Terminated == Over /\ UNCHANGED vars

ReportStep ==
    /\ \E i \in DOMAIN sends : SendStep(i)
    /\ UNCHANGED <<procVars, main, warned, left, lines, matched, checks>>

Handler ==
    \/ Finished \/ FinishedVerdict \/ FileMissing \/ FileFound \/ FileUnknown
    \/ FilesChecked \/ Signal \/ Timeout \/ KillSignal \/ TimeWarning
    \/ (\E mem \in 1..2 : CheckMemory(mem)) \/ KillOnHighMemory

Goroutine ==
    \/ StdinEnds \/ StdinBroken \/ Reap \/ RunFinished
    \/ \E s \in Streams : \/ Scan(s) \/ OutputBroken(s) \/ BadAssertion(s)
                         \/ AlertIfMatched(s) \/ ScanEOF(s) \/ ScanStops(s)

Next ==
    \/ ~Over /\ (Start \/ ChildExits \/ Goroutine \/ Handler \/ ReportStep
                 \/ WaitReturns \/ Exit)
    \/ Terminated

\* The child waits for somebody to read its output.
Unread == child = "running" /\ \E s \in Streams : scanner[s] = "eof"

\* The goroutines run; a child that is read exits some day, and the server, or
\* the retry's clock, answers every call.  A pipe on stdin need not end, nor a
\* process that was left behind; nobody has to send a signal and no timer to fire.
Fairness ==
    /\ WF_vars(~Over /\ (Start \/ WaitReturns \/ Exit))
    /\ WF_vars(~Over /\ ~Unread /\ ChildExits)
    /\ WF_vars(~Over /\ ~config.stdinPipe /\ StdinEnds)
    /\ WF_vars(~Over /\ (Reap \/ RunFinished))
    /\ \A s \in Streams :
          WF_vars(~Over /\ (AlertIfMatched(s) \/ (~config.orphan /\ ScanEOF(s))))
    /\ WF_vars(~Over /\ (Finished \/ FinishedVerdict \/ KillSignal \/ KillOnHighMemory
                         \/ FileMissing \/ FileFound \/ FileUnknown \/ FilesChecked))
    /\ WF_vars(~Over /\ ReportStep)

Spec     == Init /\ [][Next]_vars
FairSpec == Spec /\ Fairness
-----------------------------------------------------------------------------
(* Properties *)

Sent(reasons) == {i \in DOMAIN sends : sends[i].reason \in reasons}

Snapshots(reasons) == {sends[i].snap : i \in {j \in Sent(reasons) : sends[j].pc # "called"}}

Verdicts == {"Success", "Failure", "Killed"}

CommandType ==
    [success : BOOLEAN, killed : BOOLEAN,
     killReason : {"None", "Signal", "Timeout", "Memory"},
     reportReason : Reasons \cup {"None"}, duration : -1..1, maxMemory : 0..2,
     missing : SUBSET Files, created : SUBSET Files, matches : SUBSET Nat,
     timeWarnSent : BOOLEAN, memWarnSent : BOOLEAN]

SendType ==
    [reason : Reasons,
     pc : {"called", "created", "background", "off", "sending", "stored", "refused",
           "lost", "acked", "failed", "clearing", "raced", "done"},
     snap : CommandType, tries : Nat, delivered : BOOLEAN]

\* Each variable has its type.
TypeOK ==
    /\ config \in Configs /\ c \in CommandType /\ sends \in Seq(SendType)
    /\ dead \in {"no", "nil reporter", "bad assertion", "torn"}
    /\ main \in {"start", "loop", "finished", "files", "killing", "highmem", "wait",
                 "exiting", "exited", "exited1"}
    /\ child \in {"none", "running", "ok", "fail"}
    /\ scanner \in [Streams -> {"scan", "check", "eof"}]
    /\ stdin \in {"copying", "done"} /\ waiter \in {"waiting", "reaped", "finished"}
    /\ warned \in BOOLEAN /\ left \in Seq(Files) /\ lines \in Nat
    /\ matched \subseteq Nat /\ checks \in Nat

\* A report shows the state it is about although its snapshot is taken later,
\* by a goroutine that races with the handlers: a Killed report says it was
\* killed and why, a Failure one shows no success, a FileNotCreated one shows no
\* success and names a file, and those of a process that ended by itself do not
\* say it was killed (report.go 62-65 against handlers.go 34-55, 61-69).
TruthfulReports ==
    /\ \A s \in Snapshots({"Killed"}) :
          s.killed /\ s.killReason # "None"
    /\ \A s \in Snapshots({"Failure"}) : ~s.success /\ ~s.killed
    /\ \A s \in Snapshots({"FileNotCreated"}) :
          ~s.success /\ ~s.killed /\ s.missing # {}
    /\ \A s \in Snapshots({"Success"}) : ~s.killed

\* What TruthfulReports rests on: Killed is the last state of a run and the
\* first to be set, and what a verdict says of the command was true when it was
\* sent and is not taken back.
Standing ==
    /\ c.killed => /\ c.killReason # "None" /\ c.reportReason = "Killed"
                   /\ main \in {"killing", "wait", "exiting", "exited", "exited1"}
    /\ main = "killing" => c.killed

Recorded ==
    \A i \in DOMAIN sends :
        /\ sends[i].reason = "Killed" => c.killed
        /\ sends[i].reason \in {"Success", "Failure", "FileNotCreated"} =>
              ~c.killed /\ main \notin {"start", "loop", "highmem", "finished"}
        /\ sends[i].reason \in {"Failure", "FileNotCreated"} => ~c.success
        /\ sends[i].reason = "FileNotCreated" => c.missing # {}

\* The inductive strengthening of TruthfulReports.
VerdictInv == Standing /\ Recorded /\ TruthfulReports

\* The report of a memory kill shows a MaxMemory that reached the limit
\* (handlers.go 116-132, 138-147).
MemoryKillShown ==
    \A s \in Snapshots({"Killed"}) :
        s.killReason = "Memory" => s.maxMemory >= config.memoryKill

\* When Finished has returned, the command counts as successful exactly if the
\* child was and no file is missing, and for every missing file a report was
\* sent (handlers.go 34-55, 156-180).
FinalVerdict ==
    main \in {"wait", "exiting", "exited"} /\ ~c.killed =>
        /\ c.success <=> (child = "ok" /\ c.missing = {})
        /\ Cardinality(c.missing) <= Cardinality(Sent({"FileNotCreated"}))

\* A run has one verdict and warns of time and of memory at most once, whatever
\* timers, signals and the end of the child coincide (command.go 202-217).
OneVerdict ==
    \A reasons \in {Verdicts, {"TimeWarning"}, {"MemoryWarning"}} :
        \A i, j \in Sent(reasons) : i = j

\* No match leaves RuleMatches before an alert was stored and acknowledged, whatever
\* the scanners, the snapshots and the callbacks of several alerts do at once, and
\* although calls of the server are lost, refused and repeated (report.go 96-111,
\* 135-139, 180-191, command.go 297-307).
MatchesKept ==
    matched \subseteq c.matches
    \/ \E i \in Calls({"clearing", "raced", "done"}) :
          sends[i].reason \in {"Alert", "AlertRate"} /\ sends[i].delivered

\* A run whose stdin is no pipe, whose lines are short and whose child leaves
\* nothing behind comes to an end (command.go 193-205, main.go 31-40).
RunEnds == main = "loop" ~> Over

-----------------------------------------------------------------------------
(* What the documentation says and the code does not do *)

\* main exits with 0 only when all potential reports are transmitted
\* (command.go 90-91).
AllReportsTransmitted ==
    main = "exited" => Calls({"called", "created", "background"} \cup InBackground) = {}

\* A report is sent when the process runs longer than the time warning
\* (handlers.go 96).
TimeWarningTransmitted ==
    \A i \in Sent({"TimeWarning"}) : sends[i].pc # "off"

\* A match stays in RuleMatches until a report that shows it has arrived
\* (config.go 112-113, report.go 94-99).
MatchesReported ==
    \A l \in matched \ c.matches :
        \E i \in DOMAIN sends : l \in sends[i].snap.matches /\ sends[i].delivered

\* An unexpected error is reported, not a crash (error.go 33-34).
ErrorsReported == dead # "nil reporter"

\* The Duration of a killed process is positive (command_test.go
\* 138, 168-169).
KilledAfterStart == \A s \in Snapshots({"Killed"}) : s.duration >= 0

\* Finished is called when the process ends, unless it was killed
\* (handlers.go 26).
FinishedCalled == (main = "loop" /\ child \in {"ok", "fail"}) ~> main # "loop"

\* A rule reports on a match in the JSON output (config.go 122-124).
RulesNeverCrash == dead # "bad assertion"

\* Send is safe to call in a goroutine (report.go 59).
SendIsSafe == dead # "torn"
=============================================================================
