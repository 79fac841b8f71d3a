------------------------------- MODULE Report -------------------------------
(***************************************************************************)
(* Reports and their delivery: pkg/monny/report.go.  Every `go             *)
(* c.report.Send(c, reason)' is an element of `sends'.  Its goroutine takes *)
(* a snapshot of the command under c.mutex (create), decides whether to     *)
(* transmit, starts sendBackground and waits for its result; sendBackground *)
(* registers with the WaitGroup that Command.Wait waits for, and calls the  *)
(* server until it acknowledges or backoff.Retry gives up.  The two          *)
(* goroutines of a report take turns, so one `pc' tells where both are.      *)
(*                                                                           *)
(* The critical sections of c.mutex are atomic.  The callback of an alert    *)
(* clears c.RuleMatches without the mutex: it is a window (pc "clearing")     *)
(* in which a reader may find the old or the empty slice, and an append that  *)
(* falls into it (pc "raced") may be lost, may undo the clearing, or leaves   *)
(* a slice header of words from both, after which anything can happen:        *)
(* dead = "torn".  A call of a method of the nil interface c.errors panics:   *)
(* dead = "nil reporter".                                                     *)
(*                                                                           *)
(* The server is external: a call of it is lost or refused, or stores the    *)
(* report, and then its answer comes back or not.                             *)
(***************************************************************************)
EXTENDS Naturals, Integers, Sequences, FiniteSets

CONSTANTS
    Configs      \* the configurations to consider, see ConfigType

Reasons == {"Success", "Failure", "Killed", "FileNotCreated", "Alert", "AlertRate",
            "MemoryWarning", "TimeWarning", "Start"}

Files == {"f1", "f2"}

\* The settings that matter, of the Config that newConfig returns, and what the
\* child, its terminal and the server do in the run that is considered.  Memory
\* is measured in the two thresholds: 1 warns or kills, 2 only at the higher one.
ConfigType ==
    [notifyOnSuccess : BOOLEAN, notifyOnFailure : BOOLEAN, daemon : BOOLEAN,
     rules : BOOLEAN, ruleQuantity : Nat, rulePeriod : BOOLEAN,
     creates : Seq(Files), killTimeout : BOOLEAN, notifyTimeout : BOOLEAN,
     memoryWarn : 0..2, memoryKill : 0..2,
     stdinPipe : BOOLEAN,    \* monny's own stdin is a named pipe
     longLines : BOOLEAN,    \* the child may print a line of more than 64 KiB
     jsonRules : BOOLEAN,    \* a rule has a field, where the child may print a
                             \* list with a number in it
     outputFails : BOOLEAN,  \* a write to monny's own stdout or stderr may fail
     orphan : BOOLEAN,       \* a process the child leaves behind may hold its output
     maxLines : Nat,         \* bound: lines of output
     maxChecks : Nat,        \* bound: memory readings above the first threshold
     maxTries : Nat,         \* bound: unsuccessful calls of the server for one report
     canGiveUp : BOOLEAN]    \* whether Retry may run out of time (15 minutes), or a
                             \* call of the server hang for the hour that Send waits

ASSUME ReportAssumption == Configs \subseteq ConfigType

VARIABLES
    config,      \* c.Config and the environment of the run
    c,           \* the fields of Command that a report shows, and the flags
    sends,       \* the calls of Send so far
    dead         \* how the program died, or "no"

reportVars == <<config, c, sends, dead>>

\* A Command as New returns it.  `duration' is the sign of Duration; `missing'
\* are the files its Messages name; a match is the number of its line.
NewCommand ==
    [success |-> FALSE, killed |-> FALSE, killReason |-> "None",
     reportReason |-> "None", duration |-> 0, maxMemory |-> 0,
     missing |-> {}, created |-> {}, matches |-> {},
     timeWarnSent |-> FALSE, memWarnSent |-> FALSE]

ReportInit ==
    /\ config \in Configs
    /\ c = NewCommand /\ sends = <<>> /\ dead = "no"

\* `go c.report.Send(c, r)'
WithSend(r) == Append(sends, [reason |-> r, pc |-> "called", snap |-> NewCommand,
                              tries |-> 0, delivered |-> FALSE])

Calls(pcs) == {i \in DOMAIN sends : sends[i].pc \in pcs}

Clearing == Calls({"clearing", "raced"}) # {}

\* What a reader of c.RuleMatches may find.
MatchesSeen == IF Clearing THEN {c.matches, {}} ELSE {c.matches}

To(i, pc) == sends' = [sends EXCEPT ![i].pc = pc]

-----------------------------------------------------------------------------
\* create: reportFromCommand copies the command under the mutex, all but the
\* reason, which is that of the call.
Create(i) ==
    /\ sends[i].pc = "called"
    /\ \E m \in MatchesSeen :
          sends' = [sends EXCEPT ![i].pc = "created",
                                 ![i].snap = [c EXCEPT !.matches = m,
                                                       !.reportReason = sends[i].reason]]
    /\ UNCHANGED <<config, c, dead>>

\* A reader that dereferences a slice header of mixed words.
TornRead(i) ==
    /\ Clearing
    /\ \/ sends[i].pc = "called"
       \/ sends[i].pc = "created" /\ sends[i].reason = "AlertRate" /\ config.rulePeriod
    /\ dead' = "torn"
    /\ UNCHANGED <<config, c, sends>>

\* calcAlertRate, on the matches as they are now and not in the snapshot; any of
\* them may be older than the period.
RateExceeded ==
    \E m \in MatchesSeen : \E n \in 0..Cardinality(m) :
        (config.rulePeriod \/ n = Cardinality(m)) /\ n >= config.ruleQuantity

RateNotExceeded ==
    \E m \in MatchesSeen : \E n \in 0..Cardinality(m) :
        (config.rulePeriod \/ n = Cardinality(m)) /\ n < config.ruleQuantity

\* The switch of Send: the reasons for which it goes on to transmit, and those
\* for which it returns.
Transmits(reason) ==
    \/ reason \in {"FileNotCreated", "Killed", "Alert"}
    \/ reason = "Failure" /\ config.notifyOnFailure
    \/ reason = "Success" /\ config.notifyOnSuccess
    \/ reason = "AlertRate" /\ RateExceeded
    \/ reason = "MemoryWarning" /\ ~c.memWarnSent
    \/ reason = "TimeWarning" /\ ~c.timeWarnSent
    \/ reason = "Start" /\ config.daemon

Suppresses(reason) ==
    IF reason = "AlertRate" THEN RateNotExceeded ELSE ~Transmits(reason)

Decide(i) ==
    /\ sends[i].pc = "created"
    /\ \/ Transmits(sends[i].reason) /\ To(i, "background")
       \/ Suppresses(sends[i].reason) /\ To(i, "off")
    /\ UNCHANGED <<config, c, dead>>

-----------------------------------------------------------------------------
(* sendBackground *)

\* s.wg.Add(1), in the new goroutine.
Register(i) ==
    /\ sends[i].pc = "background"
    /\ To(i, "sending")
    /\ UNCHANGED <<config, c, dead>>

\* The call does not reach the server, or only its answer is lost: an error.
\* A server that always failed would be retried until GiveUp.
CanFail(i) == sends[i].tries < config.maxTries \/ config.canGiveUp

CallLost(i) ==
    /\ sends[i].pc \in {"sending", "stored"} /\ CanFail(i)
    /\ To(i, "lost")
    /\ UNCHANGED <<config, c, dead>>

\* The server answers that it did not take the report: ack.Success is false.
Refuse(i) ==
    /\ sends[i].pc = "sending" /\ CanFail(i)
    /\ To(i, "refused")
    /\ UNCHANGED <<config, c, dead>>

Store(i) ==
    /\ sends[i].pc = "sending"
    /\ sends' = [sends EXCEPT ![i].pc = "stored", ![i].delivered = TRUE]
    /\ UNCHANGED <<config, c, dead>>

\* Mutant of Acknowledged: ack.Success is not looked at.
AnyAnswer(i) ==
    /\ sends[i].pc \in {"stored", "refused"}
    /\ To(i, "acked")
    /\ UNCHANGED <<config, c, dead>>

\* send returns nil: Retry ends, and its result goes to Send.
Acknowledged(i) ==
    /\ sends[i].pc = "stored"
    /\ To(i, "acked")
    /\ UNCHANGED <<config, c, dead>>

\* send returned an error: Retry calls the server once more.
Retry(i) ==
    /\ sends[i].pc \in {"lost", "refused"} /\ sends[i].tries < config.maxTries
    /\ sends' = [sends EXCEPT ![i].pc = "sending", ![i].tries = @ + 1]
    /\ UNCHANGED <<config, c, dead>>

\* Retry ran out of time and returns the last error.
GiveUp(i) ==
    /\ config.canGiveUp /\ sends[i].pc \in {"lost", "refused"}
    /\ To(i, "failed")
    /\ UNCHANGED <<config, c, dead>>

\* Where the background goroutine is between wg.Add and wg.Done.
InBackground == {"sending", "stored", "refused", "lost"}

\* wg.Wait() in Command.Wait: no background goroutine is registered.
AllDone == Calls(InBackground) = {}

-----------------------------------------------------------------------------
(* The result, back in Send *)

\* err == nil: cb(), which for alerts starts to overwrite c.RuleMatches.
Callback(i) ==
    /\ sends[i].pc = "acked"
    /\ To(i, IF sends[i].reason \in {"Alert", "AlertRate"} THEN "clearing" ELSE "done")
    /\ UNCHANGED <<config, c, dead>>

\* The last word of the empty slice is stored.
Cleared(i) ==
    /\ sends[i].pc = "clearing"
    /\ c' = [c EXCEPT !.matches = {}]
    /\ To(i, "done")
    /\ UNCHANGED <<config, dead>>

\* The same after an append got in between.
ClearedRaced(i) ==
    /\ sends[i].pc = "raced"
    /\ To(i, "done")
    /\ \/ c' = [c EXCEPT !.matches = {}] /\ dead' = dead
       \/ c' = c /\ dead' \in {dead, "torn"}
    /\ UNCHANGED config

\* c.errors.ReportError(err): New never sets c.errors.  The call is made when
\* the result is an error, and when the hour is over.
ReportError(i) ==
    /\ \/ sends[i].pc = "failed"
       \/ config.canGiveUp /\ sends[i].pc \in InBackground
    /\ dead' = "nil reporter"
    /\ UNCHANGED <<config, c, sends>>

SendStep(i) ==
    \/ Create(i) \/ TornRead(i) \/ Decide(i) \/ Register(i)
    \/ CallLost(i) \/ Refuse(i) \/ Store(i) \/ Acknowledged(i) \/ Retry(i) \/ GiveUp(i)
    \/ Callback(i) \/ Cleared(i) \/ ClearedRaced(i) \/ ReportError(i)

-----------------------------------------------------------------------------
\* Appending to c.RuleMatches under the mutex, which the callback ignores.
\* The result is either the old slice or an empty one, extended.
AppendMatches(new) ==
    /\ \E old \in MatchesSeen : c' = [c EXCEPT !.matches = old \cup new]
    /\ sends' = [i \in DOMAIN sends |->
                   IF sends[i].pc = "clearing" THEN [sends[i] EXCEPT !.pc = "raced"]
                                               ELSE sends[i]]
=============================================================================
