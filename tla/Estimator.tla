------------------------------ MODULE Estimator ------------------------------
(***************************************************************************)
(* A statistical test of pkg/stat: a Test (stattest.go) over one or more      *)
(* TestStatistics (estimator.go), each with its own state machine (state.go, *)
(* fsm.Machine) and its own series.  One goroutine calls the methods of the   *)
(* Test; the samplers of the series run beside it, so a call is cut into      *)
(* steps where it lets go of a series' lock and looks at the series again.    *)
(*                                                                         *)
(* Which side of its limit a statistic's value is on depends on lambda and K, *)
(* which the caller chooses, so either may happen.  Of a limit the model keeps *)
(* its direction and how many values it was computed from.                    *)
(***************************************************************************)
EXTENDS Series

CONSTANTS
    Pdfs,         \* which of them have a Poisson PDF, the others a log-normal one:
                  \* the sets to consider
    Requests,     \* the states that users ask for
    MaxErrors     \* bound: calls that fail

States == {"reset", "ucl_initial", "testing_ucl", "ucl_trip",
           "lcl_initial", "testing_lcl", "lcl_trip"}

\* Statistics are numbered in the order of the Test's list.
ASSUME EstimatorAssumption ==
    /\ Ids = 1..Cardinality(Ids) /\ Cardinality(Ids) \in Nat \ {0}
    /\ Pdfs \subseteq SUBSET Ids
    /\ Requests \subseteq States /\ MaxErrors \in Nat

VARIABLES
    poisson,      \* the statistics with a Poisson PDF
    state,        \* statistic -> the state of its machine
    limit,        \* statistic -> its limit: direction, and the values it is from
    call,         \* the call of one of the Test's methods that is under way
    errors        \* history: the failures of calls, and the state each met

estVars == <<poisson, state, limit, call, errors>>
vars == <<seriesVars, estVars>>

Idle    == [op |-> "none"]
NoLimit == [side |-> "none", from |-> 0]

Init ==
    /\ SeriesInit
    \* only a Poisson PDF has a SampledSeries
    /\ poisson \in Pdfs /\ \A s \in Ids : ~Direct(s) => s \in poisson
    /\ state = [s \in Ids |-> "ucl_initial"] /\ limit = [s \in Ids |-> NoLimit]
    /\ call = Idle /\ errors = <<>>

-----------------------------------------------------------------------------
(* The machine, and the way of a call through the statistics *)

\* Mutant of Allowable: no way from testing to the lower trip.
AllowableNoTrip == [s \in States |->
    CASE s = "reset"       -> {"ucl_initial", "lcl_initial"}
      [] s = "ucl_initial" -> {"testing_ucl", "reset"}
      [] s = "testing_ucl" -> {"ucl_trip", "reset"}
      [] s = "ucl_trip"    -> {"lcl_initial", "reset"}
      [] s = "lcl_initial" -> {"testing_lcl", "reset"}
      [] s = "testing_lcl" -> {"reset"}
      [] s = "lcl_trip"    -> {"reset"}]

\* The transitions of newMachine.
Allowable == [s \in States |->
    CASE s = "reset"       -> {"ucl_initial", "lcl_initial"}
      [] s = "ucl_initial" -> {"testing_ucl", "reset"}
      [] s = "testing_ucl" -> {"ucl_trip", "reset"}
      [] s = "ucl_trip"    -> {"lcl_initial", "reset"}
      [] s = "lcl_initial" -> {"testing_lcl", "reset"}
      [] s = "testing_lcl" -> {"lcl_trip", "reset"}
      [] s = "lcl_trip"    -> {"reset"}]

\* On to the next statistic of the Test, or the call returns.
Proceed ==
    /\ call' = IF call.at + 1 \in Ids
               THEN [call EXCEPT !.at = @ + 1, !.step = "enter"] ELSE Idle
    /\ UNCHANGED errors

\* The call returns an error; the statistics that follow are not reached.
Fail(why, found) ==
    /\ call' = Idle
    /\ errors' = Append(errors, [op |-> call.op, why |-> why, found |-> found])

\* Transition of the statistic's machine, from the state that the call found.
Move(s, to, found) ==
    IF to \in Allowable[state[s]]
    THEN state' = [state EXCEPT ![s] = to] /\ Proceed
    ELSE Fail("refused", found) /\ UNCHANGED state

At(op, s, step) == call.op = op /\ call.at = s /\ call.step = step

-----------------------------------------------------------------------------
(* Record *)

\* The logarithm of an observation, of which only sign and order matter: 1 is
\* below one, 2 is one.  There is none of 0, which stands for what is not positive.
Log(o) == o - 2

Undefined(s, o) == s \notin poisson /\ o = 0
Transform(s, o) == IF s \in poisson THEN o ELSE Log(o)

MeanPositive(w) == SampleSum(w) > 0
VariancePositive(s, w) ==
    IF s \in poisson THEN MeanPositive(w) ELSE \E k, l \in DOMAIN w : w[k] # w[l]

\* Mutant of Ready: the series need not be full.
ReadyEarly(s) ==
    LET w == Values(series[s])
    IN MeanPositive(w) /\ VariancePositive(s, w)

\* The series allows to compute a limit.
Ready(s) ==
    LET w == Values(series[s])
    IN series[s].count >= Capacity /\ MeanPositive(w) /\ VariancePositive(s, w)

StartRecord(o) ==
    /\ call = Idle
    /\ call' = [op |-> "record", at |-> 1, step |-> "enter", obs |-> o]
    /\ UNCHANGED <<seriesVars, poisson, state, limit, errors>>

RecordUndefined(s) ==
    /\ At("record", s, "enter") /\ Undefined(s, call.obs)
    /\ Fail("undefined", state[s])
    /\ UNCHANGED <<seriesVars, poisson, state, limit>>

RecordValue(s) ==
    /\ At("record", s, "enter") /\ ~Undefined(s, call.obs)
    /\ Record(s, Transform(s, call.obs))
    /\ call' = [call EXCEPT !.step = "judge"]
    /\ UNCHANGED <<poisson, state, limit, errors>>

\* After Reset: the observation is the first of the series.
Restart(s) ==
    /\ At("record", s, "judge") /\ state[s] = "reset"
    /\ state' = [state EXCEPT ![s] = "ucl_initial"]
    /\ IF series[s].count > 0
       THEN Reset(s) /\ call' = [call EXCEPT !.step = "again"]
       ELSE UNCHANGED seriesVars /\ call' = [call EXCEPT !.step = "compare"]
    /\ UNCHANGED <<poisson, limit, errors>>

RecordAgain(s) ==
    /\ At("record", s, "again")
    /\ Record(s, Transform(s, call.obs))
    /\ call' = [call EXCEPT !.step = "compare"]
    /\ UNCHANGED <<poisson, state, limit, errors>>

\* fallthrough: the restarted statistic is tested against the limit it had.
Compare(s) ==
    /\ At("record", s, "compare")
    /\ \/ Proceed /\ UNCHANGED state
       \/ Move(s, "ucl_trip", "reset")
    /\ UNCHANGED <<seriesVars, poisson, limit>>

\* A value on the far side of the limit is an alarm.
TestValue(s) ==
    /\ At("record", s, "judge")
    /\ \/ state[s] \in {"testing_ucl", "testing_lcl"} /\ Proceed /\ UNCHANGED state
       \/ state[s] = "testing_ucl" /\ Move(s, "ucl_trip", state[s])
       \/ state[s] = "testing_lcl" /\ Move(s, "lcl_trip", state[s])
    /\ UNCHANGED <<seriesVars, poisson, limit>>

\* calculateLimit, of the values that the series has.
Baseline(s) == [side |-> IF state[s] = "ucl_initial" THEN "upper" ELSE "lower",
                from |-> IF series[s].count >= Capacity THEN Capacity ELSE series[s].count]

\* A full series gives the limit to test against.
Bootstrap(s) ==
    /\ At("record", s, "judge") /\ Ready(s)
    /\ state[s] \in {"ucl_initial", "lcl_initial"}
    /\ Move(s, IF state[s] = "ucl_initial" THEN "testing_ucl" ELSE "testing_lcl", state[s])
    /\ limit' = [limit EXCEPT ![s] = Baseline(s)]
    /\ UNCHANGED <<seriesVars, poisson>>

\* Mutant of Rest: an alarm ends with the next observation.
RestNot(s) ==
    /\ At("record", s, "judge")
    /\ \/ /\ state[s] \in {"ucl_trip", "lcl_trip"}
          /\ state' = [state EXCEPT ![s] = "reset"]
       \/ /\ state[s] \in {"ucl_initial", "lcl_initial"} /\ ~Ready(s)
          /\ UNCHANGED state
    /\ Proceed
    /\ UNCHANGED <<seriesVars, poisson, limit>>

\* There is no limit yet, or the alarm is already raised.
Rest(s) ==
    /\ At("record", s, "judge")
    /\ \/ state[s] \in {"ucl_trip", "lcl_trip"}
       \/ state[s] \in {"ucl_initial", "lcl_initial"} /\ ~Ready(s)
    /\ Proceed
    /\ UNCHANGED <<seriesVars, poisson, state, limit>>

Judge(s) ==
    \/ RecordUndefined(s) \/ RecordValue(s) \/ Restart(s) \/ RecordAgain(s)
    \/ Compare(s) \/ TestValue(s) \/ Bootstrap(s) \/ Rest(s)

-----------------------------------------------------------------------------
(* Transition and Done *)

StartTransition(to, resetSeries) ==
    /\ call = Idle
    /\ call' = [op |-> "transition", at |-> 1, step |-> "enter",
                to |-> to, reset |-> resetSeries, before |-> state]
    /\ UNCHANGED <<seriesVars, poisson, state, limit, errors>>

\* Mutant of Transition: only the first statistic's series is reset.
TransitionFirst(s) ==
    /\ At("transition", s, "enter")
    /\ IF call.reset /\ s = 1 THEN Reset(s) ELSE UNCHANGED seriesVars
    /\ Move(s, call.to, "any")
    /\ UNCHANGED <<poisson, limit>>

\* The series is reset before the machine is asked, which may refuse.
Transition(s) ==
    /\ At("transition", s, "enter")
    /\ IF call.reset THEN Reset(s) ELSE UNCHANGED seriesVars
    /\ Move(s, call.to, "any")
    /\ UNCHANGED <<poisson, limit>>

StartDone ==
    /\ call = Idle
    /\ call' = [op |-> "done", at |-> 1, step |-> "enter"]
    /\ UNCHANGED <<seriesVars, poisson, state, limit, errors>>

Done(s) ==
    /\ At("done", s, "enter")
    /\ DoneCall(s)
    /\ call' = [call EXCEPT !.step = "wait"]
    /\ UNCHANGED <<poisson, state, limit, errors>>

DoneFinished(s) ==
    /\ At("done", s, "wait") /\ sending[s] + waiting[s] = 0
    /\ Proceed
    /\ UNCHANGED <<seriesVars, poisson, state, limit>>

Next ==
    \/ /\ Len(errors) < MaxErrors
       /\ \/ \E o \in Inputs : StartRecord(o)
          \/ \E to \in Requests, r \in BOOLEAN : StartTransition(to, r)
          \/ StartDone
    \/ \E s \in Ids :
          \/ Judge(s) \/ Transition(s) \/ Done(s) \/ DoneFinished(s)
          \/ SamplerNext(s) /\ UNCHANGED estVars

Spec == Init /\ [][Next]_vars
-----------------------------------------------------------------------------
(* Properties *)

\* Users leave testing and its end to Record, as the doc of Test describes it.
WellUsed == Requests \subseteq {"reset", "ucl_initial", "lcl_initial"}

HasAlarmed(s) == state[s] \in {"ucl_trip", "lcl_trip"}

\* A statistic of a well-used test tests and alarms only against a limit of the
\* direction of its state that was computed from a full series: the limits of an
\* earlier run, which the fallthrough from Reset still compares with, raise no
\* alarm (estimator.go 44-98).
AlarmIsFounded ==
    WellUsed =>
    \A s \in Ids :
        /\ state[s] \in {"testing_ucl", "ucl_trip"} =>
              limit[s] = [side |-> "upper", from |-> Capacity]
        /\ state[s] \in {"testing_lcl", "lcl_trip"} =>
              limit[s] = [side |-> "lower", from |-> Capacity]

\* An alarm stands until a user asks for another state, whatever is recorded
\* (estimator.go 102-111, stattest.go 14-18).
AlarmStands ==
    [][\A s \in Ids : HasAlarmed(s) /\ ~HasAlarmed(s)' => call.op = "transition"]_vars

\* The machine refuses a transition that Record wants only while the statistic
\* is being restarted; apart from that, and from values without a logarithm,
\* every observation counts (estimator.go 37-100, state.go 17-27).
RefusedOnlyAtRestart ==
    \A k \in DOMAIN errors :
        errors[k].op = "record" /\ errors[k].why = "refused" => errors[k].found = "reset"

\* The default statistics differ in lambda only: between calls, and as long as none
\* has failed, they have the same observations and wait for a baseline together, so
\* one of them cannot fall behind unnoticed (stattest.go 24-40, lognormal.go 20-34).
InStep ==
    call = Idle /\ errors = <<>> =>
    \A s, t \in Ids :
        Direct(s) /\ Direct(t) /\ (s \in poisson <=> t \in poisson) =>
        /\ series[s] = series[t]
        /\ state[s] \in {"reset", "ucl_initial", "lcl_initial"} => state[t] = state[s]

-----------------------------------------------------------------------------
(* What the documentation says, and the code does not do *)

\* Record fails only if transform(value) is not defined (estimator.go 37-41): after
\* Reset the statistic restarts from a steady state (estimator.go 46-47).
RecordFailsOnlyUndefined ==
    \A k \in DOMAIN errors : errors[k].op = "record" => errors[k].why = "undefined"

\* Transition forces every statistic that can to the state asked for
\* (interface.go 3-6).
EveryStatisticAsked ==
    [][call.op = "transition" /\ call' = Idle =>
          \A s \in Ids : call.to \in Allowable[call.before[s]] => state'[s] = call.to]_vars
=============================================================================
