------------------------------- MODULE Series -------------------------------
(***************************************************************************)
(* The series of pkg/metric: the ring buffer Series (series.go) and, around  *)
(* it, SampledSeries (sampled.go), whose goroutine turns the observations    *)
(* of each window into one sample.  The methods of a SampledSeries hold its  *)
(* lock throughout, so each is one step.  A tick of the window's ticker may   *)
(* come at any time.  Observations are integers; only their order, sum and   *)
(* sign matter to anybody.                                                   *)
(***************************************************************************)
EXTENDS Integers, Sequences, FiniteSets, FiniteSetsExt, SequencesExt

CONSTANTS
    Ids,          \* the series
    Modes,        \* which of them have a sample window: the sets to consider
    Capacity,     \* of every series
    Strategy,     \* the transform of a window: "sum", "min", "max" or "average"
    Inputs,       \* the observations that clients record
    MaxDone,      \* bound: calls of a series' done function
    MaxEvents     \* bound: observations, and values, of a series between Resets

ASSUME SeriesAssumption ==
    /\ Modes \subseteq SUBSET Ids /\ Capacity \in Nat \ {0}
    /\ Strategy \in {"sum", "min", "max", "average"}
    /\ Inputs \subseteq Int /\ MaxDone \in Nat /\ MaxEvents \in Nat

VARIABLES
    series,       \* id -> s.s: how many values it was given, and its slots
    obs,          \* id -> s.obs, the observations of the open window
    sampler,      \* id -> the goroutine: "none" in direct mode
    sending,      \* id -> callers of done that wait for the goroutine to receive
    waiting,      \* id -> callers of done in wg.Wait
    returned,     \* id -> callers of done that have returned
    recorded,     \* history: id -> the values recorded since Reset
    windows,      \* history: id -> the observations of each window since Reset
    given         \* history: id -> the observations since Reset

closing == <<sampler, sending, waiting, returned>>
history == <<recorded, windows, given>>
seriesVars == <<series, obs, closing, history>>

-----------------------------------------------------------------------------
(* The ring buffer *)

Empty == [count |-> 0, values |-> [k \in 1..Capacity |-> 0]]

\* nextIndex, counted from 1: the slot of the oldest value.
NextSlot(r) == (r.count % Capacity) + 1

\* Mutant of Put: the slot is that of the new count.
PutBehind(r, v) ==
    [count  |-> r.count + 1,
     values |-> [r.values EXCEPT ![((r.count + 1) % Capacity) + 1] = v]]

\* Series.Record
Put(r, v) ==
    [count  |-> r.count + 1,
     values |-> [r.values EXCEPT ![NextSlot(r)] = v]]

\* Series.Values: from the oldest to the most recent, once the slots are full.
Values(r) ==
    IF r.count < Capacity
    THEN r.values
    ELSE LET oldest == NextSlot(r)
         IN [k \in 1..Capacity |->
               IF k <= Capacity + 1 - oldest THEN r.values[oldest + k - 1]
               ELSE r.values[k - (Capacity + 1 - oldest)]]

-----------------------------------------------------------------------------
(* What becomes of a window: the functions SampleSum to SampleAverage *)

SampleSum(w) == FoldLeft(LAMBDA a, b : a + b, 0, w)

Combine(w) ==
    IF w = <<>> THEN 0
    ELSE CASE Strategy = "sum"     -> SampleSum(w)
           [] Strategy = "min"     -> Min(ToSet(w))
           [] Strategy = "max"     -> Max(ToSet(w))
           [] Strategy = "average" -> SampleSum(w) \div Len(w)

-----------------------------------------------------------------------------
SeriesInit ==
    /\ series = [i \in Ids |-> Empty] /\ obs = [i \in Ids |-> <<>>]
    /\ \E w \in Modes :
          sampler = [i \in Ids |-> IF i \in w THEN "running" ELSE "none"]
    /\ sending = [i \in Ids |-> 0] /\ waiting = [i \in Ids |-> 0]
    /\ returned = [i \in Ids |-> 0]
    /\ recorded = [i \in Ids |-> <<>>] /\ windows = [i \in Ids |-> <<>>]
    /\ given = [i \in Ids |-> <<>>]

Direct(i) == sampler[i] = "none"

Room(i) == Len(given[i]) < MaxEvents /\ Len(recorded[i]) < MaxEvents

Store(i, v) ==
    /\ series' = [series EXCEPT ![i] = Put(@, v)]
    /\ recorded' = [recorded EXCEPT ![i] = Append(@, v)]

\* SampledSeries.Record, and Series.Record for a series without a window.
Record(i, v) ==
    /\ Room(i)
    /\ given' = [given EXCEPT ![i] = Append(@, v)]
    /\ IF Direct(i)
       THEN /\ Store(i, v)
            /\ windows' = [windows EXCEPT ![i] = Append(@, <<v>>)]
            /\ UNCHANGED obs
       ELSE /\ obs' = [obs EXCEPT ![i] = Append(@, v)]
            /\ UNCHANGED <<series, recorded, windows>>
    /\ UNCHANGED closing

\* Mutant of Sample: the window's observations are not cleared.
SampleAgain(i) ==
    /\ sampler[i] = "running" /\ Room(i)
    /\ Store(i, Combine(obs[i]))
    /\ windows' = [windows EXCEPT ![i] = Append(@, obs[i])]
    /\ UNCHANGED <<obs, given, closing>>

\* A tick: the goroutine ends the window.  One without observations counts 0.
Sample(i) ==
    /\ sampler[i] = "running" /\ Room(i)
    /\ Store(i, Combine(obs[i]))
    /\ windows' = [windows EXCEPT ![i] = Append(@, obs[i])]
    /\ obs' = [obs EXCEPT ![i] = <<>>]
    /\ UNCHANGED <<given, closing>>

\* Reset, also of the open window.
Reset(i) ==
    /\ series' = [series EXCEPT ![i] = Empty]
    /\ obs' = [obs EXCEPT ![i] = <<>>]
    /\ recorded' = [recorded EXCEPT ![i] = <<>>]
    /\ windows' = [windows EXCEPT ![i] = <<>>]
    /\ given' = [given EXCEPT ![i] = <<>>]
    /\ UNCHANGED closing

-----------------------------------------------------------------------------
(* The done function, which NewSampledSeries returns *)

\* ss.done <- true, on a channel without buffer; in direct mode, nothing.
DoneCall(i) ==
    /\ sending[i] + waiting[i] + returned[i] < MaxDone
    /\ IF Direct(i)
       THEN returned' = [returned EXCEPT ![i] = @ + 1] /\ UNCHANGED sending
       ELSE sending' = [sending EXCEPT ![i] = @ + 1] /\ UNCHANGED returned
    /\ UNCHANGED <<series, obs, sampler, waiting, history>>

\* Mutant of TakeDone: a break leaves the select and not the loop.
TakeDoneOnly(i) ==
    /\ sampler[i] = "running" /\ sending[i] > 0
    /\ sending' = [sending EXCEPT ![i] = @ - 1]
    /\ waiting' = [waiting EXCEPT ![i] = @ + 1]
    /\ UNCHANGED <<series, obs, sampler, returned, history>>

\* The goroutine receives from done, stops its ticker and ends.
TakeDone(i) ==
    /\ sampler[i] = "running" /\ sending[i] > 0
    /\ sampler' = [sampler EXCEPT ![i] = "stopped"]
    /\ sending' = [sending EXCEPT ![i] = @ - 1]
    /\ waiting' = [waiting EXCEPT ![i] = @ + 1]
    /\ UNCHANGED <<series, obs, returned, history>>

\* wg.Wait returns.
DoneReturn(i) ==
    /\ waiting[i] > 0 /\ sampler[i] = "stopped"
    /\ waiting' = [waiting EXCEPT ![i] = @ - 1]
    /\ returned' = [returned EXCEPT ![i] = @ + 1]
    /\ UNCHANGED <<series, obs, sampler, sending, history>>

\* The goroutine of a series, and its callers of done.
SamplerNext(i) == Sample(i) \/ TakeDone(i) \/ DoneReturn(i)

SeriesNext ==
    \E i \in Ids :
        \/ \E v \in Inputs : Record(i, v)
        \/ Reset(i)
        \/ DoneCall(i)
        \/ SamplerNext(i)

SeriesSpec ==
    /\ SeriesInit /\ [][SeriesNext]_seriesVars
    /\ \A i \in Ids : WF_seriesVars(TakeDone(i)) /\ WF_seriesVars(DoneReturn(i))
-----------------------------------------------------------------------------
(* Properties *)

\* The latest values of h, as many as there are slots; zeros while there are less.
Latest(h) ==
    [k \in 1..Capacity |->
        IF Len(h) >= Capacity THEN h[Len(h) - Capacity + k]
        ELSE IF k <= Len(h) THEN h[k] ELSE 0]

\* Values returns the latest values in the order of their recording, whatever the
\* capacity, and Count their number (series.go 41-72).
ValuesAreLatest ==
    \A i \in Ids :
        /\ series[i].count = Len(recorded[i])
        /\ Values(series[i]) = Latest(recorded[i])

\* Each observation since Reset belongs to one window, in order, or to the one
\* that is open, and each window is one sample: a tick neither loses nor repeats
\* what is recorded around it (sampled.go 38-56, 72-96).
EachObservationOnce ==
    \A i \in Ids :
        /\ FlattenSeq(windows[i]) \o obs[i] = given[i]
        /\ recorded[i] = [k \in DOMAIN windows[i] |-> Combine(windows[i][k])]

\* The done function returns to its first caller, whatever the ticker does in
\* between (sampled.go 49-57).
DoneReturns ==
    \A i \in Ids : sending[i] + waiting[i] > 0 ~> returned[i] > 0
=============================================================================
