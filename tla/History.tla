------------------------------- MODULE History -------------------------------
(***************************************************************************)
(* The lines of output that a report shows: c.Stdout and c.Stderr, as the  *)
(* end of processStdout and processStderr keeps them (pkg/monny/command.go). *)
(* A line is its number in its stream.  Each stream has one scanner, so the  *)
(* length read before the lock is still right under it.                      *)
(***************************************************************************)
EXTENDS Lines

CONSTANTS
    Outputs,     \* "stdout" and "stderr"
    Limits,      \* the values of StdoutHistory and StderrHistory to consider
    MaxLines     \* bound: the lines of a stream

ASSUME HistoryAssumption == Limits \subseteq Nat /\ MaxLines \in Nat

VARIABLES
    limit,       \* stream -> its setting
    read,        \* stream -> lines read so far
    history,     \* stream -> the lines kept, c.Stdout or c.Stderr
    crashed         \* an index was out of range: the program has crashed

historyVars == <<limit, read, history, crashed>>

HistoryInit ==
    /\ limit \in [Outputs -> Limits] /\ read = [s \in Outputs |-> 0]
    /\ history = [s \in Outputs |-> <<>>] /\ crashed = FALSE

\* Mutant of Keep: the length is compared after the line was added.
KeepOneMore(h, max, line) ==
    IF Len(h) > max THEN Append(SubSeq(h, 3, Len(h)), line) ELSE Append(h, line)

\* At the limit the history loses its first two lines before it gets one.
Keep(h, max, line) ==
    IF Len(h) >= max THEN Append(SubSeq(h, 3, Len(h)), line) ELSE Append(h, line)

\* h[2:] of a shorter slice panics.
OutOfRange(h, max) == Len(h) >= max /\ Len(h) < 2

Line(s) ==
    /\ ~crashed /\ read[s] < MaxLines
    /\ ~OutOfRange(history[s], limit[s])
    /\ read' = [read EXCEPT ![s] = @ + 1]
    /\ history' = [history EXCEPT ![s] = Keep(@, limit[s], read[s] + 1)]
    /\ UNCHANGED <<limit, crashed>>

Panic(s) ==
    /\ ~crashed /\ read[s] < MaxLines
    /\ OutOfRange(history[s], limit[s])
    /\ crashed' = TRUE
    /\ UNCHANGED <<limit, read, history>>

HistoryNext == \E s \in Outputs : Line(s) \/ Panic(s)

HistorySpec == HistoryInit /\ [][HistoryNext]_historyVars
-----------------------------------------------------------------------------
\* Each variable has its type.
HistoryTypeOK ==
    /\ limit \in [Outputs -> Limits] /\ read \in [Outputs -> 0..MaxLines]
    /\ history \in [Outputs -> Seq(Nat)] /\ crashed \in BOOLEAN

\* h are the latest of n lines, at most max and all but one of as many.
Latest(h, n, max) ==
    /\ EndsWith(h, n)
    /\ Len(h) <= max /\ Len(h) <= n
    /\ Len(h) >= n \/ Len(h) + 1 >= max

\* What a report shows are the latest lines of the stream, all of them and in
\* order, never more than the limit allows, and at most one less once that many
\* were read; the program survives every limit above 1 (command.go 308-317).
Recent ==
    /\ \A s \in Outputs : Latest(history[s], read[s], limit[s])
    /\ crashed => \E s \in Outputs : limit[s] < 2

\* As many lines are sent as the option says (config.go 163, parse.go 48).
Full ==
    \A s \in Outputs :
        \/ limit[s] < 2
        \/ Len(history[s]) = (IF read[s] < limit[s] THEN read[s] ELSE limit[s])
=============================================================================
