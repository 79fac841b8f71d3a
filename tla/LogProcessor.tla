---------------------------- MODULE LogProcessor ----------------------------
(***************************************************************************)
(* The log processor of pkg/monny/proc: an emitter goroutine per source     *)
(* that queues each line, publishes it on the event bus and copies it to    *)
(* the sinks, and Wait, which closes the sinks at the end (logs.go,         *)
(* logopt.go, queue.go, newError of errors.go).  A line is its number in its *)
(* source.  The bus is seen through its contract and its lock: Dispatch      *)
(* waits while somebody holds or awaits the write lock, publishes while the  *)
(* bus is up, and does nothing once it is down.  A sink may refuse a write   *)
(* though it is open.  Writing and closing a sink are atomic.                *)
(***************************************************************************)
EXTENDS Lines, FiniteSets

CONSTANTS
    Hists,       \* the values of WithHistory to consider (30 unless set)
    MaxLines,    \* bound: the lines of all sources together
    Commands,    \* the forms of WithCommand to consider
    OptionSets,  \* the sets of further options to consider
    Faulty       \* the sinks whose writes may fail (a full disk behind them)

AllSources == {"pStdout", "pStderr", "mStdin"}
AllSinks   == {"mStdout", "mStderr"}
AllOptions == {"noStdoutOut", "noStderrOut", "noOutput", "noStdoutIn", "noStderrIn"}

ASSUME LogAssumption ==
    /\ Hists \subseteq Nat /\ MaxLines \in Nat
    /\ Commands \subseteq {"wrapped", "piped"} /\ OptionSets \subseteq SUBSET AllOptions
    /\ Faulty \subseteq AllSinks

VARIABLES
    command,     \* "wrapped": WithCommand of a child, "piped": of an empty path
    options,     \* the other options
    hist,        \* the capacity of the queues
    output,      \* source -> the lines it will yield
    long,        \* source -> the number of the first line too long to scan, or 0
    emitter,     \* source -> "scan", "publish", "write", "complain", "eof"
    read,        \* source -> lines scanned
    queue,       \* source -> its history
    bus,         \* "up" or "down"
    locked,      \* somebody holds or awaits the write lock of the bus
    published,   \* source -> lines published on LogTopic
    sink,        \* sink -> lines written, as <<source, line>>
    open,        \* the sinks that are open
    failed,      \* <<source, line>> that a sink did not take
    refused,     \* those of them whose sink had been closed
    reported,    \* those of them published as a SinkError on OnErrorTopic
    waiter,      \* Wait: "not called", "waiting", and by its result "nil" or "error"
    cancelled,   \* the context of Wait
    dead         \* an index was out of range: the program has crashed

setup  == <<command, options, hist, output, long>>
lines  == <<read, queue>>
events == <<published, reported>>
lock   == <<bus, locked>>
result == <<sink, failed, refused>>
wait   == <<open, waiter, cancelled>>
vars   == <<setup, emitter, lines, events, lock, result, wait, dead>>

\* WithCommand, and WithNoStdoutInput and WithNoStderrInput after it.
Sources ==
    IF command = "piped" THEN {"mStdin"}
    ELSE {s \in {"pStdout", "pStderr"} :
            /\ s = "pStdout" => "noStdoutIn" \notin options
            /\ s = "pStderr" => "noStderrIn" \notin options}

\* The same for the sinks.  Options are sorted, so their order does not matter.
Sinks ==
    {k \in (IF command = "piped" THEN {"mStdout"} ELSE AllSinks) :
        /\ "noOutput" \notin options
        /\ k = "mStdout" => "noStdoutOut" \notin options
        /\ k = "mStderr" => "noStderrOut" \notin options}

\* Mutant of SinksFor: the child's stderr is not filtered.
SinksUnfiltered(s) == Sinks \ (IF s = "pStdout" THEN {"mStderr"} ELSE {})

\* The sinks an emitter writes to: at most one.
SinksFor(s) ==
    Sinks \ (IF s = "pStdout" THEN {"mStderr"} ELSE IF s = "pStderr" THEN {"mStdout"} ELSE {})

Init ==
    /\ command \in Commands /\ options \in OptionSets /\ hist \in Hists
    /\ output \in [AllSources -> 0..MaxLines]
    /\ long \in [AllSources -> 0..MaxLines]
    /\ \A s \in AllSources : /\ s \notin Sources => output[s] = 0
                             /\ long[s] <= output[s]
    /\ output["pStdout"] + output["pStderr"] + output["mStdin"] <= MaxLines
    /\ emitter = [s \in AllSources |-> IF s \in Sources THEN "scan" ELSE "eof"]
    /\ read = [s \in AllSources |-> 0] /\ queue = [s \in AllSources |-> <<>>]
    /\ bus = "up" /\ locked = FALSE
    /\ published = [s \in AllSources |-> <<>>] /\ reported = {}
    /\ sink = [k \in AllSinks |-> <<>>] /\ open = Sinks /\ failed = {} /\ refused = {}
    /\ waiter = "not called" /\ cancelled = FALSE /\ dead = FALSE

-----------------------------------------------------------------------------
(* Queue *)

\* Mutant of Add: the queue is filled before it is compared.
AddOneMore(q, line) == IF Len(q) <= hist THEN Append(q, line) ELSE Append(Tail(q), line)

\* Queue.Add
Add(q, line) == IF Len(q) < hist THEN Append(q, line) ELSE Append(Tail(q), line)

\* pop returns the head of what is left, and panics if nothing is.
PopPanics(q) == Len(q) >= hist /\ Len(q) < 2

-----------------------------------------------------------------------------
(* startLogEmitter *)

\* Mutant of Yields: the scanner does not stop at the end of its source.
YieldsForever(s) == emitter[s] = "scan" /\ read[s] + 1 # long[s]

\* scanner.Scan() is true.
Yields(s) == emitter[s] = "scan" /\ read[s] < output[s] /\ read[s] + 1 # long[s]

\* The line is queued.
Scan(s) ==
    /\ Yields(s) /\ ~PopPanics(queue[s])
    /\ read' = [read EXCEPT ![s] = @ + 1]
    /\ queue' = [queue EXCEPT ![s] = Add(@, read[s] + 1)]
    /\ emitter' = [emitter EXCEPT ![s] = "publish"]
    /\ UNCHANGED <<setup, events, lock, result, wait, dead>>

QueuePanics(s) ==
    /\ Yields(s) /\ PopPanics(queue[s])
    /\ dead' = TRUE
    /\ UNCHANGED <<setup, emitter, lines, events, lock, result, wait>>

\* scanner.Scan() is false, at the end of the source or at a line that does not
\* fit into the scanner's buffer; nobody asks which.  done is called.
ScanEnds(s) ==
    /\ emitter[s] = "scan" /\ ~Yields(s)
    /\ emitter' = [emitter EXCEPT ![s] = "eof"]
    /\ UNCHANGED <<setup, lines, events, lock, result, wait, dead>>

\* bus.Dispatch(evt, LogTopic) has got the read lock.
Publish(s) ==
    /\ emitter[s] = "publish" /\ ~locked
    /\ published' = IF bus = "up" THEN [published EXCEPT ![s] = Append(@, read[s])]
                                  ELSE published
    /\ emitter' = [emitter EXCEPT ![s] = "write"]
    /\ UNCHANGED <<setup, lines, reported, lock, result, wait, dead>>

\* Mutant of Write: a failed write is not reported.
WriteQuietly(s) ==
    /\ emitter[s] = "write"
    /\ \E taken \in SUBSET (SinksFor(s) \cap open) :
        /\ (SinksFor(s) \cap open) \ Faulty \subseteq taken
        /\ sink' = [k \in AllSinks |-> IF k \in taken THEN Append(sink[k], <<s, read[s]>>)
                                                      ELSE sink[k]]
        /\ failed' = IF taken = SinksFor(s) THEN failed ELSE failed \cup {<<s, read[s]>>}
        /\ emitter' = [emitter EXCEPT ![s] = "scan"]
    /\ refused' = IF SinksFor(s) \subseteq open THEN refused
                                                ELSE refused \cup {<<s, read[s]>>}
    /\ UNCHANGED <<setup, lines, events, lock, wait, dead>>

\* The line is written to the sinks of its source.  A closed sink does not take
\* it, and a faulty one may not; newError is then called.
Write(s) ==
    /\ emitter[s] = "write"
    /\ \E taken \in SUBSET (SinksFor(s) \cap open) :
        /\ (SinksFor(s) \cap open) \ Faulty \subseteq taken
        /\ sink' = [k \in AllSinks |-> IF k \in taken THEN Append(sink[k], <<s, read[s]>>)
                                                      ELSE sink[k]]
        /\ failed' = IF taken = SinksFor(s) THEN failed ELSE failed \cup {<<s, read[s]>>}
        /\ emitter' = [emitter EXCEPT ![s] = IF taken = SinksFor(s) THEN "scan" ELSE "complain"]
    /\ refused' = IF SinksFor(s) \subseteq open THEN refused
                                                ELSE refused \cup {<<s, read[s]>>}
    /\ UNCHANGED <<setup, lines, events, lock, wait, dead>>

\* newError: eb.Dispatch(evt, OnErrorTopic()) has got the read lock.
Complain(s) ==
    /\ emitter[s] = "complain" /\ ~locked
    /\ reported' = IF bus = "up" THEN reported \cup {<<s, read[s]>>} ELSE reported
    /\ emitter' = [emitter EXCEPT ![s] = "scan"]
    /\ UNCHANGED <<setup, lines, published, lock, result, wait, dead>>

-----------------------------------------------------------------------------
(* The other users of the bus *)

BusLocks ==
    /\ ~locked /\ locked' = TRUE
    /\ UNCHANGED <<setup, emitter, lines, events, bus, result, wait, dead>>

\* Subscribe, Unsubscribe or Shutdown lets go of the lock.
BusUnlocks ==
    /\ locked /\ locked' = FALSE
    /\ bus' \in {bus, "down"}
    /\ UNCHANGED <<setup, emitter, lines, events, result, wait, dead>>

-----------------------------------------------------------------------------
(* Wait *)

WaitCalled ==
    /\ waiter = "not called" /\ waiter' = "waiting"
    /\ UNCHANGED <<setup, emitter, lines, events, lock, result, open, cancelled, dead>>

Cancel ==
    /\ ~cancelled /\ cancelled' = TRUE
    /\ UNCHANGED <<setup, emitter, lines, events, lock, result, open, waiter, dead>>

\* Mutant of AllEmitted: the group counts one emitter.
OneEmitted ==
    /\ waiter = "waiting" /\ \E s \in Sources : emitter[s] = "eof"
    /\ waiter' = "nil"
    /\ UNCHANGED <<setup, emitter, lines, events, lock, result, open, cancelled, dead>>

\* l.wg.Wait() has returned and the select takes wgDone.
AllEmitted ==
    /\ waiter = "waiting" /\ \A s \in Sources : emitter[s] = "eof"
    /\ waiter' = "nil"
    /\ UNCHANGED <<setup, emitter, lines, events, lock, result, open, cancelled, dead>>

\* Mutant of CtxDone: the context is looked at when the emitters have ended.
CtxDoneLate ==
    /\ waiter = "waiting" /\ cancelled /\ \A s \in Sources : emitter[s] = "eof"
    /\ waiter' = "error"
    /\ UNCHANGED <<setup, emitter, lines, events, lock, result, open, cancelled, dead>>

\* The select takes ctx.Done, which it may do also when wgDone is ready.
CtxDone ==
    /\ waiter = "waiting" /\ cancelled
    /\ waiter' = "error"
    /\ UNCHANGED <<setup, emitter, lines, events, lock, result, open, cancelled, dead>>

\* The deferred loop: the sinks in their order.
CloseSink(k) ==
    /\ waiter \in {"nil", "error"} /\ k \in open
    /\ k = "mStderr" => "mStdout" \notin open
    /\ open' = open \ {k}
    /\ UNCHANGED <<setup, emitter, lines, events, lock, result, waiter, cancelled, dead>>

-----------------------------------------------------------------------------
Emit(s) ==
    Scan(s) \/ QueuePanics(s) \/ ScanEnds(s) \/ Publish(s) \/ Write(s) \/ Complain(s)

Next ==
    /\ ~dead
    /\ \/ \E s \in AllSources : Emit(s)
       \/ BusLocks \/ BusUnlocks \/ WaitCalled \/ Cancel \/ AllEmitted \/ CtxDone
       \/ \E k \in AllSinks : CloseSink(k)

\* Goroutines run, a write returns, and a lock that is let go admits the readers
\* that wait for it (sync.RWMutex) before its next writer.  A source need not
\* yield anything, and nobody has to cancel or to let go of the lock.
Fairness ==
    /\ \A s \in AllSources : /\ WF_vars(~dead /\ Write(s))
                             /\ SF_vars(~dead /\ (Publish(s) \/ Complain(s)))
    /\ WF_vars(~dead /\ (AllEmitted \/ CtxDone))
    /\ \A k \in AllSinks : WF_vars(~dead /\ CloseSink(k))

Spec     == Init /\ [][Next]_vars
FairSpec == Spec /\ Fairness
-----------------------------------------------------------------------------
(* Properties *)

\* Each variable has its type.
TypeOK ==
    /\ command \in Commands /\ options \in OptionSets /\ hist \in Hists
    /\ output \in [AllSources -> 0..MaxLines] /\ long \in [AllSources -> 0..MaxLines]
    /\ emitter \in [AllSources -> {"scan", "publish", "write", "complain", "eof"}]
    /\ read \in [AllSources -> 0..MaxLines] /\ queue \in [AllSources -> Seq(Nat)]
    /\ bus \in {"up", "down"} /\ locked \in BOOLEAN
    /\ published \in [AllSources -> Seq(Nat)] /\ reported \subseteq AllSources \X Nat
    /\ sink \in [AllSinks -> Seq(AllSources \X Nat)] /\ open \subseteq AllSinks
    /\ failed \subseteq AllSources \X Nat /\ refused \subseteq failed
    /\ waiter \in {"not called", "waiting", "nil", "error"}
    /\ cancelled \in BOOLEAN /\ dead \in BOOLEAN

\* q are the latest of n lines: consecutive, up to n, and as many as fit.
Latest(q, n) ==
    /\ EndsWith(q, n)
    /\ Len(q) <= hist /\ Len(q) <= n
    /\ Len(q) >= n \/ Len(q) >= hist

\* The history of a source are its latest lines, in order and as many as the
\* capacity admits, and only a capacity below two ends the program
\* (queue.go 23-44, logs.go 77).
HistoryKept ==
    /\ \A s \in AllSources : Latest(queue[s], read[s])
    /\ dead => hist < 2

\* The lines of s that have been written, or tried.
Handled(s) == 1..(IF emitter[s] \in {"publish", "write"} THEN read[s] - 1 ELSE read[s])

Increasing(q) == \A i, j \in DOMAIN q : i < j => q[i] < q[j]

\* The lines of s are published in order and once, and all of them while the bus
\* is up.
PublishedOnce(s) ==
    /\ Increasing(published[s])
    /\ bus = "up" => {published[s][i] : i \in DOMAIN published[s]} =
                         1..(IF emitter[s] = "publish" THEN read[s] - 1 ELSE read[s])

\* The lines of s that are in sink k are there in order, and are those that have
\* been written except the ones that failed.
WrittenOnce(s, k) ==
    LET places == {i \in DOMAIN sink[k] : sink[k][i][1] = s}
        lost   == {l \in Handled(s) : <<s, l>> \in failed} IN
    /\ \A i, j \in places : i < j => sink[k][i][2] < sink[k][j][2]
    /\ {sink[k][i][2] : i \in places} = Handled(s) \ lost

\* While the bus is up, a line of s that failed is reported, but for the one the
\* emitter is about to report.
FailuresReported(s) ==
    bus = "up" => \A l \in Handled(s) :
        <<s, l>> \in failed => \/ <<s, l>> \in reported
                               \/ emitter[s] = "complain" /\ l = read[s]

\* Every line is published in order and once, and all of them while the bus is
\* up; and every line reaches the sink of its source in order and once, whether
\* the bus is up or down, unless the write failed, which is then reported as long
\* as the bus is up (logs.go 75-94, errors.go 33-37).
EveryLineOnce ==
    \A s \in Sources :
        /\ PublishedOnce(s) /\ FailuresReported(s)
        /\ \A k \in SinksFor(s) : WrittenOnce(s, k)

\* A stream of the child appears on monny's stream of the same name only: nothing
\* but the child's stderr on monny's stderr, and on monny's stdout none of it
\* (logs.go 52-64).
StreamsApart ==
    /\ \A i \in DOMAIN sink["mStderr"] : sink["mStderr"][i][1] = "pStderr"
    /\ \A i \in DOMAIN sink["mStdout"] : sink["mStdout"][i][1] # "pStderr"

\* The lines the scanner will yield: those before the first that is too long.
Yield(s) == IF long[s] > 0 THEN long[s] - 1 ELSE output[s]

\* Every line of s has been read, published as long as the bus was up, and
\* written to the sink of s unless a write to the open sink failed.
Processed(s) ==
    /\ read[s] = Yield(s)
    /\ bus = "up" => {published[s][i] : i \in DOMAIN published[s]} = 1..Yield(s)
    /\ \A l \in 1..Yield(s), k \in SinksFor(s) :
        \/ \E i \in DOMAIN sink[k] : sink[k][i] = <<s, l>>
        \/ <<s, l>> \in failed /\ <<s, l>> \notin refused

\* When Wait returns nil every line has been processed, and no sink was closed
\* under an emitter: that happens only when the context was done first
\* (logs.go 28-29 and 98-117).
WaitComplete ==
    /\ waiter = "nil" => \A s \in Sources : Processed(s)
    /\ open # Sinks => waiter \in {"nil", "error"}
    /\ refused # {} => waiter = "error"

\* Wait returns, and with every sink closed, once the context is done or every
\* emitter has ended.  It waits for ever only if nobody cancels and some source
\* stays open, or somebody keeps the write lock of the bus while an emitter wants
\* to publish (logs.go 99-117, bus.go 119-121).
WaitReturns ==
    waiter = "waiting" ~>
        \/ dead
        \/ waiter \in {"nil", "error"} /\ open = {}
        \/ [](~cancelled /\ \E s \in Sources :
                 \/ emitter[s] = "scan"
                 \/ locked /\ emitter[s] \in {"publish", "complain"})

\* Wait ensures that all log lines have been processed (logs.go 28-29).
AllProcessed == waiter = "nil" => \A s \in Sources : read[s] = output[s]

\* An error is returned only if the context is cancelled before all logs are
\* processed (logs.go 98-100).
ErrorOnlyIfCut ==
    [][waiter = "waiting" /\ waiter' = "error" => \E s \in Sources : emitter[s] # "eof"]_vars
=============================================================================
