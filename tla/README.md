# Formal models of monny

monny starts a user's command, watches its output, time and memory, and sends reports to a
server. Beside that program (`cmd/monny`, `pkg/monny`) the repository has the parts of its
successor: an event bus (`pkg/eventbus`), a log processor and tickers that use the bus
(`pkg/monny/proc`), a state machine (`pkg/fsm`), and statistics on metrics (`pkg/stat`,
`pkg/metric`). This directory holds TLA+ models of them, TLC configurations that check the models
on small instances, and TLAPS proofs for every value of the constants.

    tlc -config bus.cfg MCEventBus        # any run: tlc -config <cfg> <module>
    tlapm EventBusProofs.tla              # any module *Proofs

## 1. The system

| Part | State | Operations | Interacts with | What makes it correct |
|---|---|---|---|---|
| Event bus, `eventbus/bus.go` | topic lists, done channels, `sdStarted`, a `sync.RWMutex`; per subscriber a channel of capacity 1 | `Subscribe`, `Unsubscribe`, `Dispatch`, `Shutdown`, the `ShutdownFunc` | users' goroutines; one sender goroutine per event and channel | no panic, no duplicate, default subscribers get everything, a clean and terminating shutdown |
| Ticker, `proc/ticker.go` | its subscription, a `time.Ticker` | receive or tick | dispatches from the goroutine that drains its own channel | keeps the bus's contract, and calls its `ShutdownFunc` when its channel is closed |
| Command, `monny/command.go`, `cmd/monny` | the fields of `Command`, shared under `mutex` by most | `Exec`, `processStdout/err`, `Wait` | three copiers, a waiter, a select loop, the child, timers, signals | one verdict, the right one; the run ends |
| Handlers, `monny/handlers.go` | the verdict fields, the two warning flags | `Finished`, `Signal`, `Timeout`, `TimeWarning`, `CheckMemory`, `KillOnHighMemory` | called by the select loop; start a `Send` each | a report says what happened |
| Reports, `monny/report.go` | a WaitGroup; a snapshot, a result and a retry per report | `Send`, `sendBackground`, `Wait` | two goroutines per report, the server | nothing is given up unless it arrived; everything arrives before exit |
| Output history, `command.go` 308-317, 333-342 | `Stdout`, `Stderr` | add a line | one scanner each | the latest lines, bounded |
| Log processor, `proc/logs.go`, `logopt.go`, `queue.go` | sources, sinks, a queue per source, a WaitGroup | options, emitter, `Wait` | publishes on the bus, writes sinks | each line once, in order, to its own sink; `Wait` means completion |
| State machine, `fsm` | current state, stop flag, nonce | `Transition`, `Reset`, `Nonce` | its clients | a nonce serves one attempt; an error stops it |
| Tests of metrics, `stat` | per statistic a machine, a series, a limit | `Record`, `Transition`, `Done` of a `Test` | one series per statistic; the samplers run beside a call | an alarm has a full baseline of its direction, and stands; statistics keep in step |
| Series, `metric/series.go`, `sampled.go` | a ring of values, the open window, the sampling goroutine | `Record`, `Reset`, `Values`, a tick, `done` | clients, a `time.Ticker` | the latest values in order; each observation in one window; `done` returns |
| Counter, `metric/counter.go` | the current window, a history limited in number and age | `Add`, `Value`, `History`, `HistoryInclusive`, `Reset` | callers keep the slices it returns | no count lost or misplaced; a kept history stands |
| Configuration, `config.go`, `parse.go` | `Config`, the list of options | flags, a YAML file, `handleOption`, `newConfig` | main | a command runs under what was given, or is refused because that is not valid |

Left out on purpose: generated code (`pb`, the stringer, the k constants), floating-point
numerics and sampling (`pdf.go` but for when it finds a variance, `k.go`, `calibrate.go`, `rng`), strings (`metric/name.go`, gob
encoding in `event.go`), and I/O (`memory.go`, `error.go`, `wrapComplexCommand`, which is the identity).
None of it has a state or an order of steps that could go wrong.

What is hard here is the concurrency: a mutex and channels that wait for each other, snapshots
taken later than what they are about, a WaitGroup joined by the goroutine it should wait for,
callbacks that write shared data without its lock, timeouts that race with answers, slices that share
an array with their owner, machines that fall through from one state into the test of another, options taken in
the random order of a map, and off-by-one ends of bounded histories. `PROJECT.json` lists these hazards at their lines.

## 2. The modules

    BusContract <--implements-- EventBus <--extends-- Ticker
    Report <--extends-- Command                    (with History for the lines a report shows)
    Lines  <--extends-- History, LogProcessor
    MachineNonce
    Series <--extends-- Estimator
    WindowedCounter
    Options
    <M>Proofs extend <M>; EventBusProofs extends Ticker, StatProofs Estimator,
    MachineProofs MachineNonce, CounterProofs WindowedCounter, CommandProofs also History
    SequenceProofs <--extends-- CommandProofs, LogProcessorProofs, StatProofs, CounterProofs, OptionsProofs
    MC<M> give TLC its instances

**EventBus** has an action per step between two points at which another goroutine can matter. A
write lock is two steps, as in Go: `...Lock` announces the writer (every later `RLock` waits), and the
operation itself happens when no reader is left. The only readers that live across steps are senders in
`c <- evt`, so `sending` is also the read lock. The two goroutines that `Dispatch` starts are one element of
`ready` per event and channel (`Fanout`). The subscriber is external, as its doc comment prescribes: it
receives, handles, sees the closed channel and calls its `ShutdownFunc`; a subscriber in `Quitters` may
return early with the function deferred, one in `Leavers` may call `Unsubscribe` from its handler or after its `ShutdownFunc`.
`Unsubscribe` wants the subscriber's done channel, which `Subscribe` keeps to itself; only the unexported `subscribe` returns it, as in
`bus_test.go` 84-93, so a leaver stands for code of the package. It closes that channel past the `sync.Once` of the
`ShutdownFunc`, so a deferred `ShutdownFunc` after it closes it again: `FinishAfterLeaving`.
Neither `recover()` of the file recovers anything (one is not deferred, the other is itself the deferred
function), so a panic ends the program: `panic` disables every step.

Two approximations of the mutex, both to more behaviours than Go has. A waiting writer is served when all readers
have left, whichever writer announced itself first; and a reader that arrived while a writer waits may
be overtaken by a second writer, while Go lets waiting readers go between two writers. Every safety property
proved or checked holds for the smaller set; the liveness properties of `bus.cfg` have one
caller of `Shutdown`, for whom the two sets agree.

**BusContract** is what the bus promises of a copy of an event, without mutex, topics, subscribers or shutdown
calls: queued, put in a channel that has room, received; dropped only when shutdown has begun, after which
nothing is accepted and nothing enters a channel. `Contract` in EventBus is the refinement mapping.

**Ticker** adds the `time.Ticker` and the time a tick spends inside `Dispatch`. Its `Next` reuses the bus's actions. A subscriber that
receives and one that waits for the read lock are the same goroutine, so Shutdown, which keeps the lock until every
`ShutdownFunc` is called, may wait for a ticker that waits for Shutdown; `TickersStop` says that the timeout of
Shutdown resolves this.

**Report** is one element of `sends` per `go c.report.Send`. `pc` tells how far its two goroutines are, which
take turns. `called`: the snapshot is not yet taken. `created`: it is, and the switch on the reason comes next.
`background`: `sendBackground` was started and is not yet in the WaitGroup. `sending`: it is, and calls the server. The server is
external: a call is lost on its way (`CallLost`), refused (`Refuse`: it answers that it did not take the report), or it
is stored (`Store`, which alone sets `delivered`), and then its answer may still be lost. The code sees answers only: `Acknowledged`
needs one that says success, anything else leads to `Retry` or `GiveUp`. Then
`acked` or `failed`, and for alerts `clearing`, the unsynchronised overwriting of `c.RuleMatches`. That
race is undefined in Go; it is modelled as a window in which a reader finds the old or the empty slice, and in
which an append may be lost, may undo the clearing, or leaves a slice of mixed words (`dead = "torn"`).

**Command** composes it with `Exec`: a scanner per stream (`Scan` reads and appends under the mutex, `AlertIfMatched`
looks at the matches after it), the stdin copier, the waiter, the select loop (`main = "loop"`) and the handlers. Each
critical section is one step, except that `CheckMemory` merges the two of that handler (the maximum and the warning): a snapshot between
them would show the new maximum without the warning's flag, which no report shows. A line that cannot be copied to monny's own
output calls the nil `ErrorReporter` (`OutputBroken`), and a JSON rule on a list with a number in it panics (`BadAssertion`). A scanner sees the end of its
stream when every process that holds it has closed it, after the child's exit; a process the child left behind may hold it for ever (`orphan`).
`main` goes on to `wait` and `exiting`, or to `exited1` where `Exec` returns an
error. The child, its memory, the timers and the server are the environment. `config` holds the settings and
what the environment of the run may do, so that one run of TLC covers several configurations.

**History** and **LogProcessor** number the lines of a stream. `Latest` states what a bounded history has to be.
LogProcessor sees the bus as `BusContract` promises, publishing works until shutdown and is ignored after, and through its lock: `Dispatch`
takes the read lock, so `Publish` and `Complain` wait while somebody holds or awaits the write lock (`BusLocks`, `BusUnlocks`), perhaps for
ever, as `ticker_hang` and `bus_context` show of the bus itself. A write fails if the sink was closed and may fail if the sink is in `Faulty`; either way the
emitter publishes a `SinkError` (`Complain`) and goes on.
Its sources, sinks and options are those of `logopt.go`; the options are sorted by priority in the code, so a set of them is enough.

**MachineNonce** is the machine behind a nonce: `spent` is its `sync.Once`, `nil` the nonce that is left when
the random source fails after a refused attempt. `Accept` and `Refuse` are the two outcomes of `Transition`.
It is not synchronised in the code, so its calls are atomic here.

**Series** is the ring buffer (`Put`, `Values`, with the index of the code) and around it a sampled series: its goroutine,
the ticks, and callers of `done`, who first wait for the goroutine to receive and then for its end. The methods hold the
series' lock throughout, so each is a step.

**Estimator** extends it: a `Test` over several statistics, which one goroutine calls while the samplers run. A call is cut
where it lets go of a series' lock and looks again (`RecordValue`, then `Judge`...), and it goes through the statistics one by
one, so a failure leaves the later ones behind. `Move` is the plain machine of `fsm` with the table of `newMachine`.
On which side of its limit a value is depends on lambda and K, so either may happen; of a limit the model keeps
its direction and how many values it was computed from. The fallthrough from a reset is `Restart` and `Compare`.

**WindowedCounter** is a counter per window and the history of the closed ones. `append` may write into the array that a
history shares with an earlier result, so the model has the array, its room and whether a caller's history lies in it (`held`). The
clock is a variable; a method reads it once.

**Options** reads flags one after the other, as `parse` does, then a file key by key in any order, as a Go map is
iterated, and builds the `Config` in `NewConfig`, which `main` needs before it runs anything. A key of a file holds a string or an integer, a
boolean, a list of strings, empty or not, null, or something else. Values are the strings of `Words`, and
`Parsed` is what each option's function makes of them: valid ones for every option, among them limits in K, M and G, and invalid ones.

Its property does not use the loader's reading of flags and files. `Fits` says which kind of value suits a key, `Asked` what was given under a
name, `Faulty` what is not valid about it, and `Right` that a name is valid and configured as given. Two
operators delimit where the loader departs from that, each with findings of its own. `Misread`: a switch given as false is on, a boolean under another option is
the empty string, and a value of another type, or any list or other structure under an unknown key, is dropped if some list field of the file has elements. `Spurned`: a list is
refused beside a list field that holds one string, and so are lists that are all empty.

## 3. The runs

| Run | Module | States | Instance |
|---|---|---|---|
| `bus` | MCEventBus | 17,752 | two subscribers, default topic and t1; two events, to none or t1; one Shutdown whose context may expire |
| `bus_misuse` | MCTicker | 245,000 | a ticker; a subscriber of two topics that may unsubscribe or quit; two events to none, two or the default topic; two Shutdowns with timeouts |
| `cmd` | MCCommand | 2,785,000 | one stream; five configurations: limits with two memory readings; two files; rates with two lines; a pipe with long lines, and alerts of a line that may crash the scanner, both with a server that loses and refuses calls |
| `cmd_live` | MCCommand | 196,000 | both streams; files with one line, alerts with one line, limits with one reading |
| `history` | History | 617 | both streams, limits 0 to 3, nine lines |
| `log` | LogProcessor | 212,000 | wrapped and piped, four sets of options, capacities 1 and 2, three lines in all, any of them too long, a faulty sink |
| `fsm` | MCMachineNonce | 50,700 | the machine of the package's tests, two clients, five calls, with and without the stop condition |
| `sampled` | Series | 52,300 | a direct and a sampled series of capacity 2, two callers of `done`, three observations or samples between resets |
| `stat` | Estimator | 4,074,000 | two statistics, both log-normal or both Poisson, the second perhaps sampled; capacity 2, three observations, two failing calls |
| `counter` | WindowedCounter | 540,000 | windows of 0, 1 and 2 ticks, history limited in number, age, both or not, five calls of Add, one caller that keeps a history |
| `options` | Options | 3,415,000 | three flags, one of them a file of at most two of six keys, one unknown; four values that suit some options only, booleans, lists, null and other structures |

The bounds let the cases of interest happen. Two events to one subscriber with a channel of one fill it and
block a sender, which a shutdown then meets; two events also suffice for duplicates, for reordering (the
contract allows it) and for loss. Two subscribers, of the default and of another topic, separate multicast from
topics. Two Shutdowns, a leaver that also quits, and two topics cover each way of closing an event or a done channel twice. Every handler occurs in
`cmd` and every pair of ready cases of its select; one repeated call per report is enough for a lost call, a lost answer and a refusal before a success, and the clock of the retry may run out at any of them. Lines beyond the limit
plus two repeat the pattern of the history. Capacity 2 with three values turns the ring and leaves it partly filled; three
observations take a statistic to its limit and past it, and two failures include one before a success. Five ticks
and windows of two meet the exact end of a window, an empty one, and a history longer than its limits. Two keys in one file are enough for
the order to matter. Symmetry is not used: subscribers differ by topic, clients and streams by role.

What the properties say, in short (the comments in the modules say it in full):

- `NoPanic`, `BusInv`: for a well-used bus no goroutine touches a closed channel. `CopyInv`: with any use, no
  sender is inside its send once shutdown has started.
- `KeepsContract` (in `bus_misuse`): refinement of BusContract, also up to a panic. `TickersStop`: a ticker that was told calls its `ShutdownFunc`. `AtMostOnce`, `Multicast`: what a subscriber gets.
- `CleanShutdown`, `ShutdownReturns`, `SendersEnd`: what a successful shutdown means, and that shutdown and senders end.
- `TruthfulReports` with its strengthening `VerdictInv`, `MemoryKillShown`: a snapshot taken late still shows what its report is
  about. `FinalVerdict`, `OneVerdict`: the verdict is right and single whatever becomes ready together.
- `MatchesKept`: matches survive lost and refused calls and several alerts at once until one was stored by the server.
- `RunEnds`: a run ends. `Recent`, `HistoryKept`: histories are the latest lines.
- `EveryLineOnce`: a line is published and written once and in order, or its write failed, which is then reported. `StreamsApart`: each stream of the
  child on its own stream of monny, in both directions. `WaitComplete`: a nil result means that every line was read, published and written, unless an open
  sink failed, and sinks are closed under an emitter only if the context was done first. `WaitReturns`: Wait waits for ever only if nobody
  cancels and a source stays open or the bus stays locked.
- `OneAttemptPerNonce`, `NonceInv`, `StopsForGood`: the machine.
- `ValuesAreLatest`, `EachObservationOnce`, `DoneReturns`: the ring, the windows around a tick, the end of the sampler.
- `AlarmIsFounded`, `AlarmStands`: an alarm has a limit of its direction from a full series, also after resets and changes of
  direction, and ends only in `Transition`. `RefusedOnlyAtRestart`: the machine is never in Record's way but in the
  fallthrough. `InStep`: equal statistics see the same and wait for a baseline together.
- `HistoryIsExact`: what the counter kept, cut and filtered at each roll, equals the limits applied to the complete history.
  `HeldHistoriesStand`: of a history that somebody kept, only the last, open window may change.
- `ConfigIsAsGiven`: when a command starts, what was given under each name is valid and configured (the last value of a setting, the last
  position of a switch, all rules and files), whatever the order of a file's keys, unless the name is `Misread`; and what is refused is not valid or `Spurned`.

Deadlock is checked in `bus`, `cmd` and `cmd_live`, where `Terminated` is the only way to stop. It is not in the runs
whose system may stop for good: a bus that is misused (panic, or goroutines that wait for each other), a second caller of
`done`, and bounded numbers of lines, calls, ticks and flags.

### What the code does not do

The run `cmd_exit` (`AllReportsTransmitted`) ends in a counterexample to what a comment says: main exits before a report is sent; the shortest trace kills by a signal (`handlers.go` 69).
More configurations of the same kind stay beside it, each violating one definition:

| Configuration | Module | Definition | Shows |
|---|---|---|---|
| `cmd_warning` | MCCommand | `TimeWarningTransmitted` | a warning is marked as sent before it is, and never sent |
| `cmd_match` | MCCommand | `MatchesReported` | a match is cleared by the alert of another and never shown |
| `cmd_errors` | MCCommand | `ErrorsReported` | a failed report calls a nil ErrorReporter (as do a broken pipe and output that cannot be written) |
| `bus_context` | MCEventBus | `ShutdownObeysContext` | Shutdown outlives its context |
| `bus_multitopic` | MCEventBus | `NoPanic` | two topics: the channel is closed twice |
| `bus_unsubscribe` | MCEventBus | `NoPanic` | a send on a channel that Unsubscribe closed |
| `bus_late` | MCEventBus | `SubscriberTold` | a subscriber that comes after Shutdown is not told |
| `bus_leave_hang` | MCEventBus | `UnsubscribeReturns` | Unsubscribe from a handler waits for ever |
| `ticker_hang` | MCTicker | `ShutdownWithTickers` | a ticker, a sender and Shutdown wait for each other |
| `cmd_duration` | MCCommand | `KilledAfterStart` | a timeout kill has a negative duration |
| `cmd_stdin` | MCCommand | `FinishedCalled` | an open pipe on stdin hides the end of the child |
| `cmd_race` | MCCommand | `SendIsSafe` | a torn slice of matches |
| `history_full` | History | `Full` | a full history drops two lines for one |
| `log_long` | LogProcessor | `AllProcessed` | a long line ends the processing unnoticed |
| `log_error` | LogProcessor | `ErrorOnlyIfCut` | Wait returns an error although every emitter has ended |
| `fsm_rand` | MCMachineNonce | `ReturnsErrors` | a nil nonce |
| `stat_reset` | Estimator | `RecordFailsOnlyUndefined` | after a reset Record tests against the old limit and fails |
| `stat_transition` | Estimator | `EveryStatisticAsked` | a refused statistic keeps the later ones from being asked |
| `counter_alias` | WindowedCounter | `HeldHistoriesFixed` | a history that was returned changes |
| `counter_zero` | WindowedCounter | `ActsAsCounter` | without a window the value is 0 after the first tick |
| `options_shell` | Options | `ShellIsAsGiven` | the shell of the environment overrides the one given |

Definitions without a configuration of their own fail in the instance of a run: in that of `cmd`, `RulesNeverCrash`, for a number in a list that a JSON
rule selects; in that of `options`, `RulesOnce`, for a file with two list fields, whose lists are taken once for each of them, `SwitchesCanBeOff`, for
`daemon: false`, `FaultsAreRefused`, for a list under a setting or an unknown key beside a list of rules, and `ListsAreTaken`, for a
rule that is one string beside a list of files. In that of `history`, `Recent` allows for the crash at a limit of 0 or 1, and in that of `log`, `HistoryKept` for one at capacity 1.

`PROJECT.json` quotes the lines these contradict.

### Fairness

Weak fairness, of goroutines that the Go scheduler runs when they can run. For the bus: senders, subscribers that have
something to receive, whose handler returns, and a Shutdown that was called. Nobody has to subscribe, dispatch, unsubscribe or
shut down, and no context has to expire, except in `bus_misuse`, whose callers of Shutdown follow its doc and give it a timeout. For a run: the scanners,
copiers, handlers and reports; a child whose output is read exits some day, and a call of the server returns or its retry runs out (backoff.Retry
stops after 15 minutes). A pipe on stdin need not end, nor a process that the child left behind (no run has one; it would keep the
run open as the pipe does), and no timer or signal has to come. For a sampler: its goroutine receives from `done`, and `done` returns when it
has ended; no tick has to come, as the select may take the `done` case whenever it is ready and a tick only delays it.

For the log processor: a write returns, Wait takes a case that is ready and closes its sinks. A source need not yield or end, nobody has to cancel,
and whoever has the write lock of the bus need not let it go: `WaitReturns` names the two ways of waiting for ever.

Strong fairness is assumed in two places. A ticker's select takes a ready case at random, so its channel is chosen in the end although ticks are
handled in between, during which the goroutine is elsewhere (`TickerFairness`). And an emitter that waits for the read lock gets it
if the write lock is let go again and again: Go's RWMutex admits the readers that wait before the next writer (`Publish`, `Complain`).

## 4. The proofs

| Module | Theorem | Says |
|---|---|---|
| EventBusProofs | `TypeCorrect` | `Spec => []TypeOK`, with at most one event per channel |
| | `BusInvariant`, `PanicFree`, `ShutdownIsClean` | `BusInv`, `NoPanic` and `CleanShutdown`, under `WellUsed` |
| | `CopiesAreApart` | `CopyInv`, for any use |
| | `AtMostOnceAlways` | `AtMostOnce`, under `WellUsed` and `NoRepeats` |
| | `BusKeepsContract` | `Spec => Contract!Spec`, for any use |
| | `TickersPanicFree` | `NoPanic` with tickers, under `WellUsed` |
| CommandProofs | `TypeCorrect`, `VerdictsStand`, `ReportsAreTruthful` | `TypeOK`, `VerdictInv`, `TruthfulReports`, for any configuration |
| | `OneVerdictAlways`, `FinalVerdictStands` | `OneVerdict`, `FinalVerdict`, for any files |
| | `MemoryKillsAreShown` | `MemoryKillShown`, for any limit and readings |
| | `MatchesAreKept` | `MatchesKept`, for any number of alerts and lines, and any calls lost or refused |
| | `HistoryIsRecent` | `Recent`, for any limit |
| LogProcessorProofs | `LogTypeCorrect`, `QueuesKeepTheLatest` | `TypeOK`, `HistoryKept`, for any capacity |
| | `EveryLineOnceAlways` | `EveryLineOnce`, for any sources, sinks, options and faulty sinks |
| | `WaitIsComplete`, `StreamsAreApart` | `WaitComplete`, `StreamsApart`, for any options |
| MachineProofs | `NoncesAreFresh`, `NonceServesOnce`, `StoppedUntilReset` | `NonceInv`, `OneAttemptPerNonce`, `StopsForGood`, for any table and clients |
| StatProofs | `ValuesAreLatestAlways`, `StatisticsSeeLatest` | `ValuesAreLatest`, for any capacity, of a series and of those of a test |
| | `EachObservationOnceAlways` | `EachObservationOnce`, for any series, sampled or not |
| | `InStepAlways` | `InStep`, for any number of statistics |
| | `AlarmIsFoundedAlways`, `RefusedOnlyAtRestartAlways`, `AlarmStandsAlways` | `AlarmIsFounded`, `RefusedOnlyAtRestart`, `AlarmStands`, for any number of statistics and any capacity |
| CounterProofs | `HistoryIsExactAlways` | `HistoryIsExact`, for any length of the windows, limits and amounts |
| | `HeldHistoriesStandAlways` | `HeldHistoriesStand`, for any number of callers |
| OptionsProofs | `ConfigIsAsGivenAlways` | `ConfigIsAsGiven`, for any flags, keys and files, and any values among `Words` |

SequenceProofs holds what several of them need: what appending a line and dropping one or two does to consecutive numbers, what
`FlattenSeq` does when a sequence is appended, and induction. The provers cannot instantiate the library's induction theorems, which
take a predicate; `SetInduction` takes a set in its place, and is proved with the pigeonhole theorem on finite sets. What a recursive
function computes is then proved in three steps, for `FlattenSeq` as for `Filter` and `WindowsOf` of the counter and `Configured` of the options: there is a function that
satisfies the equation up to every `n`, two of them agree where their inputs do, and so the one that the definition chooses
has at `n + 1` what the equation says of its value at `n`.

*The bus.* `NoPanic` is not inductive: that a send meets an open channel depends on the read lock being free when Shutdown closes
channels. `BusInv` adds it (`Quiet`: no sender is sending once `sdStarted`; `ClosedByShutdown`; `Once`:
no second Shutdown), that a subscriber is in one list once (`RegisteredOnce`, hence closed once), and that a done channel is closed only
after its event channel was drained (`Drained`). `WellUsed` is the assumption: one topic each, no `Unsubscribe`, one
Shutdown. It cannot be dropped, as the counterexamples show. The contract needs none of that: its
inductive invariant is `CopyInv`, and the step that needs it is the send (a sender that is sending implies shutdown has not started).
`AtMostOnce` adds `NoRepeats`, that no Dispatch names a topic twice or the default one, which the code adds; then two copies of one
call are for different channels, and copies of earlier calls have lower numbers.

*Reports.* A snapshot is taken after the handler that asked for it went on; only its reason is that of the call. `TruthfulReports` therefore needs that what a
verdict says was true when it was asked for and is never taken back: `Recorded` relates the reports asked for to the
command, and `Standing` says that a killed command's handler is the last that writes.

*One verdict, and the right one.* `Single` ties each report that may be asked for once to what rules out a second: the place of `main`, `warned`,
the warning flag. `MemoryInv` carries the reading that justified a kill up to its snapshot. `FinalInv` says that the child has ended when `Finished`
looks at it, and what the verdict is between its setting and the last file; `Covered` counts missing files against their reports.

*Matches.* `ClearInv`: a call whose answer says success was stored by the server, through any calls that were lost or refused before, and a call that clears is an alert's. So while no
alert was stored nobody clears, a scanner finds the true matches, and its append extends them.

*Histories.* `Latest` is inductive with the lemmas of SequenceProofs, once more it is known that a crash needs a limit below two.

*Streams.* An emitter of a source that was not configured is at its end, a piped input has no stderr to go to, and the filter takes the
other sink from each emitter of a child. `OnceInv` adds to `EveryLineOnce` where the lines are: what is published or written are lines that
were read, so the next one comes behind all of them; and no line has failed before its turn. `ReportsMade` adds that a failure the emitter has gone past was reported while the bus was up.
`WaitComplete` needs `WaitInv`, that sinks are closed only after Wait has a result, which is an error if an emitter is not at its end; so a write that was
refused by a closed sink came after an error.

*Series and statistics.* `RingHolds` says what each slot holds of the recorded sequence, seen from the next slot; recording a value keeps it
because the index after `n` is one more or wraps to the first (`ModSucc`). `StatInv` is inductive with the place in a call: a
statistic that is being restarted is in its initial state, where the table has no way to a trip, so the test against the old
limit can fail but never raise an alarm. `SampledInv` says of each
series that its windows and the open one, put together, are what was observed, and that each window was recorded as its combination. `InStep`
speaks of the time between calls only; `StepInv` says what it means within one. `Together`: there are a ring and a class of states
from which all statistics of a kind start the call, those before the place of the call are as the call leaves them, those behind it still
as they were, and the one at the place is between the two, by how far it is. `AlarmIsFounded` assumes users who ask for a reset or a new baseline and leave testing to
Record.

*The counter.* `SlicesInv` says that the array ends with `c.hist` or one element behind it, which is then a copy of the current
counter, made when it had counted no more, and that no history a caller holds goes further. So a write behind `c.hist` touches
at most the last element of a held history, which stays the same window. `HistoryIsExact` compares the stored history to
one the counter does not have. `WindowsFit` makes it inductive: the stored history is the end of the closed windows, and
each of the earlier ones is `Gone`, that is too old, or followed by `MaxHistory` others. Both last, as time passes and windows are added; and as
the windows are in the order of their start, what `Filter` leaves is again an end of them (`FilterTail`).

*The configuration.* The options are a list in the order in which they were taken, what was given is a list of flags and files. The
proof goes in two parts. The first is about what the loader reads (`Reads`, `ConfigIsAsRead`): that is the same for every order of a file's
keys. The two lists agree only up to the order within a file. `Follows` is what has to agree under each name: the same values, the last of them last. `FollowsInv` says so between flags, and within a file of each of its keys by what the loop did: a scalar follows the flags before
while its key is left and those with the file once it was taken; a list field may be taken already, with another key, and taken again, which leaves
the set of its values as it is, and of a list only the set counts. `SoundInv` keeps what makes a configuration faulty out of what was taken so far. At the
end `ConfiguredHolds` says what the loop over the options makes of them: the last value of each setting, all rules, all files.
`newConfig` therefore reports an option only if its value was given and is invalid. The second part (`ReadAsGiven`) relates what is
read to what is given: under a name that is not misread, a value that fits its key is read as it was given and one that does not is refused
(`SwitchIsRight`, `OptionIsRight`, `OtherIsRight`), and what is read wrongly is not valid or spurned (`WrongIsFaulty`).

*The machine.* `NonceInv`: a client that holds a nonce which would be accepted read it after the last attempt, as every attempt
replaces or spends the nonce; and a refused attempt leaves the machine stopped.

The proofs assume only the `ASSUME`s of the modules: constants have their types, bounds are natural numbers. They are for
the model: that it is faithful to the code is what the line numbers in `PROJECT.json` are for.

Only model-checked: liveness (`Multicast`, `SendersEnd`, `ShutdownReturns`, `TickersStop`, `RunEnds`, `WaitReturns`, `DoneReturns`), which TLAPS does not prove
under fairness. Every other property of a run that passes is proved.

## 5. Not modelled

- Numerics: means, variances, limits and their calibration. Of a limit the models have its direction and its baseline.
- The strings of options (`strconv`, durations, addresses): the words of `Words` stand for valid, invalid and empty ones. Negative and
  overflowing memory limits, the log file, and `RuleQuantity` and `RulePeriod`, which no flag reaches, are not among them.
- A series made from given values, the plain `Counter`, metric names: they have no step of their own.
- The content of lines and the extraction of JSON fields (`command.go` 244-293): a line matches, does not match, or makes the extraction panic. A line longer than the scanner's buffer is modelled.
- A failing `NewEvent` (`logs.go` 85-87, after which the code dispatches what it has): gob encodes these payloads.
- Times: a timer may fire at any step, a duration has a sign, and any match may be older than the rule's period.
- The WaitGroup's own panics, file descriptors, and memory limits of the process.
- The ticker's loop after its channel closed: it spins for ever, which no change of state shows.
- `Queue.Copy` and `Queue.Clear`, which nothing in the repository calls outside of a test.

## 6. Plan

The order was that of the program's behaviour and hazards: bus and ticker; command with handlers and reports; histories; log
processor; state machine; then series, statistics, counters and options. What is left:

1. `Rules`: the extraction of a JSON field from a line as an operator over small trees checked against a reference definition; its panic is in
   Command already.
2. A specification of what a user is promised of a run (one verdict, reported, then exit), that Command implements where it
   does: `cmd_exit` shows where it does not.
