------------------------------- MODULE Ticker -------------------------------
(***************************************************************************)
(* The ticking handlers of pkg/monny/proc/ticker.go on an event bus.  A    *)
(* ticker is a default-topic subscriber whose one goroutine both drains its *)
(* channel and calls Dispatch when its time.Ticker fires; while that call    *)
(* waits for the read lock the goroutine receives nothing.                   *)
(***************************************************************************)
EXTENDS EventBus

CONSTANT Tickers       \* the subscribers that are tickers

ASSUME TickerAssumption == Tickers \subseteq Subs /\ <<>> \in TopicLists

VARIABLES
    fired,             \* the tickers with a tick in t.C, which holds one
    ticking            \* the tickers inside e.Dispatch(evt)

tvars == <<vars, fired, ticking>>

TickerInit == Init /\ fired = {} /\ ticking = {}

\* Bound: no more ticks and dispatches than MaxEvents.
Room == events + Cardinality(ticking) < MaxEvents

\* The runtime's timer, from time.NewTicker to t.Stop(), which leaves a tick
\* that is already in t.C.
Fire(s) ==
    /\ s \in Tickers \ fired /\ pc[s] \notin {"out", "joining", "finished"}
    /\ fired' = fired \cup {s}
    /\ UNCHANGED <<vars, ticking>>

\* case <-t.C: the loop is at its select, also after finished().
Tick(s) ==
    /\ s \in fired \ ticking /\ pc[s] \in {"reading", "finished"} /\ Room
    /\ fired' = fired \ {s}
    /\ ticking' = ticking \cup {s}
    /\ UNCHANGED vars

\* Dispatch gets the read lock and accepts the event, or returns early.
TickDispatch(s) ==
    /\ s \in ticking /\ writer = None
    /\ \/ Dispatch(<<>>)
       \/ sdStarted /\ UNCHANGED vars
    /\ ticking' = ticking \ {s}
    /\ UNCHANGED fired

\* The other case of the loop.  The goroutine never leaves the loop: after the
\* ShutdownFunc it goes on receiving from the closed channel, unseen here.
TickerStep(s) ==
    /\ s \notin ticking
    /\ SubStep(s)
    /\ UNCHANGED <<fired, ticking>>

TickerNext ==
    /\ ~panic
    /\ \/ \E s \in Subs : TickerStep(s) \/ Fire(s) \/ Tick(s) \/ TickDispatch(s)
       \/ \E ts \in TopicLists : Room /\ Dispatch(ts) /\ UNCHANGED <<fired, ticking>>
       \/ SendStep /\ UNCHANGED <<fired, ticking>>
       \/ \E c \in Closers : ShutdownStep(c) /\ UNCHANGED <<fired, ticking>>

\* As in EventBus: goroutines that can go on do; a timer need not fire.  A select
\* takes one of its ready cases at random, so a channel that is ready at select
\* after select is chosen in the end, however many ticks there are.
TickerFairness ==
    /\ WF_tvars(~panic /\ SendStep /\ UNCHANGED <<fired, ticking>>)
    /\ \A s \in Subs :
          /\ WF_tvars(~panic /\ TickDispatch(s))
          /\ WF_tvars(TickerStep(s) /\ ~panic /\ pc[s] \in {"joining", "leaving", "exiting"})
          /\ SF_tvars(TickerStep(s) /\ ~panic /\ (Receive(s) \/ Handled(s) \/ SeeClosed(s)))
    /\ \A c \in Closers :
          WF_tvars(/\ ~panic /\ (Shutdown(c) \/ ShutdownReturn(c))
                   /\ UNCHANGED <<fired, ticking>>)

\* The callers follow the doc of Shutdown: its context has a timeout.
Timeouts ==
    \A c \in Closers :
        WF_tvars(~panic /\ Expire(c) /\ UNCHANGED <<fired, ticking>>)

TickerSpec     == TickerInit /\ [][TickerNext]_tvars
TickerFairSpec == TickerSpec /\ TickerFairness /\ Timeouts

-----------------------------------------------------------------------------
\* A ticker whose channel was closed calls its ShutdownFunc (lines 22-26), also
\* if it is inside Dispatch at that time: that call waits for the lock which
\* Shutdown keeps until all ShutdownFuncs are called or its context is done.
TickersStop ==
    \A s \in Tickers : s \in closed ~> (s \in doneClosed \/ panic)

\* Every call of Shutdown returns once its context is done, also with tickers
\* (bus.go 165-168).
ShutdownWithTickers == ShutdownObeysContext
=============================================================================
