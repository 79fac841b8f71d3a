------------------------------ MODULE EventBus ------------------------------
(***************************************************************************)
(* The in-process event bus of pkg/eventbus/bus.go.  Its goroutines are    *)
(* the subscribers, the callers of Dispatch, one sender goroutine for every *)
(* event and channel it goes to, and the callers of Shutdown.  They share   *)
(* one sync.RWMutex, one channel of capacity 1 for each subscriber and one   *)
(* done channel for each subscriber.                                         *)
(*                                                                           *)
(* The mutex is Go's: a writer first takes the writers' mutex and announces  *)
(* itself, which blocks every later RLock, then waits for the readers that   *)
(* are left.  `writer' is that goroutine, from the announcement to Unlock.   *)
(* The readers that can be seen between two steps are the sender goroutines  *)
(* blocked in `c <- evt', so the set `sending' is also the set of readers.   *)
(*                                                                           *)
(* Neither `defer recover()' (line 157) nor the plain `recover()' (lines     *)
(* 102, 111, 182) recovers anything in Go, so a send on, or a close of, a    *)
(* closed channel ends the program: `panic'.                                 *)
(***************************************************************************)
EXTENDS Naturals, Sequences, FiniteSets

CONSTANTS
    Subs,        \* the subscribers; each subscribes once
    Topics,      \* the topics in use
    Default,     \* defaultTopic
    TopicsOf,    \* TopicsOf[s]: the arguments of s's Subscribe
    TopicLists,  \* the arguments Dispatch is called with
    MaxEvents,   \* bound: accepted calls of Dispatch
    Closers,     \* the goroutines that call Shutdown, each once
    Leavers,     \* the subscribers that may call Unsubscribe from their handler
    Quitters,    \* the subscribers whose handler may return early, with the
                 \* ShutdownFunc deferred as the doc of Subscribe allows
    None         \* no goroutine

ASSUME BusAssumption ==
    /\ Default \in Topics
    /\ TopicsOf \in [Subs -> Seq(Topics)]
    /\ TopicLists \subseteq Seq(Topics)
    /\ MaxEvents \in Nat
    /\ Leavers \subseteq Subs
    /\ Quitters \subseteq Subs
    /\ Subs \cap Closers = {}
    /\ None \notin Subs \cup Closers

VARIABLES
    subscribers, \* topic -> its channels, as pairs <<subscriber, argument position>>
    done,        \* the subscribers whose done channel is in e.done
    sdStarted,   \* e.sdStarted
    writer,      \* the goroutine that announced or holds the write lock
    closed,      \* subscribers whose event channel is closed
    doneClosed,  \* subscribers whose done channel is closed
    ready,       \* sender goroutines that have not yet taken the read lock
    sending,     \* sender goroutines in `c <- evt', holding the read lock
    buf,         \* subscriber -> what its channel holds, at most one copy
    got,         \* subscriber -> the copies it received
    dropped,     \* copies whose sender found sdStarted
    events,      \* number of events accepted by Dispatch
    since,       \* history: events accepted before s subscribed
    pc,          \* where the subscriber's goroutine is
    shut,        \* where each call of Shutdown is
    expired,     \* the callers whose context is done
    notify,      \* caller -> the done channels its shutdownNotify waits for
    panic        \* the program died of a panic

busVars  == <<subscribers, done, sdStarted, writer, closed, doneClosed, panic>>
copyVars == <<ready, sending, buf, got, dropped, events>>
subVars  == <<since, pc>>
shutVars == <<shut, expired, notify>>
vars     == <<busVars, copyVars, subVars, shutVars>>

\* A copy is one sender goroutine: event `ev', sent for the at-th topic of its
\* Dispatch to the channel of subscriber `sub', registered by its reg-th topic.
Copies == [ev : Nat, at : Nat, sub : Subs, reg : Nat]

\* The topics s registers for: the default one if it names none.
Registrations(s) == IF TopicsOf[s] = <<>> THEN <<Default>> ELSE TopicsOf[s]

Positions(s, t) == {i \in DOMAIN Registrations(s) : Registrations(s)[i] = t}

Registered(s) == {t \in Topics : \E r \in subscribers[t] : r[1] = s}

\* Closing the channel of s once for each of its registrations panics.
CloseTwice(s) ==
    \/ s \in closed /\ Registered(s) # {}
    \/ \E t, u \in Topics : \E q \in subscribers[t], r \in subscribers[u] :
          q[1] = s /\ r[1] = s /\ <<t, q>> # <<u, r>>

Init ==
    /\ subscribers = [t \in Topics |-> {}]
    /\ done = {} /\ sdStarted = FALSE /\ writer = None
    /\ closed = {} /\ doneClosed = {} /\ panic = FALSE
    /\ ready = {} /\ sending = {} /\ dropped = {} /\ events = 0
    /\ buf = [s \in Subs |-> {}] /\ got = [s \in Subs |-> {}]
    /\ since = [s \in Subs |-> 0] /\ pc = [s \in Subs |-> "out"]
    /\ shut = [c \in Closers |-> "idle"] /\ expired = {}
    /\ notify = [c \in Closers |-> {}]

-----------------------------------------------------------------------------
(* Subscribe and Unsubscribe *)

SubscribeLock(s) ==
    /\ pc[s] = "out" /\ writer = None
    /\ writer' = s
    /\ pc' = [pc EXCEPT ![s] = "joining"]
    /\ UNCHANGED <<subscribers, done, sdStarted, closed, doneClosed, panic, since>>
    /\ UNCHANGED <<copyVars, shutVars>>

Subscribe(s) ==
    /\ pc[s] = "joining" /\ sending = {}
    /\ done' = done \cup {s}
    /\ subscribers' = [t \in Topics |-> subscribers[t] \cup ({s} \X Positions(s, t))]
    /\ pc' = [pc EXCEPT ![s] = "reading"]
    /\ since' = [since EXCEPT ![s] = events]
    /\ writer' = None
    /\ UNCHANGED <<sdStarted, closed, doneClosed, panic, copyVars, shutVars>>

\* From the handler, or after the ShutdownFunc.
UnsubscribeLock(s) ==
    /\ s \in Leavers /\ pc[s] \in {"busy", "finished"} /\ writer = None
    /\ writer' = s
    /\ pc' = [pc EXCEPT ![s] = "leaving"]
    /\ UNCHANGED <<subscribers, done, sdStarted, closed, doneClosed, panic, since>>
    /\ UNCHANGED <<copyVars, shutVars>>

\* It closes the done channel, without the sync.Once of the ShutdownFunc.
Unsubscribe(s) ==
    /\ pc[s] = "leaving" /\ sending = {}
    /\ panic' = (CloseTwice(s) \/ s \in done \cap doneClosed)
    /\ closed' = closed \cup {s}
    /\ subscribers' = [t \in Topics |-> {r \in subscribers[t] : r[1] # s}]
    /\ done' = done \ {s}
    /\ doneClosed' = doneClosed \cup {s}
    /\ pc' = [pc EXCEPT ![s] = "left"]
    /\ writer' = None
    /\ UNCHANGED <<sdStarted, since, copyVars, shutVars>>

-----------------------------------------------------------------------------
(* Dispatch and its sender goroutines *)

\* Mutant of Fanout: the default subscribers are added for every topic.
FanoutDefaultEach(ts) ==
    LET all == Append(ts, Default)
    IN  UNION {{[ev |-> events + 1, at |-> j, sub |-> r[1], reg |-> r[2]] :
                   r \in subscribers[all[j]] \cup subscribers[Default]} :
               j \in DOMAIN all}

\* Mutant of Fanout: the default topic is added only to an empty list.
FanoutNoDefault(ts) ==
    LET all == IF ts = <<>> THEN <<Default>> ELSE ts
    IN  UNION {{[ev |-> events + 1, at |-> j, sub |-> r[1], reg |-> r[2]] :
                   r \in subscribers[all[j]]} : j \in DOMAIN all}

\* The copies one call makes: one for each topic, the default one last, and
\* each channel registered for it.
Fanout(ts) ==
    LET all == Append(ts, Default)
    IN  UNION {{[ev |-> events + 1, at |-> j, sub |-> r[1], reg |-> r[2]] :
                   r \in subscribers[all[j]]} : j \in DOMAIN all}

\* Once sdStarted, Dispatch returns and changes nothing.
Dispatch(ts) ==
    /\ writer = None /\ ~sdStarted
    /\ events < MaxEvents
    /\ events' = events + 1
    /\ ready' = ready \cup Fanout(ts)
    /\ UNCHANGED <<sending, buf, got, dropped, busVars, subVars, shutVars>>

\* Mutant of SenderLock: no check of sdStarted under the lock.
SenderLockUnchecked(c) ==
    /\ c \in ready /\ writer = None
    /\ ready' = ready \ {c}
    /\ sending' = sending \cup {c}
    /\ UNCHANGED <<buf, got, dropped, events, busVars, subVars, shutVars>>

\* RLock, then the check of sdStarted under it.
SenderLock(c) ==
    /\ c \in ready /\ writer = None /\ ~sdStarted
    /\ ready' = ready \ {c}
    /\ sending' = sending \cup {c}
    /\ UNCHANGED <<buf, got, dropped, events, busVars, subVars, shutVars>>

SenderDrop(c) ==
    /\ c \in ready /\ writer = None /\ sdStarted
    /\ ready' = ready \ {c}
    /\ dropped' = dropped \cup {c}
    /\ UNCHANGED <<sending, buf, got, events, busVars, subVars, shutVars>>

\* Mutant of Send: the channel has no capacity limit.
SendUnbounded(c) ==
    /\ c \in sending /\ c.sub \notin closed
    /\ sending' = sending \ {c}
    /\ buf' = [buf EXCEPT ![c.sub] = @ \cup {c}]
    /\ UNCHANGED <<ready, got, dropped, events, busVars, subVars, shutVars>>

\* Mutant of Send: a full channel loses what it holds.
SendOverwriting(c) ==
    /\ c \in sending /\ c.sub \notin closed
    /\ sending' = sending \ {c}
    /\ buf' = [buf EXCEPT ![c.sub] = {c}]
    /\ UNCHANGED <<ready, got, dropped, events, busVars, subVars, shutVars>>

\* `c <- evt' blocks while the channel is full; RUnlock follows it.
Send(c) ==
    /\ c \in sending /\ c.sub \notin closed /\ buf[c.sub] = {}
    /\ sending' = sending \ {c}
    /\ buf' = [buf EXCEPT ![c.sub] = {c}]
    /\ UNCHANGED <<ready, got, dropped, events, busVars, subVars, shutVars>>

SendOnClosed(c) ==
    /\ c \in sending /\ c.sub \in closed
    /\ panic' = TRUE
    /\ UNCHANGED <<subscribers, done, sdStarted, writer, closed, doneClosed>>
    /\ UNCHANGED <<copyVars, subVars, shutVars>>

-----------------------------------------------------------------------------
(* The subscriber's goroutine: for evt, open := range c { handle } *)

Receive(s) ==
    /\ pc[s] = "reading"
    /\ \E c \in buf[s] :
          /\ buf' = [buf EXCEPT ![s] = @ \ {c}]
          /\ got' = [got EXCEPT ![s] = @ \cup {c}]
    /\ pc' = [pc EXCEPT ![s] = "busy"]
    /\ UNCHANGED <<ready, sending, dropped, events, since, busVars, shutVars>>

Handled(s) ==
    /\ pc[s] = "busy"
    /\ pc' = [pc EXCEPT ![s] = "reading"]
    /\ UNCHANGED <<since, busVars, copyVars, shutVars>>

\* A closed channel still yields what it holds before it yields "closed".
SeeClosed(s) ==
    /\ pc[s] = "reading" /\ s \in closed /\ buf[s] = {}
    /\ pc' = [pc EXCEPT ![s] = "exiting"]
    /\ UNCHANGED <<since, busVars, copyVars, shutVars>>

\* Mutant of Finish: the done channel is not closed.
FinishSilently(s) ==
    /\ \/ pc[s] = "exiting"
       \/ pc[s] = "busy" /\ s \in Quitters
    /\ pc' = [pc EXCEPT ![s] = "finished"]
    /\ UNCHANGED <<since, busVars, copyVars, shutVars>>

\* The ShutdownFunc; sync.Once makes a second call of it harmless.
Finish(s) ==
    /\ \/ pc[s] = "exiting"
       \/ pc[s] = "busy" /\ s \in Quitters
    /\ pc' = [pc EXCEPT ![s] = "finished"]
    /\ doneClosed' = doneClosed \cup {s}
    /\ UNCHANGED <<subscribers, done, sdStarted, writer, closed, panic, since>>
    /\ UNCHANGED <<copyVars, shutVars>>

\* The deferred ShutdownFunc of a handler that called Unsubscribe: its sync.Once
\* has not run, and the done channel is closed already.
FinishAfterLeaving(s) ==
    /\ pc[s] = "left" /\ s \in Quitters
    /\ panic' = TRUE
    /\ UNCHANGED <<subscribers, done, sdStarted, writer, closed, doneClosed>>
    /\ UNCHANGED <<copyVars, subVars, shutVars>>

-----------------------------------------------------------------------------
(* Shutdown *)

ShutdownLock(c) ==
    /\ shut[c] = "idle" /\ writer = None
    /\ writer' = c
    /\ shut' = [shut EXCEPT ![c] = "locking"]
    /\ UNCHANGED <<subscribers, done, sdStarted, closed, doneClosed, panic>>
    /\ UNCHANGED <<expired, notify, copyVars, subVars>>

\* Mutant of Shutdown: it does not wait for the readers.
ShutdownEarly(c) ==
    /\ shut[c] = "locking"
    /\ sdStarted' = TRUE
    /\ notify' = [notify EXCEPT ![c] = done]
    /\ panic' = \E s \in Subs : CloseTwice(s)
    /\ closed' = closed \cup {s \in Subs : Registered(s) # {}}
    /\ shut' = [shut EXCEPT ![c] = "waiting"]
    /\ UNCHANGED <<subscribers, done, writer, doneClosed, expired, copyVars, subVars>>

\* The mutex is acquired: everything up to the select, without unlocking.
Shutdown(c) ==
    /\ shut[c] = "locking" /\ sending = {}
    /\ sdStarted' = TRUE
    /\ notify' = [notify EXCEPT ![c] = done]
    /\ panic' = \E s \in Subs : CloseTwice(s)
    /\ closed' = closed \cup {s \in Subs : Registered(s) # {}}
    /\ shut' = [shut EXCEPT ![c] = "waiting"]
    /\ UNCHANGED <<subscribers, done, writer, doneClosed, expired, copyVars, subVars>>

\* The context of a call, started with it, times out or is cancelled.
Expire(c) ==
    /\ shut[c] \in {"locking", "waiting"} /\ c \notin expired
    /\ expired' = expired \cup {c}
    /\ UNCHANGED <<shut, notify, busVars, copyVars, subVars>>

\* Mutant of Notified: one finished subscriber is enough.
NotifiedByOne(c) == notify[c] # {} => notify[c] \cap doneClosed # {}

\* shutdownNotify closes its channel when all the done channels are closed.
Notified(c) == notify[c] \subseteq doneClosed

\* Mutant of ShutdownReturn: the deferred Unlock is missing.
ReturnLocked(c) ==
    /\ shut[c] = "waiting"
    /\ \E r \in {"nil", "timeout"} :
          /\ r = "nil" => Notified(c)
          /\ r = "timeout" => c \in expired
          /\ shut' = [shut EXCEPT ![c] = r]
    /\ UNCHANGED <<expired, notify, busVars, copyVars, subVars>>

\* The select; with both channels ready Go picks either.
ShutdownReturn(c) ==
    /\ shut[c] = "waiting"
    /\ \E r \in {"nil", "timeout"} :
          /\ r = "nil" => Notified(c)
          /\ r = "timeout" => c \in expired
          /\ shut' = [shut EXCEPT ![c] = r]
    /\ writer' = None
    /\ UNCHANGED <<subscribers, done, sdStarted, closed, doneClosed, panic>>
    /\ UNCHANGED <<expired, notify, copyVars, subVars>>

-----------------------------------------------------------------------------
SubStep(s) ==
    \/ SubscribeLock(s) \/ Subscribe(s) \/ UnsubscribeLock(s) \/ Unsubscribe(s)
    \/ Receive(s) \/ Handled(s) \/ SeeClosed(s) \/ Finish(s)
    \/ FinishAfterLeaving(s)

SendStep ==
    \/ \E c \in ready : SenderLock(c) \/ SenderDrop(c)
    \/ \E c \in sending : Send(c) \/ SendOnClosed(c)

ShutdownStep(c) ==
    ShutdownLock(c) \/ Shutdown(c) \/ Expire(c) \/ ShutdownReturn(c)

\* Nothing is left to do: a subscriber may wait forever on an open channel.
Terminated ==
    /\ \A c \in Closers : shut[c] \in {"nil", "timeout"}
    /\ ready = {} /\ sending = {}
    /\ \A s \in Subs : \/ pc[s] \in {"finished", "left"}
                       \/ pc[s] = "reading" /\ s \notin closed
    /\ UNCHANGED vars

Next ==
    /\ ~panic
    /\ \/ \E s \in Subs : SubStep(s)
       \/ \E ts \in TopicLists : Dispatch(ts)
       \/ SendStep
       \/ \E c \in Closers : ShutdownStep(c)
       \/ Terminated

\* Every goroutine that can run does.  Nobody has to call Subscribe, Dispatch,
\* Shutdown or Unsubscribe, and no context has to expire; a handler returns.
Fairness ==
    /\ WF_vars(~panic /\ SendStep)
    /\ \A s \in Subs :
          /\ WF_vars(~panic /\ (Subscribe(s) \/ Unsubscribe(s)))
          /\ WF_vars(~panic /\ (Receive(s) \/ Handled(s)))
          /\ WF_vars(~panic /\ SeeClosed(s))
          /\ WF_vars(~panic /\ pc[s] = "exiting" /\ Finish(s))
    /\ \A c \in Closers :
          WF_vars(~panic /\ (Shutdown(c) \/ ShutdownReturn(c)))

Spec     == Init /\ [][Next]_vars
FairSpec == Spec /\ Fairness

-----------------------------------------------------------------------------
(* Properties *)

AllBuffered == UNION {buf[s] : s \in Subs}
AllGot      == UNION {got[s] : s \in Subs}
Everywhere  == ready \cup sending \cup AllBuffered \cup AllGot \cup dropped

\* Each variable has its type; a channel holds at most one event.
TypeOK ==
    /\ subscribers \in [Topics -> SUBSET (Subs \X Nat)]
    /\ done \subseteq Subs /\ closed \subseteq Subs /\ doneClosed \subseteq Subs
    /\ sdStarted \in BOOLEAN /\ panic \in BOOLEAN
    /\ writer \in Subs \cup Closers \cup {None}
    /\ ready \subseteq Copies /\ sending \subseteq Copies /\ dropped \subseteq Copies
    /\ buf \in [Subs -> SUBSET Copies] /\ got \in [Subs -> SUBSET Copies]
    /\ \A s \in Subs : \A c, d \in buf[s] : c = d
    /\ events \in 0..MaxEvents /\ since \in [Subs -> 0..MaxEvents]
    /\ pc \in [Subs -> {"out", "joining", "reading", "busy", "leaving", "left",
                        "exiting", "finished"}]
    /\ shut \in [Closers -> {"idle", "locking", "waiting", "nil", "timeout"}]
    /\ expired \subseteq Closers
    /\ notify \in [Closers -> SUBSET Subs]

\* The use the bus supports: one topic for each subscriber, no Unsubscribe and
\* one call of Shutdown.
WellUsed ==
    /\ \A s \in Subs : Len(Registrations(s)) = 1
    /\ Leavers = {}
    /\ \A c, d \in Closers : c = d

\* No goroutine sends on a closed channel or closes one again, however sender
\* goroutines, subscribers and Shutdown interleave (lines 157-158, 181, 101).
NoPanic == ~panic

\* Shutdown returns nil only when every subscriber it told has called its
\* ShutdownFunc after reading all that its channel held (lines 175, 188-193); a
\* handler that gave up early is the only one to leave something unread.
CleanShutdown ==
    \A c \in Closers : shut[c] = "nil" =>
        \A s \in notify[c] :
            pc[s] = "finished" /\ (s \notin Quitters => buf[s] = {})

\* The inductive strengthening of NoPanic and CleanShutdown for a well-used bus.
Quiet            == sdStarted => sending = {}
ClosedByShutdown == closed # {} => sdStarted
Once             == sdStarted => \A c \in Closers : shut[c] \notin {"idle", "locking"}
RegisteredOnce   == \A t \in Topics : \A r \in subscribers[t] :
                        r[2] = 1 /\ t = Registrations(r[1])[1]
NobodyLeaves     == \A s \in Subs : pc[s] \notin {"leaving", "left"}
Drained          == \A s \in Subs :
    /\ s \in doneClosed => pc[s] = "finished"
    /\ \/ pc[s] = "exiting"
       \/ pc[s] = "finished" /\ s \notin Quitters
       => s \in closed /\ buf[s] = {}
AllTold          == \A c \in Closers : shut[c] = "nil" => notify[c] \subseteq doneClosed

\* The reasons no panic can happen and a shutdown is clean, together: the read
\* lock is free once shutdown starts, only Shutdown closes channels, only once,
\* and a ShutdownFunc is called after its channel was drained.
BusInv ==
    /\ NoPanic /\ Quiet /\ ClosedByShutdown /\ Once /\ RegisteredOnce
    /\ NobodyLeaves /\ Drained /\ AllTold

\* A subscriber with one registration gets an event at most once, counting the
\* copies that are still on their way, unless Dispatch names the default topic
\* itself, which line 129 adds in any case.
AtMostOnce ==
    \A c, d \in Everywhere :
        c.sub = d.sub /\ c.ev = d.ev => c = d

\* The bus keeps its contract, also when the program dies of a panic.
Contract == INSTANCE BusContract WITH
    Copy <- Copies, queued <- ready \cup sending, channel <- AllBuffered,
    received <- AllGot, down <- sdStarted
KeepsContract == Contract!Spec

\* What the contract rests on, for any use of the bus: a sender is at one place,
\* a copy belongs to an accepted event and lies in the channel of its own
\* subscriber, and no sender is inside its send once shutdown started (the
\* check of sdStarted and the send are under one read lock, lines 152-158).
CopyInv ==
    /\ ready \cap sending = {}
    /\ \A c \in Everywhere : c.ev <= events
    /\ \A s \in Subs : \A c \in buf[s] : c.sub = s
    /\ Quiet

\* A default-topic subscriber receives every event accepted after it
\* subscribed, whatever its topics, or shutdown starts (lines 128-129).
Multicast ==
    \A s \in Subs : \A n \in 1..MaxEvents :
        (/\ Positions(s, Default) # {} /\ pc[s] \notin {"out", "joining"}
         /\ since[s] < n /\ n <= events)
        ~> (sdStarted \/ \E c \in got[s] : c.ev = n)

\* No sender goroutine lives forever: each one sends or drops its event.
SendersEnd == (ready \cup sending # {}) ~> (ready \cup sending = {})

\* A call of Shutdown returns, even if its context never expires.
ShutdownReturns ==
    \A c \in Closers : shut[c] = "locking" ~> shut[c] \in {"nil", "timeout"}

\* A call of Shutdown returns once its context is done (lines 165-168).
ShutdownObeysContext ==
    \A c \in Closers : c \in expired ~> shut[c] \in {"nil", "timeout"}

\* A call of Unsubscribe returns, whoever makes it (lines 93-96).
UnsubscribeReturns ==
    \A s \in Subs : pc[s] = "leaving" ~> pc[s] = "left"

\* The channel of a subscriber is closed when the bus is shut down (line 57).
SubscriberTold ==
    \A s \in Subs : (sdStarted /\ pc[s] = "reading") ~> s \in closed
=============================================================================
