--------------------------- MODULE EventBusProofs ---------------------------
(***************************************************************************)
(* Proofs about EventBus, for any number of subscribers, topics, events    *)
(* and calls, and about the tickers on it.                                 *)
(***************************************************************************)
EXTENDS Ticker, TLAPS

\* What Subscribe registers is a sequence of topics.
LEMMA RegistrationsType ==
    ASSUME NEW s \in Subs
    PROVE  /\ Registrations(s) \in Seq(Topics)
           /\ \A t \in Topics : Positions(s, t) \subseteq Nat
<1>1. Registrations(s) \in Seq(Topics)
  BY BusAssumption DEF Registrations
<1>2. DOMAIN Registrations(s) \subseteq Nat
  BY <1>1
<1> QED
  BY <1>1, <1>2 DEF Positions

\* What Dispatch makes are copies for registered subscribers.
LEMMA FanoutType ==
    ASSUME TypeOK, NEW ts \in TopicLists
    PROVE  Fanout(ts) \subseteq Copies
<1> DEFINE all == Append(ts, Default)
<1>1. all \in Seq(Topics)
  BY BusAssumption
<1>2. ASSUME NEW j \in DOMAIN all, NEW r \in subscribers[all[j]]
      PROVE  [ev |-> events + 1, at |-> j, sub |-> r[1], reg |-> r[2]] \in Copies
  <2>1. all[j] \in Topics /\ j \in Nat
    BY <1>1
  <2> HIDE DEF all
  <2>2. r \in Subs \X Nat
    BY <2>1 DEF TypeOK
  <2>3. events + 1 \in Nat
    BY BusAssumption DEF TypeOK
  <2> QED
    BY <2>1, <2>2, <2>3 DEF Copies
<1> HIDE DEF all
<1> QED
  BY <1>2 DEF Fanout, all

-----------------------------------------------------------------------------
\* A step of any goroutine keeps the types and the capacity of the channels.
LEMMA TypeStep == TypeOK /\ [Next]_vars => TypeOK'
<1> SUFFICES ASSUME TypeOK, [Next]_vars PROVE TypeOK'
  OBVIOUS
<1> USE DEF TypeOK, busVars, copyVars, subVars, shutVars
<1>1. ASSUME NEW s \in Subs, SubscribeLock(s) PROVE TypeOK'
  BY <1>1 DEF SubscribeLock
<1>2. ASSUME NEW s \in Subs, Subscribe(s) PROVE TypeOK'
  <2>1. \A t \in Topics : {s} \X Positions(s, t) \subseteq Subs \X Nat
    BY RegistrationsType
  <2> QED
    BY <1>2, <2>1 DEF Subscribe
<1>3. ASSUME NEW s \in Subs, UnsubscribeLock(s) PROVE TypeOK'
  BY <1>3 DEF UnsubscribeLock
<1>4. ASSUME NEW s \in Subs, Unsubscribe(s) PROVE TypeOK'
  <2>1. CloseTwice(s) \in BOOLEAN
    BY DEF CloseTwice
  <2> QED
    BY <1>4, <2>1 DEF Unsubscribe
<1>5. ASSUME NEW s \in Subs, Receive(s) PROVE TypeOK'
  BY <1>5 DEF Receive
<1>6. ASSUME NEW s \in Subs, Handled(s) PROVE TypeOK'
  BY <1>6 DEF Handled
<1>7. ASSUME NEW s \in Subs, SeeClosed(s) PROVE TypeOK'
  BY <1>7 DEF SeeClosed
<1>8. ASSUME NEW s \in Subs, Finish(s) PROVE TypeOK'
  BY <1>8 DEF Finish
<1>19. ASSUME NEW s \in Subs, FinishAfterLeaving(s) PROVE TypeOK'
  BY <1>19 DEF FinishAfterLeaving
<1>9. ASSUME NEW ts \in TopicLists, Dispatch(ts) PROVE TypeOK'
  <2>1. Fanout(ts) \subseteq Copies
    BY FanoutType
  <2>2. events' \in 0..MaxEvents
    BY <1>9, BusAssumption DEF Dispatch
  <2> QED
    BY <1>9, <2>1, <2>2 DEF Dispatch
<1>10. ASSUME NEW c \in ready, SenderLock(c) PROVE TypeOK'
  BY <1>10 DEF SenderLock
<1>11. ASSUME NEW c \in ready, SenderDrop(c) PROVE TypeOK'
  BY <1>11 DEF SenderDrop
<1>12. ASSUME NEW c \in sending, Send(c) PROVE TypeOK'
  <2>1. c \in Copies /\ c.sub \in Subs
    BY DEF Copies
  <2> QED
    BY <1>12, <2>1 DEF Send
<1>13. ASSUME NEW c \in sending, SendOnClosed(c) PROVE TypeOK'
  BY <1>13 DEF SendOnClosed
<1>14. ASSUME NEW c \in Closers, ShutdownLock(c) PROVE TypeOK'
  BY <1>14 DEF ShutdownLock
<1>15. ASSUME NEW c \in Closers, Shutdown(c) PROVE TypeOK'
  BY <1>15 DEF Shutdown
<1>16. ASSUME NEW c \in Closers, Expire(c) PROVE TypeOK'
  BY <1>16 DEF Expire
<1>17. ASSUME NEW c \in Closers, ShutdownReturn(c) PROVE TypeOK'
  BY <1>17 DEF ShutdownReturn
<1>18. CASE UNCHANGED vars
  BY <1>18 DEF vars
<1> QED
  BY <1>1, <1>2, <1>3, <1>4, <1>5, <1>6, <1>7, <1>8, <1>9, <1>10, <1>11, <1>12,
     <1>13, <1>14, <1>15, <1>16, <1>17, <1>18, <1>19
     DEF Next, SubStep, SendStep, ShutdownStep, Terminated

\* Type correctness, for any use of the bus: in particular a channel never
\* holds more than the one event it has room for.
THEOREM TypeCorrect == Spec => []TypeOK
<1>1. Init => TypeOK
  <2>1. 0 \in 0..MaxEvents
    BY BusAssumption
  <2> SUFFICES ASSUME Init PROVE TypeOK
    OBVIOUS
  <2>2. subscribers \in [Topics -> SUBSET (Subs \X Nat)]
    BY DEF Init
  <2>3. /\ buf \in [Subs -> SUBSET Copies] /\ got \in [Subs -> SUBSET Copies]
        /\ since \in [Subs -> 0..MaxEvents]
        /\ \A s \in Subs : buf[s] = {}
    BY <2>1 DEF Init
  <2>4. notify \in [Closers -> SUBSET Subs]
    BY DEF Init
  <2>5. sdStarted \in BOOLEAN /\ panic \in BOOLEAN
    BY DEF Init
  <2>6. events \in 0..MaxEvents
    BY <2>1 DEF Init
  <2> QED
    BY <2>2, <2>3, <2>4, <2>5, <2>6 DEF Init, TypeOK
<1> QED
  BY <1>1, TypeStep, PTL DEF Spec

-----------------------------------------------------------------------------
(***************************************************************************)
(* The bus used well.  BusInv adds to NoPanic and CleanShutdown what their  *)
(* induction needs: no sender holds the read lock once shutdown started,    *)
(* channels are closed by Shutdown alone, which is still to come while its   *)
(* caller waits for the lock; a channel is registered once; a subscriber     *)
(* calls its ShutdownFunc after it drained its closed channel.               *)
(***************************************************************************)

\* A step by a well-used bus keeps BusInv, which EventBus states and TLC checks.
LEMMA BusStep ==
    ASSUME WellUsed, TypeOK, TypeOK', BusInv, [Next]_vars
    PROVE  BusInv'
<1> USE DEF TypeOK, BusInv, Quiet, ClosedByShutdown, Once, RegisteredOnce,
            Drained, NobodyLeaves, AllTold, NoPanic, busVars, copyVars, subVars,
            shutVars
<1>1. ASSUME NEW s \in Subs, SubscribeLock(s) PROVE BusInv'
  BY <1>1 DEF SubscribeLock
<1>2. ASSUME NEW s \in Subs, Subscribe(s) PROVE BusInv'
  <2>1. \A t \in Topics : \A i \in Positions(s, t) :
            i = 1 /\ t = Registrations(s)[1]
    BY RegistrationsType DEF WellUsed, Positions
  <2>2. RegisteredOnce'
    BY <1>2, <2>1 DEF Subscribe
  <2> QED
    BY <1>2, <2>2 DEF Subscribe
<1>3. ASSUME NEW s \in Subs, UnsubscribeLock(s) PROVE BusInv'
  BY <1>3 DEF UnsubscribeLock, WellUsed
<1>4. ASSUME NEW s \in Subs, Unsubscribe(s) PROVE BusInv'
  BY <1>4 DEF Unsubscribe
<1>5. ASSUME NEW s \in Subs, Receive(s) PROVE BusInv'
  BY <1>5 DEF Receive
<1>6. ASSUME NEW s \in Subs, Handled(s) PROVE BusInv'
  BY <1>6 DEF Handled
<1>7. ASSUME NEW s \in Subs, SeeClosed(s) PROVE BusInv'
  BY <1>7 DEF SeeClosed
<1>8. ASSUME NEW s \in Subs, Finish(s) PROVE BusInv'
  BY <1>8 DEF Finish
<1>19. ASSUME NEW s \in Subs, FinishAfterLeaving(s) PROVE BusInv'
  BY <1>19 DEF FinishAfterLeaving
<1>9. ASSUME NEW ts \in TopicLists, Dispatch(ts) PROVE BusInv'
  BY <1>9 DEF Dispatch
<1>10. ASSUME NEW c \in ready, SenderLock(c) PROVE BusInv'
  BY <1>10 DEF SenderLock
<1>11. ASSUME NEW c \in ready, SenderDrop(c) PROVE BusInv'
  BY <1>11 DEF SenderDrop
<1>12. ASSUME NEW c \in sending, Send(c) PROVE BusInv'
  <2>1. c.sub \in Subs
    BY DEF Copies
  <2> QED
    BY <1>12, <2>1 DEF Send
<1>13. ASSUME NEW c \in sending, SendOnClosed(c) PROVE BusInv'
  <2>1. closed # {} /\ sending # {}
    BY <1>13 DEF SendOnClosed
  <2> QED
    BY <2>1
<1>14. ASSUME NEW c \in Closers, ShutdownLock(c) PROVE BusInv'
  BY <1>14 DEF ShutdownLock, WellUsed
<1>15. ASSUME NEW c \in Closers, Shutdown(c) PROVE BusInv'
  <2>1. ~sdStarted /\ closed = {}
    BY <1>15 DEF Shutdown
  <2>2. \A s \in Subs : ~CloseTwice(s)
    <3> SUFFICES ASSUME NEW s \in Subs,
                        NEW t \in Topics, NEW u \in Topics,
                        NEW q \in subscribers[t], NEW r \in subscribers[u],
                        q[1] = s, r[1] = s
                 PROVE  <<t, q>> = <<u, r>>
      BY <2>1 DEF CloseTwice
    <3>1. q \in Subs \X Nat /\ r \in Subs \X Nat
      OBVIOUS
    <3>2. q[2] = 1 /\ r[2] = 1 /\ t = u
      OBVIOUS
    <3> QED
      BY <3>1, <3>2
  <2>3. ~panic'
    BY <1>15, <2>2 DEF Shutdown
  <2>4. \A d \in Closers : d = c
    BY DEF WellUsed
  <2>5. Once' /\ Quiet' /\ ClosedByShutdown'
    BY <1>15, <2>4 DEF Shutdown
  <2>6. Drained' /\ RegisteredOnce' /\ NobodyLeaves'
    BY <1>15 DEF Shutdown
  <2>7. AllTold'
    BY <1>15, <2>4 DEF Shutdown
  <2> QED
    BY <2>3, <2>5, <2>6, <2>7
<1>16. ASSUME NEW c \in Closers, Expire(c) PROVE BusInv'
  BY <1>16 DEF Expire
<1>17. ASSUME NEW c \in Closers, ShutdownReturn(c) PROVE BusInv'
  BY <1>17 DEF ShutdownReturn, Notified
<1>18. CASE UNCHANGED vars
  BY <1>18 DEF vars
<1> QED
  BY <1>1, <1>2, <1>3, <1>4, <1>5, <1>6, <1>7, <1>8, <1>9, <1>10, <1>11, <1>12,
     <1>13, <1>14, <1>15, <1>16, <1>17, <1>18, <1>19
     DEF Next, SubStep, SendStep, ShutdownStep, Terminated

\* In every state of a well-used bus no sender is in its send once shutdown has
\* started, each channel is registered once, and done channels are closed only after
\* the events were drained (bus.go 68-91, 151-191).
THEOREM BusInvariant == ASSUME WellUsed PROVE Spec => []BusInv
<1>1. Init => BusInv
  BY DEF Init, BusInv, NoPanic, Quiet, ClosedByShutdown, Once, RegisteredOnce,
         Drained, NobodyLeaves, AllTold
<1>2. TypeOK /\ TypeOK' /\ BusInv /\ [Next]_vars => BusInv'
  BY BusStep
<1> QED
  BY <1>1, <1>2, TypeCorrect, PTL DEF Spec

\* No interleaving of senders, subscribers and one call of Shutdown sends on a
\* closed channel or closes a channel twice, if nobody calls Unsubscribe and
\* each subscriber names one topic.
THEOREM PanicFree == ASSUME WellUsed PROVE Spec => []NoPanic
<1>1. BusInv => NoPanic
  BY DEF BusInv
<1> QED
  BY <1>1, BusInvariant, PTL

\* Shutdown returns nil only after every subscriber it told has drained its
\* channel and called its ShutdownFunc.
THEOREM ShutdownIsClean == ASSUME WellUsed PROVE Spec => []CleanShutdown
<1>1. TypeOK /\ BusInv => CleanShutdown
  BY DEF TypeOK, BusInv, Drained, AllTold, CleanShutdown
<1> QED
  BY <1>1, BusInvariant, TypeCorrect, PTL

-----------------------------------------------------------------------------
(***************************************************************************)
(* The contract, for any use of the bus.                                    *)
(***************************************************************************)
\* Dispatch numbers its copies with the event it accepts.
LEMMA FanoutFresh ==
    ASSUME NEW ts, NEW c \in Fanout(ts)
    PROVE  c.ev = events + 1
BY DEF Fanout

\* Every step keeps what the contract rests on.
LEMMA CopyStep == TypeOK /\ CopyInv /\ [Next]_vars => CopyInv'
<1> SUFFICES ASSUME TypeOK, CopyInv, [Next]_vars PROVE CopyInv'
  OBVIOUS
<1> USE DEF CopyInv, Everywhere, AllBuffered, AllGot, Quiet, TypeOK
<1>1. ASSUME UNCHANGED copyVars, UNCHANGED sdStarted PROVE CopyInv'
  BY <1>1 DEF copyVars
<1>2. ASSUME NEW s \in Subs, Receive(s) PROVE CopyInv'
  BY <1>2 DEF Receive, busVars
<1>3. ASSUME NEW ts \in TopicLists, Dispatch(ts) PROVE CopyInv'
  <2>1. events \in Nat /\ events' = events + 1
    BY <1>3, BusAssumption DEF Dispatch
  <2>2. \A c \in Everywhere : c.ev \in Nat /\ c.ev <= events
    BY DEF Everywhere, Copies
  <2>3. \A c \in Everywhere : c.ev <= events'
    BY <2>1, <2>2
  <2>4. \A c \in Fanout(ts) : c.ev = events'
    BY <2>1, FanoutFresh
  <2>5. sending \cap Fanout(ts) = {}
    BY <2>1, <2>2, <2>4 DEF Everywhere
  <2>6. UNCHANGED <<sending, buf, got, dropped, sdStarted>>
    BY <1>3 DEF Dispatch, busVars
  <2>7. ready' = ready \cup Fanout(ts)
    BY <1>3 DEF Dispatch
  <2>8. (ready \cap sending = {})'
    BY <2>5, <2>6, <2>7
  <2>9. \A c \in Everywhere' : c.ev <= events'
    BY <2>1, <2>3, <2>4, <2>6, <2>7 DEF Everywhere
  <2> QED
    BY <2>6, <2>8, <2>9 DEF Everywhere
<1>4. ASSUME NEW c \in ready, SenderLock(c) PROVE CopyInv'
  BY <1>4 DEF SenderLock, busVars
<1>5. ASSUME NEW c \in ready, SenderDrop(c) PROVE CopyInv'
  BY <1>5 DEF SenderDrop, busVars
<1>6. ASSUME NEW c \in sending, Send(c) PROVE CopyInv'
  BY <1>6 DEF Send, busVars
<1>7. ASSUME NEW c \in Closers, Shutdown(c) PROVE CopyInv'
  BY <1>7 DEF Shutdown, copyVars
<1> QED
  BY <1>1, <1>2, <1>3, <1>4, <1>5, <1>6, <1>7
     DEF Next, SubStep, SendStep, ShutdownStep, Terminated, vars, busVars,
         SubscribeLock, Subscribe, UnsubscribeLock, Unsubscribe, Handled, SeeClosed,
         Finish, FinishAfterLeaving, SendOnClosed, ShutdownLock, Expire, ShutdownReturn

\* However the bus is used, a copy is in one place at a time and no sender is inside
\* its send once shutdown has started (bus.go 151-160, 170-173).
THEOREM CopiesAreApart == Spec => []CopyInv
<1>1. Init => CopyInv
  BY DEF Init, CopyInv, Quiet, Everywhere, AllBuffered, AllGot
<1> QED
  BY <1>1, CopyStep, TypeCorrect, PTL DEF Spec

-----------------------------------------------------------------------------
(***************************************************************************)
(* No duplicates.  A well-used bus registers a channel once, so a Dispatch   *)
(* whose list does not repeat a topic makes one copy for each channel.       *)
(***************************************************************************)

\* Dispatch is called with different topics, and without the default one.
NoRepeats ==
    \A ts \in TopicLists :
        \A j, k \in DOMAIN Append(ts, Default) :
            Append(ts, Default)[j] = Append(ts, Default)[k] => j = k

\* The copies that one call makes are for different channels.
LEMMA FanoutOnce ==
    ASSUME NoRepeats, RegisteredOnce, NEW ts \in TopicLists,
           NEW c \in Fanout(ts), NEW d \in Fanout(ts), c.sub = d.sub
    PROVE  c = d
<1> DEFINE all == Append(ts, Default)
<1>0. \A j \in DOMAIN all : all[j] \in Topics
  <2>1. ts \in Seq(Topics) /\ Default \in Topics
    BY BusAssumption
  <2> QED
    BY <2>1
<1>1. \A j, k \in DOMAIN all : all[j] = all[k] => j = k
  BY DEF NoRepeats
<1> HIDE DEF all
<1>2. PICK j \in DOMAIN all : \E q \in subscribers[all[j]] :
         c = [ev |-> events + 1, at |-> j, sub |-> q[1], reg |-> q[2]]
  BY DEF Fanout, all
<1>3. PICK k \in DOMAIN all : \E r \in subscribers[all[k]] :
         d = [ev |-> events + 1, at |-> k, sub |-> r[1], reg |-> r[2]]
  BY DEF Fanout, all
<1>4. PICK q \in subscribers[all[j]] :
         c = [ev |-> events + 1, at |-> j, sub |-> q[1], reg |-> q[2]]
  BY <1>2
<1>5. PICK r \in subscribers[all[k]] :
         d = [ev |-> events + 1, at |-> k, sub |-> r[1], reg |-> r[2]]
  BY <1>3
<1>6. q[1] = r[1]
  BY <1>4, <1>5
<1>7. all[j] = Registrations(q[1])[1] /\ q[2] = 1
  BY <1>0 DEF RegisteredOnce
<1>8. all[k] = Registrations(r[1])[1] /\ r[2] = 1
  BY <1>0 DEF RegisteredOnce
<1>9. j = k
  BY <1>1, <1>6, <1>7, <1>8
<1> QED
  BY <1>4, <1>5, <1>6, <1>7, <1>8, <1>9

\* Only Dispatch makes copies.
LEMMA CopiesFrom ==
    ASSUME TypeOK, [Next]_vars, ~\E ts \in TopicLists : Dispatch(ts)
    PROVE  Everywhere' \subseteq Everywhere
<1> USE DEF Everywhere, AllBuffered, AllGot, TypeOK
<1>1. ASSUME UNCHANGED copyVars PROVE Everywhere' \subseteq Everywhere
  BY <1>1 DEF copyVars
<1>2. ASSUME NEW s \in Subs, Receive(s) PROVE Everywhere' \subseteq Everywhere
  BY <1>2 DEF Receive
<1>3. ASSUME NEW c \in ready, SenderLock(c) \/ SenderDrop(c)
      PROVE  Everywhere' \subseteq Everywhere
  BY <1>3 DEF SenderLock, SenderDrop
<1>4. ASSUME NEW c \in sending, Send(c) PROVE Everywhere' \subseteq Everywhere
  BY <1>4 DEF Send
<1> QED
  BY <1>1, <1>2, <1>3, <1>4
     DEF Next, SubStep, SendStep, ShutdownStep, Terminated, vars, SubscribeLock,
         Subscribe, UnsubscribeLock, Unsubscribe, Handled, SeeClosed, Finish,
         FinishAfterLeaving,
         SendOnClosed, ShutdownLock, Shutdown, Expire, ShutdownReturn

\* Every step keeps copies of one event for one channel from being two.
LEMMA OnceStep ==
    ASSUME NoRepeats, TypeOK, BusInv, CopyInv, AtMostOnce, [Next]_vars
    PROVE  AtMostOnce'
<1>1. CASE ~\E ts \in TopicLists : Dispatch(ts)
  BY <1>1, CopiesFrom DEF AtMostOnce
<1>2. ASSUME NEW ts \in TopicLists, Dispatch(ts) PROVE AtMostOnce'
  <2>1. Everywhere' = Everywhere \cup Fanout(ts)
    BY <1>2 DEF Dispatch, Everywhere, AllBuffered, AllGot
  <2>2. events \in Nat /\ \A c \in Everywhere : c.ev \in Nat /\ c.ev <= events
    BY BusAssumption DEF TypeOK, CopyInv, Everywhere, AllBuffered, AllGot, Copies
  <2>3. \A c \in Fanout(ts) : c.ev = events + 1
    BY FanoutFresh
  <2>4. ASSUME NEW c \in Everywhere, NEW d \in Fanout(ts) PROVE c.ev # d.ev
    BY <2>2, <2>3
  <2>5. \A c, d \in Fanout(ts) : c.sub = d.sub => c = d
    BY FanoutOnce DEF BusInv
  <2> QED
    BY <2>1, <2>4, <2>5 DEF AtMostOnce
<1> QED
  BY <1>1, <1>2

\* Nobody gets an event twice, for any number of subscribers, topics and events, if
\* the bus is used well and no Dispatch repeats a topic (bus.go 128-161).
THEOREM AtMostOnceAlways == ASSUME WellUsed, NoRepeats PROVE Spec => []AtMostOnce
<1>1. Init => AtMostOnce
  BY DEF Init, AtMostOnce, Everywhere, AllBuffered, AllGot
<1>2. TypeOK /\ BusInv /\ CopyInv /\ AtMostOnce /\ [Next]_vars => AtMostOnce'
  BY OnceStep
<1> QED
  BY <1>1, <1>2, TypeCorrect, BusInvariant, CopiesAreApart, PTL DEF Spec

-----------------------------------------------------------------------------
(* The steps of the bus as steps of the contract *)

\* The steps that touch no copy and do not start the shutdown are invisible.
LEMMA Invisible ==
    ASSUME UNCHANGED copyVars, UNCHANGED sdStarted
    PROVE  UNCHANGED Contract!vars
BY DEF copyVars, Contract!vars, AllBuffered, AllGot

\* Every step of the bus is a step of the contract, or invisible to it.
LEMMA ContractStep ==
    ASSUME TypeOK, CopyInv, [Next]_vars
    PROVE  [Contract!Next]_Contract!vars
<1> USE DEF CopyInv, TypeOK
<1>1. ASSUME NEW s \in Subs, Receive(s) PROVE Contract!Next
  <2>1. PICK c \in buf[s] :
           /\ buf' = [buf EXCEPT ![s] = @ \ {c}]
           /\ got' = [got EXCEPT ![s] = @ \cup {c}]
    BY <1>1 DEF Receive
  <2>2. c \in AllBuffered /\ AllBuffered' = AllBuffered \ {c}
    BY <2>1 DEF AllBuffered
  <2>3. AllGot' = AllGot \cup {c}
    BY <2>1 DEF AllGot
  <2>4. Contract!Deliver(c)
    BY <1>1, <2>2, <2>3 DEF Contract!Deliver, Receive, busVars
  <2> QED
    BY <2>2, <2>4 DEF Contract!Next
<1>2. ASSUME NEW ts \in TopicLists, Dispatch(ts) PROVE Contract!Next
  <2>1. events \in Nat
    BY BusAssumption
  <2>2. \A c \in Everywhere : c.ev \in Nat /\ c.ev <= events
    BY DEF Everywhere, Copies, AllBuffered, AllGot
  <2>3. Fanout(ts) \cap Everywhere = {}
    BY <2>1, <2>2, FanoutFresh
  <2>4. Fanout(ts) \subseteq Copies
    BY FanoutType
  <2>5. Contract!Accept
    BY <1>2, <2>3, <2>4
       DEF Contract!Accept, Contract!Seen, Dispatch, Everywhere, busVars, AllBuffered,
           AllGot
  <2> QED
    BY <2>5 DEF Contract!Next
<1>3. ASSUME NEW c \in ready, SenderLock(c) PROVE UNCHANGED Contract!vars
  BY <1>3 DEF SenderLock, busVars, Contract!vars, AllBuffered, AllGot
<1>4. ASSUME NEW c \in ready, SenderDrop(c) PROVE Contract!Next
  <2>1. Contract!Drop(c)
    BY <1>4 DEF SenderDrop, Contract!Drop, busVars, AllBuffered, AllGot
  <2> QED
    BY <2>1 DEF Contract!Next
<1>5. ASSUME NEW c \in sending, Send(c) PROVE Contract!Next
  <2>1. c.sub \in Subs
    BY DEF Copies
  <2>2. ~sdStarted
    BY DEF Quiet
  <2>3. \A d \in AllBuffered : d.sub # c.sub
    BY <1>5, <2>1 DEF Send, AllBuffered
  <2>4. AllBuffered' = AllBuffered \cup {c}
    BY <1>5, <2>1 DEF Send, AllBuffered
  <2>5. Contract!Enqueue(c)
    BY <1>5, <2>2, <2>3, <2>4 DEF Send, Contract!Enqueue, busVars, AllGot
  <2> QED
    BY <2>5 DEF Contract!Next
<1>6. ASSUME NEW c \in Closers, Shutdown(c) PROVE Contract!Next
  <2>1. Contract!Stop
    BY <1>6 DEF Shutdown, Contract!Stop, copyVars, AllBuffered, AllGot
  <2> QED
    BY <2>1 DEF Contract!Next
<1> QED
  BY <1>1, <1>2, <1>3, <1>4, <1>5, <1>6, Invisible
     DEF Next, SubStep, SendStep, ShutdownStep, Terminated, vars, busVars,
         SubscribeLock, Subscribe, UnsubscribeLock, Unsubscribe, Handled, SeeClosed,
         Finish, FinishAfterLeaving, SendOnClosed, ShutdownLock, Expire, ShutdownReturn

\* The bus implements its contract however it is used: no copy is lost or
\* delivered twice, none is given up before shutdown started, and none enters a
\* channel after it.
THEOREM BusKeepsContract == Spec => KeepsContract
<1>1. Init => Contract!Init
  BY DEF Init, Contract!Init, AllBuffered, AllGot
<1>2. TypeOK /\ CopyInv /\ [Next]_vars => [Contract!Next]_Contract!vars
  BY ContractStep
<1> QED
  BY <1>1, <1>2, CopiesAreApart, TypeCorrect, PTL DEF Spec, KeepsContract, Contract!Spec

-----------------------------------------------------------------------------
(* With tickers on it the bus is still the bus. *)

\* A ticker only receives, calls its ShutdownFunc and calls Dispatch: every step
\* of the bus with tickers is a step of the bus or invisible to it.
LEMMA TickersUseTheBus == TickerSpec => Spec
<1>1. TickerInit => Init
  BY DEF TickerInit
<1>2. [TickerNext]_tvars => [Next]_vars
  <2> SUFFICES ASSUME [TickerNext]_tvars PROVE [Next]_vars
    OBVIOUS
  <2>1. CASE UNCHANGED tvars
    BY <2>1 DEF tvars
  <2>2. ASSUME NEW s \in Subs, TickerStep(s), ~panic PROVE Next
    BY <2>2 DEF TickerStep, Next
  <2>3. ASSUME NEW s \in Subs, Fire(s) \/ Tick(s) PROVE UNCHANGED vars
    BY <2>3 DEF Fire, Tick
  <2>4. ASSUME NEW s \in Subs, TickDispatch(s), ~panic PROVE [Next]_vars
    BY <2>4, TickerAssumption DEF TickDispatch, Next
  <2> QED
    BY <2>1, <2>2, <2>3, <2>4 DEF TickerNext, Next
<1> QED
  BY <1>1, <1>2, PTL DEF TickerSpec, Spec

\* A well-used bus with tickers never panics, however they tick while it shuts
\* down.
THEOREM TickersPanicFree == ASSUME WellUsed PROVE TickerSpec => []NoPanic
BY TickersUseTheBus, PanicFree
=============================================================================
