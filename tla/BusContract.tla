---------------------------- MODULE BusContract ----------------------------
(***************************************************************************)
(* What the event bus promises of every copy of an event, whatever its      *)
(* users do: a copy is queued for its subscriber by Dispatch, put into the  *)
(* subscriber's channel when there is room, and received; a copy is given   *)
(* up only when shutdown has started, and from then on nothing is queued    *)
(* and nothing enters a channel.                                            *)
(***************************************************************************)
CONSTANT Copy          \* the copies, records with at least the field `sub'

VARIABLES queued, channel, received, dropped, down

vars == <<queued, channel, received, dropped, down>>

Seen == queued \cup channel \cup received \cup dropped

Init ==
    /\ queued = {} /\ channel = {} /\ received = {} /\ dropped = {}
    /\ down = FALSE

Accept ==
    /\ ~down
    /\ queued \subseteq queued'
    /\ queued' \subseteq Copy
    /\ (queued' \ queued) \cap Seen = {}
    /\ UNCHANGED <<channel, received, dropped, down>>

Enqueue(c) ==
    /\ ~down
    /\ \A d \in channel : d.sub # c.sub
    /\ queued' = queued \ {c}
    /\ channel' = channel \cup {c}
    /\ UNCHANGED <<received, dropped, down>>

Deliver(c) ==
    /\ channel' = channel \ {c}
    /\ received' = received \cup {c}
    /\ UNCHANGED <<queued, dropped, down>>

Drop(c) ==
    /\ down
    /\ queued' = queued \ {c}
    /\ dropped' = dropped \cup {c}
    /\ UNCHANGED <<channel, received, down>>

Stop ==
    /\ down' = TRUE
    /\ UNCHANGED <<queued, channel, received, dropped>>

Next ==
    \/ Accept \/ Stop
    \/ \E c \in queued : Enqueue(c) \/ Drop(c)
    \/ \E c \in channel : Deliver(c)

Spec == Init /\ [][Next]_vars
=============================================================================
