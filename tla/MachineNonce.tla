---------------------------- MODULE MachineNonce ----------------------------
(***************************************************************************)
(* The state machine of pkg/fsm whose transitions are protected by a nonce *)
(* (fsm.go, nonce.go, options.go), used by several clients that read the     *)
(* nonce first and try a transition later.  The calls themselves are made    *)
(* one at a time, as the machine has no lock.  A nonce is the number of its  *)
(* issue: two of 16 random bytes are taken to differ.  0 is the empty nonce  *)
(* of a client that never read one.                                          *)
(***************************************************************************)
EXTENDS Naturals

CONSTANTS
    States,
    Initial,
    Allowable,     \* State -> the set of States it may change to
    StopOptions,   \* the values of stopOnError to consider
    Clients,
    RandFails,     \* whether crypto/rand may return an error
    MaxCalls       \* bound: calls of Transition and Reset

ASSUME MachineAssumption ==
    /\ Initial \in States /\ Allowable \in [States -> SUBSET States]
    /\ StopOptions \subseteq BOOLEAN /\ RandFails \in BOOLEAN /\ MaxCalls \in Nat

VARIABLES
    stopOnError,   \* m.stoppable.stopOnError, set by WithStoppable
    current,       \* m.current
    stopped,       \* m.stoppable.stopped
    nonce,         \* the nonce, whether its sync.Once is spent, whether it is nil
    issued,        \* the nonces made so far
    held,          \* client -> the nonce it read
    calls,         \* calls made so far
    attempts,      \* history: calls of Transition so far
    seen,          \* history: client -> attempts when it read its nonce
    failed,        \* history: a Transition was refused since the last Reset
    last,          \* history: the last call, and whether it changed the state
    dead           \* a nil nonce was dereferenced: the program has crashed

machine == <<stopOnError, current, stopped>>
vars    == <<machine, nonce, issued, held, calls, attempts, seen, failed, last, dead>>

New(n) == [value |-> n, spent |-> FALSE, nil |-> FALSE]
Nil    == [value |-> 0, spent |-> FALSE, nil |-> TRUE]

Init ==
    /\ stopOnError \in StopOptions /\ current = Initial /\ stopped = FALSE
    /\ nonce = New(1) /\ issued = 1
    /\ held = [c \in Clients |-> 0] /\ seen = [c \in Clients |-> 0]
    /\ calls = 0 /\ attempts = 0 /\ failed = FALSE /\ dead = FALSE
    /\ last = [call |-> "New", moved |-> FALSE, seen |-> 0]

-----------------------------------------------------------------------------
\* newNonce: a fresh nonce, or what the caller is left with if rand fails.
Renew(otherwise) ==
    \/ nonce' = New(issued + 1) /\ issued' = issued + 1
    \/ RandFails /\ nonce' = otherwise /\ issued' = issued

\* Nonce(): dereferences the nonce.
ReadNonce(c) ==
    /\ ~nonce.nil
    /\ held' = [held EXCEPT ![c] = nonce.value]
    /\ seen' = [seen EXCEPT ![c] = attempts]
    /\ UNCHANGED <<machine, nonce, issued, calls, attempts, failed, last, dead>>

\* The guards of a transition, in their order: the stop condition, and the
\* nonce, whose sync.Once compares it a single time.
NotStopped == ~(stopOnError /\ stopped)

NonceOk(c) == ~nonce.spent /\ held[c] = nonce.value

Allowed(to) == to \in Allowable[current]

Called(c, moved) ==
    /\ calls < MaxCalls /\ ~nonce.nil
    /\ calls' = calls + 1 /\ attempts' = attempts + 1
    /\ last' = [call |-> "Transition", moved |-> moved, seen |-> seen[c]]

\* Transition(to, nonce) that is carried out.  If then no nonce can be made the
\* old one stays, spent, and an error is returned.
Accept(c, to) ==
    /\ NotStopped /\ NonceOk(c) /\ Allowed(to)
    /\ Called(c, TRUE)
    /\ current' = to
    /\ Renew([nonce EXCEPT !.spent = TRUE])
    /\ UNCHANGED <<stopOnError, stopped, held, seen, failed, dead>>

\* Mutant of Refuse: an attempt that fails leaves the nonce alone.
RefuseKeepingNonce(c, to) ==
    /\ ~(NotStopped /\ NonceOk(c) /\ Allowed(to))
    /\ Called(c, FALSE)
    /\ stopped' = TRUE /\ failed' = TRUE
    /\ UNCHANGED <<stopOnError, current, nonce, issued, held, seen, dead>>

\* Mutant of Refuse: a wrong nonce does not stop the machine.
RefuseUnstopped(c, to) ==
    /\ ~(NotStopped /\ NonceOk(c) /\ Allowed(to))
    /\ Called(c, FALSE)
    /\ stopped' = (stopped \/ ~NotStopped \/ NonceOk(c)) /\ failed' = TRUE
    /\ Renew(Nil)
    /\ UNCHANGED <<stopOnError, current, held, seen, dead>>

\* Transition(to, nonce) that a guard or the table refuses.  The nonce is
\* replaced, by nil if no other can be made.
Refuse(c, to) ==
    /\ ~(NotStopped /\ NonceOk(c) /\ Allowed(to))
    /\ Called(c, FALSE)
    /\ stopped' = TRUE /\ failed' = TRUE
    /\ Renew(Nil)
    /\ UNCHANGED <<stopOnError, current, held, seen, dead>>

\* Transition and Nonce with a nil nonce.
NilNonce ==
    /\ nonce.nil /\ dead' = TRUE
    /\ UNCHANGED <<machine, nonce, issued, held, calls, attempts, seen, failed, last>>

\* Reset: without a new nonce the old one stays, whatever it is.
Reset ==
    /\ calls < MaxCalls /\ calls' = calls + 1
    /\ current' = Initial /\ stopped' = FALSE /\ failed' = FALSE
    /\ Renew(nonce)
    /\ last' = [call |-> "Reset", moved |-> FALSE, seen |-> 0]
    /\ UNCHANGED <<stopOnError, held, attempts, seen, dead>>

Next ==
    /\ ~dead
    /\ \/ \E c \in Clients :
             \/ ReadNonce(c)
             \/ \E to \in States : Accept(c, to) \/ Refuse(c, to)
       \/ Reset \/ NilNonce

Spec == Init /\ [][Next]_vars
-----------------------------------------------------------------------------
(* Properties *)

\* Each variable has its type.
TypeOK ==
    /\ stopOnError \in BOOLEAN /\ current \in States /\ stopped \in BOOLEAN
    /\ nonce \in [value : Nat, spent : BOOLEAN, nil : BOOLEAN]
    /\ issued \in Nat /\ calls \in Nat /\ attempts \in Nat
    /\ held \in [Clients -> Nat] /\ seen \in [Clients -> Nat]
    /\ failed \in BOOLEAN /\ dead \in BOOLEAN
    /\ last \in [call : {"New", "Transition", "Reset"}, moved : BOOLEAN, seen : Nat]

\* What OneAttemptPerNonce and StopsForGood rest on: a client that holds a
\* nonce which would be accepted has read it after every attempt made so far, and
\* a machine that refused an attempt is stopped.
NonceInv ==
    /\ nonce.value <= issued /\ (nonce.nil \/ nonce.value > 0)
    /\ \A c \in Clients :
          /\ held[c] <= issued
          /\ NonceOk(c) /\ ~nonce.nil => seen[c] = attempts
    /\ failed => stopped

\* A transition is carried out only for a client that has read the nonce since
\* the last attempt, its own or another's, successful or refused: a nonce serves
\* for one attempt at most (nonce.go 60-73, 88-97).
OneAttemptPerNonce ==
    last.call = "Transition" /\ last.moved => last.seen + 1 = attempts

\* A stoppable machine keeps its state from the first refused attempt, whatever
\* the reason, until Reset (options.go 27-45, fsm.go 73-90).
StopsForGood ==
    [][stopOnError /\ failed /\ failed' => current' = current]_vars

\* Further transitions of a stopped machine return an error (options.go 27-28).
ReturnsErrors == ~dead
=============================================================================
