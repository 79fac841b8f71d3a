---------------------------- MODULE MachineProofs ----------------------------
(***************************************************************************)
(* Proofs about MachineNonce.                                              *)
(***************************************************************************)
EXTENDS MachineNonce, TLAPS

Inv == TypeOK /\ NonceInv /\ OneAttemptPerNonce

\* A new nonce is none that a client holds.
LEMMA RenewIsFresh ==
    ASSUME NEW other \in [value : Nat, spent : BOOLEAN, nil : BOOLEAN],
           TypeOK, NonceInv, Renew(other)
    PROVE  /\ nonce' \in [value : Nat, spent : BOOLEAN, nil : BOOLEAN] /\ issued' \in Nat
           /\ issued <= issued'
           /\ \/ nonce' = other /\ issued' = issued
              \/ /\ nonce'.value = issued' /\ issued' = issued + 1 /\ ~nonce'.spent
                 /\ ~nonce'.nil
<1>1. issued \in Nat BY DEF TypeOK
<1>2. CASE nonce' = New(issued + 1) /\ issued' = issued + 1
  <2>1. /\ nonce' \in [value : Nat, spent : BOOLEAN, nil : BOOLEAN]
        /\ nonce'.value = issued + 1 /\ ~nonce'.spent /\ ~nonce'.nil
    BY <1>1, <1>2 DEF New
  <2> QED BY <1>1, <1>2, <2>1
<1>3. CASE nonce' = other /\ issued' = issued BY <1>1, <1>3
<1> QED BY <1>2, <1>3 DEF Renew

\* A call of Transition.
LEMMA TransitionKeepsInv ==
    ASSUME Inv, NEW c \in Clients, NEW to \in States, Accept(c, to) \/ Refuse(c, to)
    PROVE  Inv'
<1> USE DEF Inv
<1>1. CASE Accept(c, to)
  <2> DEFINE other == [nonce EXCEPT !.spent = TRUE]
  <2>1. /\ NonceOk(c) /\ ~nonce.nil /\ Renew(other) /\ attempts' = attempts + 1
        /\ last' = [call |-> "Transition", moved |-> TRUE, seen |-> seen[c]]
        /\ held' = held /\ seen' = seen /\ failed' = failed /\ stopped' = stopped
        /\ current' = to /\ calls' = calls + 1 /\ dead' = dead /\ stopOnError' = stopOnError
    BY <1>1 DEF Accept, Called
  <2>2. other \in [value : Nat, spent : BOOLEAN, nil : BOOLEAN] /\ other.spent
        /\ other.value = nonce.value /\ other.nil = nonce.nil
    BY DEF TypeOK
  <2> HIDE DEF other
  <2>3. /\ nonce' \in [value : Nat, spent : BOOLEAN, nil : BOOLEAN] /\ issued' \in Nat
        /\ issued <= issued'
        /\ \/ nonce' = other /\ issued' = issued
           \/ /\ nonce'.value = issued' /\ issued' = issued + 1 /\ ~nonce'.spent
              /\ ~nonce'.nil
    BY <2>1, <2>2, RenewIsFresh
  <2>4. TypeOK' BY <2>1, <2>3 DEF TypeOK
  <2>5. OneAttemptPerNonce' BY <2>1 DEF NonceInv, OneAttemptPerNonce
  <2>6. ASSUME NEW d \in Clients
        PROVE  held[d] <= issued' /\ (~nonce'.spent => held[d] # nonce'.value)
    <3>1. held[d] \in Nat /\ held[d] <= issued /\ issued \in Nat BY DEF TypeOK, NonceInv
    <3> QED BY <3>1, <2>2, <2>3
  <2>7. nonce'.value <= issued' /\ (nonce'.nil \/ nonce'.value > 0)
    BY <2>1, <2>2, <2>3 DEF NonceInv, TypeOK
  <2>8. NonceInv' BY <2>1, <2>6, <2>7 DEF NonceInv, NonceOk
  <2> QED BY <2>4, <2>5, <2>8
<1>2. CASE Refuse(c, to)
  <2>1. /\ Renew(Nil) /\ attempts' = attempts + 1
        /\ last' = [call |-> "Transition", moved |-> FALSE, seen |-> seen[c]]
        /\ held' = held /\ seen' = seen /\ failed' = TRUE /\ stopped' = TRUE
        /\ current' = current /\ calls' = calls + 1 /\ dead' = dead
        /\ stopOnError' = stopOnError
    BY <1>2 DEF Refuse, Called
  <2>2. Nil \in [value : Nat, spent : BOOLEAN, nil : BOOLEAN] /\ Nil.nil /\ Nil.value = 0
    BY DEF Nil
  <2>3. /\ nonce' \in [value : Nat, spent : BOOLEAN, nil : BOOLEAN] /\ issued' \in Nat
        /\ issued <= issued'
        /\ \/ nonce' = Nil /\ issued' = issued
           \/ /\ nonce'.value = issued' /\ issued' = issued + 1 /\ ~nonce'.spent
              /\ ~nonce'.nil
    BY <2>1, <2>2, RenewIsFresh
  <2>4. TypeOK' BY <2>1, <2>3 DEF TypeOK
  <2>5. OneAttemptPerNonce' BY <2>1 DEF OneAttemptPerNonce
  <2>6. ASSUME NEW d \in Clients
        PROVE  held[d] <= issued' /\ (~nonce'.nil => held[d] # nonce'.value)
    <3>1. held[d] \in Nat /\ held[d] <= issued /\ issued \in Nat BY DEF TypeOK, NonceInv
    <3> QED BY <3>1, <2>2, <2>3
  <2>7. nonce'.value <= issued' /\ (nonce'.nil \/ nonce'.value > 0)
    BY <2>2, <2>3 DEF TypeOK
  <2>8. NonceInv' BY <2>1, <2>6, <2>7 DEF NonceInv, NonceOk
  <2> QED BY <2>4, <2>5, <2>8
<1> QED BY <1>1, <1>2

\* A call of Reset, which no nonce read before survives unless it stays.
LEMMA ResetKeepsInv == Inv /\ Reset => Inv'
<1> SUFFICES ASSUME Inv, Reset PROVE Inv' OBVIOUS
<1> USE DEF Inv
<1>1. /\ Renew(nonce) /\ attempts' = attempts /\ held' = held /\ seen' = seen
      /\ current' = Initial /\ stopped' = FALSE /\ failed' = FALSE /\ dead' = dead
      /\ stopOnError' = stopOnError /\ calls' = calls + 1 /\ last' = [call |-> "Reset", moved |-> FALSE, seen |-> 0]
  BY DEF Reset
<1>2. nonce \in [value : Nat, spent : BOOLEAN, nil : BOOLEAN] BY DEF TypeOK
<1>3. /\ nonce' \in [value : Nat, spent : BOOLEAN, nil : BOOLEAN] /\ issued' \in Nat
      /\ issued <= issued'
      /\ \/ nonce' = nonce /\ issued' = issued
         \/ /\ nonce'.value = issued' /\ issued' = issued + 1 /\ ~nonce'.spent
            /\ ~nonce'.nil
  BY <1>1, <1>2, RenewIsFresh
<1>4. TypeOK'
  <2>1. calls' \in Nat /\ attempts' \in Nat /\ Initial \in States
    BY <1>1, MachineAssumption DEF TypeOK
  <2>2. last' \in [call : {"New", "Transition", "Reset"}, moved : BOOLEAN, seen : Nat]
    BY <1>1
  <2> QED BY <1>1, <1>3, <2>1, <2>2 DEF TypeOK
<1>5. OneAttemptPerNonce' BY <1>1 DEF OneAttemptPerNonce
<1>6. ASSUME NEW d \in Clients
      PROVE  held[d] <= issued' /\ (nonce' = nonce \/ held[d] # nonce'.value)
  <2>1. held[d] \in Nat /\ held[d] <= issued /\ issued \in Nat BY DEF TypeOK, NonceInv
  <2> QED BY <2>1, <1>3
<1>7. nonce'.value <= issued' /\ (nonce'.nil \/ nonce'.value > 0)
  BY <1>3 DEF NonceInv, TypeOK
<1>8. NonceInv' BY <1>1, <1>6, <1>7 DEF NonceInv, NonceOk
<1> QED BY <1>4, <1>5, <1>8

\* Every step keeps the invariant.
LEMMA InvPreserved == Inv /\ [Next]_vars => Inv'
<1> SUFFICES ASSUME Inv, [Next]_vars PROVE Inv' OBVIOUS
<1>1. ASSUME NEW c \in Clients, ReadNonce(c) PROVE Inv'
  <2>1. nonce.value \in Nat /\ attempts \in Nat /\ nonce.value <= issued
    BY DEF Inv, TypeOK, NonceInv
  <2>2. TypeOK' BY <1>1, <2>1 DEF ReadNonce, Inv, TypeOK, machine
  <2>3. OneAttemptPerNonce' BY <1>1 DEF ReadNonce, Inv, OneAttemptPerNonce
  <2>4. ASSUME NEW d \in Clients
        PROVE  held'[d] <= issued /\ (held'[d] = nonce.value /\ ~nonce.spent => seen'[d] = attempts)
    <3>1. CASE d = c BY <1>1, <2>1, <3>1 DEF ReadNonce, Inv, TypeOK
    <3>2. CASE d # c BY <1>1, <3>2 DEF ReadNonce, Inv, TypeOK, NonceInv, NonceOk
    <3> QED BY <3>1, <3>2
  <2>5. NonceInv' BY <1>1, <2>4 DEF ReadNonce, Inv, NonceInv, NonceOk, machine
  <2> QED BY <2>2, <2>3, <2>5 DEF Inv
<1>2. CASE NilNonce
  BY <1>2 DEF NilNonce, Inv, TypeOK, NonceInv, NonceOk, OneAttemptPerNonce, machine
<1>3. CASE UNCHANGED vars
  BY <1>3 DEF vars, machine, Inv, TypeOK, NonceInv, NonceOk, OneAttemptPerNonce
<1> QED BY <1>1, <1>2, <1>3, TransitionKeepsInv, ResetKeepsInv DEF Next

\* The invariant holds from the start.
LEMMA InvInit == Init => Inv
<1> SUFFICES ASSUME Init PROVE Inv OBVIOUS
<1>1. /\ nonce \in [value : Nat, spent : BOOLEAN, nil : BOOLEAN]
      /\ nonce.value = 1 /\ ~nonce.spent /\ ~nonce.nil /\ issued = 1
  BY DEF Init, New
<1>2. last \in [call : {"New", "Transition", "Reset"}, moved : BOOLEAN, seen : Nat]
      /\ last.call = "New"
  BY DEF Init
<1>3. TypeOK BY <1>1, <1>2, MachineAssumption DEF Init, TypeOK
<1>4. \A c \in Clients : held[c] = 0 BY DEF Init
<1>5. NonceInv BY <1>1, <1>4 DEF Init, NonceInv, NonceOk
<1>6. OneAttemptPerNonce BY <1>2 DEF OneAttemptPerNonce
<1> QED BY <1>3, <1>5, <1>6 DEF Inv

\* A client that holds the valid nonce has read it after every attempt, and a refused
\* attempt stops the machine (nonce.go 60-97).
THEOREM NoncesAreFresh == Spec => []NonceInv
<1>1. Inv => NonceInv BY DEF Inv
<1> QED BY <1>1, InvInit, InvPreserved, PTL DEF Spec

\* Whatever the table, the clients and the failures of the random source, a nonce
\* serves for at most one attempt at a transition (nonce.go 60-97).
THEOREM NonceServesOnce == Spec => []OneAttemptPerNonce
<1>1. Inv => OneAttemptPerNonce BY DEF Inv
<1> QED BY <1>1, InvInit, InvPreserved, PTL DEF Spec

\* And a stoppable machine stays where it is from its first refusal until Reset
\* (options.go 27-45).
THEOREM StoppedUntilReset == Spec => StopsForGood
<1>1. Inv /\ [Next]_vars => [stopOnError /\ failed /\ failed' => current' = current]_vars
  <2> SUFFICES ASSUME Inv, Next, stopOnError, failed, failed' PROVE current' = current
    BY DEF vars, machine
  <2>1. ~NotStopped BY DEF NotStopped, Inv, NonceInv
  <2>2. ASSUME NEW c \in Clients, NEW to \in States, Accept(c, to) \/ Refuse(c, to)
        PROVE  current' = current
    BY <2>1, <2>2 DEF Accept, Refuse
  <2>3. ASSUME NEW c \in Clients, ReadNonce(c) PROVE current' = current
    BY <2>3 DEF ReadNonce, machine
  <2>4. CASE Reset BY <2>4 DEF Reset
  <2>5. CASE NilNonce BY <2>5 DEF NilNonce, machine
  <2> QED BY <2>2, <2>3, <2>4, <2>5 DEF Next
<1> QED BY <1>1, InvInit, InvPreserved, PTL DEF Spec, StopsForGood
=============================================================================
