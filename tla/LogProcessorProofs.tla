------------------------- MODULE LogProcessorProofs -------------------------
(***************************************************************************)
(* Proofs about LogProcessor.                                              *)
(***************************************************************************)
EXTENDS LogProcessor, SequenceProofs

\* The part of TypeOK that the histories rest on.
QueueType ==
    /\ hist \in Nat /\ read \in [AllSources -> Nat]
    /\ queue \in [AllSources -> Seq(Nat)]

\* Queue.Add keeps the latest lines.
LEMMA AddKeepsLatest ==
    ASSUME hist \in Nat, NEW q \in Seq(Nat), NEW n \in Nat,
           ~PopPanics(q), Latest(q, n)
    PROVE  Add(q, n + 1) \in Seq(Nat) /\ Latest(Add(q, n + 1), n + 1)
<1>0. /\ EndsWith(q, n) /\ Len(q) <= hist /\ Len(q) <= n
      /\ Len(q) >= n \/ Len(q) >= hist
  BY DEF Latest
<1>1. CASE Len(q) < hist
  <2>1. Append(q, n + 1) \in Seq(Nat) BY <1>0, AppendsNext
  <2>2. PICK g \in Seq(Nat) : g = Append(q, n + 1) BY <2>1
  <2>3. Len(g) - Len(q) = 1 /\ EndsWith(g, n + 1) BY <1>0, <2>2, AppendsNext
  <2>4. /\ Len(g) <= hist /\ Len(g) <= n + 1
        /\ Len(g) >= n + 1 \/ Len(g) >= hist
    BY <2>3, <1>0, <1>1
  <2>5. Latest(g, n + 1) BY <2>3, <2>4 DEF Latest
  <2>6. Add(q, n + 1) = g BY <1>1, <2>2 DEF Add
  <2> QED BY <2>5, <2>6
<1>2. CASE ~(Len(q) < hist)
  <2>1. Len(q) >= 2 BY <1>2 DEF PopPanics
  <2>2. Tail(q) \in Seq(Nat) BY <1>0, <2>1, DropsOne
  <2>3. PICK t \in Seq(Nat) : t = Tail(q) BY <2>2
  <2>4. Len(t) - Len(q) = -1 /\ EndsWith(t, n) BY <1>0, <2>1, <2>3, DropsOne
  <2>5. Append(t, n + 1) \in Seq(Nat) BY <2>4, AppendsNext
  <2>6. PICK g \in Seq(Nat) : g = Append(t, n + 1) BY <2>5
  <2>7. Len(g) - Len(t) = 1 /\ EndsWith(g, n + 1) BY <2>4, <2>6, AppendsNext
  <2>8. Len(g) <= hist /\ Len(g) <= n + 1 /\ Len(g) >= hist
    BY <2>4, <2>7, <1>0, <1>2
  <2>9. Latest(g, n + 1) BY <2>7, <2>8 DEF Latest
  <2>10. Add(q, n + 1) = g BY <1>2, <2>3, <2>6 DEF Add
  <2> QED BY <2>9, <2>10
<1> QED BY <1>1, <1>2

\* Every step keeps the histories.
LEMMA QueuesPreserved ==
    QueueType /\ HistoryKept /\ [Next]_vars => QueueType' /\ HistoryKept'
<1> SUFFICES ASSUME QueueType, HistoryKept, [Next]_vars PROVE QueueType' /\ HistoryKept'
  OBVIOUS
<1>1. ASSUME UNCHANGED <<hist, read, queue, dead>> PROVE QueueType' /\ HistoryKept'
  BY <1>1 DEF QueueType, HistoryKept, Latest
<1>2. ASSUME NEW s \in AllSources, Scan(s) PROVE QueueType' /\ HistoryKept'
  <2>1. queue[s] \in Seq(Nat) /\ read[s] \in Nat /\ hist \in Nat BY DEF QueueType
  <2>2. PICK g : g = Add(queue[s], read[s] + 1) OBVIOUS
  <2>3. g \in Seq(Nat) /\ Latest(g, read[s] + 1)
    BY <1>2, <2>1, <2>2, AddKeepsLatest DEF HistoryKept, Scan
  <2>4. /\ queue' = [queue EXCEPT ![s] = g] /\ read' = [read EXCEPT ![s] = read[s] + 1]
        /\ hist' = hist /\ dead' = dead
    BY <1>2, <2>2 DEF Scan, setup
  <2>5. QueueType'
    <3>1. read' \in [AllSources -> Nat] BY <2>1, <2>4 DEF QueueType
    <3>2. queue' \in [AllSources -> Seq(Nat)] BY <2>3, <2>4 DEF QueueType
    <3> QED BY <3>1, <3>2, <2>1, <2>4 DEF QueueType
  <2>6. ASSUME NEW r \in AllSources PROVE Latest(queue[r], read[r])'
    <3>1. CASE r = s
      <4>1. queue'[r] = g /\ read'[r] = read[s] + 1 BY <3>1, <2>4 DEF QueueType
      <4> QED BY <4>1, <2>3, <2>4 DEF Latest
    <3>2. CASE r # s
      <4>1. queue'[r] = queue[r] /\ read'[r] = read[r] BY <3>2, <2>4 DEF QueueType
      <4> QED BY <4>1, <2>4 DEF HistoryKept, Latest
    <3> QED BY <3>1, <3>2
  <2> QED BY <2>4, <2>5, <2>6 DEF HistoryKept
<1>3. ASSUME NEW s \in AllSources, QueuePanics(s) PROVE QueueType' /\ HistoryKept'
  <2>1. PICK m \in Nat : m = Len(queue[s]) BY DEF QueueType
  <2>2. m >= hist /\ m < 2 BY <1>3, <2>1 DEF QueuePanics, PopPanics
  <2>3. hist < 2 BY <2>2 DEF QueueType
  <2> QED BY <1>3, <2>3 DEF QueuePanics, setup, lines, QueueType, HistoryKept, Latest
<1>4. ASSUME NEW s \in AllSources, ScanEnds(s) \/ Publish(s) \/ Write(s) \/ Complain(s)
      PROVE  QueueType' /\ HistoryKept'
  BY <1>1, <1>4 DEF ScanEnds, Publish, Write, Complain, setup, lines
<1>5. CASE BusLocks \/ BusUnlocks \/ WaitCalled \/ Cancel \/ AllEmitted \/ CtxDone
  BY <1>1, <1>5 DEF BusLocks, BusUnlocks, WaitCalled, Cancel, AllEmitted, CtxDone, setup, lines
<1>6. ASSUME NEW k \in AllSinks, CloseSink(k) PROVE QueueType' /\ HistoryKept'
  BY <1>1, <1>6 DEF CloseSink, setup, lines
<1>7. CASE UNCHANGED vars BY <1>1, <1>7 DEF vars, setup, lines
<1> QED BY <1>2, <1>3, <1>4, <1>5, <1>6, <1>7 DEF Next, Emit

\* For every capacity, number of lines and choice of options, the history of a
\* source is exactly its latest lines, and only a capacity below two ends the
\* program (queue.go 23-44).
THEOREM QueuesKeepTheLatest == Spec => []HistoryKept
<1>1. Init => QueueType /\ HistoryKept
  <2> SUFFICES ASSUME Init PROVE QueueType /\ HistoryKept OBVIOUS
  <2>1. /\ hist \in Nat /\ dead = FALSE
        /\ read = [s \in AllSources |-> 0] /\ queue = [s \in AllSources |-> <<>>]
    BY LogAssumption DEF Init
  <2>2. <<>> \in Seq(Nat) /\ Latest(<<>>, 0) BY <2>1 DEF Latest, EndsWith
  <2>3. QueueType BY <2>1, <2>2 DEF QueueType
  <2>4. \A s \in AllSources : read[s] = 0 /\ queue[s] = <<>> BY <2>1
  <2> QED BY <2>1, <2>2, <2>3, <2>4 DEF HistoryKept
<1> QED BY <1>1, QueuesPreserved, PTL DEF Spec
-----------------------------------------------------------------------------
PCs == {"scan", "publish", "write", "complain", "eof"}

\* Only the configured sources have an emitter.
EmitterInv ==
    /\ emitter \in [AllSources -> PCs]
    /\ \A s \in AllSources \ Sources : emitter[s] = "eof"

\* A step of an emitter that is not at its end.
LEMMA EmitterMoves ==
    ASSUME EmitterInv, UNCHANGED setup, NEW s \in AllSources, NEW pc \in PCs,
           emitter[s] # "eof", emitter' = [emitter EXCEPT ![s] = pc]
    PROVE  /\ EmitterInv' /\ emitter'[s] = pc
           /\ \A r \in AllSources \ {s} : emitter'[r] = emitter[r]
<1>1. Sources' = Sources BY DEF Sources, setup
<1>2. emitter' \in [AllSources -> PCs] BY DEF EmitterInv
<1>3. emitter'[s] = pc /\ \A r \in AllSources \ {s} : emitter'[r] = emitter[r]
  BY DEF EmitterInv
<1>4. s \in Sources BY DEF EmitterInv
<1> QED BY <1>1, <1>2, <1>3, <1>4 DEF EmitterInv

\* And one that leaves the emitters alone.
LEMMA EmittersRest == EmitterInv /\ UNCHANGED <<setup, emitter>> => EmitterInv'
BY DEF EmitterInv, Sources, setup

\* Every step of an emitter moves it.
LEMMA EmitStep ==
    ASSUME EmitterInv, NEW s \in AllSources,
           Scan(s) \/ ScanEnds(s) \/ Publish(s) \/ Write(s) \/ Complain(s)
    PROVE  /\ EmitterInv' /\ emitter[s] # "eof" /\ s \in Sources
           /\ Scan(s) => emitter'[s] = "publish"
           /\ ScanEnds(s) => emitter'[s] = "eof"
           /\ Publish(s) => emitter'[s] = "write"
           /\ Write(s) => emitter'[s] \in {"scan", "complain"}
           /\ Complain(s) => emitter'[s] = "scan"
           /\ \A r \in AllSources \ {s} : emitter'[r] = emitter[r]
<1>1. PICK pc \in PCs :
        /\ UNCHANGED setup /\ emitter[s] # "eof" /\ emitter' = [emitter EXCEPT ![s] = pc]
        /\ Scan(s) => pc = "publish"
        /\ ScanEnds(s) => pc = "eof"
        /\ Publish(s) => pc = "write"
        /\ Write(s) => pc \in {"scan", "complain"}
        /\ Complain(s) => pc = "scan"
  <2>1. CASE Scan(s)
    <3>1. /\ emitter[s] = "scan" /\ emitter' = [emitter EXCEPT ![s] = "publish"]
          /\ UNCHANGED setup
      BY <2>1 DEF Scan, Yields
    <3>2. ~ScanEnds(s) BY <2>1 DEF Scan, ScanEnds
    <3> QED BY <3>1, <3>2 DEF PCs, Publish, Write, Complain
  <2>2. CASE ScanEnds(s)
    <3>1. /\ emitter[s] = "scan" /\ emitter' = [emitter EXCEPT ![s] = "eof"]
          /\ UNCHANGED setup /\ ~Scan(s)
      BY <2>2 DEF Scan, ScanEnds
    <3> QED BY <3>1 DEF PCs, Publish, Write, Complain
  <2>3. CASE Publish(s) BY <2>3 DEF Scan, Yields, ScanEnds, Publish, Write, Complain, PCs
  <2>4. CASE Write(s)
    <3>1. PICK pc \in {"scan", "complain"} : emitter' = [emitter EXCEPT ![s] = pc]
      BY <2>4 DEF Write
    <3>2. emitter[s] = "write" /\ UNCHANGED setup BY <2>4 DEF Write
    <3> QED BY <3>1, <3>2 DEF Scan, Yields, ScanEnds, Publish, Complain, PCs
  <2>5. CASE Complain(s) BY <2>5 DEF Scan, Yields, ScanEnds, Publish, Write, Complain, PCs
  <2> QED BY <2>1, <2>2, <2>3, <2>4, <2>5
<1>2. s \in Sources BY <1>1 DEF EmitterInv
<1> QED BY <1>1, <1>2, EmitterMoves

\* The steps of the emitters and of all others.
LEMMA EmittersPreserved == EmitterInv /\ [Next]_vars => EmitterInv'
<1> SUFFICES ASSUME EmitterInv, [Next]_vars PROVE EmitterInv'
  OBVIOUS
<1>1. ASSUME NEW s \in AllSources, Emit(s) PROVE EmitterInv'
  <2>1. CASE QueuePanics(s) BY <2>1, EmittersRest DEF QueuePanics
  <2> QED BY <1>1, <2>1, EmitStep DEF Emit
<1>2. CASE ~\E s \in AllSources : Emit(s)
  <2>1. UNCHANGED <<setup, emitter>>
    BY <1>2 DEF Next, BusLocks, BusUnlocks, WaitCalled, Cancel, AllEmitted, CtxDone,
                CloseSink, vars
  <2> QED BY <2>1, EmittersRest
<1> QED BY <1>1, <1>2
-----------------------------------------------------------------------------
(* Types, and the streams *)

\* TypeOK, with what bounds the lines read.
LogTypes == TypeOK /\ \A s \in AllSources : read[s] <= output[s]

\* A step that leaves the data of the sources and sinks alone, and every emitter but
\* perhaps one.
LEMMA TypesUndisturbed ==
    ASSUME LogTypes, UNCHANGED <<setup, lines, published, result>>,
           emitter' \in [AllSources -> PCs], reported' \subseteq AllSources \X Nat,
           bus' \in {"up", "down"}, locked' \in BOOLEAN, open' \subseteq AllSinks,
           waiter' \in {"not called", "waiting", "nil", "error"},
           cancelled' \in BOOLEAN, dead' \in BOOLEAN
    PROVE  LogTypes'
BY DEF LogTypes, TypeOK, setup, lines, result, PCs

\* Every step keeps the types.
LEMMA TypesPreserved ==
    ASSUME LogTypes, [Next]_vars PROVE LogTypes'
<1> USE DEF LogTypes
<1>a. /\ read \in [AllSources -> 0..MaxLines] /\ output \in [AllSources -> 0..MaxLines]
      /\ queue \in [AllSources -> Seq(Nat)] /\ published \in [AllSources -> Seq(Nat)]
      /\ sink \in [AllSinks -> Seq(AllSources \X Nat)] /\ failed \subseteq AllSources \X Nat
      /\ hist \in Hists /\ \A s \in AllSources : read[s] <= output[s]
  BY DEF TypeOK
<1>b. hist \in Nat /\ MaxLines \in Nat
  BY <1>a, LogAssumption
<1>c. \A s \in AllSources : read[s] \in Nat /\ output[s] \in 0..MaxLines
  BY <1>a, <1>b
<1>1. ASSUME NEW s \in AllSources, Scan(s) PROVE LogTypes'
  <2>1. /\ queue[s] \in Seq(Nat) /\ read[s] \in Nat /\ read[s] < output[s]
    BY <1>1, <1>a, <1>c DEF Scan, Yields
  <2>2. Add(queue[s], read[s] + 1) \in Seq(Nat)
    <3>1. read[s] + 1 \in Nat
      BY <2>1
    <3>2. Append(queue[s], read[s] + 1) \in Seq(Nat)
      BY <2>1, <3>1, AppendsNext
    <3>3. CASE Len(queue[s]) < hist
      BY <3>2, <3>3 DEF Add
    <3>4. CASE ~(Len(queue[s]) < hist)
      <4>1. Len(queue[s]) >= 2
        BY <1>1, <1>b, <2>1, <3>4 DEF Scan, PopPanics
      <4>2. Tail(queue[s]) \in Seq(Nat)
        BY <2>1, <4>1
      <4> QED
        BY <3>1, <3>4, <4>2 DEF Add
    <3> QED
      BY <3>3, <3>4
  <2>3. read' = [read EXCEPT ![s] = read[s] + 1] /\ read[s] + 1 \in 0..MaxLines
    BY <1>1, <1>b, <1>c, <2>1 DEF Scan
  <2>4. queue' \in [AllSources -> Seq(Nat)]
    BY <1>1, <1>a, <2>2 DEF Scan
  <2>5. read' \in [AllSources -> 0..MaxLines]
    BY <1>a, <2>3
  <2>6. \A r \in AllSources : read'[r] <= output[r]
    BY <1>a, <1>b, <1>c, <2>1, <2>3
  <2>7. emitter' \in [AllSources -> PCs]
    BY <1>1 DEF Scan, TypeOK, PCs
  <2> QED
    BY <1>1, <2>4, <2>5, <2>6, <2>7 DEF Scan, TypeOK, PCs, setup, events, lock, result, wait
<1>2. ASSUME NEW s \in AllSources, QueuePanics(s) \/ ScanEnds(s) PROVE LogTypes'
  <2>1. emitter' \in [AllSources -> PCs] /\ dead' \in BOOLEAN
    BY <1>2 DEF QueuePanics, ScanEnds, TypeOK, PCs
  <2> QED
    BY <1>2, <2>1, TypesUndisturbed
       DEF QueuePanics, ScanEnds, TypeOK, events, lock, wait
<1>3. ASSUME NEW s \in AllSources, Publish(s) PROVE LogTypes'
  <2>1. read[s] \in Nat /\ published[s] \in Seq(Nat)
    BY <1>a, <1>c
  <2>2. published' \in [AllSources -> Seq(Nat)]
    <3>1. Append(published[s], read[s]) \in Seq(Nat)
      BY <2>1
    <3> QED
      BY <1>3, <1>a, <3>1 DEF Publish
  <2>3. emitter' \in [AllSources -> PCs]
    BY <1>3 DEF Publish, TypeOK, PCs
  <2> QED
    BY <1>3, <2>2, <2>3 DEF Publish, TypeOK, PCs, setup, lines, lock, result, wait
<1>4. ASSUME NEW s \in AllSources, Write(s) PROVE LogTypes'
  <2>1. <<s, read[s]>> \in AllSources \X Nat
    BY <1>c
  <2>2. \A k \in AllSinks : /\ sink[k] \in Seq(AllSources \X Nat)
                            /\ Append(sink[k], <<s, read[s]>>) \in Seq(AllSources \X Nat)
    BY <1>a, <2>1
  <2>3. sink' \in [AllSinks -> Seq(AllSources \X Nat)]
    BY <1>4, <2>2 DEF Write
  <2>4. failed' \subseteq AllSources \X Nat /\ refused' \subseteq failed'
    <3>1. failed' = failed \/ failed' = failed \cup {<<s, read[s]>>}
      BY <1>4 DEF Write
    <3>2. ~(SinksFor(s) \subseteq open) => failed' = failed \cup {<<s, read[s]>>}
      BY <1>4 DEF Write
    <3>3. refused \subseteq failed
      BY DEF TypeOK
    <3> QED
      BY <1>4, <1>a, <2>1, <3>1, <3>2, <3>3 DEF Write
  <2>5. emitter' \in [AllSources -> PCs]
    BY <1>4 DEF Write, TypeOK, PCs
  <2> QED
    BY <1>4, <2>3, <2>4, <2>5 DEF Write, TypeOK, PCs, setup, lines, events, lock, wait
<1>8. ASSUME NEW s \in AllSources, Complain(s) PROVE LogTypes'
  <2>1. <<s, read[s]>> \in AllSources \X Nat
    BY <1>c
  <2>2. reported' \subseteq AllSources \X Nat
    BY <1>8, <2>1 DEF Complain, TypeOK
  <2>3. emitter' \in [AllSources -> PCs]
    BY <1>8 DEF Complain, TypeOK, PCs
  <2> QED
    BY <1>8, <2>2, <2>3, TypesUndisturbed DEF Complain, TypeOK, lock, wait
<1>5. CASE BusLocks \/ BusUnlocks \/ WaitCalled \/ Cancel \/ AllEmitted \/ CtxDone
  BY <1>5, TypesUndisturbed
     DEF BusLocks, BusUnlocks, WaitCalled, Cancel, AllEmitted, CtxDone, TypeOK, PCs,
         events, lock, wait
<1>6. ASSUME NEW k \in AllSinks, CloseSink(k) PROVE LogTypes'
  BY <1>6, TypesUndisturbed DEF CloseSink, TypeOK, PCs, events, lock
<1>7. CASE UNCHANGED vars
  BY <1>7, TypesUndisturbed DEF vars, TypeOK, PCs, events, lock, wait
<1> QED
  BY <1>1, <1>2, <1>3, <1>4, <1>5, <1>6, <1>7, <1>8 DEF Next, Emit

\* Types hold initially and always.
LEMMA TypesAlways == Spec => []LogTypes
<1>1. Init => LogTypes
  <2> SUFFICES ASSUME Init PROVE LogTypes
    OBVIOUS
  <2>1. 0 \in 0..MaxLines /\ <<>> \in Seq(Nat) /\ <<>> \in Seq(AllSources \X Nat)
    BY LogAssumption
  <2>2. \A s \in AllSources : 0 <= output[s]
    <3>1. output \in [AllSources -> 0..MaxLines] /\ MaxLines \in Nat
      BY LogAssumption DEF Init
    <3> QED
      BY <3>1
  <2>3. Sinks \subseteq AllSinks
    BY DEF Sinks, AllSinks
  <2> QED
    BY <2>1, <2>2, <2>3 DEF Init, LogTypes, TypeOK
<1> QED
  BY <1>1, TypesPreserved, PTL DEF Spec

\* Every variable of the log processor has its type (logs.go, logopt.go, queue.go).
THEOREM LogTypeCorrect == Spec => []TypeOK
BY TypesAlways, PTL DEF LogTypes

\* The child's stderr goes to monny's stderr only, and nothing else goes there.
LEMMA StreamSinks ==
    ASSUME NEW s \in Sources
    PROVE  /\ "mStderr" \in SinksFor(s) => s = "pStderr"
           /\ "mStdout" \in SinksFor(s) => s # "pStderr"
BY DEF Sources, SinksFor, Sinks, AllSinks

\* What can be said of the source of every line of a sink is kept by a line of
\* which it can be said.
LEMMA SourcesOfAppend ==
    ASSUME NEW old \in Seq(AllSources \X Nat), NEW e \in AllSources \X Nat, NEW S,
           e[1] \in S, \A i \in DOMAIN old : old[i][1] \in S
    PROVE  \A i \in DOMAIN Append(old, e) : Append(old, e)[i][1] \in S
<1>1. /\ Len(old) \in Nat /\ DOMAIN old = 1..Len(old)
      /\ DOMAIN Append(old, e) = 1..(Len(old) + 1)
      /\ Append(old, e)[Len(old) + 1] = e
      /\ \A i \in 1..Len(old) : Append(old, e)[i] = old[i]
  BY AppendProperties
<1>2. ASSUME NEW i \in DOMAIN Append(old, e) PROVE i \in 1..Len(old) \/ i = Len(old) + 1
  BY <1>1
<1> QED BY <1>1, <1>2

\* Every step keeps the streams apart.
LEMMA StreamsStep ==
    ASSUME TypeOK, EmitterInv, StreamsApart, [Next]_vars PROVE StreamsApart'
<1>1. CASE UNCHANGED sink
  BY <1>1 DEF StreamsApart
<1>2. ASSUME NEW s \in AllSources, Write(s) PROVE StreamsApart'
  <2>1. s \in Sources
    BY <1>2 DEF Write, EmitterInv
  <2>2. PICK taken \in SUBSET (SinksFor(s) \cap open) :
          sink' = [k \in AllSinks |-> IF k \in taken THEN Append(sink[k], <<s, read[s]>>)
                                                     ELSE sink[k]]
    BY <1>2 DEF Write
  <2> DEFINE e == <<s, read[s]>>
  <2>3. e \in AllSources \X Nat /\ e[1] = s
    <3>1. read \in [AllSources -> 0..MaxLines] /\ MaxLines \in Nat
      BY LogAssumption DEF TypeOK
    <3>2. read[s] \in Nat
      BY <3>1
    <3> QED
      BY <3>2
  <2>4. sink \in [AllSinks -> Seq(AllSources \X Nat)]
    BY DEF TypeOK
  <2>5. ASSUME NEW k \in AllSinks, NEW S, k \in SinksFor(s) => s \in S,
               \A i \in DOMAIN sink[k] : sink[k][i][1] \in S
        PROVE  \A i \in DOMAIN sink'[k] : sink'[k][i][1] \in S
    <3>1. CASE k \in taken
      <4>1. sink[k] \in Seq(AllSources \X Nat) /\ s \in S
        BY <2>2, <2>4, <2>5, <3>1
      <4>2. sink'[k] = Append(sink[k], e)
        BY <2>2, <3>1
      <4> HIDE DEF e
      <4>3. \A i \in DOMAIN Append(sink[k], e) : Append(sink[k], e)[i][1] \in S
        BY <2>3, <2>5, <4>1, SourcesOfAppend
      <4> QED
        BY <4>2, <4>3
    <3>2. CASE k \notin taken
      <4>1. sink'[k] = sink[k]
        BY <2>2, <3>2
      <4> QED
        BY <2>5, <4>1
    <3> QED
      BY <3>1, <3>2
  <2>6. "mStderr" \in AllSinks /\ "mStdout" \in AllSinks
    BY DEF AllSinks
  <2>7. \A i \in DOMAIN sink'["mStderr"] : sink'["mStderr"][i][1] = "pStderr"
    <3>1. \A i \in DOMAIN sink["mStderr"] : sink["mStderr"][i][1] \in {"pStderr"}
      BY DEF StreamsApart
    <3>2. "mStderr" \in SinksFor(s) => s \in {"pStderr"}
      BY <2>1, StreamSinks
    <3>3. \A i \in DOMAIN sink'["mStderr"] : sink'["mStderr"][i][1] \in {"pStderr"}
      BY <2>5, <2>6, <3>1, <3>2
    <3> QED
      BY <3>3
  <2>8. \A i \in DOMAIN sink'["mStdout"] : sink'["mStdout"][i][1] # "pStderr"
    <3>1. \A i \in DOMAIN sink["mStdout"] : sink["mStdout"][i][1] \in AllSources \ {"pStderr"}
      <4>1. sink["mStdout"] \in Seq(AllSources \X Nat)
        BY <2>4, <2>6
      <4>2. \A i \in DOMAIN sink["mStdout"] : sink["mStdout"][i] \in AllSources \X Nat
        BY <4>1
      <4> QED
        BY <4>2 DEF StreamsApart
    <3>2. "mStdout" \in SinksFor(s) => s \in AllSources \ {"pStderr"}
      BY <2>1, StreamSinks
    <3>3. \A i \in DOMAIN sink'["mStdout"] : sink'["mStdout"][i][1] \in AllSources \ {"pStderr"}
      BY <2>5, <2>6, <3>1, <3>2
    <3> QED
      BY <3>3
  <2> QED
    BY <2>7, <2>8 DEF StreamsApart
<1> QED
  BY <1>1, <1>2 DEF Next, Emit, vars, Scan, QueuePanics, ScanEnds, Publish, Complain, BusLocks,
     BusUnlocks, WaitCalled, Cancel, AllEmitted, CtxDone, CloseSink, result

\* Whatever the options and the failures of sinks, monny's stderr carries lines of
\* the child's stderr only, and monny's stdout none of them: a filter takes the other
\* sink from each emitter, and a piped input has no stderr to go to (logs.go 52-64,
\* logopt.go).
THEOREM StreamsAreApart == Spec => []StreamsApart
<1>1. Init => EmitterInv /\ StreamsApart
  <2> SUFFICES ASSUME Init PROVE EmitterInv /\ StreamsApart
    OBVIOUS
  <2>1. EmitterInv
    BY DEF Init, EmitterInv, PCs
  <2>2. sink["mStderr"] = <<>> /\ sink["mStdout"] = <<>>
    BY DEF Init, AllSinks
  <2> QED
    BY <2>1, <2>2 DEF StreamsApart
<1>2. TypeOK /\ EmitterInv /\ StreamsApart /\ [Next]_vars => StreamsApart'
  BY StreamsStep
<1> QED
  BY <1>1, <1>2, EmittersPreserved, LogTypeCorrect, PTL DEF Spec

-----------------------------------------------------------------------------
(***************************************************************************)
(* Every line once.  What is published and written of a source is bounded by *)
(* the lines read from it, so that the next one comes behind all of them,    *)
(* and no line has failed before its turn.                                   *)
(***************************************************************************)
PublishedUpTo(s) == IF emitter[s] = "publish" THEN read[s] - 1 ELSE read[s]
HandledUpTo(s)   == IF emitter[s] \in {"publish", "write"} THEN read[s] - 1 ELSE read[s]

LinesOnce ==
    \A s \in Sources : PublishedOnce(s) /\ \A k \in SinksFor(s) : WrittenOnce(s, k)

OnceInv ==
    /\ LinesOnce
    /\ \A s \in Sources :
          /\ emitter[s] \in {"publish", "write"} => read[s] >= 1
          /\ \A i \in DOMAIN published[s] : published[s][i] \in 1..PublishedUpTo(s)
          /\ \A l : <<s, l>> \in failed => l \in Handled(s)

\* A line behind all others, appended to lines in their order.
LEMMA AppendIncreasing ==
    ASSUME NEW q \in Seq(Nat), NEW n \in Nat \ {0}, Increasing(q),
           \A i \in DOMAIN q : q[i] \in 1..(n - 1)
    PROVE  /\ Increasing(Append(q, n))
           /\ \A i \in DOMAIN Append(q, n) : Append(q, n)[i] \in 1..n
           /\ {Append(q, n)[i] : i \in DOMAIN Append(q, n)} = {q[i] : i \in DOMAIN q} \union {n}
<1> DEFINE m == Len(q)
           a == Append(q, n)
<1>1. /\ m \in Nat /\ DOMAIN q = 1..m /\ DOMAIN a = 1..(m + 1) /\ a[m + 1] = n
      /\ \A i \in 1..m : a[i] = q[i] /\ q[i] \in Nat
  BY AppendProperties
<1>2. \A i \in 1..m : q[i] < n /\ q[i] \in 1..n  BY <1>1
<1> HIDE DEF m, a
<1>3. \A i \in 1..(m + 1) : i \in 1..m \/ i = m + 1  BY <1>1
<1>4. Increasing(a)
  <2> SUFFICES ASSUME NEW i \in 1..(m + 1), NEW j \in 1..(m + 1), i < j PROVE a[i] < a[j]
    BY <1>1 DEF Increasing
  <2>1. i \in 1..m  BY <1>1
  <2>2. CASE j \in 1..m  BY <1>1, <2>1, <2>2 DEF Increasing
  <2>3. CASE j = m + 1  BY <1>1, <1>2, <2>1, <2>3
  <2> QED  BY <1>3, <2>2, <2>3
<1>5. \A i \in 1..(m + 1) : a[i] \in 1..n  BY <1>1, <1>2, <1>3
<1>6. {a[i] : i \in 1..(m + 1)} = {q[i] : i \in 1..m} \union {n}
  <2>1. ASSUME NEW i \in 1..m PROVE i \in 1..(m + 1)  BY <1>1
  <2>2. m + 1 \in 1..(m + 1)  BY <1>1
  <2> QED  BY <1>1, <1>3, <2>1, <2>2
<1> QED  BY <1>1, <1>4, <1>5, <1>6 DEF a

\* The lines published, and those handled, are bounded by what is read.
LEMMA UpTo ==
    ASSUME LogTypes, NEW s \in Sources
    PROVE  /\ s \in AllSources /\ read[s] \in Nat /\ published[s] \in Seq(Nat)
           /\ Handled(s) = 1..HandledUpTo(s)
           /\ HandledUpTo(s) \in Int /\ PublishedUpTo(s) \in Int
<1>1. s \in AllSources  BY DEF Sources, AllSources
<1>2. read \in [AllSources -> 0..MaxLines] /\ published \in [AllSources -> Seq(Nat)]
  BY DEF LogTypes, TypeOK
<1>3. read[s] \in Nat /\ published[s] \in Seq(Nat)
  <2>1. read[s] \in 0..MaxLines  BY <1>1, <1>2
  <2>2. MaxLines \in Nat  BY LogAssumption
  <2> QED  BY <1>1, <1>2, <2>1, <2>2
<1>4. Handled(s) = 1..HandledUpTo(s)  BY DEF Handled, HandledUpTo
<1> QED  BY <1>1, <1>3, <1>4 DEF HandledUpTo, PublishedUpTo

\* A step that publishes and writes nothing, and brings no turn of a loop to its end.
LEMMA OnceUndisturbed ==
    ASSUME OnceInv, UNCHANGED <<setup, published, sink, failed>>,
           bus' = "up" => bus = "up",
           \A s \in Sources :
              /\ PublishedUpTo(s)' = PublishedUpTo(s) /\ HandledUpTo(s)' = HandledUpTo(s)
              /\ emitter'[s] \in {"publish", "write"} => read'[s] >= 1
    PROVE  OnceInv'
<1>1. Sources' = Sources /\ \A s : SinksFor(s)' = SinksFor(s)
  BY DEF Sources, SinksFor, Sinks, setup
<1>2. \A s \in Sources : Handled(s)' = Handled(s)
  <2> TAKE s \in Sources
  <2>1. HandledUpTo(s)' = HandledUpTo(s)  OBVIOUS
  <2>2. Handled(s) = 1..HandledUpTo(s) /\ Handled(s)' = 1..HandledUpTo(s)'
    BY DEF Handled, HandledUpTo
  <2> QED  BY <2>1, <2>2
<1>3. ASSUME NEW s \in Sources PROVE PublishedOnce(s)'
  <2>1. PublishedOnce(s)  BY DEF OnceInv, LinesOnce
  <2>2. PublishedUpTo(s)' = PublishedUpTo(s)  OBVIOUS
  <2> QED  BY <2>1, <2>2 DEF PublishedOnce, PublishedUpTo
<1>4. ASSUME NEW s \in Sources, NEW k \in SinksFor(s) PROVE WrittenOnce(s, k)'
  <2>1. WrittenOnce(s, k)  BY DEF OnceInv, LinesOnce
  <2>2. sink'[k] = sink[k]  OBVIOUS
  <2> QED  BY <1>2, <2>1, <2>2 DEF WrittenOnce
<1>5. LinesOnce'  BY <1>1, <1>3, <1>4 DEF LinesOnce
<1> QED  BY <1>1, <1>2, <1>5 DEF OnceInv

\* A line behind all that were published of its source.
LEMMA OncePublish ==
    ASSUME LogTypes, OnceInv, NEW r \in Sources, Publish(r)
    PROVE  OnceInv'
<1> DEFINE n == read[r]
           q == published[r]
<1>1. /\ r \in AllSources /\ n \in Nat /\ q \in Seq(Nat) /\ emitter[r] = "publish" /\ n >= 1
      /\ Increasing(q) /\ \A i \in DOMAIN q : q[i] \in 1..(n - 1)
      /\ bus = "up" => {q[i] : i \in DOMAIN q} = 1..(n - 1)
  BY UpTo DEF Publish, OnceInv, LinesOnce, PublishedOnce, PublishedUpTo
<1>2. /\ emitter' = [emitter EXCEPT ![r] = "write"]
      /\ UNCHANGED <<setup, read, bus, sink, failed>>
  BY DEF Publish, lines, lock, result
<1>3. emitter'[r] = "write" /\ \A s \in Sources \ {r} : emitter'[s] = emitter[s]
  <2>1. emitter \in [AllSources -> PCs]  BY DEF LogTypes, TypeOK, PCs
  <2>2. Sources \subseteq AllSources  BY DEF Sources, AllSources
  <2> QED  BY <1>1, <1>2, <2>1, <2>2
<1>4. /\ published'[r] = IF bus = "up" THEN Append(q, n) ELSE q
      /\ \A s \in Sources \ {r} : published'[s] = published[s]
  <2>1. published \in [AllSources -> Seq(Nat)]  BY DEF LogTypes, TypeOK
  <2>2. Sources \subseteq AllSources  BY DEF Sources, AllSources
  <2> QED  BY <1>1, <2>1, <2>2 DEF Publish
<1>5. Sources' = Sources /\ \A s : SinksFor(s)' = SinksFor(s)
  BY <1>2 DEF Sources, SinksFor, Sinks, setup
<1>6. \A s \in Sources : Handled(s)' = Handled(s)
  <2> TAKE s \in Sources
  <2>1. CASE s = r  BY <1>1, <1>2, <1>3, <2>1 DEF Handled
  <2>2. CASE s # r  BY <1>2, <1>3, <2>2 DEF Handled
  <2> QED  BY <2>1, <2>2
<1>7. /\ PublishedOnce(r)'
      /\ \A i \in DOMAIN published'[r] : published'[r][i] \in 1..n
  <2>1. CASE bus = "up"
    <3>1. published'[r] = Append(q, n)  BY <1>4, <2>1
    <3>2. /\ Increasing(Append(q, n)) /\ \A i \in DOMAIN Append(q, n) : Append(q, n)[i] \in 1..n
          /\ {Append(q, n)[i] : i \in DOMAIN Append(q, n)} = {q[i] : i \in DOMAIN q} \union {n}
      <4>1. n \in Nat \ {0}  BY <1>1
      <4> HIDE DEF q, n
      <4> QED  BY <1>1, <4>1, AppendIncreasing
    <3>3. {q[i] : i \in DOMAIN q} \union {n} = 1..n
      <4>1. {q[i] : i \in DOMAIN q} = 1..(n - 1)  BY <1>1, <2>1
      <4>2. 1..(n - 1) \union {n} = 1..n  BY <1>1
      <4> QED  BY <4>1, <4>2
    <3> DEFINE a == Append(q, n)
    <3>4. published'[r] = a /\ Increasing(a) /\ \A i \in DOMAIN a : a[i] \in 1..n
      BY <3>1, <3>2
    <3>5. {a[i] : i \in DOMAIN a} = 1..n  BY <3>2, <3>3
    <3>6. (IF emitter'[r] = "publish" THEN read'[r] - 1 ELSE read'[r]) = n
      BY <1>2, <1>3
    <3> HIDE DEF a, n
    <3> QED  BY <3>4, <3>5, <3>6 DEF PublishedOnce
  <2>2. CASE bus # "up"
    <3>1. published'[r] = q /\ bus' # "up"  BY <1>2, <1>4, <2>2
    <3>2. \A i \in DOMAIN q : q[i] \in 1..n  BY <1>1
    <3> HIDE DEF q
    <3> QED  BY <1>1, <3>1, <3>2 DEF PublishedOnce
  <2> QED  BY <2>1, <2>2
<1>8. ASSUME NEW s \in Sources PROVE PublishedOnce(s)'
  <2>1. CASE s = r  BY <1>7, <2>1
  <2>2. CASE s # r
    <3>1. PublishedOnce(s)  BY DEF OnceInv, LinesOnce
    <3> QED  BY <1>2, <1>3, <1>4, <2>2, <3>1 DEF PublishedOnce
  <2> QED  BY <2>1, <2>2
<1>9. ASSUME NEW s \in Sources, NEW k \in SinksFor(s) PROVE WrittenOnce(s, k)'
  <2>1. WrittenOnce(s, k)  BY DEF OnceInv, LinesOnce
  <2> QED  BY <1>2, <1>6, <2>1 DEF WrittenOnce
<1>10. LinesOnce'  BY <1>5, <1>8, <1>9 DEF LinesOnce
<1>11. ASSUME NEW s \in Sources
       PROVE  /\ emitter'[s] \in {"publish", "write"} => read'[s] >= 1
              /\ \A i \in DOMAIN published'[s] : published'[s][i] \in 1..PublishedUpTo(s)'
              /\ \A l : <<s, l>> \in failed' => l \in Handled(s)'
  <2>1. \A l : <<s, l>> \in failed' => l \in Handled(s)'
    BY <1>2, <1>6 DEF OnceInv
  <2>2. CASE s = r
    <3>1. PublishedUpTo(s)' = n  BY <1>2, <1>3, <2>2 DEF PublishedUpTo
    <3> QED  BY <1>1, <1>2, <1>7, <2>1, <2>2, <3>1
  <2>3. CASE s # r
    <3>1. PublishedUpTo(s)' = PublishedUpTo(s) /\ published'[s] = published[s]
      BY <1>2, <1>3, <1>4, <2>3 DEF PublishedUpTo
    <3> QED  BY <1>2, <1>3, <2>1, <2>3, <3>1 DEF OnceInv
  <2> QED  BY <2>2, <2>3
<1> QED  BY <1>5, <1>10, <1>11 DEF OnceInv

\* An emitter has one sink at most.
LEMMA OneSink ==
    ASSUME NEW s \in Sources, NEW k \in SinksFor(s)
    PROVE  SinksFor(s) = {k} /\ k \in AllSinks
BY DEF Sources, SinksFor, Sinks, AllSinks

\* What a write does to the sink of its source: the line is behind all others
\* there, or it has failed.
LEMMA WriteEffect ==
    ASSUME LogTypes, NEW r \in Sources, Write(r), NEW k \in SinksFor(r)
    PROVE  \/ sink'[k] = Append(sink[k], <<r, read[r]>>) /\ failed' = failed
           \/ sink'[k] = sink[k] /\ failed' = failed \union {<<r, read[r]>>}
<1>1. SinksFor(r) = {k} /\ k \in AllSinks  BY OneSink
<1>2. PICK taken \in SUBSET (SinksFor(r) \cap open) :
        /\ sink' = [j \in AllSinks |-> IF j \in taken THEN Append(sink[j], <<r, read[r]>>)
                                                      ELSE sink[j]]
        /\ failed' = IF taken = SinksFor(r) THEN failed ELSE failed \union {<<r, read[r]>>}
  BY DEF Write
<1>3. CASE k \in taken
  <2>1. taken = SinksFor(r)  BY <1>1, <1>3
  <2> QED  BY <1>1, <1>2, <1>3, <2>1
<1>4. CASE k \notin taken
  <2>1. taken # SinksFor(r)  BY <1>1, <1>4
  <2> QED  BY <1>1, <1>2, <1>4, <2>1
<1> QED  BY <1>3, <1>4

\* And to those of all others.
LEMMA WriteElsewhere ==
    ASSUME NEW r \in Sources, Write(r)
    PROVE  /\ \A k \in AllSinks : \/ sink'[k] = sink[k]
                                  \/ sink'[k] = Append(sink[k], <<r, read[r]>>)
           /\ failed \subseteq failed' /\ failed' \subseteq failed \union {<<r, read[r]>>}
BY DEF Write

\* A line at the end of a sink: one more place of its source, none of another.
LEMMA AppendPlaces ==
    ASSUME NEW h \in Seq(AllSources \X Nat), NEW r \in AllSources, NEW n \in Nat,
           NEW g, g = Append(h, <<r, n>>), NEW s
    PROVE  LET old == {i \in DOMAIN h : h[i][1] = s}
               new == {i \in DOMAIN g : g[i][1] = s} IN
           /\ \A i \in old : i \in new /\ g[i] = h[i] /\ i \in 1..Len(h)
           /\ s # r => new = old
           /\ s = r => new = old \union {Len(h) + 1} /\ g[Len(h) + 1][2] = n
<1> DEFINE m == Len(h)
           e == <<r, n>>
           old == {i \in DOMAIN h : h[i][1] = s}
           new == {i \in DOMAIN g : g[i][1] = s}
<1>1. e \in AllSources \X Nat /\ e[1] = r /\ e[2] = n  OBVIOUS
<1>2. /\ m \in Nat /\ DOMAIN h = 1..m /\ DOMAIN g = 1..(m + 1) /\ g[m + 1] = e
      /\ \A i \in 1..m : g[i] = h[i]
  <2> HIDE DEF e
  <2> QED  BY <1>1, AppendProperties DEF e
<1> HIDE DEF m, e
<1>3. \A i \in old : i \in new /\ g[i] = h[i] /\ i \in 1..m  BY <1>2
<1>4. \A i \in new : i \in old \/ (i = m + 1 /\ g[i][1] = r)
  <2> TAKE i \in new
  <2>1. i \in 1..m \/ i = m + 1  BY <1>2
  <2> QED  BY <1>1, <1>2, <2>1
<1>5. s = r => m + 1 \in new  BY <1>1, <1>2
<1> QED  BY <1>1, <1>2, <1>3, <1>4, <1>5 DEF m

\* What a write leaves of the lines of the source that wrote.
LEMMA WrittenByWriter ==
    ASSUME LogTypes, OnceInv, NEW r \in Sources, Write(r), NEW k \in SinksFor(r),
           emitter'[r] \in {"scan", "complain"}
    PROVE  WrittenOnce(r, k)'
<1> DEFINE n == read[r]
           h == sink[k]
           old == {i \in DOMAIN h : h[i][1] = r}
           lost == {l \in 1..(n - 1) : <<r, l>> \in failed}
<1>1. /\ r \in AllSources /\ n \in Nat /\ n >= 1 /\ emitter[r] = "write" /\ read' = read
      /\ Handled(r) = 1..(n - 1) /\ Handled(r)' = 1..n
      /\ \A l : <<r, l>> \in failed => l \in 1..(n - 1)
  BY UpTo DEF Write, OnceInv, Handled, lines
<1>2. /\ h \in Seq(AllSources \X Nat)
      /\ \/ sink'[k] = Append(h, <<r, n>>) /\ failed' = failed
         \/ sink'[k] = h /\ failed' = failed \union {<<r, n>>}
  <2>1. k \in AllSinks  BY OneSink
  <2>2. sink \in [AllSinks -> Seq(AllSources \X Nat)]  BY DEF LogTypes, TypeOK
  <2> QED  BY <2>1, <2>2, WriteEffect
<1>3. /\ \A i, j \in old : i < j => h[i][2] < h[j][2]
      /\ {h[i][2] : i \in old} = 1..(n - 1) \ lost
  <2>1. WrittenOnce(r, k)  BY DEF OnceInv, LinesOnce
  <2> QED  BY <1>1, <2>1 DEF WrittenOnce
<1>4. CASE sink'[k] = Append(h, <<r, n>>) /\ failed' = failed
  <2> DEFINE g == Append(h, <<r, n>>)
             m == Len(h)
             new == {i \in DOMAIN g : g[i][1] = r}
  <2>1. /\ \A i \in old : g[i] = h[i] /\ i \in 1..m
        /\ new = old \union {m + 1} /\ g[m + 1][2] = n /\ m \in Nat
    <3> HIDE DEF h, n
    <3> QED  BY <1>1, <1>2, AppendPlaces
  <2>2. \A i \in old : h[i][2] \in 1..(n - 1) /\ h[i][2] < n
    <3> HIDE DEF h, n, lost
    <3>1. \A i \in old : h[i][2] \in 1..(n - 1)  BY <1>3
    <3> QED  BY <1>1, <3>1
  <2>3. {l \in 1..n : <<r, l>> \in failed'} = lost  BY <1>1, <1>2, <1>4
  <2> HIDE DEF g, m, new, h, n, old, lost
  <2>4. \A i, j \in new : i < j => g[i][2] < g[j][2]
    <3> TAKE i, j \in new
    <3>1. CASE i \in old /\ j \in old  BY <1>3, <2>1, <3>1
    <3>2. CASE i \in old /\ j = m + 1  BY <2>1, <2>2, <3>2
    <3>3. CASE i = m + 1
      <4>1. j \in 1..m \/ j = m + 1  BY <2>1
      <4> QED  BY <2>1, <3>3, <4>1
    <3> QED  BY <2>1, <3>1, <3>2, <3>3
  <2>5. {g[i][2] : i \in new} = 1..n \ lost
    <3>1. {g[i][2] : i \in new} = {h[i][2] : i \in old} \union {n}  BY <2>1
    <3>2. \A l \in lost : l \in 1..(n - 1)  BY DEF lost
    <3>3. (1..(n - 1) \ lost) \union {n} = 1..n \ lost  BY <1>1, <3>2
    <3> QED  BY <1>3, <3>1, <3>3
  <2>6. sink'[k] = g  BY <1>4 DEF g
  <2> QED  BY <1>1, <2>3, <2>4, <2>5, <2>6 DEF WrittenOnce, new
<1>5. CASE sink'[k] = h /\ failed' = failed \union {<<r, n>>}
  <2>1. sink'[k] = h  BY <1>5
  <2>2. {l \in 1..n : <<r, l>> \in failed'} = lost \union {n}  BY <1>1, <1>2, <1>5
  <2>3. 1..(n - 1) \ lost = 1..n \ (lost \union {n})  BY <1>1
  <2> HIDE DEF n, h, lost
  <2> QED  BY <1>1, <1>3, <2>1, <2>2, <2>3 DEF WrittenOnce
<1> QED  BY <1>2, <1>4, <1>5

\* What it leaves of the lines of the other source.
LEMMA WrittenByOther ==
    ASSUME LogTypes, OnceInv, NEW r \in Sources, Write(r),
           NEW s \in Sources, s # r, NEW k \in SinksFor(s), Handled(s)' = Handled(s)
    PROVE  WrittenOnce(s, k)'
<1> DEFINE n == read[r]
           h == sink[k]
           g == sink'[k]
           old == {i \in DOMAIN h : h[i][1] = s}
           new == {i \in DOMAIN g : g[i][1] = s}
<1>1. r \in AllSources /\ n \in Nat  BY UpTo
<1>2. h \in Seq(AllSources \X Nat) /\ (g = h \/ g = Append(h, <<r, n>>))
  <2>1. k \in AllSinks  BY OneSink
  <2>2. sink \in [AllSinks -> Seq(AllSources \X Nat)]  BY DEF LogTypes, TypeOK
  <2> QED  BY <2>1, <2>2, WriteElsewhere
<1>3. new = old /\ \A i \in old : g[i] = h[i]
  <2>1. CASE g = h  BY <2>1
  <2>2. CASE g = Append(h, <<r, n>>)
    <3> HIDE DEF g, h, n
    <3> QED  BY <1>1, <1>2, <2>2, AppendPlaces
  <2> QED  BY <1>2, <2>1, <2>2
<1>4. \A l : <<s, l>> \in failed' <=> <<s, l>> \in failed
  BY WriteElsewhere
<1>5. WrittenOnce(s, k)  BY DEF OnceInv, LinesOnce
<1>6. /\ \A i, j \in old : i < j => h[i][2] < h[j][2]
      /\ {h[i][2] : i \in old} = Handled(s) \ {l \in Handled(s) : <<s, l>> \in failed}
  BY <1>5 DEF WrittenOnce
<1>7. /\ \A i, j \in new : i < j => g[i][2] < g[j][2]
      /\ {g[i][2] : i \in new} = Handled(s)' \ {l \in Handled(s)' : <<s, l>> \in failed'}
  <2> HIDE DEF g, h, old, new
  <2>1. {g[i][2] : i \in new} = {h[i][2] : i \in old}  BY <1>3
  <2>2. {l \in Handled(s)' : <<s, l>> \in failed'} = {l \in Handled(s) : <<s, l>> \in failed}
    BY <1>4
  <2> QED  BY <1>3, <1>6, <2>1, <2>2
<1> QED  BY <1>7 DEF WrittenOnce

\* The line whose turn is over is behind all others in its sink, or has failed.
LEMMA OnceWrite ==
    ASSUME LogTypes, EmitterInv, OnceInv, NEW r \in Sources, Write(r)
    PROVE  OnceInv'
<1>1. /\ r \in AllSources /\ emitter[r] = "write" /\ read' = read
      /\ UNCHANGED <<setup, read, bus, published>>
  BY UpTo DEF Write, lines, lock, events
<1>2. /\ emitter'[r] \in {"scan", "complain"}
      /\ \A s \in Sources \ {r} : emitter'[s] = emitter[s]
  <2>1. Sources \subseteq AllSources  BY DEF Sources, AllSources
  <2> QED  BY <1>1, <2>1, EmitStep
<1>3. Sources' = Sources /\ \A s : SinksFor(s)' = SinksFor(s)
  BY <1>1 DEF Sources, SinksFor, Sinks, setup
<1>4. \A s \in Sources \ {r} : Handled(s)' = Handled(s)  BY <1>1, <1>2 DEF Handled
<1>5. \A s \in Sources : PublishedUpTo(s)' = PublishedUpTo(s)
  BY <1>1, <1>2 DEF PublishedUpTo
<1>6. ASSUME NEW s \in Sources PROVE PublishedOnce(s)'
  <2>1. PublishedOnce(s)  BY DEF OnceInv, LinesOnce
  <2> QED  BY <1>1, <1>5, <2>1 DEF PublishedOnce, PublishedUpTo
<1>7. ASSUME NEW s \in Sources, NEW k \in SinksFor(s) PROVE WrittenOnce(s, k)'
  <2>1. CASE s = r  BY <1>2, <2>1, WrittenByWriter
  <2>2. CASE s # r  BY <1>4, <2>2, WrittenByOther
  <2> QED  BY <2>1, <2>2
<1>8. LinesOnce'  BY <1>3, <1>6, <1>7 DEF LinesOnce
<1>9. ASSUME NEW s \in Sources
      PROVE  /\ emitter'[s] \in {"publish", "write"} => read'[s] >= 1
             /\ \A i \in DOMAIN published'[s] : published'[s][i] \in 1..PublishedUpTo(s)'
             /\ \A l : <<s, l>> \in failed' => l \in Handled(s)'
  <2>1. \A i \in DOMAIN published'[s] : published'[s][i] \in 1..PublishedUpTo(s)'
    BY <1>1, <1>5 DEF OnceInv
  <2>2. failed' \subseteq failed \union {<<r, read[r]>>}  BY WriteElsewhere
  <2>3. CASE s = r
    <3>1. /\ Handled(s) = 1..(read[r] - 1) /\ Handled(s)' = 1..read[r]
          /\ read[r] \in Nat /\ read[r] >= 1
      BY <1>1, <1>2, <2>3, UpTo DEF Handled, OnceInv
    <3>2. \A l : <<s, l>> \in failed => l \in 1..(read[r] - 1)  BY <3>1 DEF OnceInv
    <3>3. \A l : <<s, l>> \in failed' => l \in 1..read[r]  BY <2>2, <3>1, <3>2
    <3> QED  BY <1>2, <2>1, <2>3, <3>1, <3>3
  <2>4. CASE s # r
    <3>1. \A l : <<s, l>> \in failed' => l \in Handled(s)'
      BY <1>4, <2>2, <2>4 DEF OnceInv
    <3> QED  BY <1>1, <1>2, <2>1, <2>4, <3>1 DEF OnceInv
  <2> QED  BY <2>3, <2>4
<1> QED  BY <1>3, <1>8, <1>9 DEF OnceInv

\* Every step keeps it.
LEMMA OncePreserved ==
    ASSUME LogTypes, EmitterInv, OnceInv, [Next]_vars PROVE OnceInv'
<1>0. /\ emitter \in [AllSources -> PCs] /\ read \in [AllSources -> 0..MaxLines]
      /\ Sources \subseteq AllSources
  BY DEF LogTypes, TypeOK, PCs, Sources, AllSources
<1>1. ASSUME NEW r \in AllSources, Scan(r) PROVE OnceInv'
  <2>1. /\ emitter[r] = "scan" /\ emitter' = [emitter EXCEPT ![r] = "publish"]
        /\ read' = [read EXCEPT ![r] = @ + 1]
        /\ UNCHANGED <<setup, published, sink, failed, bus>>
    BY <1>1 DEF Scan, Yields, result, events, lock
  <2>2. ASSUME NEW s \in Sources
        PROVE  /\ PublishedUpTo(s)' = PublishedUpTo(s) /\ HandledUpTo(s)' = HandledUpTo(s)
               /\ emitter'[s] \in {"publish", "write"} => read'[s] >= 1
    <3>1. read[s] \in Nat  BY UpTo
    <3>2. CASE s = r
      <4>1. emitter'[s] = "publish" /\ read'[s] = read[s] + 1  BY <1>0, <2>1, <3>2
      <4>2. (read[s] + 1) - 1 = read[s] /\ read[s] + 1 >= 1  BY <3>1
      <4> QED  BY <2>1, <3>2, <4>1, <4>2 DEF PublishedUpTo, HandledUpTo
    <3>3. CASE s # r
      <4>1. emitter'[s] = emitter[s] /\ read'[s] = read[s]  BY <1>0, <2>1, <3>3
      <4> QED  BY <4>1 DEF PublishedUpTo, HandledUpTo, OnceInv
    <3> QED  BY <3>2, <3>3
  <2> QED  BY <2>1, <2>2, OnceUndisturbed
<1>2. ASSUME NEW r \in AllSources, ScanEnds(r) PROVE OnceInv'
  <2>1. /\ emitter[r] = "scan" /\ emitter' = [emitter EXCEPT ![r] = "eof"]
        /\ UNCHANGED <<setup, read, published, sink, failed, bus>>
    BY <1>2 DEF ScanEnds, result, lines, events, lock
  <2>2. ASSUME NEW s \in Sources
        PROVE  /\ PublishedUpTo(s)' = PublishedUpTo(s) /\ HandledUpTo(s)' = HandledUpTo(s)
               /\ emitter'[s] \in {"publish", "write"} => read'[s] >= 1
    <3>1. CASE s = r
      <4>1. emitter'[s] = "eof"  BY <1>0, <2>1, <3>1
      <4> QED  BY <2>1, <3>1, <4>1 DEF PublishedUpTo, HandledUpTo
    <3>2. CASE s # r
      <4>1. emitter'[s] = emitter[s]  BY <1>0, <2>1, <3>2
      <4> QED  BY <2>1, <4>1 DEF PublishedUpTo, HandledUpTo, OnceInv
    <3> QED  BY <3>1, <3>2
  <2> QED  BY <2>1, <2>2, OnceUndisturbed
<1>3. ASSUME NEW r \in AllSources, Publish(r) \/ Write(r) PROVE OnceInv'
  <2>1. r \in Sources  BY <1>3 DEF Publish, Write, EmitterInv
  <2> QED  BY <1>3, <2>1, OncePublish, OnceWrite
<1>8. ASSUME NEW r \in AllSources, Complain(r) PROVE OnceInv'
  <2>1. /\ emitter[r] = "complain" /\ emitter' = [emitter EXCEPT ![r] = "scan"]
        /\ UNCHANGED <<setup, read, published, sink, failed, bus>>
    BY <1>8 DEF Complain, result, lines, lock
  <2>2. ASSUME NEW s \in Sources
        PROVE  /\ PublishedUpTo(s)' = PublishedUpTo(s) /\ HandledUpTo(s)' = HandledUpTo(s)
               /\ emitter'[s] \in {"publish", "write"} => read'[s] >= 1
    <3>1. CASE s = r
      <4>1. emitter'[s] = "scan"  BY <1>0, <2>1, <3>1
      <4> QED  BY <2>1, <3>1, <4>1 DEF PublishedUpTo, HandledUpTo
    <3>2. CASE s # r
      <4>1. emitter'[s] = emitter[s]  BY <1>0, <2>1, <3>2
      <4> QED  BY <2>1, <4>1 DEF PublishedUpTo, HandledUpTo, OnceInv
    <3> QED  BY <3>1, <3>2
  <2> QED  BY <2>1, <2>2, OnceUndisturbed
<1>4. ASSUME UNCHANGED <<setup, emitter, read, published, sink, failed>>,
             bus' = "up" => bus = "up"
      PROVE  OnceInv'
  <2>1. \A s \in Sources :
          /\ PublishedUpTo(s)' = PublishedUpTo(s) /\ HandledUpTo(s)' = HandledUpTo(s)
          /\ emitter'[s] \in {"publish", "write"} => read'[s] >= 1
    BY <1>4 DEF PublishedUpTo, HandledUpTo, OnceInv
  <2> QED  BY <1>4, <2>1, OnceUndisturbed
<1>5. CASE (\E r \in AllSources : QueuePanics(r)) \/ UNCHANGED vars
  BY <1>4, <1>5 DEF QueuePanics, vars, result, lines, events, lock
<1>6. CASE BusLocks \/ BusUnlocks \/ WaitCalled \/ Cancel \/ AllEmitted \/ CtxDone
  BY <1>4, <1>6 DEF BusLocks, BusUnlocks, WaitCalled, Cancel, AllEmitted, CtxDone, result,
                    lines, events, lock
<1>7. CASE \E k \in AllSinks : CloseSink(k)
  BY <1>4, <1>7 DEF CloseSink, result, lines, events, lock
<1> QED
  BY <1>1, <1>2, <1>3, <1>5, <1>6, <1>7, <1>8 DEF Next, Emit

\* OnceInv holds always.
LEMMA OnceAlways == Spec => [](LogTypes /\ EmitterInv /\ OnceInv)
<1>1. Init => EmitterInv /\ OnceInv
  <2> SUFFICES ASSUME Init PROVE EmitterInv /\ OnceInv
    OBVIOUS
  <2>1. EmitterInv  BY DEF Init, EmitterInv, PCs
  <2>2. Sources \subseteq AllSources  BY DEF Sources, AllSources
  <2>3. \A s \in Sources : /\ published[s] = <<>> /\ read[s] = 0
                           /\ emitter[s] \in {"scan", "eof"}
    BY <2>2 DEF Init
  <2>4. \A s \in Sources : Handled(s) = {} /\ PublishedOnce(s)
    BY <2>3 DEF Handled, PublishedOnce, Increasing
  <2>5. ASSUME NEW s \in Sources, NEW k \in SinksFor(s) PROVE WrittenOnce(s, k)
    <3>1. k \in AllSinks  BY OneSink
    <3>2. sink[k] = <<>>  BY <3>1 DEF Init
    <3> QED  BY <2>4, <3>2 DEF WrittenOnce
  <2>6. LinesOnce  BY <2>4, <2>5 DEF LinesOnce
  <2>7. failed = {}  BY DEF Init
  <2>8. \A s \in Sources :
          /\ emitter[s] \in {"publish", "write"} => read[s] >= 1
          /\ \A i \in DOMAIN published[s] : published[s][i] \in 1..PublishedUpTo(s)
          /\ \A l : <<s, l>> \in failed => l \in Handled(s)
    BY <2>3, <2>7
  <2>9. OnceInv  BY <2>6, <2>8 DEF OnceInv
  <2> QED  BY <2>1, <2>9
<1>2. EmitterInv /\ [Next]_vars => EmitterInv'
  BY EmittersPreserved
<1>3. LogTypes /\ EmitterInv /\ OnceInv /\ [Next]_vars => OnceInv'
  BY OncePreserved
<1> QED
  BY <1>1, <1>2, <1>3, TypesAlways, PTL DEF Spec

\* A failed line is reported, but for the one its emitter is about to report.
ReportsMade ==
    bus = "up" => \A s \in Sources : \A l : <<s, l>> \in failed =>
        \/ <<s, l>> \in reported
        \/ emitter[s] = "complain" /\ l = read[s]

\* Every step keeps it.
LEMMA ReportsPreserved ==
    ASSUME LogTypes, EmitterInv, ReportsMade, [Next]_vars PROVE ReportsMade'
<1>0. /\ Sources \subseteq AllSources
      /\ setup' = setup => Sources' = Sources
  BY DEF Sources, AllSources, setup
<1>1. CASE UNCHANGED <<setup, emitter, read, failed, reported>> /\ (bus' = "up" => bus = "up")
  BY <1>0, <1>1 DEF ReportsMade
<1>2. ASSUME NEW r \in Sources, r \in AllSources,
             Scan(r) \/ ScanEnds(r) \/ Publish(r)
      PROVE  ReportsMade'
  <2>1. /\ emitter[r] \in {"scan", "publish"}
        /\ UNCHANGED <<setup, bus, failed, reported>>
        /\ \A s \in AllSources \ {r} : read'[s] = read[s]
    <3>1. read \in [AllSources -> 0..MaxLines]  BY DEF LogTypes, TypeOK
    <3> QED
      BY <1>2, <3>1 DEF Scan, Yields, ScanEnds, Publish, lines, lock, events, result
  <2>2. \A s \in AllSources \ {r} : emitter'[s] = emitter[s]  BY <1>2, EmitStep
  <2> QED  BY <1>0, <2>1, <2>2 DEF ReportsMade
<1>3. ASSUME NEW r \in Sources, r \in AllSources, Write(r) PROVE ReportsMade'
  <2>1. emitter[r] = "write" /\ UNCHANGED <<setup, bus, read, reported>>
    BY <1>3 DEF Write, lines, lock, events
  <2>2. \A s \in AllSources \ {r} : emitter'[s] = emitter[s]  BY <1>3, EmitStep
  <2>3. \/ failed' = failed
        \/ failed' = failed \union {<<r, read[r]>>} /\ emitter'[r] = "complain"
    <3>1. emitter \in [AllSources -> PCs]  BY DEF EmitterInv
    <3> QED  BY <1>3, <3>1 DEF Write
  <2> QED  BY <1>0, <2>1, <2>2, <2>3 DEF ReportsMade
<1>4. ASSUME NEW r \in Sources, r \in AllSources, Complain(r) PROVE ReportsMade'
  <2>1. /\ UNCHANGED <<setup, bus, read, failed>>
        /\ bus = "up" => reported' = reported \union {<<r, read[r]>>}
    BY <1>4 DEF Complain, lines, lock, result
  <2>2. \A s \in AllSources \ {r} : emitter'[s] = emitter[s]  BY <1>4, EmitStep
  <2> QED  BY <1>0, <2>1, <2>2 DEF ReportsMade
<1>5. ASSUME NEW r \in AllSources, Emit(r) PROVE ReportsMade'
  <2>1. CASE QueuePanics(r)
    BY <1>1, <2>1 DEF QueuePanics, lines, events, lock, result
  <2> QED  BY <1>2, <1>3, <1>4, <1>5, <2>1, EmitStep DEF Emit
<1>6. CASE ~\E r \in AllSources : Emit(r)
  <2>1. UNCHANGED <<setup, emitter, read, failed, reported>> /\ (bus' = "up" => bus = "up")
    BY <1>6 DEF Next, BusLocks, BusUnlocks, WaitCalled, Cancel, AllEmitted, CtxDone,
                CloseSink, vars, lines, events, lock, result
  <2> QED  BY <1>1, <2>1
<1> QED  BY <1>5, <1>6

\* For every configuration, any number of lines and every interleaving of the
\* emitters, of the users of the bus and of the end of Wait, and whichever writes
\* fail: a line is published in its order, once, and as long as the bus is up; and
\* it is written in its order, once, or its failure is reported (logs.go 75-94).
THEOREM EveryLineOnceAlways == Spec => []EveryLineOnce
<1>1. Init => ReportsMade  BY DEF Init, ReportsMade
<1>2. LogTypes /\ EmitterInv /\ ReportsMade /\ [Next]_vars => ReportsMade'
  BY ReportsPreserved
<1>3. OnceInv /\ ReportsMade => EveryLineOnce
  BY DEF OnceInv, LinesOnce, ReportsMade, EveryLineOnce, FailuresReported
<1> QED
  BY <1>1, <1>2, <1>3, OnceAlways, PTL DEF Spec
-----------------------------------------------------------------------------
(***************************************************************************)
(* Wait.  An emitter is at its end when it has read what its source yields,  *)
(* and until the waiter has returned no sink is closed.                      *)
(***************************************************************************)
ReadInv ==
    \A s \in AllSources :
        /\ read[s] <= Yield(s) /\ long[s] <= output[s]
        /\ emitter[s] = "eof" => read[s] = Yield(s)

WaitInv ==
    /\ waiter = "nil" => \A s \in Sources : emitter[s] = "eof"
    /\ open # Sinks => waiter \in {"nil", "error"}
    /\ refused # {} => waiter = "error"

\* Every step keeps what is read within what the source yields.
LEMMA ReadPreserved ==
    ASSUME LogTypes, EmitterInv, ReadInv, [Next]_vars PROVE ReadInv'
<1>0. ASSUME NEW s \in AllSources
      PROVE  read[s] \in Nat /\ output[s] \in Nat /\ long[s] \in Nat
  <2>1. /\ read \in [AllSources -> 0..MaxLines] /\ output \in [AllSources -> 0..MaxLines]
        /\ long \in [AllSources -> 0..MaxLines] /\ MaxLines \in Nat
    BY LogAssumption DEF LogTypes, TypeOK
  <2> QED  BY <2>1
<1>1. CASE UNCHANGED <<setup, emitter, read>>  BY <1>1 DEF ReadInv, Yield, setup
<1>2. ASSUME NEW r \in AllSources, Scan(r) PROVE ReadInv'
  <2>1. /\ read[r] < output[r] /\ read[r] + 1 # long[r] /\ UNCHANGED setup
        /\ read' = [read EXCEPT ![r] = @ + 1]
    BY <1>2 DEF Scan, Yields
  <2>2. read \in [AllSources -> 0..MaxLines]  BY DEF LogTypes, TypeOK
  <2>3. read'[r] = read[r] + 1 /\ \A s \in AllSources \ {r} : read'[s] = read[s]
    BY <2>1, <2>2
  <2>4. read[r] + 1 <= Yield(r)  BY <1>0, <2>1 DEF ReadInv, Yield
  <2>5. emitter'[r] = "publish" /\ \A s \in AllSources \ {r} : emitter'[s] = emitter[s]
    BY <1>2, EmitStep
  <2>6. \A s \in AllSources : Yield(s)' = Yield(s) /\ long'[s] = long[s] /\ output'[s] = output[s]
    BY <2>1 DEF Yield, setup
  <2> QED  BY <2>3, <2>4, <2>5, <2>6 DEF ReadInv
<1>3. ASSUME NEW r \in AllSources, ScanEnds(r) PROVE ReadInv'
  <2>1. ~(read[r] < output[r] /\ read[r] + 1 # long[r]) /\ UNCHANGED <<setup, read>>
    BY <1>3 DEF ScanEnds, Yields, lines
  <2>2. read[r] = Yield(r)  BY <1>0, <2>1 DEF ReadInv, Yield
  <2>3. \A s \in AllSources \ {r} : emitter'[s] = emitter[s]  BY <1>3, EmitStep
  <2>4. \A s \in AllSources : Yield(s)' = Yield(s) /\ long'[s] = long[s] /\ output'[s] = output[s]
    BY <2>1 DEF Yield, setup
  <2> QED  BY <2>1, <2>2, <2>3, <2>4 DEF ReadInv
<1>4. ASSUME NEW r \in AllSources, Publish(r) \/ Write(r) \/ Complain(r) PROVE ReadInv'
  <2>1. UNCHANGED <<setup, read>>  BY <1>4 DEF Publish, Write, Complain, lines
  <2>2. emitter'[r] # "eof" /\ \A s \in AllSources \ {r} : emitter'[s] = emitter[s]
    BY <1>4, EmitStep
  <2>3. \A s \in AllSources : Yield(s)' = Yield(s) /\ long'[s] = long[s] /\ output'[s] = output[s]
    BY <2>1 DEF Yield, setup
  <2> QED  BY <2>1, <2>2, <2>3 DEF ReadInv
<1>5. ASSUME NEW r \in AllSources, QueuePanics(r) PROVE ReadInv'
  BY <1>1, <1>5 DEF QueuePanics, lines
<1>6. CASE ~\E r \in AllSources : Emit(r)
  <2>1. UNCHANGED <<setup, emitter, read>>
    BY <1>6 DEF Next, BusLocks, BusUnlocks, WaitCalled, Cancel, AllEmitted, CtxDone,
                CloseSink, vars, lines
  <2> QED  BY <1>1, <2>1
<1> QED  BY <1>2, <1>3, <1>4, <1>5, <1>6 DEF Emit

\* Every step keeps WaitInv.
LEMMA WaitPreserved ==
    ASSUME EmitterInv, WaitInv, [Next]_vars PROVE WaitInv'
<1>0. Sources \subseteq AllSources /\ (setup' = setup => Sources' = Sources /\ Sinks' = Sinks)
  BY DEF Sources, Sinks, AllSources, setup
<1>1. ASSUME UNCHANGED <<setup, open, waiter, refused>>,
             \A s \in AllSources : emitter[s] = "eof" => emitter'[s] = "eof"
      PROVE  WaitInv'
  BY <1>0, <1>1 DEF WaitInv
<1>2. ASSUME NEW r \in AllSources, Scan(r) \/ ScanEnds(r) \/ Publish(r) \/ Complain(r)
      PROVE  WaitInv'
  <2>1. UNCHANGED <<setup, open, waiter, refused>>
    BY <1>2 DEF Scan, ScanEnds, Publish, Complain, result, wait
  <2>2. emitter[r] # "eof" /\ \A s \in AllSources \ {r} : emitter'[s] = emitter[s]
    BY <1>2, EmitStep
  <2> QED  BY <1>1, <2>1, <2>2
<1>3. ASSUME NEW r \in AllSources, Write(r) PROVE WaitInv'
  <2>1. UNCHANGED <<setup, open, waiter>>  BY <1>3 DEF Write, wait
  <2>2. /\ emitter[r] # "eof" /\ r \in Sources
        /\ \A s \in AllSources \ {r} : emitter'[s] = emitter[s]
    BY <1>3, EmitStep
  <2>3. waiter # "nil"  BY <2>2 DEF WaitInv
  <2>4. refused' # {} => waiter = "error"
    <3>1. CASE SinksFor(r) \subseteq open  BY <1>3, <3>1 DEF Write, WaitInv
    <3>2. CASE ~(SinksFor(r) \subseteq open)
      <4>1. open # Sinks  BY <3>2 DEF SinksFor
      <4> QED  BY <2>3, <4>1 DEF WaitInv
    <3> QED  BY <3>1, <3>2
  <2> QED  BY <1>0, <2>1, <2>3, <2>4 DEF WaitInv
<1>4. ASSUME NEW r \in AllSources, QueuePanics(r) PROVE WaitInv'
  BY <1>1, <1>4 DEF QueuePanics, result, wait
<1>5. CASE BusLocks \/ BusUnlocks \/ Cancel
  BY <1>1, <1>5 DEF BusLocks, BusUnlocks, Cancel, result, wait
<1>6. CASE AllEmitted
  <2>1. /\ \A s \in Sources : emitter[s] = "eof"
        /\ waiter = "waiting" /\ waiter' = "nil" /\ UNCHANGED <<setup, emitter, refused, open>>
    BY <1>6 DEF AllEmitted, result
  <2> QED  BY <1>0, <2>1 DEF WaitInv
<1>7. CASE WaitCalled \/ CtxDone
  <2>1. /\ waiter \in {"not called", "waiting"} /\ waiter' \in {"waiting", "error"}
        /\ UNCHANGED <<setup, emitter, refused, open>>
    BY <1>7 DEF WaitCalled, CtxDone, result
  <2> QED  BY <1>0, <2>1 DEF WaitInv
<1>8. ASSUME NEW k \in AllSinks, CloseSink(k) PROVE WaitInv'
  <2>1. waiter \in {"nil", "error"} /\ UNCHANGED <<setup, emitter, refused, waiter>>
    BY <1>8 DEF CloseSink, result
  <2> QED  BY <1>0, <2>1 DEF WaitInv
<1>9. CASE UNCHANGED vars  BY <1>1, <1>9 DEF vars, result, wait
<1> QED
  BY <1>2, <1>3, <1>4, <1>5, <1>6, <1>7, <1>8, <1>9 DEF Next, Emit

\* A source whose emitter is at its end has been processed, if no line of it was
\* refused by a closed sink.
LEMMA EndIsProcessed ==
    ASSUME LogTypes, OnceInv, ReadInv, NEW s \in Sources, emitter[s] = "eof", refused = {}
    PROVE  Processed(s)
<1> DEFINE y == Yield(s)
<1>1. read[s] = y /\ s \in AllSources /\ Handled(s) = 1..y
  <2>1. s \in AllSources  BY UpTo
  <2> QED  BY <2>1 DEF ReadInv, Handled
<1>2. bus = "up" => {published[s][i] : i \in DOMAIN published[s]} = 1..y
  <2>1. PublishedOnce(s)  BY DEF OnceInv, LinesOnce
  <2> QED  BY <1>1, <2>1 DEF PublishedOnce
<1>3. ASSUME NEW l \in 1..y, NEW k \in SinksFor(s)
      PROVE  \/ \E i \in DOMAIN sink[k] : sink[k][i] = <<s, l>>
             \/ <<s, l>> \in failed /\ <<s, l>> \notin refused
  <2> DEFINE q == sink[k]
             places == {i \in DOMAIN q : q[i][1] = s}
             lost == {m \in Handled(s) : <<s, m>> \in failed}
  <2>1. {q[i][2] : i \in places} = Handled(s) \ lost
    <3>1. WrittenOnce(s, k)  BY DEF OnceInv, LinesOnce
    <3> QED  BY <3>1 DEF WrittenOnce
  <2>2. CASE l \in lost  BY <2>2
  <2>3. CASE l \notin lost
    <3>1. l \in Handled(s)  BY <1>1
    <3>2. l \in {q[i][2] : i \in places}
      <4> HIDE DEF q, places, lost
      <4> QED  BY <2>1, <2>3, <3>1
    <3>3. PICK i \in places : q[i][2] = l  BY <3>2
    <3>4. q \in Seq(AllSources \X Nat)
      <4>1. sink \in [AllSinks -> Seq(AllSources \X Nat)]  BY DEF LogTypes, TypeOK
      <4>2. k \in AllSinks  BY OneSink
      <4> QED  BY <4>1, <4>2
    <3>5. q[i] \in AllSources \X Nat
      <4>1. i \in DOMAIN q  BY <3>3
      <4> HIDE DEF q, places
      <4> QED  BY <3>4, <4>1
    <3>6. q[i][1] = s  BY <3>3
    <3>7. q[i] = <<s, l>>
      <4> HIDE DEF q, places
      <4> QED  BY <3>3, <3>5, <3>6
    <3> QED  BY <3>3, <3>7
  <2> QED  BY <2>2, <2>3
<1> QED  BY <1>1, <1>2, <1>3 DEF Processed

\* For every configuration, any number of lines, and whoever locks the bus, cancels
\* or fails a write: when Wait returns nil each source has been read to its end or
\* to a line too long, each of its lines is published unless the bus went down, and
\* is in its sink unless an open sink failed to take it; and a line meets a closed
\* sink only after Wait has returned an error (logs.go 96-117).
THEOREM WaitIsComplete == Spec => []WaitComplete
<1>1. Init => ReadInv /\ WaitInv
  <2> SUFFICES ASSUME Init PROVE ReadInv /\ WaitInv
    OBVIOUS
  <2>1. \A s \in AllSources :
          /\ output[s] \in 0..MaxLines /\ long[s] \in 0..MaxLines /\ MaxLines \in Nat
          /\ long[s] <= output[s] /\ (s \notin Sources => output[s] = 0)
          /\ read[s] = 0 /\ (emitter[s] = "eof" => s \notin Sources)
    BY LogAssumption DEF Init
  <2>2. ReadInv
    <3> SUFFICES ASSUME NEW s \in AllSources
                 PROVE  /\ read[s] <= Yield(s) /\ long[s] <= output[s]
                        /\ emitter[s] = "eof" => read[s] = Yield(s)
      BY DEF ReadInv
    <3>1. output[s] \in Nat /\ long[s] \in Nat /\ long[s] <= output[s] /\ read[s] = 0
      BY <2>1
    <3>2. CASE long[s] > 0  BY <2>1, <3>1, <3>2 DEF Yield
    <3>3. CASE long[s] = 0  BY <2>1, <3>1, <3>3 DEF Yield
    <3> QED  BY <3>1, <3>2, <3>3
  <2>3. WaitInv  BY DEF Init, WaitInv
  <2> QED  BY <2>2, <2>3
<1>2. LogTypes /\ EmitterInv /\ ReadInv /\ [Next]_vars => ReadInv'
  BY ReadPreserved
<1>3. EmitterInv /\ WaitInv /\ [Next]_vars => WaitInv'
  BY WaitPreserved
<1>4. LogTypes /\ OnceInv /\ ReadInv /\ WaitInv => WaitComplete
  BY EndIsProcessed DEF WaitInv, WaitComplete
<1> QED
  BY <1>1, <1>2, <1>3, <1>4, OnceAlways, PTL DEF Spec
=============================================================================
