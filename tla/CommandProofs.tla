--------------------------- MODULE CommandProofs ---------------------------
(***************************************************************************)
(* Proofs about Command, for any configuration, any output of the child,   *)
(* any number of lines, tries and memory readings.                         *)
(***************************************************************************)
EXTENDS Command, History, SequenceProofs

\* The elements of a sequence.
LEMMA SeqElements ==
    ASSUME NEW S, NEW q \in Seq(S)
    PROVE  /\ DOMAIN q = 1..Len(q) /\ Len(q) \in Nat
           /\ \A i \in DOMAIN q : q[i] \in S
OBVIOUS

\* The head and the tail of a sequence that is not empty.
LEMMA HeadTail ==
    ASSUME NEW S, NEW q \in Seq(S), q # <<>>
    PROVE  Head(q) \in S /\ Tail(q) \in Seq(S)
OBVIOUS

\* The sign of a duration.
LEMMA Signs == 1 \in -1..1 /\ -1 \in -1..1
OBVIOUS

\* What is needed most of the types.
LEMMA Types ==
    ASSUME TypeOK
    PROVE  /\ sends \in Seq(SendType) /\ c \in CommandType
           /\ DOMAIN sends = 1..Len(sends) /\ Len(sends) \in Nat
           /\ \A i \in DOMAIN sends : sends[i] \in SendType
           /\ dead \in {"no", "nil reporter", "bad assertion", "torn"}
<1>1. sends \in Seq(SendType) /\ c \in CommandType
      /\ dead \in {"no", "nil reporter", "bad assertion", "torn"}
  BY DEF TypeOK
<1> QED
  BY <1>1, SeqElements

\* Where a scanner ends, or the program in it.
Ends(s) == ScanEOF(s) \/ ScanStops(s) \/ OutputBroken(s) \/ BadAssertion(s)

\* The matches of a line are line numbers.
LEMMA MatchesOfLine ==
    ASSUME lines \in Nat, NEW new \in Matches(lines + 1)
    PROVE  new \in SUBSET Nat
BY DEF Matches

\* A command as New returns it is one.
LEMMA NewCommandType == NewCommand \in CommandType
BY DEF NewCommand, CommandType

\* Starting a Send appends one call and leaves the others alone.
LEMMA WithSendType ==
    ASSUME sends \in Seq(SendType), NEW r \in Reasons
    PROVE  /\ WithSend(r) \in Seq(SendType)
           /\ DOMAIN WithSend(r) = DOMAIN sends \cup {Len(sends) + 1}
           /\ \A i \in DOMAIN sends : WithSend(r)[i] = sends[i]
           /\ WithSend(r)[Len(sends) + 1].reason = r
           /\ WithSend(r)[Len(sends) + 1].pc = "called"
<1> DEFINE new == [reason |-> r, pc |-> "called", snap |-> NewCommand,
                   tries |-> 0, delivered |-> FALSE]
<1>1. new \in SendType
  BY NewCommandType, ReportAssumption DEF SendType
<1>2. new.reason = r /\ new.pc = "called"
  OBVIOUS
<1> HIDE DEF new
<1> QED
  BY <1>1, <1>2 DEF WithSend, new

\* Replacing one call by another of the same reason.
LEMMA UpdateType ==
    ASSUME sends \in Seq(SendType), NEW i \in DOMAIN sends, NEW new \in SendType
    PROVE  /\ [sends EXCEPT ![i] = new] \in Seq(SendType)
           /\ DOMAIN [sends EXCEPT ![i] = new] = DOMAIN sends
OBVIOUS

-----------------------------------------------------------------------------
\* What a step of a report changes: its own call, keeping the reason, and the
\* matches.  A snapshot is only replaced by Create, and by the command.
Untouched(s, t) ==
    /\ t.reason = s.reason
    /\ s.pc # "called" => t.snap = s.snap /\ t.pc # "called"
    /\ t.pc # "called" /\ s.pc = "called" =>
          \E m \in SUBSET Nat :
              t.snap = [c EXCEPT !.matches = m, !.reportReason = s.reason]

SameCommand == \E m \in SUBSET Nat : c' = [c EXCEPT !.matches = m]

SameCalls ==
    /\ DOMAIN sends' = DOMAIN sends
    /\ \A i \in DOMAIN sends : Untouched(sends[i], sends'[i])

\* The matches of a command replaced, or left as they are.
LEMMA MatchesType ==
    ASSUME NEW r \in CommandType, NEW m \in SUBSET Nat
    PROVE  /\ [r EXCEPT !.matches = m] \in CommandType
           /\ [r EXCEPT !.matches = r.matches] = r
           /\ r.matches \in SUBSET Nat
<1>1. r.matches \in SUBSET Nat
  BY DEF CommandType
<1>2. [r EXCEPT !.matches = m] \in CommandType
  BY DEF CommandType
<1>3. [r EXCEPT !.matches = r.matches] = r
  BY DEF CommandType
<1> QED
  BY <1>1, <1>2, <1>3

\* One call replaced: the others are as they were.
LEMMA OneCall ==
    ASSUME sends \in Seq(SendType), NEW i \in DOMAIN sends, NEW new \in SendType,
           sends' = [sends EXCEPT ![i] = new], Untouched(sends[i], new)
    PROVE  sends' \in Seq(SendType) /\ SameCalls
<1>1. \A j \in DOMAIN sends : j # i => sends'[j] = sends[j]
  OBVIOUS
<1>2. sends'[i] = new
  OBVIOUS
<1>3. sends' \in Seq(SendType) /\ DOMAIN sends' = DOMAIN sends
  BY UpdateType
<1>4. \A j \in DOMAIN sends : Untouched(sends[j], sends[j])
  BY DEF Untouched
<1> QED
  BY <1>1, <1>2, <1>3, <1>4 DEF SameCalls

\* No call changed.
LEMMA NoCall ==
    ASSUME sends \in Seq(SendType), UNCHANGED sends
    PROVE  sends' \in Seq(SendType) /\ SameCalls
BY DEF SameCalls, Untouched

\* A call that only moves on.
LEMMA CallMoves ==
    ASSUME sends \in Seq(SendType), NEW i \in DOMAIN sends, sends[i].pc # "called",
           NEW p \in {"off", "background", "sending", "refused", "lost", "acked", "failed",
                      "clearing", "done"},
           To(i, p)
    PROVE  sends' \in Seq(SendType) /\ SameCalls
<1> DEFINE new == [sends[i] EXCEPT !.pc = p]
<1>0. sends[i] \in SendType
  OBVIOUS
<1>1. new \in SendType /\ Untouched(sends[i], new)
  BY <1>0 DEF SendType, Untouched
<1>2. sends' = [sends EXCEPT ![i] = new]
  BY DEF To
<1> HIDE DEF new
<1> QED
  BY <1>1, <1>2, OneCall

\* A step of the goroutines of report i changes nothing else, and keeps types.
LEMMA SendStepEffect ==
    ASSUME TypeOK, NEW i \in DOMAIN sends, SendStep(i)
    PROVE  /\ sends' \in Seq(SendType) /\ c' \in CommandType
           /\ dead' \in {"no", "nil reporter", "bad assertion", "torn"}
           /\ SameCommand /\ SameCalls /\ config' = config
<1>0. /\ sends \in Seq(SendType) /\ sends[i] \in SendType
      /\ c \in CommandType /\ c.matches \in SUBSET Nat
      /\ dead \in {"no", "nil reporter", "bad assertion", "torn"}
  BY Types, MatchesType
<1>1. UNCHANGED c => SameCommand /\ c' \in CommandType
  <2>1. c = [c EXCEPT !.matches = c.matches]
    BY <1>0, MatchesType
  <2> QED
    BY <1>0, <2>1 DEF SameCommand
<1>2. c' = [c EXCEPT !.matches = {}] => SameCommand /\ c' \in CommandType
  <2>1. {} \in SUBSET Nat
    OBVIOUS
  <2> QED
    BY <1>0, <2>1, MatchesType DEF SameCommand
<1>3. CASE Create(i)
  <2>1. PICK m \in MatchesSeen :
           sends' = [sends EXCEPT ![i].pc = "created",
                                  ![i].snap = [c EXCEPT !.matches = m,
                                                        !.reportReason = sends[i].reason]]
    BY <1>3 DEF Create
  <2> DEFINE snap == [c EXCEPT !.matches = m, !.reportReason = sends[i].reason]
             new  == [sends[i] EXCEPT !.pc = "created", !.snap = snap]
  <2>2. m \in SUBSET Nat
    BY <1>0 DEF MatchesSeen
  <2>3. snap \in CommandType
    BY <1>0, <2>2 DEF CommandType, SendType
  <2>4. new \in SendType /\ new.snap = snap /\ new.pc = "created"
        /\ new.reason = sends[i].reason
    BY <1>0, <2>3 DEF SendType
  <2>5. sends' = [sends EXCEPT ![i] = new]
    BY <1>0, <2>1
  <2>6. Untouched(sends[i], new)
    BY <1>3, <2>2, <2>4 DEF Untouched, Create
  <2>7. sends' \in Seq(SendType) /\ SameCalls
    <3> HIDE DEF new
    <3> QED
      BY <1>0, <2>4, <2>5, <2>6, OneCall
  <2> QED
    BY <1>0, <1>1, <1>3, <2>7 DEF Create
<1>4. CASE TornRead(i)
  BY <1>0, <1>1, <1>4, NoCall DEF TornRead
<1>5. CASE Decide(i)
  BY <1>0, <1>1, <1>5, CallMoves DEF Decide
<1>6. CASE Register(i)
  BY <1>0, <1>1, <1>6, CallMoves DEF Register
<1>7. CASE Store(i)
  <2> DEFINE new == [sends[i] EXCEPT !.pc = "stored", !.delivered = TRUE]
  <2>1. new \in SendType /\ Untouched(sends[i], new)
    BY <1>0, <1>7 DEF SendType, Untouched, Store
  <2>2. sends' = [sends EXCEPT ![i] = new]
    BY <1>0, <1>7 DEF Store
  <2>3. sends' \in Seq(SendType) /\ SameCalls
    <3> HIDE DEF new
    <3> QED
      BY <1>0, <2>1, <2>2, OneCall
  <2> QED
    BY <1>0, <1>1, <1>7, <2>3 DEF Store
<1>13. CASE Retry(i)
  <2> DEFINE new == [sends[i] EXCEPT !.pc = "sending", !.tries = @ + 1]
  <2>1. sends[i].tries + 1 \in Nat /\ sends[i].pc # "called"
    <3>1. sends[i].tries \in Nat
      BY <1>0 DEF SendType
    <3>2. sends[i].pc # "called"
      BY <1>13 DEF Retry
    <3> QED
      BY <3>1, <3>2
  <2>5. new \in SendType
    BY <1>0, <2>1 DEF SendType
  <2>6. new.reason = sends[i].reason /\ new.pc = "sending" /\ new.snap = sends[i].snap
    BY <1>0 DEF SendType
  <2>2. new \in SendType /\ Untouched(sends[i], new)
    <3> HIDE DEF new
    <3> QED
      BY <2>1, <2>5, <2>6 DEF Untouched
  <2>3. sends' = [sends EXCEPT ![i] = new]
    BY <1>0, <1>13 DEF Retry
  <2>4. sends' \in Seq(SendType) /\ SameCalls
    <3> HIDE DEF new
    <3> QED
      BY <1>0, <2>2, <2>3, OneCall
  <2> QED
    BY <1>0, <1>1, <1>13, <2>4 DEF Retry
<1>14. CASE CallLost(i) \/ Refuse(i) \/ Acknowledged(i)
  BY <1>0, <1>1, <1>14, CallMoves DEF CallLost, Refuse, Acknowledged
<1>8. CASE GiveUp(i)
  BY <1>0, <1>1, <1>8, CallMoves DEF GiveUp
<1>9. CASE Callback(i)
  BY <1>0, <1>1, <1>9, CallMoves DEF Callback
<1>10. CASE Cleared(i)
  BY <1>0, <1>2, <1>10, CallMoves DEF Cleared
<1>11. CASE ClearedRaced(i)
  <2>1. sends' \in Seq(SendType) /\ SameCalls
    BY <1>0, <1>11, CallMoves DEF ClearedRaced
  <2> QED
    BY <1>0, <1>1, <1>2, <1>11, <2>1 DEF ClearedRaced
<1>12. CASE ReportError(i)
  BY <1>0, <1>1, <1>12, NoCall DEF ReportError
<1> QED
  BY <1>3, <1>4, <1>5, <1>6, <1>7, <1>8, <1>9, <1>10, <1>11, <1>12, <1>13, <1>14
     DEF SendStep

\* A scanner's append changes the matches, and no call but for the race mark.
LEMMA AppendEffect ==
    ASSUME TypeOK, NEW new \in SUBSET Nat, AppendMatches(new)
    PROVE  sends' \in Seq(SendType) /\ c' \in CommandType /\ SameCommand /\ SameCalls
<1>1. PICK old \in MatchesSeen : c' = [c EXCEPT !.matches = old \cup new]
  BY DEF AppendMatches
<1>2. c \in CommandType /\ c.matches \in SUBSET Nat
  BY Types, MatchesType
<1>3. old \cup new \in SUBSET Nat
  BY <1>2 DEF MatchesSeen
<1>4. SameCommand /\ c' \in CommandType
  BY <1>1, <1>2, <1>3, MatchesType DEF SameCommand
<1> DEFINE mark(s) == IF s.pc = "clearing" THEN [s EXCEPT !.pc = "raced"] ELSE s
<1>5. ASSUME NEW s \in SendType PROVE mark(s) \in SendType /\ Untouched(s, mark(s))
  BY DEF SendType, Untouched
<1>6. sends' = [i \in DOMAIN sends |-> mark(sends[i])]
  BY DEF AppendMatches
<1> HIDE DEF mark
<1>7. sends \in Seq(SendType) /\ DOMAIN sends = 1..Len(sends) /\ Len(sends) \in Nat
  BY Types
<1>8. \A i \in DOMAIN sends : sends[i] \in SendType
  BY Types
<1>9. sends' \in Seq(SendType)
  <2>1. \A i \in 1..Len(sends) : mark(sends[i]) \in SendType
    BY <1>5, <1>7, <1>8
  <2>2. sends' = [i \in 1..Len(sends) |-> mark(sends[i])]
    BY <1>6, <1>7
  <2> QED
    BY <1>7, <2>1, <2>2
<1>10. SameCalls
  BY <1>5, <1>6, <1>8 DEF SameCalls
<1> QED
  BY <1>4, <1>9, <1>10

-----------------------------------------------------------------------------
(* Type correctness *)

\* The initial state has the types.
LEMMA TypeInit == Init => TypeOK
<1> SUFFICES ASSUME Init PROVE TypeOK
  OBVIOUS
<1>1. config \in Configs /\ c \in CommandType /\ sends \in Seq(SendType) /\ dead = "no"
  BY NewCommandType DEF Init, ReportInit
<1>2. lines \in Nat /\ checks \in Nat /\ left \in Seq(Files)
  BY DEF Init
<1>3. scanner \in [Streams -> {"scan", "check", "eof"}]
  BY DEF Init
<1>4. warned \in BOOLEAN /\ matched \subseteq Nat
  BY DEF Init
<1> QED
  BY <1>1, <1>2, <1>3, <1>4 DEF Init, TypeOK

\* The goroutines that serve the child, and main's exit.
LEMMA GoroutineType == TypeOK /\ Goroutine => TypeOK'
<1> SUFFICES ASSUME TypeOK, Goroutine PROVE TypeOK'
  OBVIOUS
<1> USE DEF TypeOK, procVars, reportVars
<1>1. CASE StdinEnds
  BY <1>1 DEF StdinEnds
<1>2. CASE StdinBroken
  BY <1>2 DEF StdinBroken
<1>3. CASE Reap
  BY <1>3 DEF Reap
<1>4. CASE RunFinished
  BY <1>4 DEF RunFinished
<1>5. ASSUME NEW s \in Streams, Scan(s) PROVE TypeOK'
  <2>1. lines' \in Nat /\ lines + 1 \in Nat
    <3> HIDE DEF TypeOK
    <3>1. lines \in Nat
      BY DEF TypeOK
    <3>2. lines' = lines + 1
      BY <1>5 DEF Scan
    <3> QED
      BY <3>1, <3>2
  <2>2. PICK new \in Matches(lines + 1) :
           matched' = matched \cup new /\ AppendMatches(new)
    BY <1>5 DEF Scan
  <2>3. new \in SUBSET Nat
    BY MatchesOfLine
  <2>4. sends' \in Seq(SendType) /\ c' \in CommandType
    BY <2>2, <2>3, AppendEffect
  <2> QED
    BY <1>5, <2>1, <2>2, <2>3, <2>4 DEF Scan
<1>6. ASSUME NEW s \in Streams, AlertIfMatched(s) PROVE TypeOK'
  <2>1. sends' \in Seq(SendType)
    BY <1>6, WithSendType DEF AlertIfMatched, Reasons
  <2> QED
    BY <1>6, <2>1 DEF AlertIfMatched
<1>7. ASSUME NEW s \in Streams, ScanEOF(s) PROVE TypeOK'
  BY <1>7 DEF ScanEOF
<1>8. ASSUME NEW s \in Streams, ScanStops(s) PROVE TypeOK'
  BY <1>8 DEF ScanStops
<1>9. ASSUME NEW s \in Streams, OutputBroken(s) \/ BadAssertion(s) PROVE TypeOK'
  BY <1>9 DEF OutputBroken, BadAssertion
<1> QED
  BY <1>1, <1>2, <1>3, <1>4, <1>5, <1>6, <1>7, <1>8, <1>9 DEF Goroutine

\* The handlers.
LEMMA HandlerType == TypeOK /\ Handler => TypeOK'
<1> SUFFICES ASSUME TypeOK, Handler PROVE TypeOK'
  OBVIOUS
<1> USE DEF TypeOK, procVars, reportVars
<1>0. c \in CommandType /\ \A r \in Reasons : WithSend(r) \in Seq(SendType)
  BY WithSendType
<1>1. CASE Finished
  <2>1. c' \in CommandType
    <3> HIDE DEF TypeOK
    <3> QED
      BY <1>0, <1>1, Signs DEF Finished, CommandType
  <2> QED
    BY <1>1, <2>1 DEF Finished
<1>2. CASE FinishedVerdict
  <2>1. c' \in CommandType
    BY <1>0, <1>2 DEF FinishedVerdict, CommandType, Reasons
  <2>2. sends' \in Seq(SendType)
    BY <1>0, <1>2 DEF FinishedVerdict, Reasons
  <2>3. left' \in Seq(Files)
    BY <1>2, ReportAssumption DEF FinishedVerdict, ConfigType
  <2> QED
    BY <1>2, <2>1, <2>2, <2>3 DEF FinishedVerdict
<1>3. CASE FileMissing \/ FileFound \/ FileUnknown
  <2>1. left # <<>> /\ Head(left) \in Files /\ Tail(left) \in Seq(Files)
    <3>1. left \in Seq(Files) /\ left # <<>>
      BY <1>3 DEF FileMissing, FileFound, FileUnknown
    <3> HIDE DEF TypeOK
    <3> QED
      BY <3>1, HeadTail
  <2>2. c' \in CommandType
    <3> HIDE DEF TypeOK
    <3>1. c.missing \cup {Head(left)} \in SUBSET Files
          /\ c.created \cup {Head(left)} \in SUBSET Files
      BY <1>0, <2>1 DEF CommandType
    <3>2. CASE FileMissing
      BY <1>0, <3>1, <3>2 DEF FileMissing, CommandType, Reasons
    <3>3. CASE FileFound
      BY <1>0, <3>1, <3>3 DEF FileFound, CommandType
    <3>4. CASE FileUnknown
      BY <1>0, <3>4 DEF FileUnknown, reportVars
    <3> QED
      BY <1>3, <3>2, <3>3, <3>4
  <2>3. sends' \in Seq(SendType)
    BY <1>0, <1>3 DEF FileMissing, FileFound, FileUnknown, Reasons
  <2> QED
    BY <1>3, <2>1, <2>2, <2>3 DEF FileMissing, FileFound, FileUnknown
<1>4. CASE FilesChecked
  BY <1>4 DEF FilesChecked
<1>5. ASSUME NEW r \in {"Signal", "Timeout", "Memory"}, Kill(r) PROVE TypeOK'
  <2>1. c' \in CommandType
    <3> HIDE DEF TypeOK
    <3> QED
      BY <1>0, <1>5, Signs DEF Kill, CommandType, Reasons
  <2>2. sends' \in Seq(SendType)
    BY <1>0, <1>5 DEF Kill, Reasons
  <2> QED
    BY <1>5, <2>1, <2>2 DEF Kill
<1>6. CASE KillSignal
  BY <1>6 DEF KillSignal
<1>7. CASE TimeWarning
  <2>1. c' \in CommandType
    BY <1>0, <1>7 DEF TimeWarning, CommandType, Reasons
  <2>2. sends' \in Seq(SendType)
    BY <1>0, <1>7 DEF TimeWarning, Reasons
  <2> QED
    BY <1>7, <2>1, <2>2 DEF TimeWarning
<1>8. ASSUME NEW mem \in 1..2, CheckMemory(mem) PROVE TypeOK'
  <2>1. c.maxMemory \in 0..2 /\ mem \in 0..2
    <3> HIDE DEF TypeOK
    <3> QED
      BY <1>0 DEF CommandType
  <2>2. c' \in CommandType
    BY <1>0, <1>8, <2>1 DEF CheckMemory, CommandType, Reasons
  <2>3. sends' \in Seq(SendType)
    BY <1>0, <1>8 DEF CheckMemory, Reasons
  <2>4. checks' \in Nat
    <3> HIDE DEF TypeOK
    <3>1. checks \in Nat
      BY DEF TypeOK
    <3>2. checks' = checks + 1
      BY <1>8 DEF CheckMemory
    <3> QED
      BY <3>1, <3>2
  <2> QED
    BY <1>8, <2>2, <2>3, <2>4 DEF CheckMemory
<1> QED
  BY <1>1, <1>2, <1>3, <1>4, <1>5, <1>6, <1>7, <1>8
     DEF Handler, Signal, Timeout, KillOnHighMemory

\* Every step keeps the types.
LEMMA TypeStep == TypeOK /\ [Next]_vars => TypeOK'
<1> SUFFICES ASSUME TypeOK, [Next]_vars PROVE TypeOK'
  OBVIOUS
<1>1. CASE UNCHANGED vars
  BY <1>1 DEF TypeOK, vars, procVars, reportVars
<1>2. CASE ReportStep
  <2>1. PICK i \in DOMAIN sends : SendStep(i)
    BY <1>2 DEF ReportStep
  <2>2. /\ sends' \in Seq(SendType) /\ c' \in CommandType
        /\ dead' \in {"no", "nil reporter", "bad assertion", "torn"} /\ config' = config
    BY <2>1, SendStepEffect
  <2> QED
    BY <1>2, <2>2 DEF ReportStep, TypeOK, procVars
<1>3. CASE Start \/ ChildExits \/ WaitReturns \/ Exit
  BY <1>3 DEF Start, ChildExits, WaitReturns, Exit, TypeOK, procVars, reportVars
<1> QED
  BY <1>1, <1>2, <1>3, GoroutineType, HandlerType DEF Next, Terminated

\* Type correctness of a supervised run.
THEOREM TypeCorrect == Spec => []TypeOK
BY TypeInit, TypeStep, PTL DEF Spec

-----------------------------------------------------------------------------
(***************************************************************************)
(* TruthfulReports.  A snapshot is taken some time after `go Send', by then *)
(* the handlers have gone on.  Recorded says that what each reason claims   *)
(* holds of the command from the call of Send on, for Create to copy; it is *)
(* kept because a kill is final (Standing) and a verdict comes once.        *)
(***************************************************************************)

\* TruthfulReports for one call.
Truth(s) ==
    s.pc # "called" =>
        /\ s.reason = "Killed" =>
              s.snap.killed /\ s.snap.killReason # "None"
        /\ s.reason \in {"Success", "Failure", "FileNotCreated"} => ~s.snap.killed
        /\ s.reason \in {"Failure", "FileNotCreated"} => ~s.snap.success
        /\ s.reason = "FileNotCreated" => s.snap.missing # {}

\* TruthfulReports, call by call, now and after the step.
LEMMA TruthNow ==
    /\ TruthfulReports <=> \A i \in DOMAIN sends : Truth(sends[i])
    /\ TruthfulReports' <=> \A i \in DOMAIN sends' : Truth(sends'[i])
<1>1. TruthfulReports <=> \A i \in DOMAIN sends : Truth(sends[i])
  BY DEF TruthfulReports, Truth, Snapshots, Sent
<1>2. TruthfulReports' <=> \A i \in DOMAIN sends' : Truth(sends'[i])
  BY DEF TruthfulReports, Truth, Snapshots, Sent
<1> QED
  BY <1>1, <1>2

\* Recorded for one call: what its reason says of the command r, while the main
\* goroutine is at m.
Records(s, r, m) ==
    /\ s.reason = "Killed" => r.killed
    /\ s.reason \in {"Success", "Failure", "FileNotCreated"} =>
          ~r.killed /\ m \notin {"start", "loop", "highmem", "finished"}
    /\ s.reason \in {"Failure", "FileNotCreated"} => ~r.success
    /\ s.reason = "FileNotCreated" => r.missing # {}

\* Recorded, call by call, now and after the step.
LEMMA RecordedNow ==
    /\ Recorded <=> \A i \in DOMAIN sends : Records(sends[i], c, main)
    /\ Recorded' <=> \A i \in DOMAIN sends' : Records(sends'[i], c', main')
BY DEF Recorded, Records

\* Steps that leave the command alone but for its matches, and only move calls on.
LEMMA VerdictKept ==
    ASSUME TypeOK, VerdictInv, SameCommand, SameCalls, UNCHANGED main
    PROVE  VerdictInv'
<1>1. c \in CommandType
  BY Types
<1>2. PICK n \in SUBSET Nat : c' = [c EXCEPT !.matches = n]
  BY DEF SameCommand
<1>3. /\ c'.killed = c.killed /\ c'.success = c.success /\ c'.missing = c.missing
      /\ c'.killReason = c.killReason /\ c'.reportReason = c.reportReason
  BY <1>1, <1>2 DEF CommandType
<1>4. Standing'
  BY <1>3 DEF VerdictInv, Standing
<1>5. Recorded'
  BY <1>3, RecordedNow DEF VerdictInv, Records, SameCalls, Untouched
<1>6. ASSUME NEW i \in DOMAIN sends' PROVE Truth(sends'[i])
  <2>1. i \in DOMAIN sends /\ Untouched(sends[i], sends'[i])
    BY DEF SameCalls
  <2>2. CASE sends[i].pc # "called"
    BY <2>1, <2>2, TruthNow DEF VerdictInv, Truth, Untouched
  <2>3. CASE sends[i].pc = "called" /\ sends'[i].pc # "called"
    <3>1. PICK m \in SUBSET Nat :
             sends'[i].snap = [c EXCEPT !.matches = m, !.reportReason = sends[i].reason]
      BY <2>1, <2>3 DEF Untouched
    <3>2. /\ sends'[i].snap.killed = c.killed
          /\ sends'[i].snap.success = c.success
          /\ sends'[i].snap.missing = c.missing
          /\ sends'[i].snap.killReason = c.killReason
      BY <1>1, <3>1 DEF CommandType
    <3>3. Records(sends[i], c, main) /\ Standing
      BY <2>1, RecordedNow DEF VerdictInv
    <3>4. sends'[i].reason = sends[i].reason
      BY <2>1 DEF Untouched
    <3> QED
      BY <3>2, <3>3, <3>4 DEF Truth, Records, Standing
  <2> QED
    BY <2>2, <2>3 DEF Truth
<1> QED
  BY <1>4, <1>5, <1>6, TruthNow DEF VerdictInv

\* Steps of the main goroutine and its handlers: the calls there were are left
\* alone, what they record stays true, and a new one is true when it is made.
LEMMA VerdictMain ==
    ASSUME TypeOK, VerdictInv, Standing',
           \A i \in DOMAIN sends : Records(sends[i], c', main'),
           \/ UNCHANGED sends
           \/ \E r \in Reasons :
                 sends' = WithSend(r) /\ \A s : s.reason = r => Records(s, c', main')
    PROVE  VerdictInv'
<1>1. sends \in Seq(SendType)
  BY Types
<1>2. CASE UNCHANGED sends
  BY <1>2, TruthNow, RecordedNow DEF VerdictInv
<1>3. ASSUME NEW r \in Reasons, sends' = WithSend(r),
             \A s : s.reason = r => Records(s, c', main')
      PROVE  VerdictInv'
  <2>1. \A i \in DOMAIN sends' :
           \/ i \in DOMAIN sends /\ sends'[i] = sends[i]
           \/ sends'[i].reason = r /\ sends'[i].pc = "called"
    BY <1>1, <1>3, WithSendType
  <2>2. \A i \in DOMAIN sends' : Truth(sends'[i])
    BY <2>1, TruthNow DEF VerdictInv, Truth
  <2>3. \A i \in DOMAIN sends' : Records(sends'[i], c', main')
    BY <1>3, <2>1
  <2> QED
    BY <2>2, <2>3, TruthNow, RecordedNow DEF VerdictInv
<1> QED
  BY <1>2, <1>3

\* The handlers keep the invariant.
LEMMA VerdictHandler == TypeOK /\ VerdictInv /\ Handler => VerdictInv'
<1> SUFFICES ASSUME TypeOK, VerdictInv, Handler PROVE VerdictInv'
  OBVIOUS
<1>0. /\ c \in CommandType /\ Standing
      /\ \A i \in DOMAIN sends : Records(sends[i], c, main)
  BY Types, RecordedNow DEF VerdictInv
<1> USE DEF Standing, Records, Reasons, reportVars
<1>1. CASE Finished
  <2>1. /\ c'.killed = c.killed /\ c'.success = c.success /\ c'.missing = c.missing
        /\ c'.killReason = c.killReason /\ c'.reportReason = c.reportReason
    BY <1>0, <1>1 DEF Finished, CommandType
  <2> QED
    BY <1>0, <1>1, <2>1, VerdictMain DEF Finished
<1>2. CASE FinishedVerdict
  <2> DEFINE r == IF child = "ok" THEN "Success" ELSE "Failure"
  <2>1. /\ c'.killed = c.killed /\ c'.success = (child = "ok")
        /\ c'.missing = c.missing
    BY <1>0, <1>2 DEF FinishedVerdict, CommandType
  <2>2. ~c.killed /\ main = "finished" /\ main' = "files" /\ sends' = WithSend(r)
    BY <1>0, <1>2 DEF FinishedVerdict
  <2>3. \A i \in DOMAIN sends : Records(sends[i], c', main')
    BY <1>0, <2>1, <2>2
  <2>4. \A s : s.reason = r => Records(s, c', main')
    BY <2>1, <2>2
  <2>5. Standing' /\ r \in Reasons
    BY <2>1, <2>2
  <2> QED
    BY <2>2, <2>3, <2>4, <2>5, VerdictMain
<1>3. CASE FileMissing
  <2> DEFINE r == "FileNotCreated"
  <2>1. /\ c'.killed = c.killed /\ c'.success = FALSE
        /\ c'.missing = c.missing \cup {Head(left)}
    BY <1>0, <1>3 DEF FileMissing, CommandType
  <2>2. ~c.killed /\ main = "files" /\ main' = "files" /\ sends' = WithSend(r)
    BY <1>0, <1>3 DEF FileMissing, procVars
  <2>3. \A i \in DOMAIN sends : Records(sends[i], c', main')
    BY <1>0, <2>1, <2>2
  <2>4. \A s : s.reason = r => Records(s, c', main')
    BY <2>1, <2>2
  <2>5. Standing' /\ r \in Reasons
    BY <2>1, <2>2
  <2> QED
    BY <2>2, <2>3, <2>4, <2>5, VerdictMain
<1>4. CASE FileFound \/ FileUnknown \/ FilesChecked
  <2>1. /\ c'.killed = c.killed /\ c'.success = c.success /\ c'.missing = c.missing
        /\ c'.killReason = c.killReason /\ c'.reportReason = c.reportReason
    BY <1>0, <1>4 DEF FileFound, FileUnknown, FilesChecked, CommandType
  <2>2. UNCHANGED sends /\ main = "files" /\ main' \in {"files", "wait"}
    BY <1>4 DEF FileFound, FileUnknown, FilesChecked
  <2> QED
    BY <1>0, <2>1, <2>2, VerdictMain
<1>5. ASSUME NEW k \in {"Signal", "Timeout", "Memory"}, Kill(k),
             main \in {"loop", "highmem"}
      PROVE  VerdictInv'
  <2>1. /\ c'.killed = TRUE /\ c'.killReason = k /\ c'.reportReason = "Killed"
        /\ c'.success = c.success /\ c'.missing = c.missing
    BY <1>0, <1>5 DEF Kill, CommandType
  <2>2. ~c.killed /\ main' = "killing" /\ sends' = WithSend("Killed")
    BY <1>0, <1>5 DEF Kill
  <2>3. \A i \in DOMAIN sends : Records(sends[i], c', main')
    BY <1>0, <1>5, <2>1, <2>2
  <2>4. Standing'
    BY <2>1, <2>2
  <2>5. \A s : s.reason = "Killed" => Records(s, c', main')
    BY <2>1
  <2> QED
    BY <2>2, <2>3, <2>4, <2>5, VerdictMain
<1>6. CASE KillSignal
  <2>1. UNCHANGED <<c, sends>> /\ main = "killing" /\ main' \in {"wait", "exited1"}
    BY <1>6 DEF KillSignal
  <2> QED
    BY <1>0, <2>1, VerdictMain
<1>7. CASE TimeWarning \/ \E mem \in 1..2 : CheckMemory(mem)
  <2>1. /\ c'.killed = c.killed /\ c'.success = c.success /\ c'.missing = c.missing
    BY <1>0, <1>7 DEF TimeWarning, CheckMemory, CommandType
  <2>2. main = "loop" /\ main' \in {"loop", "highmem"} /\ ~c.killed
    BY <1>0, <1>7 DEF TimeWarning, CheckMemory, procVars
  <2>3. \/ UNCHANGED sends
        \/ \E r \in {"TimeWarning", "MemoryWarning"} : sends' = WithSend(r)
    BY <1>7 DEF TimeWarning, CheckMemory
  <2>4. \A i \in DOMAIN sends : Records(sends[i], c', main')
    BY <1>0, <2>1, <2>2
  <2>5. \A s : s.reason \in {"TimeWarning", "MemoryWarning"} => Records(s, c', main')
    OBVIOUS
  <2>6. Standing'
    BY <2>1, <2>2
  <2> QED
    BY <2>3, <2>4, <2>5, <2>6, VerdictMain
<1> QED
  BY <1>1, <1>2, <1>3, <1>4, <1>5, <1>6, <1>7
     DEF Handler, Signal, Timeout, KillOnHighMemory

\* Every step keeps the invariant.
LEMMA VerdictStep == TypeOK /\ VerdictInv /\ [Next]_vars => VerdictInv'
<1> SUFFICES ASSUME TypeOK, VerdictInv, [Next]_vars PROVE VerdictInv'
  OBVIOUS
<1>0. sends \in Seq(SendType) /\ c \in CommandType
  BY Types
<1>1. ASSUME UNCHANGED <<c, sends, main>> PROVE VerdictInv'
  BY <1>1 DEF VerdictInv, Standing, Recorded, TruthfulReports, Snapshots, Sent
<1>2. CASE ReportStep
  <2>1. PICK i \in DOMAIN sends : SendStep(i)
    BY <1>2 DEF ReportStep
  <2> QED
    BY <1>2, <2>1, SendStepEffect, VerdictKept DEF ReportStep
<1>3. ASSUME NEW s \in Streams, Scan(s) PROVE VerdictInv'
  <2>1. PICK new \in Matches(lines + 1) : AppendMatches(new)
    BY <1>3 DEF Scan
  <2>2. new \in SUBSET Nat
    <3>1. lines \in Nat
      BY DEF TypeOK
    <3> QED
      BY <3>1, MatchesOfLine
  <2> QED
    BY <1>3, <2>1, <2>2, AppendEffect, VerdictKept DEF Scan
<1>4. ASSUME NEW s \in Streams, AlertIfMatched(s) PROVE VerdictInv'
  <2>1. \/ UNCHANGED sends
        \/ \E r \in {"Alert", "AlertRate"} : sends' = WithSend(r)
    BY <1>4 DEF AlertIfMatched
  <2>2. UNCHANGED <<c, main>>
    BY <1>4 DEF AlertIfMatched
  <2>3. \A i \in DOMAIN sends : Records(sends[i], c', main')
    BY <2>2, RecordedNow DEF VerdictInv
  <2>4. \A t : t.reason \in {"Alert", "AlertRate"} => Records(t, c', main')
    BY DEF Records
  <2>5. Standing'
    BY <2>2 DEF VerdictInv, Standing
  <2> QED
    BY <2>1, <2>3, <2>4, <2>5, VerdictMain DEF Reasons
<1>5. CASE Start \/ WaitReturns \/ Exit
  <2>1. /\ UNCHANGED <<c, sends>>
        /\ main \in {"start", "wait", "exiting"}
        /\ main = "start" => main' \in {"loop", "exited1"}
        /\ main # "start" => main' \in {"exiting", "exited"}
    BY <1>5 DEF Start, WaitReturns, Exit, reportVars
  <2>2. \A i \in DOMAIN sends : Records(sends[i], c', main')
    BY <2>1, RecordedNow DEF VerdictInv, Records
  <2>3. Standing'
    BY <2>1 DEF VerdictInv, Standing
  <2> QED
    BY <2>1, <2>2, <2>3, VerdictMain
<1>6. CASE ChildExits \/ StdinEnds \/ StdinBroken \/ Reap \/ RunFinished
           \/ (\E s \in Streams : Ends(s)) \/ UNCHANGED vars
  BY <1>1, <1>6 DEF ChildExits, StdinEnds, StdinBroken, Reap, RunFinished, Ends, ScanEOF,
     ScanStops, OutputBroken, BadAssertion, vars, reportVars
<1> QED
  BY <1>2, <1>3, <1>4, <1>5, <1>6, VerdictHandler DEF Next, Goroutine, Terminated, Ends

\* A kill is the last verdict of a run, and what a verdict says of the command stays
\* true (handlers.go 34-55, 61-69).
THEOREM VerdictsStand == Spec => []VerdictInv
<1>1. Init => VerdictInv
  BY DEF Init, ReportInit, NewCommand, VerdictInv, Standing, Recorded,
         TruthfulReports, Snapshots, Sent
<1> QED
  BY <1>1, VerdictStep, TypeCorrect, PTL DEF Spec

\* Whatever the handlers, the scanners and the senders do at once, a report
\* shows the state it was sent for.
THEOREM ReportsAreTruthful == Spec => []TruthfulReports
<1>1. VerdictInv => TruthfulReports
  BY DEF VerdictInv
<1> QED
  BY <1>1, VerdictsStand, PTL
-----------------------------------------------------------------------------
(***************************************************************************)
(* OneVerdict.  A verdict is sent by a step that leaves the select loop for *)
(* good, and a warning by one that sets its flag for good.                  *)
(***************************************************************************)

\* The calls with one of the reasons R among q.
Asking(q, R) == {i \in DOMAIN q : q[i].reason \in R}

\* Where no verdict has been given.
Undecided == {"start", "loop", "highmem", "finished"}

\* The inductive strengthening of OneVerdict.
Single ==
    /\ \A R \in {Verdicts, {"TimeWarning"}, {"MemoryWarning"}} :
          \A i, j \in Asking(sends, R) : i = j
    /\ Asking(sends, Verdicts) # {} => main \notin Undecided
    /\ Asking(sends, {"TimeWarning"}) # {} => warned
    /\ Asking(sends, {"MemoryWarning"}) # {} => c.memWarnSent

\* What a step never takes back.
Onwards ==
    /\ main \notin Undecided => main' \notin Undecided
    /\ warned => warned'
    /\ c.memWarnSent => c'.memWarnSent

\* Steps that ask for nothing.
LEMMA SingleKept ==
    ASSUME Single, Onwards, DOMAIN sends' = DOMAIN sends,
           \A i \in DOMAIN sends : sends'[i].reason = sends[i].reason
    PROVE  Single'
<1>1. ASSUME NEW R PROVE Asking(sends', R) = Asking(sends, R)
  BY DEF Asking
<1> QED
  BY <1>1 DEF Single, Onwards

\* Steps that ask for one report, which was not asked for before if it may be asked
\* for once only.
LEMMA SingleAsked ==
    ASSUME TypeOK, Single, Onwards, NEW r \in Reasons, sends' = WithSend(r),
           r \in Verdicts => main \in Undecided /\ main' \notin Undecided,
           r = "TimeWarning" => ~warned /\ warned',
           r = "MemoryWarning" => ~c.memWarnSent /\ c'.memWarnSent
    PROVE  Single'
<1> DEFINE n == Len(sends) + 1
<1>1. /\ DOMAIN sends' = DOMAIN sends \cup {n} /\ sends'[n].reason = r
      /\ \A i \in DOMAIN sends : sends'[i] = sends[i]
  BY Types, WithSendType
<1> HIDE DEF n
<1>2. ASSUME NEW R, r \notin R PROVE Asking(sends', R) = Asking(sends, R)
  BY <1>1, <1>2 DEF Asking
<1>3. ASSUME NEW R, r \in R, Asking(sends, R) = {} PROVE Asking(sends', R) = {n}
  BY <1>1, <1>3 DEF Asking
<1>4. ASSUME NEW R \in {Verdicts, {"TimeWarning"}, {"MemoryWarning"}}, r \in R
      PROVE  Asking(sends, R) = {}
  BY <1>4 DEF Single, Verdicts
<1>5. \A R \in {Verdicts, {"TimeWarning"}, {"MemoryWarning"}} :
         \A i, j \in Asking(sends', R) : i = j
  BY <1>2, <1>3, <1>4 DEF Single
<1>6. Asking(sends', Verdicts) # {} => main' \notin Undecided
  BY <1>2 DEF Single, Onwards
<1>7. Asking(sends', {"TimeWarning"}) # {} => warned'
  BY <1>2 DEF Single, Onwards
<1>8. Asking(sends', {"MemoryWarning"}) # {} => c'.memWarnSent
  BY <1>2 DEF Single, Onwards
<1> QED
  BY <1>5, <1>6, <1>7, <1>8 DEF Single

\* The handlers.
LEMMA SingleHandler == TypeOK /\ Single /\ Handler => Single'
<1> SUFFICES ASSUME TypeOK, Single, Handler PROVE Single'
  OBVIOUS
<1>0. c \in CommandType
  BY Types
<1> USE DEF Undecided, Verdicts, Reasons
<1>1. CASE Finished \/ FileFound \/ FileUnknown \/ FilesChecked \/ KillSignal
  <2>1. UNCHANGED <<sends, warned>> /\ c'.memWarnSent = c.memWarnSent
    BY <1>0, <1>1 DEF Finished, FileFound, FileUnknown, FilesChecked, KillSignal,
       reportVars, CommandType
  <2>2. Onwards
    BY <1>1, <2>1 DEF Finished, FileFound, FileUnknown, FilesChecked, KillSignal, Onwards
  <2> QED
    BY <2>1, <2>2, SingleKept
<1>2. CASE FinishedVerdict
  <2>1. PICK r \in {"Success", "Failure"} : sends' = WithSend(r)
    BY <1>2 DEF FinishedVerdict
  <2>2. /\ main = "finished" /\ main' = "files" /\ UNCHANGED warned
        /\ c'.memWarnSent = c.memWarnSent
    BY <1>0, <1>2 DEF FinishedVerdict, CommandType
  <2> QED
    BY <2>1, <2>2, SingleAsked DEF Onwards
<1>3. CASE FileMissing
  <2>1. /\ sends' = WithSend("FileNotCreated") /\ UNCHANGED <<main, warned>>
        /\ c'.memWarnSent = c.memWarnSent
    BY <1>0, <1>3 DEF FileMissing, CommandType
  <2> QED
    BY <2>1, SingleAsked DEF Onwards
<1>4. ASSUME NEW k \in {"Signal", "Timeout", "Memory"}, Kill(k),
             main \in {"loop", "highmem"}
      PROVE  Single'
  <2>1. /\ sends' = WithSend("Killed") /\ main' = "killing" /\ UNCHANGED warned
        /\ c'.memWarnSent = c.memWarnSent
    BY <1>0, <1>4 DEF Kill, CommandType
  <2> QED
    BY <1>4, <2>1, SingleAsked DEF Onwards
<1>5. CASE TimeWarning
  <2>1. /\ sends' = WithSend("TimeWarning") /\ ~warned /\ warned' /\ UNCHANGED main
        /\ c'.memWarnSent = c.memWarnSent
    BY <1>0, <1>5 DEF TimeWarning, CommandType
  <2> QED
    BY <2>1, SingleAsked DEF Onwards
<1>6. ASSUME NEW mem \in 1..2, CheckMemory(mem) PROVE Single'
  <2>1. main = "loop" /\ main' \in {"loop", "highmem"} /\ UNCHANGED warned
    BY <1>6 DEF CheckMemory
  <2>2. CASE Warns(mem)
    <3>1. /\ sends' = WithSend("MemoryWarning") /\ ~c.memWarnSent /\ c'.memWarnSent
      BY <1>0, <1>6, <2>2 DEF CheckMemory, Warns, CommandType
    <3> QED
      BY <2>1, <3>1, SingleAsked DEF Onwards
  <2>3. CASE ~Warns(mem)
    <3>1. UNCHANGED sends /\ c'.memWarnSent = c.memWarnSent
      BY <1>0, <1>6, <2>3 DEF CheckMemory, CommandType
    <3> QED
      BY <2>1, <3>1, SingleKept DEF Onwards
  <2> QED
    BY <2>2, <2>3
<1> QED
  BY <1>1, <1>2, <1>3, <1>4, <1>5, <1>6 DEF Handler, Signal, Timeout, KillOnHighMemory

\* Every step.
LEMMA SingleStep == TypeOK /\ Single /\ [Next]_vars => Single'
<1> SUFFICES ASSUME TypeOK, Single, [Next]_vars PROVE Single'
  OBVIOUS
<1>0. c \in CommandType
  BY Types
<1>1. ASSUME SameCommand, SameCalls, UNCHANGED <<main, warned>> PROVE Single'
  <2>1. c'.memWarnSent = c.memWarnSent
    BY <1>0, <1>1 DEF SameCommand, CommandType
  <2> QED
    BY <1>1, <2>1, SingleKept DEF Onwards, SameCalls, Untouched
<1>2. CASE ReportStep
  BY <1>1, <1>2, SendStepEffect DEF ReportStep
<1>3. ASSUME NEW s \in Streams, Scan(s) PROVE Single'
  <2>1. PICK new \in Matches(lines + 1) : AppendMatches(new)
    BY <1>3 DEF Scan
  <2>2. lines \in Nat
    BY DEF TypeOK
  <2>3. new \in SUBSET Nat
    BY <2>2, MatchesOfLine
  <2> QED
    BY <1>1, <1>3, <2>1, <2>3, AppendEffect DEF Scan
<1>4. ASSUME NEW s \in Streams, AlertIfMatched(s) PROVE Single'
  <2>1. UNCHANGED <<c, main, warned>>
    BY <1>4 DEF AlertIfMatched
  <2>2. \/ UNCHANGED sends
        \/ \E r \in {"Alert", "AlertRate"} : sends' = WithSend(r)
    BY <1>4 DEF AlertIfMatched
  <2>3. CASE UNCHANGED sends
    BY <2>1, <2>3, SingleKept DEF Onwards
  <2>4. ASSUME NEW r \in {"Alert", "AlertRate"}, sends' = WithSend(r) PROVE Single'
    BY <2>1, <2>4, SingleAsked DEF Onwards, Reasons, Verdicts
  <2> QED
    BY <2>2, <2>3, <2>4
<1>5. CASE Start \/ WaitReturns \/ Exit
  <2>1. UNCHANGED <<c, sends, warned>>
    BY <1>5 DEF Start, WaitReturns, Exit, reportVars
  <2>2. main \notin Undecided => main' \notin Undecided
    BY <1>5 DEF Start, WaitReturns, Exit, Undecided
  <2> QED
    BY <2>1, <2>2, SingleKept DEF Onwards
<1>6. CASE ChildExits \/ StdinEnds \/ StdinBroken \/ Reap \/ RunFinished
           \/ (\E s \in Streams : Ends(s)) \/ UNCHANGED vars
  <2>1. UNCHANGED <<c, sends, main, warned>>
    BY <1>6 DEF ChildExits, StdinEnds, StdinBroken, Reap, RunFinished, Ends, ScanEOF,
       ScanStops, OutputBroken, BadAssertion, vars, reportVars
  <2> QED
    BY <2>1, SingleKept DEF Onwards
<1> QED
  BY <1>2, <1>3, <1>4, <1>5, <1>6, SingleHandler DEF Next, Goroutine, Terminated, Ends

\* Whatever becomes ready together in the select loop, a run has one verdict and one
\* warning of each kind (command.go 202-217).
THEOREM OneVerdictAlways == Spec => []OneVerdict
<1>1. Init => Single
  BY DEF Init, ReportInit, Single, Asking
<1>2. Single => OneVerdict
  BY DEF Single, OneVerdict, Sent, Asking
<1> QED
  BY <1>1, <1>2, SingleStep, TypeCorrect, PTL DEF Spec
-----------------------------------------------------------------------------
(***************************************************************************)
(* MemoryKillShown.  The maximum only grows, so that what reached the limit  *)
(* when the handler was called still does when the snapshot is taken.        *)
(***************************************************************************)
MemoryInv ==
    /\ main = "highmem" \/ c.killReason = "Memory" => c.maxMemory >= config.memoryKill
    /\ \A i \in DOMAIN sends :
          sends[i].pc # "called" /\ sends[i].snap.killReason = "Memory" =>
             sends[i].snap.maxMemory >= config.memoryKill

\* Steps that take no reading: the calls are moved on, or one is added.
LEMMA MemoryKept ==
    ASSUME TypeOK, MemoryInv, config' = config, c'.maxMemory = c.maxMemory,
           c'.killReason = "Memory" => c.killReason = "Memory" \/ main = "highmem",
           main' = "highmem" => main = "highmem",
           SameCalls \/ \E r \in Reasons : sends' = WithSend(r)
    PROVE  MemoryInv'
<1>1. main' = "highmem" \/ c'.killReason = "Memory" => c'.maxMemory >= config'.memoryKill
  BY DEF MemoryInv
<1>2. ASSUME SameCalls, NEW i \in DOMAIN sends', sends'[i].pc # "called",
             sends'[i].snap.killReason = "Memory"
      PROVE  sends'[i].snap.maxMemory >= config'.memoryKill
  <2>1. i \in DOMAIN sends /\ Untouched(sends[i], sends'[i])
    BY <1>2 DEF SameCalls
  <2>2. CASE sends[i].pc # "called"
    BY <1>2, <2>1, <2>2 DEF Untouched, MemoryInv
  <2>3. CASE sends[i].pc = "called"
    <3>1. PICK m \in SUBSET Nat :
             sends'[i].snap = [c EXCEPT !.matches = m, !.reportReason = sends[i].reason]
      BY <1>2, <2>1, <2>3 DEF Untouched
    <3>2. c \in CommandType
      BY Types
    <3>3. sends'[i].snap.killReason = c.killReason /\ sends'[i].snap.maxMemory = c.maxMemory
      BY <3>1, <3>2 DEF CommandType
    <3> QED
      BY <1>2, <3>3 DEF MemoryInv
  <2> QED
    BY <2>2, <2>3
<1>3. ASSUME NEW r \in Reasons, sends' = WithSend(r), NEW i \in DOMAIN sends',
             sends'[i].pc # "called", sends'[i].snap.killReason = "Memory"
      PROVE  sends'[i].snap.maxMemory >= config'.memoryKill
  <2>1. i \in DOMAIN sends /\ sends'[i] = sends[i]
    BY <1>3, Types, WithSendType
  <2> QED
    BY <1>3, <2>1 DEF MemoryInv
<1> QED
  BY <1>1, <1>2, <1>3 DEF MemoryInv

\* A reading that is taken.
LEMMA MemoryRead ==
    ASSUME TypeOK, MemoryInv, NEW mem \in 1..2, CheckMemory(mem)
    PROVE  MemoryInv'
<1> DEFINE max == IF mem > c.maxMemory THEN mem ELSE c.maxMemory
<1>0. /\ c \in CommandType /\ config \in ConfigType /\ config' = config
      /\ c.maxMemory \in 0..2 /\ config.memoryKill \in 0..2
  <2>1. c \in CommandType
    BY Types
  <2>2. config \in ConfigType
    BY ReportAssumption DEF TypeOK
  <2> QED
    BY <2>1, <2>2 DEF CheckMemory, CommandType, ConfigType
<1>1. c'.maxMemory = max /\ c'.killReason = c.killReason
  BY <1>0 DEF CheckMemory, CommandType
<1>2. max >= c.maxMemory /\ max >= mem
  BY <1>0
<1>3. main' = "highmem" => mem >= config.memoryKill
  BY DEF CheckMemory, Kills
<1>4. c.killReason = "Memory" => c.maxMemory >= config.memoryKill
  BY DEF MemoryInv
<1>5. max \in 0..2
  BY <1>0
<1> HIDE DEF max
<1>6. main' = "highmem" \/ c'.killReason = "Memory" => max >= config.memoryKill
  BY <1>0, <1>1, <1>2, <1>3, <1>4, <1>5
<1>7. ASSUME NEW i \in DOMAIN sends', sends'[i].pc # "called"
      PROVE  i \in DOMAIN sends /\ sends'[i] = sends[i]
  <2>1. sends' = WithSend("MemoryWarning") \/ sends' = sends
    BY DEF CheckMemory
  <2> QED
    BY <1>7, <2>1, Types, WithSendType DEF Reasons
<1> QED
  BY <1>0, <1>1, <1>6, <1>7 DEF MemoryInv

\* The handlers but CheckMemory.
LEMMA MemoryHandler ==
    ASSUME TypeOK, MemoryInv, Handler, ~\E mem \in 1..2 : CheckMemory(mem)
    PROVE  MemoryInv'
<1>0. c \in CommandType /\ sends \in Seq(SendType)
  BY Types
<1>1. CASE Finished \/ FileFound \/ FileUnknown \/ FilesChecked \/ KillSignal
  <2>1. /\ UNCHANGED <<sends, config>> /\ main' # "highmem"
        /\ c'.maxMemory = c.maxMemory /\ c'.killReason = c.killReason
    BY <1>0, <1>1 DEF Finished, FileFound, FileUnknown, FilesChecked, KillSignal,
       reportVars, CommandType, procVars
  <2> QED
    BY <1>0, <2>1, NoCall, MemoryKept
<1>2. CASE FinishedVerdict \/ FileMissing \/ TimeWarning
  <2>1. \E r \in Reasons : sends' = WithSend(r)
    BY <1>2 DEF FinishedVerdict, FileMissing, TimeWarning, Reasons
  <2>2. /\ UNCHANGED config /\ main' # "highmem"
        /\ c'.maxMemory = c.maxMemory /\ c'.killReason = c.killReason
    BY <1>0, <1>2 DEF FinishedVerdict, FileMissing, TimeWarning, CommandType
  <2> QED
    BY <2>1, <2>2, MemoryKept
<1>3. ASSUME NEW k \in {"Signal", "Timeout", "Memory"}, Kill(k),
             k = "Memory" => main = "highmem"
      PROVE  MemoryInv'
  <2>1. /\ sends' = WithSend("Killed") /\ UNCHANGED config /\ main' = "killing"
        /\ c'.maxMemory = c.maxMemory /\ c'.killReason = k
    BY <1>0, <1>3 DEF Kill, CommandType
  <2> QED
    BY <1>3, <2>1, MemoryKept DEF Reasons
<1> QED
  BY <1>1, <1>2, <1>3 DEF Handler, Signal, Timeout, KillOnHighMemory

\* Every step.
LEMMA MemoryStep == TypeOK /\ MemoryInv /\ [Next]_vars => MemoryInv'
<1> SUFFICES ASSUME TypeOK, MemoryInv, [Next]_vars PROVE MemoryInv'
  OBVIOUS
<1>0. c \in CommandType /\ sends \in Seq(SendType)
  BY Types
<1>1. ASSUME SameCommand, UNCHANGED <<config, main>>, SameCalls PROVE MemoryInv'
  <2>1. c'.maxMemory = c.maxMemory /\ c'.killReason = c.killReason
    BY <1>0, <1>1 DEF SameCommand, CommandType
  <2> QED
    BY <1>1, <2>1, MemoryKept
<1>2. CASE ReportStep
  BY <1>1, <1>2, SendStepEffect DEF ReportStep
<1>3. ASSUME NEW s \in Streams, Scan(s) PROVE MemoryInv'
  <2>1. PICK new \in Matches(lines + 1) : AppendMatches(new)
    BY <1>3 DEF Scan
  <2>2. lines \in Nat
    BY DEF TypeOK
  <2>3. new \in SUBSET Nat
    BY <2>2, MatchesOfLine
  <2> QED
    BY <1>1, <1>3, <2>1, <2>3, AppendEffect DEF Scan
<1>4. ASSUME NEW s \in Streams, AlertIfMatched(s) PROVE MemoryInv'
  <2>1. UNCHANGED <<config, c, main>>
    BY <1>4 DEF AlertIfMatched
  <2>2. SameCalls \/ \E r \in Reasons : sends' = WithSend(r)
    BY <1>0, <1>4, NoCall DEF AlertIfMatched, Reasons
  <2> QED
    BY <2>1, <2>2, MemoryKept
<1>5. CASE Start \/ WaitReturns \/ Exit \/ ChildExits \/ StdinEnds \/ StdinBroken \/ Reap
           \/ RunFinished \/ (\E s \in Streams : Ends(s))
           \/ UNCHANGED vars
  <2>1. UNCHANGED <<config, c, sends>> /\ (main' = main \/ main' # "highmem")
    BY <1>5 DEF Start, WaitReturns, Exit, ChildExits, StdinEnds, StdinBroken, Reap,
       RunFinished, Ends, ScanEOF, ScanStops, OutputBroken, BadAssertion, vars, reportVars
  <2> QED
    BY <1>0, <2>1, NoCall, MemoryKept
<1> QED
  BY <1>2, <1>3, <1>4, <1>5, MemoryRead, MemoryHandler DEF Next, Goroutine, Terminated, Ends

\* The report of a memory kill shows a maximum that reached the limit, for any limit
\* and any readings (handlers.go 116-152).
THEOREM MemoryKillsAreShown == Spec => []MemoryKillShown
<1>1. Init => MemoryInv
  BY DEF Init, ReportInit, NewCommand, MemoryInv
<1>2. MemoryInv => MemoryKillShown
  BY DEF MemoryInv, MemoryKillShown, Snapshots, Sent
<1> QED
  BY <1>1, <1>2, MemoryStep, TypeCorrect, PTL DEF Spec

-----------------------------------------------------------------------------
(***************************************************************************)
(* The matches.  A callback runs for a report that arrived, and only that of *)
(* an alert clears; until one has, nobody finds the matches being cleared,   *)
(* and an append extends what is there.                                      *)
(***************************************************************************)

AlertReasons == {"Alert", "AlertRate"}

\* A call that is acknowledged has arrived, and one that clears is an alert.
Arrived(s) ==
    /\ s.pc \in {"stored", "acked", "clearing", "raced", "done"} => s.delivered
    /\ s.pc \in {"clearing", "raced"} => s.reason \in AlertReasons

HasCleared(s) ==
    s.pc \in {"clearing", "raced", "done"} /\ s.reason \in AlertReasons /\ s.delivered

ClearInv == \A i \in DOMAIN sends : Arrived(sends[i])

\* The calls of a step: each keeps what it has done, and a new one has done nothing.
CallsAdvance ==
    /\ DOMAIN sends \subseteq DOMAIN sends'
    /\ \A i \in DOMAIN sends' : Arrived(sends'[i])
    /\ \A i \in DOMAIN sends : HasCleared(sends[i]) => HasCleared(sends'[i])

\* A call that is acknowledged, clears, or comes to its end.
LEMMA CallArrives ==
    ASSUME NEW s \in SendType, Arrived(s),
           NEW p \in {"created", "background", "off", "sending", "refused", "lost", "acked",
                      "failed", "clearing", "raced", "done"},
           p \in {"clearing", "raced"} => s.reason \in AlertReasons,
           p = "acked" => s.pc = "stored",
           p \in {"clearing", "raced", "done"} => s.pc \in {"acked", "clearing", "raced"},
           p \notin {"clearing", "raced", "done"} => ~HasCleared(s)
    PROVE  /\ Arrived([s EXCEPT !.pc = p])
           /\ HasCleared(s) => HasCleared([s EXCEPT !.pc = p])
BY DEF Arrived, HasCleared, SendType

\* One call replaced by one that has done no less.
LEMMA OneAdvances ==
    ASSUME ClearInv, sends \in Seq(SendType), NEW i \in DOMAIN sends, NEW new \in SendType,
           sends' = [sends EXCEPT ![i] = new], Arrived(new),
           HasCleared(sends[i]) => HasCleared(new)
    PROVE  CallsAdvance
<1>1. \A j \in DOMAIN sends : j # i => sends'[j] = sends[j]
  OBVIOUS
<1>2. sends'[i] = new /\ DOMAIN sends' = DOMAIN sends
  BY UpdateType
<1> QED
  BY <1>1, <1>2 DEF CallsAdvance, ClearInv

\* A call that only moves on, as CallArrives has it.
LEMMA MoveAdvances ==
    ASSUME ClearInv, sends \in Seq(SendType), NEW i \in DOMAIN sends,
           NEW p \in {"background", "off", "sending", "refused", "lost", "acked", "failed",
                      "clearing", "done"},
           To(i, p),
           p = "acked" => sends[i].pc = "stored",
           p = "clearing" => sends[i].reason \in AlertReasons,
           p \in {"clearing", "done"} => sends[i].pc \in {"acked", "clearing", "raced"},
           p \notin {"clearing", "done"} => sends[i].pc \notin {"clearing", "raced", "done"}
    PROVE  CallsAdvance
<1> DEFINE new == [sends[i] EXCEPT !.pc = p]
<1>1. sends[i] \in SendType
  OBVIOUS
<1>2. new \in SendType
  BY <1>1 DEF SendType
<1>3. Arrived(sends[i])
  BY DEF ClearInv
<1>4. p \notin {"clearing", "raced", "done"} => ~HasCleared(sends[i])
  BY DEF HasCleared
<1>5. Arrived(new) /\ (HasCleared(sends[i]) => HasCleared(new))
  BY <1>1, <1>3, <1>4, CallArrives
<1>6. sends' = [sends EXCEPT ![i] = new]
  BY DEF To
<1> HIDE DEF new
<1> QED
  BY <1>2, <1>5, <1>6, OneAdvances

\* No call changed, or one more started.
LEMMA AskedAdvances ==
    ASSUME ClearInv, sends \in Seq(SendType),
           UNCHANGED sends \/ \E r \in Reasons : sends' = WithSend(r)
    PROVE  CallsAdvance
<1>1. CASE UNCHANGED sends
  BY <1>1 DEF CallsAdvance, ClearInv
<1>2. ASSUME NEW r \in Reasons, sends' = WithSend(r) PROVE CallsAdvance
  BY <1>2, WithSendType DEF CallsAdvance, ClearInv, Arrived
<1> QED
  BY <1>1, <1>2

\* A step of the goroutines of a report touches the matches only to clear them, when
\* it has cleared already by what the calls say.
LEMMA SendAdvances ==
    ASSUME TypeOK, ClearInv, NEW i \in DOMAIN sends, SendStep(i)
    PROVE  CallsAdvance /\ (UNCHANGED c \/ HasCleared(sends[i]))
<1>0. sends \in Seq(SendType) /\ sends[i] \in SendType /\ Arrived(sends[i])
  BY Types DEF ClearInv
<1>1. CASE Create(i)
  <2>1. /\ sends' \in Seq(SendType) /\ DOMAIN sends' = DOMAIN sends
        /\ sends[i].pc = "called" /\ UNCHANGED c
    BY <1>1, SendStepEffect DEF Create, SameCalls
  <2>2. \A j \in DOMAIN sends : j # i => sends'[j] = sends[j]
    BY <1>0, <1>1 DEF Create
  <2>3. sends'[i].pc = "created"
    BY <1>0, <1>1 DEF Create, SendType
  <2> QED
    BY <2>1, <2>2, <2>3 DEF CallsAdvance, ClearInv, Arrived, HasCleared
<1>2. CASE TornRead(i) \/ ReportError(i)
  BY <1>0, <1>2, AskedAdvances DEF TornRead, ReportError
<1>3. CASE Decide(i)
  BY <1>0, <1>3, MoveAdvances DEF Decide
<1>4. CASE Register(i)
  BY <1>0, <1>4, MoveAdvances DEF Register
<1>5. CASE Store(i)
  <2> DEFINE new == [sends[i] EXCEPT !.pc = "stored", !.delivered = TRUE]
  <2>1. sends[i].pc = "sending" /\ sends' = [sends EXCEPT ![i] = new] /\ UNCHANGED c
    BY <1>0, <1>5 DEF Store
  <2>2. new \in SendType /\ new.pc = "stored" /\ new.delivered
    BY <1>0 DEF SendType
  <2>3. Arrived(new) /\ ~HasCleared(sends[i])
    BY <2>1, <2>2 DEF Arrived, HasCleared
  <2> HIDE DEF new
  <2> QED
    BY <1>0, <2>1, <2>2, <2>3, OneAdvances
<1>9. CASE Retry(i)
  <2> DEFINE new == [sends[i] EXCEPT !.pc = "sending", !.tries = @ + 1]
  <2>1. /\ sends[i].pc \in {"lost", "refused"} /\ sends' = [sends EXCEPT ![i] = new]
        /\ UNCHANGED c
    BY <1>0, <1>9 DEF Retry
  <2>2. sends[i].tries + 1 \in Nat
    BY <1>0 DEF SendType
  <2>3. new \in SendType /\ new.pc = "sending"
    BY <1>0, <2>2 DEF SendType
  <2>4. Arrived(new) /\ ~HasCleared(sends[i])
    BY <2>1, <2>3 DEF Arrived, HasCleared
  <2> HIDE DEF new
  <2> QED
    BY <1>0, <2>1, <2>3, <2>4, OneAdvances
<1>10. CASE CallLost(i) \/ Refuse(i) \/ Acknowledged(i)
  BY <1>0, <1>10, MoveAdvances DEF CallLost, Refuse, Acknowledged
<1>6. CASE GiveUp(i)
  BY <1>0, <1>6, MoveAdvances DEF GiveUp
<1>7. CASE Callback(i)
  BY <1>0, <1>7, MoveAdvances DEF Callback, AlertReasons
<1>8. CASE Cleared(i) \/ ClearedRaced(i)
  <2>1. HasCleared(sends[i])
    BY <1>0, <1>8 DEF Cleared, ClearedRaced, Arrived, HasCleared
  <2> QED
    BY <1>0, <1>8, <2>1, MoveAdvances DEF Cleared, ClearedRaced
<1> QED
  BY <1>1, <1>2, <1>3, <1>4, <1>5, <1>6, <1>7, <1>8, <1>9, <1>10 DEF SendStep

\* An append marks the calls that were clearing, and keeps the matches if there are
\* none.
LEMMA AppendAdvances ==
    ASSUME TypeOK, ClearInv, NEW new \in SUBSET Nat, AppendMatches(new)
    PROVE  /\ CallsAdvance
           /\ Clearing \/ c'.matches = c.matches \cup new
<1> DEFINE mark(s) == IF s.pc = "clearing" THEN [s EXCEPT !.pc = "raced"] ELSE s
<1>1. ASSUME NEW s \in SendType, Arrived(s)
      PROVE  Arrived(mark(s)) /\ (HasCleared(s) => HasCleared(mark(s)))
  <2>1. CASE s.pc = "clearing"
    BY <1>1, <2>1 DEF SendType, Arrived, HasCleared
  <2>2. CASE s.pc # "clearing"
    BY <1>1, <2>2
  <2> QED
    BY <2>1, <2>2
<1>2. sends' = [i \in DOMAIN sends |-> mark(sends[i])]
  BY DEF AppendMatches
<1> HIDE DEF mark
<1>3. CallsAdvance
  <2>1. DOMAIN sends' = DOMAIN sends /\ \A i \in DOMAIN sends : sends'[i] = mark(sends[i])
    BY <1>2
  <2>2. \A i \in DOMAIN sends : sends[i] \in SendType /\ Arrived(sends[i])
    BY Types DEF ClearInv
  <2> QED
    BY <1>1, <2>1, <2>2 DEF CallsAdvance
<1>4. ASSUME ~Clearing PROVE c'.matches = c.matches \cup new
  <2>1. c' = [c EXCEPT !.matches = c.matches \cup new]
    BY <1>4 DEF AppendMatches, MatchesSeen
  <2>2. c \in CommandType
    BY Types
  <2> QED
    BY <2>1, <2>2 DEF CommandType
<1> QED
  BY <1>3, <1>4

\* What a step has done to the matches is what it did, unless they are cleared.
LEMMA MatchesStay ==
    ASSUME ClearInv, CallsAdvance, MatchesKept,
           (\E i \in DOMAIN sends : HasCleared(sends[i])) \/ matched' \subseteq c'.matches
           \/ UNCHANGED <<matched, c>>
    PROVE  MatchesKept'
<1>1. ASSUME NEW i \in DOMAIN sends, HasCleared(sends[i]) PROVE MatchesKept'
  <2>1. i \in DOMAIN sends' /\ HasCleared(sends'[i])
    BY <1>1 DEF CallsAdvance
  <2> QED
    BY <2>1 DEF MatchesKept, HasCleared, Calls, AlertReasons
<1>2. CASE matched' \subseteq c'.matches
  BY <1>2 DEF MatchesKept
<1>3. CASE UNCHANGED <<matched, c>>
  BY <1>1, <1>2, <1>3 DEF MatchesKept, HasCleared, Calls, AlertReasons
<1> QED
  BY <1>1, <1>2, <1>3

\* Every step.
LEMMA ClearStep ==
    ASSUME TypeOK, ClearInv, MatchesKept, [Next]_vars
    PROVE  ClearInv' /\ MatchesKept'
<1>0. sends \in Seq(SendType) /\ c \in CommandType
  BY Types
<1> SUFFICES CallsAdvance /\ MatchesKept'
  BY DEF CallsAdvance, ClearInv
<1>1. ASSUME NEW i \in DOMAIN sends, SendStep(i), UNCHANGED matched
      PROVE  CallsAdvance /\ MatchesKept'
  BY <1>1, SendAdvances, MatchesStay
<1>2. ASSUME NEW s \in Streams, Scan(s) PROVE CallsAdvance /\ MatchesKept'
  <2>1. PICK new \in Matches(lines + 1) : matched' = matched \cup new /\ AppendMatches(new)
    BY <1>2 DEF Scan
  <2>2. lines \in Nat
    BY DEF TypeOK
  <2>3. new \in SUBSET Nat
    BY <2>2, MatchesOfLine
  <2>4. CallsAdvance /\ (Clearing \/ c'.matches = c.matches \cup new)
    BY <2>1, <2>3, AppendAdvances
  <2>5. Clearing => \E i \in DOMAIN sends : HasCleared(sends[i])
    BY DEF Clearing, Calls, ClearInv, Arrived, HasCleared
  <2>6. CASE matched \subseteq c.matches
    BY <2>1, <2>4, <2>5, <2>6, MatchesStay
  <2>7. CASE ~(matched \subseteq c.matches)
    <3>1. \E i \in DOMAIN sends : HasCleared(sends[i])
      BY <2>7 DEF MatchesKept, HasCleared, Calls, AlertReasons
    <3> QED
      BY <2>4, <3>1, MatchesStay
  <2> QED
    BY <2>6, <2>7
<1>3. ASSUME UNCHANGED matched, c'.matches = c.matches,
             UNCHANGED sends \/ \E r \in Reasons : sends' = WithSend(r)
      PROVE  CallsAdvance /\ MatchesKept'
  <2>1. CallsAdvance
    BY <1>0, <1>3, AskedAdvances
  <2>2. \/ matched' \subseteq c'.matches
        \/ \E i \in DOMAIN sends : HasCleared(sends[i])
    BY <1>3 DEF MatchesKept, HasCleared, Calls, AlertReasons
  <2> QED
    BY <2>1, <2>2, MatchesStay
<1>4. CASE Handler
  <2>1. /\ UNCHANGED matched
        /\ UNCHANGED sends \/ \E r \in Reasons : sends' = WithSend(r)
    BY <1>4 DEF Handler, Finished, FinishedVerdict, FileMissing, FileFound, FileUnknown,
       FilesChecked, Signal, Timeout, Kill, KillSignal, TimeWarning, CheckMemory,
       KillOnHighMemory, reportVars, Reasons
  <2>2. c'.matches = c.matches
    <3>1. CASE \E mem \in 1..2 : CheckMemory(mem)
      BY <1>0, <3>1 DEF CheckMemory, CommandType
    <3>2. CASE ~\E mem \in 1..2 : CheckMemory(mem)
      BY <1>0, <1>4, <3>2 DEF Handler, Finished, FinishedVerdict, FileMissing, FileFound,
         FileUnknown, FilesChecked, Signal, Timeout, Kill, KillSignal, TimeWarning,
         KillOnHighMemory, reportVars, CommandType
    <3> QED
      BY <3>1, <3>2
  <2> QED
    BY <1>3, <2>1, <2>2
<1>5. ASSUME NEW s \in Streams, AlertIfMatched(s) PROVE CallsAdvance /\ MatchesKept'
  <2>1. UNCHANGED sends \/ \E r \in Reasons : sends' = WithSend(r)
    BY <1>5 DEF AlertIfMatched, Reasons
  <2> QED
    BY <1>3, <1>5, <2>1 DEF AlertIfMatched
<1>6. CASE Start \/ WaitReturns \/ Exit \/ ChildExits \/ StdinEnds \/ StdinBroken \/ Reap
           \/ RunFinished \/ (\E s \in Streams : Ends(s))
           \/ UNCHANGED vars
  BY <1>3, <1>6 DEF Start, WaitReturns, Exit, ChildExits, StdinEnds, StdinBroken, Reap,
     RunFinished, Ends, ScanEOF, ScanStops, OutputBroken, BadAssertion, vars, reportVars
<1> QED
  BY <1>1, <1>2, <1>4, <1>5, <1>6 DEF Next, Goroutine, Terminated, Ends, ReportStep

\* The inductive invariant holds in every run.
LEMMA ClearAlways == Spec => [](ClearInv /\ MatchesKept)
<1>1. Init => ClearInv /\ MatchesKept
  BY DEF Init, ReportInit, ClearInv, MatchesKept
<1> QED
  BY <1>1, ClearStep, TypeCorrect, PTL DEF Spec

\* No match is lost before the server has stored an alert and said so, for any
\* number of scanners, alerts and lines, and however often calls fail, are refused
\* or lose their answer (report.go 93-111, 135-142, 180-191, command.go 297-307).
THEOREM MatchesAreKept == Spec => []MatchesKept
BY ClearAlways, PTL

-----------------------------------------------------------------------------
(***************************************************************************)
(* The final verdict.  The child has ended before Finished looks at it, the  *)
(* verdict is set once, and each missing file withdraws it and asks for a    *)
(* report.                                                                   *)
(***************************************************************************)

Missed  == Sent({"FileNotCreated"})
Covered == IsFiniteSet(c.missing) /\ Cardinality(c.missing) <= Cardinality(Missed)

Ended     == {"ok", "fail"}
Unjudged  == {"start", "loop", "highmem", "finished", "killing"}
Judged    == {"files", "wait", "exiting", "exited"}
RightSoFar == c.success <=> (child = "ok" /\ c.missing = {})

FinalInv ==
    /\ waiter # "waiting" => child \in Ended
    /\ main = "start" => child = "none"
    /\ main = "finished" => waiter # "waiting"
    /\ main \in Unjudged => c.missing = {}
    /\ main \in Judged /\ ~c.killed => child \in Ended /\ RightSoFar

\* They only get more.
LEMMA CoveredKept ==
    ASSUME Covered, sends' \in Seq(SendType), c'.missing = c.missing,
           Missed \subseteq Missed'
    PROVE  Covered'
<1>1. IsFiniteSet(Missed')
  <2>1. DOMAIN sends' = 1..Len(sends') /\ Len(sends') \in Nat
    OBVIOUS
  <2>2. IsFiniteSet(1..Len(sends'))
    BY <2>1, FS_Interval
  <2>3. Missed' \subseteq 1..Len(sends')
    BY <2>1 DEF Missed, Sent
  <2> QED
    BY <2>2, <2>3, FS_Subset
<1>2. /\ IsFiniteSet(Missed) /\ Cardinality(Missed) <= Cardinality(Missed')
      /\ Cardinality(Missed) \in Nat /\ Cardinality(Missed') \in Nat
  BY <1>1, FS_Subset, FS_CardinalityType
<1>3. IsFiniteSet(c.missing) /\ Cardinality(c.missing) \in Nat
  BY FS_CardinalityType DEF Covered
<1> QED
  BY <1>2, <1>3 DEF Covered

\* The calls of a step, for what follows.
LEMMA MissedKept ==
    ASSUME sends \in Seq(SendType),
           \/ UNCHANGED sends
           \/ SameCalls /\ sends' \in Seq(SendType)
           \/ \E r \in Reasons : sends' = WithSend(r)
    PROVE  sends' \in Seq(SendType) /\ Missed \subseteq Missed'
<1>1. CASE UNCHANGED sends
  BY <1>1 DEF Missed, Sent
<1>2. CASE SameCalls /\ sends' \in Seq(SendType)
  BY <1>2 DEF SameCalls, Untouched, Missed, Sent
<1>3. CASE \E r \in Reasons : sends' = WithSend(r)
  BY <1>3, WithSendType DEF Missed, Sent
<1> QED
  BY <1>1, <1>2, <1>3

\* A missing file is one more, and so is the report on it.
LEMMA CoveredFile ==
    ASSUME TypeOK, Covered, FileMissing PROVE Covered'
<1> DEFINE n == Len(sends) + 1
<1>0. /\ c \in CommandType /\ sends \in Seq(SendType) /\ "FileNotCreated" \in Reasons
      /\ DOMAIN sends = 1..Len(sends) /\ Len(sends) \in Nat
  BY Types DEF Reasons
<1>1. c'.missing = c.missing \cup {Head(left)}
  BY <1>0 DEF FileMissing, CommandType
<1>2. sends' = WithSend("FileNotCreated")
  BY DEF FileMissing
<1>3. n \notin DOMAIN sends
  BY <1>0
<1>4. Missed' = Missed \cup {n} /\ n \notin Missed
  BY <1>0, <1>2, <1>3, WithSendType DEF Missed, Sent
<1>5. IsFiniteSet(Missed)
  <2>1. IsFiniteSet(1..Len(sends))
    BY <1>0, FS_Interval
  <2>2. Missed \subseteq 1..Len(sends)
    BY <1>0 DEF Missed, Sent
  <2> QED
    BY <2>1, <2>2, FS_Subset
<1>6. Cardinality(Missed') = Cardinality(Missed) + 1 /\ Cardinality(Missed) \in Nat
  BY <1>4, <1>5, FS_AddElement, FS_CardinalityType
<1>7. /\ IsFiniteSet(c.missing) /\ Cardinality(c.missing) \in Nat
      /\ Cardinality(c.missing) <= Cardinality(Missed)
  BY FS_CardinalityType DEF Covered
<1>8. /\ IsFiniteSet(c'.missing)
      /\ Cardinality(c'.missing) <= Cardinality(c.missing) + 1
      /\ Cardinality(c'.missing) \in Nat
  <2>1. PICK S, x : S = c.missing /\ x = Head(left)
    OBVIOUS
  <2>2. /\ IsFiniteSet(S \cup {x}) /\ Cardinality(S) \in Nat
        /\ Cardinality(S \cup {x}) = IF x \in S THEN Cardinality(S) ELSE Cardinality(S) + 1
    BY <1>7, <2>1, FS_AddElement
  <2>3. Cardinality(S \cup {x}) <= Cardinality(S) + 1 /\ Cardinality(S \cup {x}) \in Nat
    BY <2>2
  <2> QED
    BY <1>1, <2>1, <2>2, <2>3
<1> QED
  BY <1>6, <1>7, <1>8 DEF Covered

\* A step that leaves the verdict, the child and the waiter alone, with main moving on.
LEMMA FinalKept ==
    ASSUME FinalInv, UNCHANGED <<child, waiter>>,
           c'.success = c.success, c'.missing = c.missing, c'.killed = c.killed,
           \/ UNCHANGED main
           \/ main = "loop" /\ main' = "highmem"
           \/ main = "loop" /\ main' = "finished" /\ waiter # "waiting"
           \/ main = "files" /\ main' = "wait"
           \/ main = "wait" /\ main' = "exiting"
           \/ main = "exiting" /\ main' = "exited"
    PROVE  FinalInv'
BY DEF FinalInv, RightSoFar, Unjudged, Judged

\* The handlers.
LEMMA FinalHandler ==
    ASSUME TypeOK, Standing, FinalInv, Covered, Handler
    PROVE  FinalInv' /\ Covered'
<1>0. c \in CommandType /\ sends \in Seq(SendType)
  BY Types
<1>1. CASE Finished \/ FileFound \/ FileUnknown \/ FilesChecked \/ TimeWarning
  <2>1. /\ c'.success = c.success /\ c'.missing = c.missing /\ c'.killed = c.killed
        /\ UNCHANGED <<child, waiter>>
        /\ UNCHANGED sends \/ \E r \in Reasons : sends' = WithSend(r)
    BY <1>0, <1>1 DEF Finished, FileFound, FileUnknown, FilesChecked, TimeWarning,
       CommandType, reportVars, procVars, Reasons
  <2>2. \/ UNCHANGED main
        \/ main = "loop" /\ main' = "finished" /\ waiter # "waiting"
        \/ main = "files" /\ main' = "wait"
    BY <1>1 DEF Finished, FileFound, FileUnknown, FilesChecked, TimeWarning, procVars
  <2> QED
    BY <1>0, <2>1, <2>2, FinalKept, MissedKept, CoveredKept
<1>2. ASSUME NEW mem \in 1..2, CheckMemory(mem) PROVE FinalInv' /\ Covered'
  <2>1. /\ c'.success = c.success /\ c'.missing = c.missing /\ c'.killed = c.killed
        /\ UNCHANGED <<child, waiter>>
        /\ UNCHANGED sends \/ \E r \in Reasons : sends' = WithSend(r)
    BY <1>0, <1>2 DEF CheckMemory, CommandType, procVars, Reasons
  <2>2. UNCHANGED main \/ (main = "loop" /\ main' = "highmem")
    BY <1>2 DEF CheckMemory
  <2> QED
    BY <1>0, <2>1, <2>2, FinalKept, MissedKept, CoveredKept
<1>3. CASE FinishedVerdict
  <2>1. /\ c'.success = (child = "ok") /\ c'.missing = c.missing
        /\ UNCHANGED <<child, waiter>> /\ main = "finished" /\ main' = "files"
    BY <1>0, <1>3 DEF FinishedVerdict, CommandType, procVars
  <2>2. \E r \in Reasons : sends' = WithSend(r)
    BY <1>3 DEF FinishedVerdict, Reasons
  <2>3. c.missing = {} /\ child \in Ended
    BY <2>1 DEF FinalInv, Unjudged
  <2>4. FinalInv'
    BY <2>1, <2>3 DEF FinalInv, RightSoFar, Unjudged, Judged
  <2> QED
    BY <1>0, <2>1, <2>2, <2>4, MissedKept, CoveredKept
<1>4. CASE FileMissing
  <2>1. /\ c'.success = FALSE /\ c'.missing # {} /\ c'.killed = c.killed
        /\ UNCHANGED <<child, waiter, main>> /\ main = "files"
    BY <1>0, <1>4 DEF FileMissing, CommandType, procVars
  <2>2. FinalInv'
    BY <2>1 DEF FinalInv, RightSoFar, Unjudged, Judged
  <2> QED
    BY <1>4, <2>2, CoveredFile
<1>5. ASSUME NEW k \in {"Signal", "Timeout", "Memory"}, Kill(k), main \in {"loop", "highmem"}
      PROVE  FinalInv' /\ Covered'
  <2>1. /\ c'.missing = c.missing /\ UNCHANGED <<child, waiter>> /\ main' = "killing"
        /\ \E r \in Reasons : sends' = WithSend(r)
    BY <1>0, <1>5 DEF Kill, CommandType, procVars, Reasons
  <2>2. FinalInv'
    BY <1>5, <2>1 DEF FinalInv, Unjudged, Judged
  <2> QED
    BY <1>0, <2>1, <2>2, MissedKept, CoveredKept
<1>6. CASE KillSignal
  <2>1. /\ c.killed /\ UNCHANGED <<c, sends, waiter>> /\ main' \in {"wait", "exited1"}
        /\ waiter # "waiting" => child' = child
    BY <1>6 DEF KillSignal, Standing, reportVars
  <2>2. FinalInv'
    BY <2>1 DEF FinalInv, Unjudged, Judged
  <2> QED
    BY <1>0, <2>1, <2>2, MissedKept, CoveredKept
<1> QED
  BY <1>1, <1>2, <1>3, <1>4, <1>5, <1>6
     DEF Handler, Signal, Timeout, KillOnHighMemory

\* Every step.
LEMMA FinalStep ==
    ASSUME TypeOK, Standing, FinalInv, Covered, [Next]_vars
    PROVE  FinalInv' /\ Covered'
<1>0. c \in CommandType /\ sends \in Seq(SendType)
  BY Types
<1>1. ASSUME SameCommand, SameCalls, sends' \in Seq(SendType),
             UNCHANGED <<main, child, waiter>>
      PROVE  FinalInv' /\ Covered'
  <2>1. c'.success = c.success /\ c'.missing = c.missing /\ c'.killed = c.killed
    BY <1>0, <1>1 DEF SameCommand, CommandType
  <2> QED
    BY <1>0, <1>1, <2>1, FinalKept, MissedKept, CoveredKept
<1>2. CASE ReportStep
  BY <1>1, <1>2, SendStepEffect DEF ReportStep, procVars
<1>3. ASSUME NEW s \in Streams, Scan(s) PROVE FinalInv' /\ Covered'
  <2>1. PICK new \in Matches(lines + 1) : AppendMatches(new)
    BY <1>3 DEF Scan
  <2>2. lines \in Nat
    BY DEF TypeOK
  <2>3. new \in SUBSET Nat
    BY <2>2, MatchesOfLine
  <2> QED
    BY <1>1, <1>3, <2>1, <2>3, AppendEffect DEF Scan
<1>4. ASSUME NEW s \in Streams, AlertIfMatched(s) PROVE FinalInv' /\ Covered'
  <2>1. /\ UNCHANGED <<c, main, child, waiter>>
        /\ UNCHANGED sends \/ \E r \in Reasons : sends' = WithSend(r)
    BY <1>4 DEF AlertIfMatched, Reasons
  <2> QED
    BY <1>0, <2>1, FinalKept, MissedKept, CoveredKept
<1>5. CASE \/ WaitReturns \/ Exit \/ StdinEnds \/ StdinBroken
           \/ \E s \in Streams : Ends(s)
           \/ UNCHANGED vars
  <2>1. /\ UNCHANGED <<c, sends, child, waiter>>
        /\ \/ UNCHANGED main
           \/ main = "wait" /\ main' = "exiting"
           \/ main = "exiting" /\ main' = "exited"
    BY <1>5 DEF WaitReturns, Exit, StdinEnds, StdinBroken, Ends, ScanEOF, ScanStops, OutputBroken, BadAssertion, vars,
       reportVars, procVars
  <2> QED
    BY <1>0, <2>1, FinalKept, MissedKept, CoveredKept
<1>6. CASE Start \/ ChildExits \/ Reap \/ RunFinished
  <2>1. UNCHANGED <<c, sends>>
    BY <1>6 DEF Start, ChildExits, Reap, RunFinished, reportVars
  <2>2. ASSUME Start PROVE FinalInv'
    BY <2>1, <2>2 DEF Start, FinalInv, Unjudged, Judged, Ended, RightSoFar
  <2>3. ASSUME ChildExits PROVE FinalInv'
    BY <2>1, <2>3 DEF ChildExits, FinalInv, Unjudged, Judged, Ended, RightSoFar
  <2>4. ASSUME Reap \/ RunFinished PROVE FinalInv'
    BY <2>1, <2>4 DEF Reap, RunFinished, FinalInv, Unjudged, Judged, Ended, RightSoFar
  <2>5. Covered'
    BY <1>0, <2>1, MissedKept, CoveredKept
  <2> QED
    BY <1>6, <2>2, <2>3, <2>4, <2>5
<1> QED
  BY <1>2, <1>3, <1>4, <1>5, <1>6, FinalHandler DEF Next, Goroutine, Terminated, Ends

\* A run that was not killed counts as successful exactly if the child was and no file
\* is missing, for any files, and every missing one was reported (handlers.go 34-55,
\* 156-180).
THEOREM FinalVerdictStands == Spec => []FinalVerdict
<1>1. Init => FinalInv /\ Covered
  <2> SUFFICES ASSUME Init PROVE FinalInv /\ Covered
    OBVIOUS
  <2>1. /\ c.missing = {} /\ sends = <<>> /\ main = "start" /\ waiter = "waiting"
        /\ child = "none"
    BY DEF Init, ReportInit, NewCommand
  <2>2. FinalInv
    BY <2>1 DEF FinalInv, Judged
  <2>3. Missed = {}
    BY <2>1 DEF Missed, Sent
  <2> QED
    BY <2>1, <2>2, <2>3, FS_EmptySet DEF Covered
<1>2. VerdictInv => Standing
  BY DEF VerdictInv
<1>3. FinalInv /\ Covered => FinalVerdict
  BY DEF FinalInv, Covered, FinalVerdict, Judged, RightSoFar, Missed
<1>4. TypeOK /\ Standing /\ FinalInv /\ Covered /\ [Next]_vars => FinalInv' /\ Covered'
  BY FinalStep
<1> QED
  BY <1>1, <1>2, <1>3, <1>4, TypeCorrect, VerdictsStand, PTL DEF Spec
-----------------------------------------------------------------------------
(***************************************************************************)
(* The lines of output that a report shows.                                *)
(***************************************************************************)

\* The step that appends one line keeps the latest ones.
LEMMA KeepsLatest ==
    ASSUME NEW h \in Seq(Nat), NEW max \in Nat, NEW n \in Nat,
           ~OutOfRange(h, max), Latest(h, n, max)
    PROVE  /\ Keep(h, max, n + 1) \in Seq(Nat)
           /\ Latest(Keep(h, max, n + 1), n + 1, max)
<1>0. /\ EndsWith(h, n) /\ Len(h) <= max /\ Len(h) <= n
      /\ Len(h) >= n \/ Len(h) + 1 >= max
  BY DEF Latest
<1>1. CASE Len(h) >= max
  <2>1. Len(h) >= 2 BY <1>1 DEF OutOfRange
  <2>2. SubSeq(h, 3, Len(h)) \in Seq(Nat) BY <1>0, <2>1, DropsTwo
  <2>3. PICK t \in Seq(Nat) : t = SubSeq(h, 3, Len(h)) BY <2>2
  <2>4. Len(t) - Len(h) = -2 /\ EndsWith(t, n) BY <1>0, <2>1, <2>3, DropsTwo
  <2>5. Append(t, n + 1) \in Seq(Nat) BY <2>4, AppendsNext
  <2>6. PICK g \in Seq(Nat) : g = Append(t, n + 1) BY <2>5
  <2>7. Len(g) - Len(t) = 1 /\ EndsWith(g, n + 1) BY <2>4, <2>6, AppendsNext
  <2>8. /\ Len(g) <= max /\ Len(g) <= n + 1 /\ Len(g) + 1 >= max
    BY <2>4, <2>7, <1>0, <1>1
  <2>9. Latest(g, n + 1, max) BY <2>7, <2>8 DEF Latest
  <2>10. Keep(h, max, n + 1) = g BY <1>1, <2>3, <2>6 DEF Keep
  <2> QED BY <2>9, <2>10
<1>2. CASE ~(Len(h) >= max)
  <2>1. Append(h, n + 1) \in Seq(Nat) BY <1>0, AppendsNext
  <2>2. PICK g \in Seq(Nat) : g = Append(h, n + 1) BY <2>1
  <2>3. Len(g) - Len(h) = 1 /\ EndsWith(g, n + 1) BY <1>0, <2>2, AppendsNext
  <2>4. /\ Len(g) <= max /\ Len(g) <= n + 1
        /\ Len(g) >= n + 1 \/ Len(g) + 1 >= max
    BY <2>3, <1>0, <1>2
  <2>5. Latest(g, n + 1, max) BY <2>3, <2>4 DEF Latest
  <2>6. Keep(h, max, n + 1) = g BY <1>2, <2>2 DEF Keep
  <2> QED BY <2>5, <2>6
<1> QED BY <1>1, <1>2

\* Every step preserves the types and Recent.
LEMMA HistoryPreserved == HistoryTypeOK /\ Recent /\ [HistoryNext]_historyVars => HistoryTypeOK' /\ Recent'
<1> SUFFICES ASSUME HistoryTypeOK, Recent, [HistoryNext]_historyVars PROVE HistoryTypeOK' /\ Recent'
  OBVIOUS
<1>0. /\ \A s \in Outputs : limit[s] \in Nat /\ read[s] \in Nat /\ history[s] \in Seq(Nat)
      /\ MaxLines \in Nat
  <2>1. limit \in [Outputs -> Limits] /\ read \in [Outputs -> 0..MaxLines]
        /\ history \in [Outputs -> Seq(Nat)]
    BY DEF HistoryTypeOK
  <2>2. Limits \subseteq Nat /\ MaxLines \in Nat BY HistoryAssumption
  <2>3. \A s \in Outputs : limit[s] \in Nat BY <2>1, <2>2
  <2>4. \A s \in Outputs : read[s] \in Nat BY <2>1, <2>2
  <2> QED BY <2>1, <2>2, <2>3, <2>4
<1>1. ASSUME NEW s \in Outputs, Line(s) PROVE HistoryTypeOK' /\ Recent'
  <2>1. PICK g : g = Keep(history[s], limit[s], read[s] + 1) OBVIOUS
  <2>2. g \in Seq(Nat) /\ Latest(g, read[s] + 1, limit[s])
    BY <1>0, <1>1, <2>1, KeepsLatest DEF Recent, Line
  <2>3. /\ history' = [history EXCEPT ![s] = g]
        /\ read' = [read EXCEPT ![s] = read[s] + 1]
        /\ limit' = limit /\ crashed' = crashed
    BY <1>1, <2>1 DEF Line
  <2>4. read[s] + 1 \in 0..MaxLines BY <1>0, <1>1 DEF Line
  <2>5. HistoryTypeOK' BY <2>2, <2>3, <2>4 DEF HistoryTypeOK
  <2>6. ASSUME NEW r \in Outputs PROVE Latest(history'[r], read'[r], limit'[r])
    <3>1. CASE r = s BY <2>2, <2>3, <3>1 DEF HistoryTypeOK
    <3>2. CASE r # s BY <2>3, <3>2 DEF HistoryTypeOK, Recent
    <3> QED BY <3>1, <3>2
  <2> QED BY <2>3, <2>5, <2>6 DEF Recent
<1>2. ASSUME NEW s \in Outputs, Panic(s) PROVE HistoryTypeOK' /\ Recent'
  <2>1. PICK m \in Nat : m = Len(history[s]) BY <1>0
  <2>2. m >= limit[s] /\ m < 2 BY <1>2, <2>1 DEF Panic, OutOfRange
  <2>3. limit[s] < 2 BY <1>0, <2>2
  <2> QED BY <1>2, <2>3 DEF Panic, HistoryTypeOK, Recent
<1>3. CASE UNCHANGED historyVars BY <1>3 DEF historyVars, HistoryTypeOK, Recent
<1> QED BY <1>1, <1>2, <1>3 DEF HistoryNext

\* For every limit and every number of lines, a report shows the latest lines,
\* in order and all but at most one of as many as the limit allows, and only a
\* limit below two ends the program (command.go 308-317, 333-342).
THEOREM HistoryIsRecent == HistorySpec => []Recent
<1>1. HistoryInit => HistoryTypeOK /\ Recent
  <2> SUFFICES ASSUME HistoryInit PROVE HistoryTypeOK /\ Recent OBVIOUS
  <2>1. <<>> \in Seq(Nat) /\ \A n, m \in Nat : n = 0 => Latest(<<>>, n, m)
    BY DEF Latest, EndsWith
  <2>2. HistoryTypeOK
    <3>1. limit \in [Outputs -> Limits] /\ crashed \in BOOLEAN BY DEF HistoryInit
    <3>2. read \in [Outputs -> 0..MaxLines]
      <4>1. 0 \in 0..MaxLines BY HistoryAssumption
      <4> QED BY <4>1 DEF HistoryInit
    <3>3. history \in [Outputs -> Seq(Nat)] BY <2>1 DEF HistoryInit
    <3> QED BY <3>1, <3>2, <3>3 DEF HistoryTypeOK
  <2>3. \A s \in Outputs : limit[s] \in Nat /\ read[s] = 0 /\ history[s] = <<>>
    BY HistoryAssumption DEF HistoryInit
  <2> QED BY <2>1, <2>2, <2>3 DEF Recent, HistoryInit
<1> QED BY <1>1, HistoryPreserved, PTL DEF HistorySpec
=============================================================================
