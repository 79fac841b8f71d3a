----------------------------- MODULE StatProofs -----------------------------
(***************************************************************************)
(* Theorems about Series and Estimator, for any number of series, any        *)
(* capacity and any observations.                                            *)
(***************************************************************************)
EXTENDS Estimator, SequenceProofs

(***************************************************************************)
(* The ring buffer.  Its slots, seen from c0 == count % Capacity: those up to *)
(* c0 hold the latest c0 values, those behind it the values before them.     *)
(***************************************************************************)

\* A multiple of C between -C and C.
LEMMA Multiple ==
    ASSUME NEW C \in Nat \ {0}, NEW d \in Int, C * d <= C, C * d > -C
    PROVE  d \in {0, 1}
<1>1. d <= 1
  <2>1. SUFFICES ASSUME d >= 2 PROVE FALSE  OBVIOUS
  <2>2. C * d >= C * 2  BY <2>1
  <2> QED  BY <2>2
<1>2. d >= 0
  <2>1. SUFFICES ASSUME d <= -1 PROVE FALSE  OBVIOUS
  <2>2. C * d <= C * (-1)  BY <2>1
  <2> QED  BY <2>2
<1> QED  BY <1>1, <1>2

\* What % and \div are.
LEMMA DivMod ==
    ASSUME NEW C \in Nat \ {0}, NEW n \in Nat
    PROVE  \E q \in Int, r \in 0..(C - 1) : n = C * q + r /\ r = n % C /\ q = n \div C
  OBVIOUS

\* The next slot follows the last one, or is the first again.
LEMMA ModSucc ==
    ASSUME NEW C \in Nat \ {0}, NEW n \in Nat
    PROVE  /\ n % C \in 0..(C - 1)
           /\ (n + 1) % C = IF (n % C) + 1 = C THEN 0 ELSE (n % C) + 1
<1>1. PICK q \in Int, r \in 0..(C - 1) : n = C * q + r /\ r = n % C
  BY DivMod
<1>2. PICK p \in Int, t \in 0..(C - 1) : n + 1 = C * p + t /\ t = (n + 1) % C
  <2> DEFINE m == n + 1
  <2>1. m \in Nat  OBVIOUS
  <2> HIDE DEF m
  <2>2. PICK p \in Int, t \in 0..(C - 1) : m = C * p + t /\ t = m % C
    BY <2>1, DivMod
  <2> QED  BY <2>2 DEF m
<1>3. C * (p - q) = r + 1 - t  BY <1>1, <1>2
<1>4. p - q \in {0, 1}
  BY <1>3, Multiple
<1>5. CASE p - q = 0
  <2>1. C * (p - q) = 0  BY <1>5
  <2>2. r + 1 = t  BY <1>3, <2>1
  <2>3. r + 1 # C  BY <2>2
  <2> QED  BY <1>1, <1>2, <2>2, <2>3
<1>6. CASE p - q = 1
  <2>1. C * (p - q) = C  BY <1>6
  <2>2. r + 1 - t = C  BY <1>3, <2>1
  <2>3. r + 1 = C /\ t = 0  BY <2>2
  <2> QED  BY <1>1, <1>2, <2>3
<1> QED  BY <1>4, <1>5, <1>6

\* A number below C is its own remainder.
LEMMA ModSmall ==
    ASSUME NEW C \in Nat \ {0}, NEW n \in Nat, n < C
    PROVE  n % C = n
<1>1. PICK q \in Int, r \in 0..(C - 1) : n = C * q + r /\ r = n % C
  BY DivMod
<1>2. C * q <= C /\ C * q > -C  BY <1>1
<1>3. q \in {0, 1}  BY <1>2, Multiple
<1>4. q = 0  BY <1>1, <1>3
<1> QED  BY <1>1, <1>4

\* The elements of a sequence with one more, of whatever kind that is.
LEMMA AppendElements ==
    ASSUME NEW S, NEW h \in Seq(S), NEW v
    PROVE  /\ Append(h, v) \in Seq(S \union {v})
           /\ Len(Append(h, v)) = Len(h) + 1
           /\ \A k \in 1..Len(h) : Append(h, v)[k] = h[k]
           /\ Append(h, v)[Len(h) + 1] = v
<1>1. h \in Seq(S \union {v})  OBVIOUS
<1> QED  BY <1>1

\* The slots hold what was recorded.
RingHolds(r, h) ==
    LET c0 == Len(h) % Capacity
    IN /\ r.count = Len(h)
       /\ DOMAIN r.values = 1..Capacity
       /\ r.values = [q \in 1..Capacity |->
                        IF q <= c0 THEN h[Len(h) - c0 + q]
                        ELSE IF Len(h) >= Capacity THEN h[Len(h) - Capacity + q - c0]
                        ELSE 0]

\* An empty ring holds the empty sequence.
LEMMA RingEmpty == RingHolds(Empty, <<>>)
<1>1. 0 % Capacity = 0  BY ModSmall, SeriesAssumption
<1> QED  BY <1>1, SeriesAssumption DEF RingHolds, Empty

\* Recording a value in a ring appends it to what the ring holds.
LEMMA RingPut ==
    ASSUME NEW S, NEW h \in Seq(S), NEW r, RingHolds(r, h), NEW v
    PROVE  RingHolds(Put(r, v), Append(h, v))
<1> DEFINE n == Len(h)
           c0 == n % Capacity
           c1 == (n + 1) % Capacity
           g == Append(h, v)
<1>1. n \in Nat /\ Capacity \in Nat \ {0}  BY SeriesAssumption
<1>2. c0 \in 0..(Capacity - 1) /\ c1 = IF c0 + 1 = Capacity THEN 0 ELSE c0 + 1
  BY <1>1, ModSucc
<1>3. n < Capacity => c0 = n  BY <1>1, ModSmall
<1>4. /\ Len(g) = n + 1 /\ g[n + 1] = v
      /\ \A k \in 1..n : g[k] = h[k]
  BY AppendElements
<1>5. /\ r.count = n
      /\ r.values = [q \in 1..Capacity |->
                        IF q <= c0 THEN h[n - c0 + q]
                        ELSE IF n >= Capacity THEN h[n - Capacity + q - c0]
                        ELSE 0]
  BY DEF RingHolds
<1>6. Put(r, v) = [count |-> n + 1, values |-> [r.values EXCEPT ![c0 + 1] = v]]
  BY <1>5 DEF Put, NextSlot
<1> DEFINE new == [r.values EXCEPT ![c0 + 1] = v]
           Slots(m, c) == [q \in 1..Capacity |->
                             IF q <= c THEN g[m - c + q]
                             ELSE IF m >= Capacity THEN g[m - Capacity + q - c]
                             ELSE 0]
           want == Slots(n + 1, c1)
<1>7. new = [q \in 1..Capacity |-> IF q = c0 + 1 THEN v ELSE r.values[q]]
  BY <1>5
<1> HIDE DEF c0, c1, n, g
<1>8. \A q \in 1..Capacity : new[q] = want[q]
  <2> SUFFICES ASSUME NEW q \in 1..Capacity PROVE new[q] = want[q]  OBVIOUS
  <2>1. CASE q = c0 + 1
    <3>1. new[q] = v  BY <1>7, <2>1
    <3>2. CASE c0 + 1 = Capacity
      <4>1. c1 = 0 /\ n + 1 >= Capacity  BY <1>1, <1>2, <1>3, <3>2
      <4>2. want[q] = g[n + 1]  BY <4>1, <2>1, <3>2, <1>1
      <4> QED  BY <3>1, <4>2, <1>4
    <3>3. CASE c0 + 1 # Capacity
      <4>1. want[q] = g[n + 1]  BY <1>1, <1>2, <2>1, <3>3
      <4> QED  BY <3>1, <4>1, <1>4
    <3> QED  BY <3>2, <3>3
  <2>2. CASE q <= c0
    <3>1. c0 <= n
      BY <1>1, <1>2, <1>3
    <3>2. new[q] = h[n - c0 + q]  BY <1>7, <1>5, <1>2, <2>2
    <3>3. n - c0 + q \in 1..n  BY <1>1, <1>2, <2>2, <3>1
    <3>4. want[q] = g[n - c0 + q]
      <4>1. CASE c0 + 1 = Capacity
        <5>1. c1 = 0 /\ n + 1 >= Capacity  BY <1>1, <1>2, <1>3, <4>1
        <5>2. n + 1 - Capacity + q - c1 = n - c0 + q  BY <5>1, <4>1, <1>1, <1>2
        <5>3. ~(q <= c1)  BY <5>1
        <5>4. want[q] = g[n + 1 - Capacity + q - c1]  BY <5>1, <5>3, <1>1, <1>2
        <5> QED  BY <5>2, <5>4
      <4>2. CASE c0 + 1 # Capacity
        <5>1. q <= c1 /\ n + 1 - c1 + q = n - c0 + q  BY <1>1, <1>2, <2>2, <4>2
        <5>2. want[q] = g[n + 1 - c1 + q]  BY <5>1, <1>1, <1>2
        <5> QED  BY <5>1, <5>2
      <4> QED  BY <4>1, <4>2
    <3> QED  BY <3>2, <3>3, <3>4, <1>4
  <2>3. CASE q > c0 + 1
    <3>1. c1 = c0 + 1 /\ ~(q <= c1)  BY <1>1, <1>2, <2>3
    <3>2. CASE n >= Capacity
      <4>1. new[q] = h[n - Capacity + q - c0]  BY <1>7, <1>5, <1>1, <1>2, <2>3, <3>2
      <4>2. n - Capacity + q - c0 \in 1..n  BY <1>1, <1>2, <2>3, <3>2
      <4>3. n + 1 - Capacity + q - c1 = n - Capacity + q - c0  BY <3>1, <1>1, <1>2
      <4>4. want[q] = g[n - Capacity + q - c0]  BY <3>1, <3>2, <4>3, <1>1
      <4> QED  BY <4>1, <4>2, <4>4, <1>4
    <3>3. CASE n < Capacity
      <4>1. new[q] = 0  BY <1>7, <1>5, <1>1, <1>2, <2>3, <3>3
      <4>2. ~(n + 1 >= Capacity)  BY <1>1, <1>2, <1>3, <2>3, <3>3
      <4>3. want[q] = 0  BY <4>2, <3>1
      <4> QED  BY <4>1, <4>3
    <3> QED  BY <3>2, <3>3, <1>1
  <2> QED  BY <2>1, <2>2, <2>3, <1>2
<1>9. new = want  BY <1>7, <1>8
<1>10. Put(r, v).count = Len(g) /\ Put(r, v).values = want
  BY <1>4, <1>6, <1>9
<1>11. c1 = Len(g) % Capacity  BY <1>4 DEF c1
<1> HIDE DEF Slots
<1>12. want = Slots(Len(g), Len(g) % Capacity)  BY <1>4, <1>11
<1>13. RingHolds(Put(r, v), g)
  BY <1>10, <1>12 DEF RingHolds, Slots
<1> QED  BY <1>13 DEF g

\* What Values makes of the slots.
LEMMA RingValues ==
    ASSUME NEW S, NEW h \in Seq(S), NEW r, RingHolds(r, h)
    PROVE  r.count = Len(h) /\ Values(r) = Latest(h)
<1> DEFINE n == Len(h)
           c0 == n % Capacity
<1>1. n \in Nat /\ Capacity \in Nat \ {0}  BY SeriesAssumption
<1>2. c0 \in 0..(Capacity - 1)  BY <1>1, ModSucc
<1>3. n < Capacity => c0 = n  BY <1>1, ModSmall
<1>4. /\ r.count = n
      /\ r.values = [q \in 1..Capacity |->
                        IF q <= c0 THEN h[n - c0 + q]
                        ELSE IF n >= Capacity THEN h[n - Capacity + q - c0]
                        ELSE 0]
  BY DEF RingHolds
<1>5. NextSlot(r) = c0 + 1  BY <1>4 DEF NextSlot
<1> HIDE DEF c0, n
<1>6. CASE n < Capacity
  <2>1. Values(r) = r.values  BY <1>4, <1>6, <1>1 DEF Values
  <2>2. r.values = [k \in 1..Capacity |-> IF k <= n THEN h[k] ELSE 0]
    BY <1>1, <1>3, <1>4, <1>6
  <2>3. Latest(h) = [k \in 1..Capacity |-> IF k <= n THEN h[k] ELSE 0]
    BY <1>1, <1>6 DEF Latest, n
  <2> QED  BY <1>4, <2>1, <2>2, <2>3 DEF n
<1>7. CASE n >= Capacity
  <2>1. Values(r) = [k \in 1..Capacity |->
            IF k <= Capacity - c0 THEN r.values[c0 + k]
            ELSE r.values[k - (Capacity - c0)]]
    <3>1. ~(r.count < Capacity)  BY <1>1, <1>4, <1>7
    <3>2. Values(r) = [k \in 1..Capacity |->
              IF k <= Capacity + 1 - (c0 + 1) THEN r.values[(c0 + 1) + k - 1]
              ELSE r.values[k - (Capacity + 1 - (c0 + 1))]]
      BY <3>1, <1>5 DEF Values
    <3>3. /\ Capacity + 1 - (c0 + 1) = Capacity - c0
          /\ \A k \in 1..Capacity : (c0 + 1) + k - 1 = c0 + k
      BY <1>1, <1>2
    <3> QED  BY <3>2, <3>3
  <2>2. Latest(h) = [k \in 1..Capacity |-> h[n - Capacity + k]]
    BY <1>1, <1>7 DEF Latest, n
  <2>3. ASSUME NEW k \in 1..Capacity
        PROVE  (IF k <= Capacity - c0 THEN r.values[c0 + k]
                ELSE r.values[k - (Capacity - c0)]) = h[n - Capacity + k]
    <3>1. CASE k <= Capacity - c0
      <4>1. c0 + k \in 1..Capacity /\ ~(c0 + k <= c0)  BY <1>1, <1>2, <3>1
      <4>2. n - Capacity + (c0 + k) - c0 = n - Capacity + k  BY <1>1, <1>2
      <4> QED  BY <1>4, <1>7, <3>1, <4>1, <4>2
    <3>2. CASE k > Capacity - c0
      <4>1. k - (Capacity - c0) \in 1..Capacity /\ k - (Capacity - c0) <= c0
        BY <1>1, <1>2, <3>2
      <4>2. n - c0 + (k - (Capacity - c0)) = n - Capacity + k  BY <1>1, <1>2
      <4>3. ~(k <= Capacity - c0)  BY <1>1, <1>2, <3>2
      <4> QED  BY <1>4, <4>1, <4>2, <4>3
    <3> QED  BY <3>1, <3>2, <1>1, <1>2
  <2> QED  BY <1>4, <2>1, <2>2, <2>3 DEF n
<1> QED  BY <1>1, <1>6, <1>7

-----------------------------------------------------------------------------
(***************************************************************************)
(* All series: the invariant, and the three operations that change them.     *)
(***************************************************************************)
SeriesInv ==
    /\ series = [i \in Ids |-> series[i]] /\ recorded = [i \in Ids |-> recorded[i]]
    /\ \A i \in Ids : /\ \E S : recorded[i] \in Seq(S)
                      /\ RingHolds(series[i], recorded[i])

\* Every series begins empty.
LEMMA SeriesInvInit == SeriesInit => SeriesInv
  BY RingEmpty DEF SeriesInit, SeriesInv

\* A value is stored in one of them.
LEMMA SeriesInvStore ==
    ASSUME SeriesInv, NEW i \in Ids, NEW v, Store(i, v)
    PROVE  SeriesInv'
<1>1. PICK S : recorded[i] \in Seq(S)  BY DEF SeriesInv
<1>2. RingHolds(series[i], recorded[i])  BY DEF SeriesInv
<1> DEFINE r == Put(series[i], v)
           h == Append(recorded[i], v)
<1>3. RingHolds(r, h)  BY <1>1, <1>2, RingPut
<1>4. h \in Seq(S \union {v})  BY <1>1, AppendElements
<1>5. /\ series' = [j \in Ids |-> IF j = i THEN r ELSE series[j]]
      /\ recorded' = [j \in Ids |-> IF j = i THEN h ELSE recorded[j]]
  BY DEF SeriesInv, Store
<1> HIDE DEF r, h
<1>6. ASSUME NEW j \in Ids
      PROVE  /\ \E T : recorded'[j] \in Seq(T)
             /\ RingHolds(series'[j], recorded'[j])
  <2>1. CASE j = i
    <3>1. series'[j] = r /\ recorded'[j] = h  BY <1>5, <2>1
    <3> QED  BY <1>3, <1>4, <3>1
  <2>2. CASE j # i
    <3>1. series'[j] = series[j] /\ recorded'[j] = recorded[j]  BY <1>5, <2>2
    <3> QED  BY <3>1 DEF SeriesInv
  <2> QED  BY <2>1, <2>2
<1>7. series' = [j \in Ids |-> series'[j]] /\ recorded' = [j \in Ids |-> recorded'[j]]
  BY <1>5
<1> QED  BY <1>6, <1>7 DEF SeriesInv, RingHolds

\* One of them is reset.
LEMMA SeriesInvReset ==
    ASSUME SeriesInv, NEW i \in Ids, Reset(i)
    PROVE  SeriesInv'
<1>1. /\ series' = [j \in Ids |-> IF j = i THEN Empty ELSE series[j]]
      /\ recorded' = [j \in Ids |-> IF j = i THEN <<>> ELSE recorded[j]]
  BY DEF SeriesInv, Reset
<1>2. ASSUME NEW j \in Ids
      PROVE  /\ \E T : recorded'[j] \in Seq(T)
             /\ RingHolds(series'[j], recorded'[j])
  <2>1. CASE j = i
    <3>1. series'[j] = Empty /\ recorded'[j] = <<>>  BY <1>1, <2>1
    <3>2. recorded'[j] \in Seq({})  BY <3>1
    <3> QED  BY <3>1, <3>2, RingEmpty
  <2>2. CASE j # i
    <3>1. series'[j] = series[j] /\ recorded'[j] = recorded[j]  BY <1>1, <2>2
    <3> QED  BY <3>1 DEF SeriesInv
  <2> QED  BY <2>1, <2>2
<1>3. series' = [j \in Ids |-> series'[j]] /\ recorded' = [j \in Ids |-> recorded'[j]]
  BY <1>1
<1> QED  BY <1>2, <1>3 DEF SeriesInv, RingHolds

\* None is touched.
LEMMA SeriesInvSame ==
    ASSUME SeriesInv, UNCHANGED <<series, recorded>>
    PROVE  SeriesInv'
  BY DEF SeriesInv, RingHolds

\* A client records, with or without a window.
LEMMA SeriesInvRecord ==
    ASSUME SeriesInv, NEW i \in Ids, NEW v, Record(i, v)
    PROVE  SeriesInv'
<1>1. CASE Direct(i)
  <2>1. Store(i, v)  BY <1>1 DEF Record
  <2> QED  BY <2>1, SeriesInvStore
<1>2. CASE ~Direct(i)
  <2>1. UNCHANGED <<series, recorded>>  BY <1>2 DEF Record
  <2> QED  BY <2>1, SeriesInvSame
<1> QED  BY <1>1, <1>2

\* The goroutine of a series and its callers of done.
LEMMA SeriesInvSampler ==
    ASSUME SeriesInv, NEW i \in Ids, SamplerNext(i)
    PROVE  SeriesInv'
<1>1. CASE Sample(i)
  <2>1. Store(i, Combine(obs[i]))  BY <1>1 DEF Sample
  <2> QED  BY <2>1, SeriesInvStore
<1>2. CASE TakeDone(i)
  BY <1>2, SeriesInvSame DEF TakeDone, history
<1>3. CASE DoneReturn(i)
  BY <1>3, SeriesInvSame DEF DoneReturn, history
<1> QED  BY <1>1, <1>2, <1>3 DEF SamplerNext

\* What is stated of the slots gives what Values returns.
LEMMA SeriesInvShowsLatest == SeriesInv => ValuesAreLatest
<1> SUFFICES ASSUME SeriesInv, NEW i \in Ids
             PROVE  /\ series[i].count = Len(recorded[i])
                    /\ Values(series[i]) = Latest(recorded[i])
  BY DEF ValuesAreLatest
<1>1. PICK S : recorded[i] \in Seq(S)  BY DEF SeriesInv
<1>2. RingHolds(series[i], recorded[i])  BY DEF SeriesInv
<1> QED  BY <1>1, <1>2, RingValues

\* Values and Count of every series tell the latest values and their number, for
\* every capacity and however the windows fall (series.go 41-76, sampled.go 38-113).
THEOREM ValuesAreLatestAlways == SeriesSpec => []ValuesAreLatest
<1>1. SeriesInit => SeriesInv  BY SeriesInvInit
<1>2. SeriesInv /\ [SeriesNext]_seriesVars => SeriesInv'
  <2> SUFFICES ASSUME SeriesInv, [SeriesNext]_seriesVars PROVE SeriesInv'
    OBVIOUS
  <2>1. CASE UNCHANGED seriesVars
    BY <2>1, SeriesInvSame DEF seriesVars, history
  <2>2. CASE SeriesNext
    <3> PICK i \in Ids : \/ \E v \in Inputs : Record(i, v)
                         \/ Reset(i) \/ DoneCall(i) \/ SamplerNext(i)
      BY <2>2 DEF SeriesNext
    <3>1. CASE \E v \in Inputs : Record(i, v)  BY <3>1, SeriesInvRecord
    <3>2. CASE Reset(i)  BY <3>2, SeriesInvReset
    <3>3. CASE DoneCall(i)
      BY <3>3, SeriesInvSame DEF DoneCall, history
    <3>4. CASE SamplerNext(i)  BY <3>4, SeriesInvSampler
    <3> QED  BY <3>1, <3>2, <3>3, <3>4
  <2> QED  BY <2>1, <2>2
<1>3. SeriesInv => ValuesAreLatest  BY SeriesInvShowsLatest
<1> QED  BY <1>1, <1>2, <1>3, PTL DEF SeriesSpec

-----------------------------------------------------------------------------
(***************************************************************************)
(* Windows.  In direct mode an observation is a window of its own, which     *)
(* Combine leaves as it is, and no window is ever open.                      *)
(***************************************************************************)

\* The sum of one observation.
LEMMA SumOfOne ==
    ASSUME NEW v \in Int
    PROVE  SampleSum(<<v>>) = v
<1> DEFINE IsFold(h) == h = [s \in SUBSET {1} |->
                           IF s = {} THEN 0 ELSE h[s \ {Max(s)}] + <<v>>[Max(s)]]
           g == [s \in SUBSET {1} |-> IF s = {} THEN 0 ELSE v]
<1>1. DOMAIN <<v>> = {1} /\ <<v>>[1] = v OBVIOUS
<1>2. Max({1}) = 1 BY DEF Max
<1>3. SUBSET {1} = {{}, {1}} /\ {1} \ {1} = {} /\ {1} # {} OBVIOUS
<1>4. IsFold(g)
  <2> DEFINE f == [s \in SUBSET {1} |->
                     IF s = {} THEN 0 ELSE g[s \ {Max(s)}] + <<v>>[Max(s)]]
  <2>1. g[{}] = 0 /\ g[{1}] = v BY <1>3
  <2>2. f[{}] = 0 /\ f[{1}] = 0 + v BY <1>1, <1>2, <1>3, <2>1
  <2>3. 0 + v = v OBVIOUS
  <2> QED BY <1>3, <2>1, <2>2, <2>3
<1>5. ASSUME NEW h, IsFold(h) PROVE h[{1}] = v
  <2>1. h[{}] = 0 BY <1>3, <1>5
  <2>2. h[{1}] = h[{}] + v BY <1>1, <1>2, <1>3, <1>5
  <2> QED BY <2>1, <2>2
<1>6. SampleSum(<<v>>) = (CHOOSE h : IsFold(h))[{1}]
  BY <1>1 DEF SampleSum, FoldLeft, MapThenFoldSet
<1> HIDE DEF IsFold, g
<1> QED BY <1>4, <1>5, <1>6

\* A window of one observation becomes that observation, whatever the transform.
LEMMA CombineOne ==
    ASSUME NEW v \in Int
    PROVE  Combine(<<v>>) = v
<1>1. <<v>> # <<>> /\ Len(<<v>>) = 1  OBVIOUS
<1>2. ToSet(<<v>>) = {v}  BY DEF ToSet
<1>3. Min({v}) = v /\ Max({v}) = v  BY DEF Min, Max
<1>4. v \div 1 = v  OBVIOUS
<1>5. SampleSum(<<v>>) = v  BY SumOfOne
<1> HIDE DEF SampleSum, ToSet, Min, Max
<1>6. CASE Strategy = "sum"  BY <1>1, <1>5, <1>6 DEF Combine
<1>7. CASE Strategy = "min"  BY <1>1, <1>2, <1>3, <1>7 DEF Combine
<1>8. CASE Strategy = "max"  BY <1>1, <1>2, <1>3, <1>8 DEF Combine
<1>9. CASE Strategy = "average"  BY <1>1, <1>4, <1>5, <1>9 DEF Combine
<1> QED  BY <1>6, <1>7, <1>8, <1>9, SeriesAssumption

\* The samples of the windows ws.
Samples(ws) == [k \in DOMAIN ws |-> Combine(ws[k])]

\* One more window is one more sample.
LEMMA SamplesAppend ==
    ASSUME NEW ws \in Seq(Seq(Int)), NEW w \in Seq(Int)
    PROVE  Samples(Append(ws, w)) = Append(Samples(ws), Combine(w))
<1> DEFINE n == Len(ws)
           vs == Append(ws, w)
           T == {Combine(ws[k]) : k \in 1..n} \union {Combine(w)}
           s == Samples(ws)
           t == Append(s, Combine(w))
<1>1. /\ n \in Nat /\ Len(vs) = n + 1 /\ DOMAIN vs = 1..(n + 1) /\ DOMAIN ws = 1..n
      /\ vs[n + 1] = w /\ \A k \in 1..n : vs[k] = ws[k]
  BY AppendProperties
<1>2. s = [k \in 1..n |-> Combine(ws[k])]  BY <1>1 DEF Samples
<1>3. s \in Seq(T) /\ Len(s) = n
  <2>1. \A k \in 1..n : Combine(ws[k]) \in T  OBVIOUS
  <2> HIDE DEF T, n
  <2> QED  BY <1>1, <1>2, <2>1
<1>4. /\ t \in Seq(T) /\ Len(t) = n + 1 /\ t[n + 1] = Combine(w)
      /\ \A k \in 1..n : t[k] = s[k]
  <2>1. Combine(w) \in T  OBVIOUS
  <2> HIDE DEF T, s, n
  <2> QED  BY <1>3, <2>1, AppendProperties
<1>5. Samples(vs) = [k \in 1..(n + 1) |-> Combine(vs[k])]  BY <1>1 DEF Samples
<1>6. t = [k \in 1..(n + 1) |-> t[k]]
  <2> HIDE DEF t, n
  <2> QED  BY <1>4
<1>7. ASSUME NEW k \in 1..(n + 1) PROVE Combine(vs[k]) = t[k]
  <2>1. CASE k = n + 1
    <3>1. vs[k] = w /\ t[k] = Combine(w)  BY <1>1, <1>4, <2>1
    <3> QED  BY <3>1
  <2>2. CASE k # n + 1
    <3>1. k \in 1..n  BY <1>1, <2>2
    <3>2. vs[k] = ws[k] /\ t[k] = s[k] /\ s[k] = Combine(ws[k])
      BY <1>1, <1>2, <1>4, <3>1
    <3> QED  BY <3>2
  <2> QED  BY <2>1, <2>2
<1> HIDE DEF n, vs, t
<1>8. Samples(vs) = t  BY <1>5, <1>6, <1>7
<1> QED  BY <1>8 DEF vs, t
\* Where the observations of a series are: those of a window in a sample, those
\* since then in the open window, which a series without windows never has.
SampledInv ==
    /\ obs = [i \in Ids |-> obs[i]] /\ given = [i \in Ids |-> given[i]]
    /\ windows = [i \in Ids |-> windows[i]] /\ recorded = [i \in Ids |-> recorded[i]]
    /\ sampler = [i \in Ids |-> sampler[i]]
    /\ \A i \in Ids :
          /\ obs[i] \in Seq(Int) /\ given[i] \in Seq(Int) /\ windows[i] \in Seq(Seq(Int))
          /\ Direct(i) => obs[i] = <<>>
          /\ FlattenSeq(windows[i]) \o obs[i] = given[i]
          /\ recorded[i] = Samples(windows[i])

\* The windows are the observations.
LEMMA SampledInvOnce == SampledInv => EachObservationOnce
  BY DEF SampledInv, EachObservationOnce, Samples

\* Nothing is observed and no window has ended.
LEMMA SampledInvInit == SeriesInit => SampledInv
<1> SUFFICES ASSUME SeriesInit PROVE SampledInv  OBVIOUS
<1>1. FlattenSeq(<<>>) = <<>>  BY DEF FlattenSeq
<1>2. <<>> \o <<>> = <<>>  OBVIOUS
<1>3. Samples(<<>>) = <<>>  BY DEF Samples
<1>4. \A i \in Ids : /\ obs[i] = <<>> /\ given[i] = <<>> /\ windows[i] = <<>>
                     /\ recorded[i] = <<>>
  BY DEF SeriesInit
<1>5. \A i \in Ids : obs[i] \in Seq(Int) /\ given[i] \in Seq(Int) /\ windows[i] \in Seq(Seq(Int))
  <2>1. <<>> \in Seq(Int) /\ <<>> \in Seq(Seq(Int))  OBVIOUS
  <2> QED  BY <1>4, <2>1
<1>6. sampler = [i \in Ids |-> sampler[i]]  BY DEF SeriesInit
<1>7. /\ obs = [i \in Ids |-> obs[i]] /\ given = [i \in Ids |-> given[i]]
      /\ windows = [i \in Ids |-> windows[i]] /\ recorded = [i \in Ids |-> recorded[i]]
  BY DEF SeriesInit
<1> QED  BY <1>1, <1>2, <1>3, <1>4, <1>5, <1>6, <1>7 DEF SampledInv

\* An observation, of its own window or of the open one.
LEMMA SampledInvRecord ==
    ASSUME SampledInv, NEW i \in Ids, NEW v \in Inputs, Record(i, v)
    PROVE  SampledInv'
<1> DEFINE w == windows[i]
           o == obs[i]
           g == given[i]
<1>1. /\ w \in Seq(Seq(Int)) /\ o \in Seq(Int) /\ g \in Seq(Int)
      /\ FlattenSeq(w) \in Seq(Int) /\ FlattenSeq(w) \o o = g
      /\ recorded[i] = Samples(w) /\ v \in Int /\ <<v>> \in Seq(Int)
  BY SeriesAssumption, FlattenType DEF SampledInv
<1>2. Append(g, v) = FlattenSeq(w) \o Append(o, v)
  <2> HIDE DEF w, o, g
  <2>1. Append(g, v) = g \o <<v>> /\ Append(o, v) = o \o <<v>>
    BY <1>1, AppendIsConcat
  <2>2. (FlattenSeq(w) \o o) \o <<v>> = FlattenSeq(w) \o (o \o <<v>>)
    <3> DEFINE f == FlattenSeq(w)
               u == <<v>>
    <3>1. f \in Seq(Int) /\ o \in Seq(Int) /\ u \in Seq(Int)  BY <1>1
    <3> HIDE DEF f, u
    <3>2. (f \o o) \o u = f \o (o \o u)  BY <3>1, ConcatAssociative
    <3> QED  BY <3>2 DEF f, u
  <2> QED  BY <1>1, <2>1, <2>2
<1>3. /\ given' = [given EXCEPT ![i] = Append(g, v)] /\ Append(g, v) \in Seq(Int)
      /\ sampler' = sampler
  BY <1>1 DEF Record, closing
<1>4. CASE Direct(i)
  <2>1. /\ windows' = [windows EXCEPT ![i] = Append(w, <<v>>)] /\ obs' = obs
        /\ recorded' = [recorded EXCEPT ![i] = Append(Samples(w), v)]
    BY <1>1, <1>4 DEF Record, Store
  <2>2. Append(w, <<v>>) \in Seq(Seq(Int))  BY <1>1
  <2>3. o = <<>>  BY <1>4 DEF SampledInv
  <2>4. FlattenSeq(Append(w, <<v>>)) \o o = Append(g, v)
    <3>1. FlattenSeq(Append(w, <<v>>)) = FlattenSeq(w) \o <<v>>  BY <1>1, FlattenAppend
    <3>2. FlattenSeq(w) \o <<v>> \in Seq(Int)  BY <1>1
    <3>3. FlattenSeq(Append(w, <<v>>)) \o o = FlattenSeq(w) \o <<v>>
      BY <2>3, <3>1, <3>2, ConcatEmptySeq
    <3>4. Append(o, v) = <<v>>  BY <2>3
    <3> QED  BY <1>2, <3>3, <3>4
  <2>5. Samples(Append(w, <<v>>)) = Append(Samples(w), v)
    <3>1. Combine(<<v>>) = v  BY <1>1, CombineOne
    <3> QED  BY <1>1, <3>1, SamplesAppend
  <2> HIDE DEF w, o, g
  <2> QED  BY <1>3, <2>1, <2>2, <2>4, <2>5 DEF SampledInv, Direct, o
<1>5. CASE ~Direct(i)
  <2>1. obs' = [obs EXCEPT ![i] = Append(o, v)] /\ UNCHANGED <<windows, recorded>>
    BY <1>5 DEF Record
  <2>2. Append(o, v) \in Seq(Int) /\ FlattenSeq(w) \o Append(o, v) = Append(g, v)
    BY <1>1, <1>2
  <2> HIDE DEF o, g
  <2> QED  BY <1>3, <1>5, <2>1, <2>2 DEF SampledInv, Direct, w
<1> QED  BY <1>4, <1>5

\* The end of a window.
LEMMA SampledInvSample ==
    ASSUME SampledInv, NEW i \in Ids, Sample(i)
    PROVE  SampledInv'
<1> DEFINE w == windows[i]
           o == obs[i]
<1>1. /\ w \in Seq(Seq(Int)) /\ o \in Seq(Int)
      /\ FlattenSeq(w) \in Seq(Int) /\ FlattenSeq(w) \o o = given[i]
      /\ recorded[i] = Samples(w)
  BY FlattenType DEF SampledInv
<1>2. /\ windows' = [windows EXCEPT ![i] = Append(w, o)]
      /\ obs' = [obs EXCEPT ![i] = <<>>] /\ UNCHANGED <<given, sampler>>
      /\ recorded' = [recorded EXCEPT ![i] = Append(Samples(w), Combine(o))]
  BY <1>1 DEF Sample, Store, closing
<1>3. Append(w, o) \in Seq(Seq(Int)) /\ <<>> \in Seq(Int)  BY <1>1
<1>4. FlattenSeq(Append(w, o)) \o <<>> = given[i]
  <2> HIDE DEF w, o
  <2>1. FlattenSeq(Append(w, o)) = FlattenSeq(w) \o o  BY <1>1, FlattenAppend
  <2>2. given[i] \in Seq(Int)  BY DEF SampledInv
  <2>3. given[i] \o <<>> = given[i]  BY <2>2, ConcatEmptySeq
  <2> QED  BY <1>1, <2>1, <2>3
<1>5. Samples(Append(w, o)) = Append(Samples(w), Combine(o))  BY <1>1, SamplesAppend
<1> HIDE DEF w, o
<1> QED  BY <1>2, <1>3, <1>4, <1>5 DEF SampledInv, Direct

\* Nothing of it is left after Reset.
LEMMA SampledInvReset ==
    ASSUME SampledInv, NEW i \in Ids, Reset(i)
    PROVE  SampledInv'
<1>1. /\ obs' = [obs EXCEPT ![i] = <<>>] /\ recorded' = [recorded EXCEPT ![i] = <<>>]
      /\ windows' = [windows EXCEPT ![i] = <<>>] /\ given' = [given EXCEPT ![i] = <<>>]
      /\ UNCHANGED sampler
  BY DEF Reset, closing
<1>2. FlattenSeq(<<>>) = <<>>  BY DEF FlattenSeq
<1>3. Samples(<<>>) = <<>>  BY DEF Samples
<1>4. <<>> \in Seq(Int) /\ <<>> \in Seq(Seq(Int)) /\ <<>> \o <<>> = <<>>  OBVIOUS
<1> QED  BY <1>1, <1>2, <1>3, <1>4 DEF SampledInv, Direct

\* The done function records nothing, and starts no window in direct mode.
LEMMA SampledInvDone ==
    ASSUME SampledInv, UNCHANGED <<obs, history>>,
           UNCHANGED sampler \/ \E i \in Ids : TakeDone(i)
    PROVE  SampledInv'
<1>1. UNCHANGED <<obs, given, windows, recorded>>  BY DEF history
<1>2. /\ sampler' = [i \in Ids |-> sampler'[i]]
      /\ \A i \in Ids : sampler'[i] = "none" => sampler[i] = "none"
  <2>1. CASE UNCHANGED sampler  BY <2>1 DEF SampledInv
  <2>2. CASE \E i \in Ids : TakeDone(i)  BY <2>2 DEF SampledInv, TakeDone
  <2> QED  BY <2>1, <2>2
<1> QED  BY <1>1, <1>2 DEF SampledInv, Direct

\* Each observation is in one window or waits in the open one, for every set of
\* series, every transform and every order of records, ticks, resets and calls of
\* done (sampled.go 38-56, 72-96).
THEOREM EachObservationOnceAlways == SeriesSpec => []EachObservationOnce
<1>1. SampledInv /\ [SeriesNext]_seriesVars => SampledInv'
  <2> SUFFICES ASSUME SampledInv, [SeriesNext]_seriesVars PROVE SampledInv'
    OBVIOUS
  <2>1. CASE UNCHANGED seriesVars
    BY <2>1, SampledInvDone DEF seriesVars, closing
  <2>2. CASE SeriesNext
    <3> PICK i \in Ids : \/ \E v \in Inputs : Record(i, v)
                         \/ Reset(i) \/ DoneCall(i) \/ SamplerNext(i)
      BY <2>2 DEF SeriesNext
    <3>1. CASE \E v \in Inputs : Record(i, v)  BY <3>1, SampledInvRecord
    <3>2. CASE Reset(i)  BY <3>2, SampledInvReset
    <3>3. CASE DoneCall(i)
      BY <3>3, SampledInvDone DEF DoneCall
    <3>4. CASE Sample(i)  BY <3>4, SampledInvSample
    <3>5. CASE TakeDone(i)
      BY <3>5, SampledInvDone DEF TakeDone
    <3>6. CASE DoneReturn(i)
      BY <3>6, SampledInvDone DEF DoneReturn
    <3> QED  BY <3>1, <3>2, <3>3, <3>4, <3>5, <3>6 DEF SamplerNext
  <2> QED  BY <2>1, <2>2
<1> QED  BY <1>1, SampledInvInit, SampledInvOnce, PTL DEF SeriesSpec

-----------------------------------------------------------------------------
(***************************************************************************)
(* The statistics.  The limits of a run are founded because a statistic      *)
(* leaves Reset only for a state in which nothing trips, and that is also    *)
(* where the comparison with the old limit finds it.                         *)
(***************************************************************************)
Calls ==
    {Idle}
      \union [op : {"record"}, at : Ids, step : {"enter", "judge", "again", "compare"},
              obs : Inputs]
      \union [op : {"transition"}, at : Ids, step : {"enter"}, to : Requests,
              reset : BOOLEAN, before : [Ids -> States]]
      \union [op : {"done"}, at : Ids, step : {"enter", "wait"}]

Failures == [op : {"record", "transition", "done"}, why : {"undefined", "refused"},
             found : States \union {"any"}]

StatTypeOK ==
    /\ state \in [Ids -> States]
    /\ limit \in [Ids -> [side : {"none", "upper", "lower"}, from : Nat]]
    /\ call \in Calls
    /\ errors \in Seq(Failures)

RestartedFirst ==
    call.op = "record" /\ call.step \in {"again", "compare"}
      => state[call.at] = "ucl_initial"

StatInv == StatTypeOK /\ RestartedFirst /\ AlarmIsFounded /\ RefusedOnlyAtRestart

\* What a step may do to the alarms.
AlarmStep == \A s \in Ids : HasAlarmed(s) /\ ~HasAlarmed(s)' => call.op = "transition"

\* A Test has a first statistic.
LEMMA FirstStatistic == 1 \in Ids
  BY EstimatorAssumption

\* A call that goes on to the next statistic, or returns.
LEMMA ProceedCall ==
    ASSUME StatInv, call.op # "none", Proceed
    PROVE  /\ call' \in Calls /\ (call' = Idle \/ call'.step = "enter")
           /\ errors' \in Seq(Failures) /\ RefusedOnlyAtRestart'
<1>1. call \in Calls  BY DEF StatInv, StatTypeOK
<1>2. call # Idle  BY DEF Idle
<1>3. CASE call.at + 1 \in Ids
  <2>1. call' = [call EXCEPT !.at = call.at + 1, !.step = "enter"]
    BY <1>3 DEF Proceed
  <2>2. call' \in Calls /\ call'.step = "enter"
    BY <1>1, <1>2, <1>3, <2>1 DEF Calls
  <2> QED  BY <2>2 DEF Proceed, StatInv, StatTypeOK, RefusedOnlyAtRestart
<1>4. CASE call.at + 1 \notin Ids
  BY <1>4 DEF Proceed, Calls, StatInv, StatTypeOK, RefusedOnlyAtRestart
<1> QED  BY <1>3, <1>4

\* A call that fails; one of Record that the machine refused had found a reset.
LEMMA FailCall ==
    ASSUME StatInv, call.op # "none",
           NEW why \in {"undefined", "refused"}, NEW found \in States \union {"any"},
           call.op = "record" /\ why = "refused" => found = "reset",
           Fail(why, found)
    PROVE  /\ call' \in Calls /\ (call' = Idle \/ call'.step = "enter")
           /\ errors' \in Seq(Failures) /\ RefusedOnlyAtRestart'
<1> DEFINE f == [op |-> call.op, why |-> why, found |-> found]
<1>1. call.op \in {"record", "transition", "done"}
  BY DEF StatInv, StatTypeOK, Calls, Idle
<1>2. f \in Failures  BY <1>1 DEF Failures
<1>3. errors \in Seq(Failures)  BY DEF StatInv, StatTypeOK
<1>4. errors' = Append(errors, f) /\ call' = Idle  BY DEF Fail
<1>5. f.op = "record" /\ f.why = "refused" => f.found = "reset"  OBVIOUS
<1> HIDE DEF f
<1>6. RefusedOnlyAtRestart'
  <2> SUFFICES ASSUME NEW k \in DOMAIN errors', errors'[k].op = "record",
                      errors'[k].why = "refused"
               PROVE  errors'[k].found = "reset"
    BY DEF RefusedOnlyAtRestart
  <2>1. CASE k \in DOMAIN errors
    <3>1. errors'[k] = errors[k]  BY <1>2, <1>3, <1>4, <2>1
    <3> QED  BY <2>1, <3>1 DEF StatInv, RefusedOnlyAtRestart
  <2>2. CASE k \notin DOMAIN errors
    <3>1. errors'[k] = f  BY <1>2, <1>3, <1>4, <2>2
    <3> QED  BY <1>5, <3>1
  <2> QED  BY <2>1, <2>2
<1> QED  BY <1>2, <1>3, <1>4, <1>6 DEF Calls

\* A call that asks the machine of a statistic to move.
LEMMA MoveCall ==
    ASSUME StatInv, call.op # "none", NEW s \in Ids, NEW to \in States,
           NEW found \in States \union {"any"},
           call.op = "record" /\ to \notin Allowable[state[s]] => found = "reset",
           Move(s, to, found)
    PROVE  /\ call' \in Calls /\ (call' = Idle \/ call'.step = "enter")
           /\ errors' \in Seq(Failures) /\ RefusedOnlyAtRestart'
           /\ \/ to \in Allowable[state[s]] /\ state' = [state EXCEPT ![s] = to]
              \/ to \notin Allowable[state[s]] /\ state' = state
<1>1. CASE to \in Allowable[state[s]]
  BY <1>1, ProceedCall DEF Move
<1>2. CASE to \notin Allowable[state[s]]
  <2>1. Fail("refused", found) /\ state' = state  BY <1>2 DEF Move
  <2>2. call.op = "record" => found = "reset"  BY <1>2
  <2> QED  BY <1>2, <2>1, <2>2, FailCall
<1> QED  BY <1>1, <1>2

\* The calls of a step are in order, and nothing else is disturbed.
LEMMA StatInvKeeps ==
    ASSUME StatInv, UNCHANGED <<state, limit>>,
           call' \in Calls, call' = Idle \/ call'.step \in {"enter", "judge", "wait"},
           errors' \in Seq(Failures), RefusedOnlyAtRestart'
    PROVE  StatInv' /\ AlarmStep
<1>1. StatTypeOK'  BY DEF StatInv, StatTypeOK
<1>2. RestartedFirst'  BY DEF RestartedFirst, Idle
<1>3. AlarmIsFounded'  BY DEF StatInv, AlarmIsFounded
<1>4. AlarmStep  BY DEF AlarmStep, HasAlarmed
<1> QED  BY <1>1, <1>2, <1>3, <1>4 DEF StatInv

\* The invariant holds before the first call.
LEMMA StatInvInit == Init => StatInv
<1> SUFFICES ASSUME Init PROVE StatInv  OBVIOUS
<1>1. StatTypeOK
  <2>1. state \in [Ids -> States]  BY DEF Init, States
  <2>2. limit \in [Ids -> [side : {"none", "upper", "lower"}, from : Nat]]
    BY DEF Init, NoLimit
  <2> QED  BY <2>1, <2>2 DEF Init, StatTypeOK, Calls
<1>2. RestartedFirst  BY DEF Init, RestartedFirst, Idle
<1>3. AlarmIsFounded  BY DEF Init, AlarmIsFounded
<1>4. RefusedOnlyAtRestart  BY DEF Init, RefusedOnlyAtRestart
<1> QED  BY <1>1, <1>2, <1>3, <1>4 DEF StatInv

\* A call begins.
LEMMA StatInvStart ==
    ASSUME StatInv,
           \/ \E o \in Inputs : StartRecord(o)
           \/ \E to \in Requests, r \in BOOLEAN : StartTransition(to, r)
           \/ StartDone
    PROVE  StatInv' /\ AlarmStep
<1>1. errors' = errors /\ UNCHANGED <<state, limit>>
  BY DEF StartRecord, StartTransition, StartDone
<1>2. errors' \in Seq(Failures) /\ RefusedOnlyAtRestart'
  BY <1>1 DEF StatInv, StatTypeOK, RefusedOnlyAtRestart
<1>3. state \in [Ids -> States]  BY DEF StatInv, StatTypeOK
<1>4. CASE \E o \in Inputs : StartRecord(o)
  <2>1. call' \in Calls /\ call'.step = "enter"
    BY <1>4, FirstStatistic DEF StartRecord, Calls
  <2> QED  BY <1>1, <1>2, <2>1, StatInvKeeps
<1>5. CASE \E to \in Requests, r \in BOOLEAN : StartTransition(to, r)
  <2>1. call' \in Calls /\ call'.step = "enter"
    BY <1>3, <1>5, FirstStatistic DEF StartTransition, Calls
  <2> QED  BY <1>1, <1>2, <2>1, StatInvKeeps
<1>6. CASE StartDone
  <2>1. call' \in Calls /\ call'.step = "enter"
    BY <1>6, FirstStatistic DEF StartDone, Calls
  <2> QED  BY <1>1, <1>2, <2>1, StatInvKeeps
<1> QED  BY <1>4, <1>5, <1>6

\* The steps of Record.
LEMMA StatInvJudge ==
    ASSUME StatInv, NEW s \in Ids, Judge(s)
    PROVE  StatInv' /\ AlarmStep
<1>0. /\ StatTypeOK /\ call \in Calls /\ errors \in Seq(Failures)
      /\ state \in [Ids -> States] /\ state[s] \in States
      /\ RefusedOnlyAtRestart /\ call.op # "none"
      /\ limit \in [Ids -> [side : {"none", "upper", "lower"}, from : Nat]]
  BY DEF StatInv, StatTypeOK, Judge, RecordUndefined, RecordValue, Restart, RecordAgain,
         Compare, TestValue, Bootstrap, Rest, At
<1>1. CASE RecordUndefined(s)
  <2>1. Fail("undefined", state[s]) /\ UNCHANGED <<state, limit>>
    BY <1>1 DEF RecordUndefined
  <2>2. /\ call' \in Calls /\ (call' = Idle \/ call'.step = "enter")
        /\ errors' \in Seq(Failures) /\ RefusedOnlyAtRestart'
    BY <1>0, <2>1, FailCall
  <2> QED  BY <2>1, <2>2, StatInvKeeps
<1>2. CASE RecordValue(s)
  <2>1. /\ call.op = "record" /\ call' = [call EXCEPT !.step = "judge"]
        /\ UNCHANGED <<state, limit, errors>>
    BY <1>2 DEF RecordValue, At
  <2>2. call' \in Calls /\ call'.step = "judge"
    <3>1. call \in [op : {"record"}, at : Ids, step : {"enter", "judge", "again", "compare"},
                    obs : Inputs]
      BY <1>0, <2>1 DEF Calls, Idle
    <3>2. /\ call' \in [op : {"record"}, at : Ids,
                         step : {"enter", "judge", "again", "compare"}, obs : Inputs]
          /\ call'.step = "judge"
      BY <2>1, <3>1
    <3> QED  BY <3>2 DEF Calls
  <2>3. RefusedOnlyAtRestart'  BY <1>0, <2>1 DEF RefusedOnlyAtRestart
  <2> QED  BY <1>0, <2>1, <2>2, <2>3, StatInvKeeps
<1>3. CASE Restart(s)
  <2>1. /\ call.op = "record" /\ call.at = s /\ state[s] = "reset"
        /\ state' = [state EXCEPT ![s] = "ucl_initial"]
        /\ \/ call' = [call EXCEPT !.step = "again"]
           \/ call' = [call EXCEPT !.step = "compare"]
        /\ UNCHANGED <<limit, errors>>
    BY <1>3 DEF Restart, At
  <2>2. call' \in Calls /\ call'.at = s
    BY <1>0, <2>1 DEF Calls, Idle
  <2>3. StatTypeOK'  BY <1>0, <2>1, <2>2 DEF StatTypeOK, States
  <2>4. RestartedFirst'  BY <1>0, <2>1, <2>2 DEF RestartedFirst
  <2>5. AlarmIsFounded'  BY <1>0, <2>1 DEF StatInv, AlarmIsFounded
  <2>6. RefusedOnlyAtRestart'  BY <1>0, <2>1 DEF RefusedOnlyAtRestart
  <2>7. AlarmStep  BY <1>0, <2>1 DEF AlarmStep, HasAlarmed
  <2> QED  BY <2>3, <2>4, <2>5, <2>6, <2>7 DEF StatInv
<1>4. CASE RecordAgain(s)
  <2>1. /\ call.op = "record" /\ call.at = s /\ call.step = "again"
        /\ call' = [call EXCEPT !.step = "compare"]
        /\ UNCHANGED <<state, limit, errors>>
    BY <1>4 DEF RecordAgain, At
  <2>2. call' \in Calls /\ call'.at = s
    BY <1>0, <2>1 DEF Calls, Idle
  <2>3. StatTypeOK'  BY <1>0, <2>1, <2>2 DEF StatTypeOK
  <2>4. state[s] = "ucl_initial"  BY <2>1 DEF StatInv, RestartedFirst
  <2>5. RestartedFirst'  BY <2>1, <2>2, <2>4 DEF RestartedFirst
  <2>6. AlarmIsFounded'  BY <2>1 DEF StatInv, AlarmIsFounded
  <2>7. RefusedOnlyAtRestart'  BY <1>0, <2>1 DEF RefusedOnlyAtRestart
  <2>8. AlarmStep  BY <2>1 DEF AlarmStep, HasAlarmed
  <2> QED  BY <2>3, <2>5, <2>6, <2>7, <2>8 DEF StatInv
<1>5. CASE Compare(s)
  <2>1. call.op = "record" /\ call.at = s /\ call.step = "compare" /\ limit' = limit
    BY <1>5 DEF Compare, At
  <2>2. state[s] = "ucl_initial"  BY <2>1 DEF StatInv, RestartedFirst
  <2>3. "ucl_trip" \notin Allowable[state[s]]
    BY <2>2 DEF Allowable, States
  <2>4. CASE Proceed /\ UNCHANGED state
    BY <1>0, <2>1, <2>4, ProceedCall, StatInvKeeps
  <2>5. CASE Move(s, "ucl_trip", "reset")
    <3>1. "ucl_trip" \in States /\ "reset" \in States  BY DEF States
    <3>2. /\ call' \in Calls /\ (call' = Idle \/ call'.step = "enter")
          /\ errors' \in Seq(Failures) /\ RefusedOnlyAtRestart'
          /\ state' = state
      BY <1>0, <2>3, <2>5, <3>1, MoveCall
    <3> QED  BY <2>1, <3>2, StatInvKeeps
  <2> QED  BY <1>5, <2>4, <2>5 DEF Compare
<1>6. CASE TestValue(s)
  <2>1. call.op = "record" /\ limit' = limit
    BY <1>6 DEF TestValue, At
  <2>2. CASE Proceed /\ UNCHANGED state
    BY <1>0, <2>1, <2>2, ProceedCall, StatInvKeeps
  <2>3. ASSUME NEW to \in States, Move(s, to, state[s]),
               \/ state[s] = "testing_ucl" /\ to = "ucl_trip"
               \/ state[s] = "testing_lcl" /\ to = "lcl_trip"
        PROVE  StatInv' /\ AlarmStep
    <3>1. to \in Allowable[state[s]]  BY <2>3 DEF Allowable, States
    <3>2. /\ call' \in Calls /\ (call' = Idle \/ call'.step = "enter")
          /\ errors' \in Seq(Failures) /\ RefusedOnlyAtRestart'
          /\ state' = [state EXCEPT ![s] = to]
      BY <1>0, <2>3, <3>1, MoveCall
    <3>3. StatTypeOK'  BY <1>0, <2>1, <3>2 DEF StatTypeOK
    <3>4. RestartedFirst'  BY <3>2 DEF RestartedFirst, Idle
    <3>5. AlarmIsFounded'
      BY <1>0, <2>1, <2>3, <3>2 DEF StatInv, AlarmIsFounded
    <3>6. AlarmStep  BY <1>0, <2>3, <3>2 DEF AlarmStep, HasAlarmed
    <3> QED  BY <3>2, <3>3, <3>4, <3>5, <3>6 DEF StatInv
  <2> QED  BY <1>6, <2>2, <2>3 DEF TestValue, States
<1>7. CASE Bootstrap(s)
  <2> DEFINE up == state[s] = "ucl_initial"
             to == IF up THEN "testing_ucl" ELSE "testing_lcl"
  <2> DEFINE l == Baseline(s)
  <2>1. /\ call.op = "record" /\ state[s] \in {"ucl_initial", "lcl_initial"}
        /\ Move(s, to, state[s])
    BY <1>7 DEF Bootstrap, At
  <2>2. limit' = [limit EXCEPT ![s] = l]
    BY <1>7 DEF Bootstrap
  <2>3. l.side = (IF up THEN "upper" ELSE "lower") /\ l.from = Capacity
    BY <1>7 DEF Bootstrap, Ready, Baseline
  <2>4. to \in States /\ to \in Allowable[state[s]]
    BY <2>1 DEF Allowable, States
  <2>5. /\ call' \in Calls /\ (call' = Idle \/ call'.step = "enter")
        /\ errors' \in Seq(Failures) /\ RefusedOnlyAtRestart'
        /\ state' = [state EXCEPT ![s] = to]
    BY <1>0, <2>1, <2>4, MoveCall
  <2>6. StatTypeOK'
    <3>1. l \in [side : {"none", "upper", "lower"}, from : Nat]
      BY <2>3, SeriesAssumption DEF Baseline
    <3> HIDE DEF l
    <3>2. limit' \in [Ids -> [side : {"none", "upper", "lower"}, from : Nat]]
      BY <1>0, <2>2, <3>1
    <3>3. state' \in [Ids -> States]  BY <1>0, <2>4, <2>5
    <3> QED  BY <2>5, <3>2, <3>3 DEF StatTypeOK
  <2>7. AlarmIsFounded'
    <3>1. l = [side |-> IF up THEN "upper" ELSE "lower", from |-> Capacity]
      BY <2>3 DEF Baseline
    <3> HIDE DEF l
    <3> QED  BY <1>0, <2>1, <2>5, <2>2, <3>1 DEF StatInv, AlarmIsFounded
  <2>8. RestartedFirst'  BY <2>5 DEF RestartedFirst, Idle
  <2>9. AlarmStep  BY <1>0, <2>1, <2>5 DEF AlarmStep, HasAlarmed
  <2> QED  BY <2>5, <2>6, <2>7, <2>8, <2>9 DEF StatInv
<1>8. CASE Rest(s)
  <2>1. Proceed /\ UNCHANGED <<state, limit>>  BY <1>8 DEF Rest
  <2> QED  BY <1>0, <2>1, ProceedCall, StatInvKeeps
<1> QED  BY <1>1, <1>2, <1>3, <1>4, <1>5, <1>6, <1>7, <1>8 DEF Judge

\* A statistic's part of Transition.
LEMMA StatInvTransition ==
    ASSUME StatInv, NEW s \in Ids, Transition(s)
    PROVE  StatInv' /\ AlarmStep
<1>1. /\ call.op = "transition" /\ call.at = s /\ limit' = limit
      /\ Move(s, call.to, "any")
  BY DEF Transition, At
<1>2. StatTypeOK  BY DEF StatInv
<1>3. call.to \in Requests  BY <1>1, <1>2 DEF StatTypeOK, Calls, Idle
<1>4. call.to \in States  BY <1>3, EstimatorAssumption
<1>5. /\ call' \in Calls /\ (call' = Idle \/ call'.step = "enter")
      /\ errors' \in Seq(Failures) /\ RefusedOnlyAtRestart'
      /\ \/ call.to \in Allowable[state[s]] /\ state' = [state EXCEPT ![s] = call.to]
         \/ state' = state
  BY <1>1, <1>4, MoveCall
<1>6. CASE state' = state
  BY <1>1, <1>5, <1>6, StatInvKeeps
<1>7. CASE state' = [state EXCEPT ![s] = call.to]
  <2>1. StatTypeOK'  BY <1>1, <1>2, <1>4, <1>5, <1>7 DEF StatTypeOK
  <2>2. RestartedFirst'  BY <1>5 DEF RestartedFirst, Idle
  <2>3. AlarmIsFounded'
    <3>1. WellUsed => call.to \in {"reset", "ucl_initial", "lcl_initial"}
      BY <1>3 DEF WellUsed
    <3>2. state \in [Ids -> States]  BY <1>2 DEF StatTypeOK
    <3> QED  BY <1>1, <1>7, <3>1, <3>2 DEF StatInv, AlarmIsFounded, WellUsed
  <2>4. AlarmStep  BY <1>1 DEF AlarmStep
  <2> QED  BY <1>5, <2>1, <2>2, <2>3, <2>4 DEF StatInv
<1> QED  BY <1>5, <1>6, <1>7

\* A statistic's part of Done.
LEMMA StatInvDone ==
    ASSUME StatInv, NEW s \in Ids, Done(s) \/ DoneFinished(s)
    PROVE  StatInv' /\ AlarmStep
<1>1. call \in Calls /\ call.op = "done" /\ UNCHANGED <<state, limit>>
  BY DEF StatInv, StatTypeOK, Done, DoneFinished, At
<1>2. CASE Done(s)
  <2>1. call' = [call EXCEPT !.step = "wait"] /\ errors' = errors
    BY <1>2 DEF Done
  <2>2. call \in [op : {"done"}, at : Ids, step : {"enter", "wait"}]
    BY <1>1 DEF Calls, Idle
  <2>3. /\ call' \in [op : {"done"}, at : Ids, step : {"enter", "wait"}]
        /\ call'.step = "wait"
    BY <2>1, <2>2
  <2>4. call' \in Calls  BY <2>3 DEF Calls
  <2>5. errors' \in Seq(Failures) /\ RefusedOnlyAtRestart'
    BY <2>1 DEF StatInv, StatTypeOK, RefusedOnlyAtRestart
  <2> QED  BY <1>1, <2>3, <2>4, <2>5, StatInvKeeps
<1>3. CASE DoneFinished(s)
  <2>1. Proceed  BY <1>3 DEF DoneFinished
  <2> QED  BY <1>1, <2>1, ProceedCall, StatInvKeeps
<1> QED  BY <1>2, <1>3

\* The samplers disturb nothing of the statistics.
LEMMA StatInvSame ==
    ASSUME StatInv, UNCHANGED estVars
    PROVE  StatInv' /\ AlarmStep
  BY DEF StatInv, StatTypeOK, RestartedFirst, AlarmIsFounded, RefusedOnlyAtRestart,
         AlarmStep, HasAlarmed, estVars

\* Every step keeps the invariant, and ends an alarm only in Transition.
LEMMA StatInvNext == StatInv /\ [Next]_vars => StatInv' /\ AlarmStep
<1> SUFFICES ASSUME StatInv, [Next]_vars PROVE StatInv' /\ AlarmStep  OBVIOUS
<1>1. CASE UNCHANGED vars  BY <1>1, StatInvSame DEF vars
<1>2. CASE \/ \E o \in Inputs : StartRecord(o)
           \/ \E to \in Requests, r \in BOOLEAN : StartTransition(to, r)
           \/ StartDone
  BY <1>2, StatInvStart
<1>3. CASE \E s \in Ids : \/ Judge(s) \/ Transition(s) \/ Done(s) \/ DoneFinished(s)
                          \/ SamplerNext(s) /\ UNCHANGED estVars
  BY <1>3, StatInvJudge, StatInvTransition, StatInvDone, StatInvSame
<1> QED  BY <1>1, <1>2, <1>3 DEF Next

\* The invariant holds in every run.
LEMMA StatInvAlways == Spec => []StatInv
  BY StatInvInit, StatInvNext, PTL DEF Spec

\* A statistic of a well-used test tests and alarms against a limit of the right
\* direction from a full series, for any number of statistics and any capacity, although
\* a restarted one is still compared with its old limit (estimator.go 44-98).
THEOREM AlarmIsFoundedAlways == Spec => []AlarmIsFounded
  BY StatInvAlways, PTL DEF StatInv

\* The machine refuses what Record wants only while the statistic is restarted
\* (estimator.go 45-64, state.go 17-27).
THEOREM RefusedOnlyAtRestartAlways == Spec => []RefusedOnlyAtRestart
  BY StatInvAlways, PTL DEF StatInv

\* An alarm ends only with a transition that a user asked for (estimator.go 102-111).
THEOREM AlarmStandsAlways == Spec => AlarmStands
<1>1. StatInv /\ [Next]_vars =>
        [\A s \in Ids : HasAlarmed(s) /\ ~HasAlarmed(s)' => call.op = "transition"]_vars
  BY StatInvNext DEF AlarmStep
<1> QED  BY <1>1, StatInvAlways, PTL DEF Spec, AlarmStands

\* The steps of Record do to the series what clients may do.
LEMMA SeriesInvJudge ==
    ASSUME SeriesInv, NEW s \in Ids, Judge(s)
    PROVE  SeriesInv'
<1>1. CASE RecordValue(s) \/ RecordAgain(s)
  BY <1>1, SeriesInvRecord DEF RecordValue, RecordAgain
<1>2. CASE Restart(s)
  <2>1. Reset(s) \/ UNCHANGED seriesVars  BY <1>2 DEF Restart
  <2> QED  BY <2>1, SeriesInvReset, SeriesInvSame DEF seriesVars, history
<1>3. CASE RecordUndefined(s) \/ Compare(s) \/ TestValue(s) \/ Bootstrap(s) \/ Rest(s)
  <2>1. UNCHANGED seriesVars
    BY <1>3 DEF RecordUndefined, Compare, TestValue, Bootstrap, Rest
  <2> QED  BY <2>1, SeriesInvSame DEF seriesVars, history
<1> QED  BY <1>1, <1>2, <1>3 DEF Judge

\* The statistics use their series only through its operations, so a baseline is
\* always taken from the latest values (estimator.go 37-100, 125-130).
THEOREM StatisticsSeeLatest == Spec => []ValuesAreLatest
<1>1. Init => SeriesInv  BY SeriesInvInit DEF Init
<1>2. SeriesInv /\ [Next]_vars => SeriesInv'
  <2> SUFFICES ASSUME SeriesInv, [Next]_vars PROVE SeriesInv'  OBVIOUS
  <2>1. CASE UNCHANGED seriesVars
    BY <2>1, SeriesInvSame DEF seriesVars, history
  <2>2. ASSUME NEW s \in Ids, Transition(s) PROVE SeriesInv'
    <3>1. Reset(s) \/ UNCHANGED seriesVars  BY <2>2 DEF Transition
    <3> QED  BY <3>1, <2>1, SeriesInvReset
  <2>3. ASSUME NEW s \in Ids, Done(s) PROVE SeriesInv'
    BY <2>3, SeriesInvSame DEF Done, DoneCall, history
  <2>4. ASSUME NEW s \in Ids, DoneFinished(s) PROVE SeriesInv'
    BY <2>1, <2>4 DEF DoneFinished
  <2>5. CASE \/ \E o \in Inputs : StartRecord(o)
             \/ \E to \in Requests, r \in BOOLEAN : StartTransition(to, r)
             \/ StartDone
    BY <2>1, <2>5 DEF StartRecord, StartTransition, StartDone
  <2> QED
    BY <2>1, <2>2, <2>3, <2>4, <2>5, SeriesInvJudge, SeriesInvSampler DEF Next, vars
<1>3. SeriesInv => ValuesAreLatest  BY SeriesInvShowsLatest
<1> QED  BY <1>1, <1>2, <1>3, PTL DEF Spec

-----------------------------------------------------------------------------
(***************************************************************************)
(* Statistics in step.  The invariant has a ring r and a state c that the    *)
(* statistics of one kind had in common when the call under way began; where *)
(* each of them is now follows from its place in the call.                   *)
(***************************************************************************)

\* The statistics of a kind that have their observations directly.
Twins(p) == {s \in Ids : Direct(s) /\ (s \in poisson <=> p)}

\* The state of a machine, as far as a baseline is awaited in it.
Class(st) == IF st \in {"reset", "ucl_initial", "lcl_initial"} THEN st ELSE "other"

Observed(o, p) == IF p THEN o ELSE Log(o)

\* Ready, of a ring.
Founded(r, p) ==
    LET w == Values(r)
    IN /\ r.count >= Capacity /\ MeanPositive(w)
       /\ IF p THEN MeanPositive(w) ELSE \E k, l \in DOMAIN w : w[k] # w[l]

\* What a call makes of the ring and the state of a statistic that it has passed.
RingAfter(cl, r, c, p) ==
    CASE cl.op = "record"     -> Put(IF c = "reset" THEN Empty ELSE r, Observed(cl.obs, p))
      [] cl.op = "transition" -> IF cl.reset THEN Empty ELSE r
      [] OTHER                -> r
ClassAfter(cl, r, c, p) ==
    CASE cl.op = "record" ->
            IF c = "reset" THEN "ucl_initial"
            ELSE IF c # "other" /\ Founded(Put(r, Observed(cl.obs, p)), p) THEN "other" ELSE c
      [] cl.op = "transition" -> Class(cl.to)
      [] OTHER                -> c

\* The statistic in the middle of a call.
Midway(cl, r, c, p, ring, st) ==
    \/ cl.step \in {"enter", "wait"} /\ ring = r /\ Class(st) = c
    \/ cl.step = "judge" /\ ring = Put(r, Observed(cl.obs, p)) /\ Class(st) = c
    \/ cl.step = "again" /\ ring = Empty /\ c = "reset" /\ st = "ucl_initial"
    \/ /\ cl.step = "compare" /\ ring = Put(Empty, Observed(cl.obs, p))
       /\ c = "reset" /\ st = "ucl_initial"

InPlace(cl, s, r, c, p, ring, st) ==
    /\ cl.op = "none" \/ s > cl.at => ring = r /\ Class(st) = c
    /\ cl.op # "none" /\ s < cl.at =>
          ring = RingAfter(cl, r, c, p) /\ Class(st) = ClassAfter(cl, r, c, p)
    /\ cl.op # "none" /\ s = cl.at => Midway(cl, r, c, p, ring, st)

Together(p) ==
    \E r, c : /\ r.count \in Nat
              /\ \A s \in Twins(p) : InPlace(call, s, r, c, p, series[s], state[s])

StepInv ==
    /\ series = [i \in Ids |-> series[i]] /\ sampler = [i \in Ids |-> sampler[i]]
    /\ errors = <<>> => \A p \in BOOLEAN : Together(p)

\* An empty ring was given nothing, and one more value counts.
LEMMA RingCounts ==
    /\ Empty.count = 0
    /\ \A r, v : Put(r, v).count = r.count + 1
  BY DEF Empty, Put

\* The result of a call is a ring.
LEMMA RingAfterCounts ==
    ASSUME NEW cl, NEW r, r.count \in Nat, NEW c, NEW p
    PROVE  RingAfter(cl, r, c, p).count \in Nat
<1>1. \A v : /\ Put(r, v).count \in Nat
             /\ Put(Empty, v).count \in Nat /\ Empty.count \in Nat
  BY RingCounts
<1> QED  BY <1>1 DEF RingAfter

\* What a call was called with, apart from its place.
SameCall(new, cl) ==
    /\ new.op = cl.op
    /\ cl.op = "record" => new.obs = cl.obs
    /\ cl.op = "transition" => new.reset = cl.reset /\ new.to = cl.to

\* A call has one of three methods, and is at a statistic.
LEMMA CallKinds ==
    ASSUME NEW cl \in Calls, cl.op # "none"
    PROVE  cl.op \in {"record", "transition", "done"} /\ cl.at \in Ids
  BY DEF Calls, Idle

\* A call that goes on with a statistic is the same call.
LEMMA CallStays ==
    ASSUME NEW cl \in Calls, cl.op # "none", NEW st, NEW new, new = [cl EXCEPT !.step = st]
    PROVE  SameCall(new, cl) /\ new.at = cl.at /\ new.step = st
<1>1. CASE cl \in [op : {"record"}, at : Ids, step : {"enter", "judge", "again", "compare"},
                   obs : Inputs]
  BY <1>1 DEF SameCall
<1>2. CASE cl \in [op : {"transition"}, at : Ids, step : {"enter"}, to : Requests,
                   reset : BOOLEAN, before : [Ids -> States]]
  BY <1>2 DEF SameCall
<1>3. CASE cl \in [op : {"done"}, at : Ids, step : {"enter", "wait"}]
  BY <1>3 DEF SameCall
<1> QED  BY <1>1, <1>2, <1>3 DEF Calls, Idle

\* A call that goes on to the next statistic is the same call.
LEMMA CallMoves ==
    ASSUME NEW cl \in Calls, cl.op # "none", NEW new,
           new = [cl EXCEPT !.at = cl.at + 1, !.step = "enter"]
    PROVE  SameCall(new, cl) /\ new.at = cl.at + 1 /\ new.step = "enter"
<1>1. CASE cl \in [op : {"record"}, at : Ids, step : {"enter", "judge", "again", "compare"},
                   obs : Inputs]
  BY <1>1 DEF SameCall
<1>2. CASE cl \in [op : {"transition"}, at : Ids, step : {"enter"}, to : Requests,
                   reset : BOOLEAN, before : [Ids -> States]]
  BY <1>2 DEF SameCall
<1>3. CASE cl \in [op : {"done"}, at : Ids, step : {"enter", "wait"}]
  BY <1>3 DEF SameCall
<1> QED  BY <1>1, <1>2, <1>3 DEF Calls, Idle

\* The same call leaves the same.
LEMMA SameAfter ==
    ASSUME NEW cl \in Calls, cl.op # "none", NEW new, SameCall(new, cl), NEW r, NEW c, NEW p
    PROVE  /\ RingAfter(new, r, c, p) = RingAfter(cl, r, c, p)
           /\ ClassAfter(new, r, c, p) = ClassAfter(cl, r, c, p)
<1>1. CASE cl.op = "record"
  BY <1>1 DEF RingAfter, ClassAfter, SameCall
<1>2. CASE cl.op = "transition"
  BY <1>2 DEF RingAfter, ClassAfter, SameCall
<1>3. CASE cl.op = "done"
  BY <1>3 DEF RingAfter, ClassAfter, SameCall
<1> QED  BY <1>1, <1>2, <1>3, CallKinds

\* A step of a call leaves the other statistics alone.
Alone(a) ==
    /\ poisson' = poisson /\ sampler' = [i \in Ids |-> sampler'[i]]
    /\ series' = [i \in Ids |-> series'[i]]
    /\ \A s \in Ids : Direct(s)' <=> Direct(s)
    /\ \A s \in Ids : Direct(s) /\ s # a => series'[s] = series[s] /\ state'[s] = state[s]

\* A step within a statistic's part of a call.
LEMMA StepWithin ==
    ASSUME StepInv, StatTypeOK, call.op # "none", Alone(call.at), errors' = errors,
           NEW st, call' = [call EXCEPT !.step = st],
           \A p \in BOOLEAN : \A r, c :
              call.at \in Twins(p) /\ r.count \in Nat
                /\ Midway(call, r, c, p, series[call.at], state[call.at])
              => Midway(call', r, c, p, series'[call.at], state'[call.at])
    PROVE  StepInv'
<1> SUFFICES ASSUME errors = <<>>, NEW p \in BOOLEAN PROVE Together(p)'
  BY DEF StepInv, Alone
<1>1. PICK r, c : /\ r.count \in Nat
                  /\ \A s \in Twins(p) : InPlace(call, s, r, c, p, series[s], state[s])
  BY DEF StepInv, Together
<1>2. Twins(p)' = Twins(p) /\ Twins(p) \subseteq Ids  BY DEF Twins, Alone
<1>3. /\ call \in Calls /\ call'.op = call.op /\ call'.at = call.at /\ call.at \in Ids
      /\ RingAfter(call', r, c, p) = RingAfter(call, r, c, p)
      /\ ClassAfter(call', r, c, p) = ClassAfter(call, r, c, p)
  <2>1. call \in Calls  BY DEF StatTypeOK
  <2>2. SameCall(call', call) /\ call'.at = call.at  BY <2>1, CallStays
  <2>3. /\ RingAfter(call', r, c, p) = RingAfter(call, r, c, p)
        /\ ClassAfter(call', r, c, p) = ClassAfter(call, r, c, p)
    BY <2>1, <2>2, SameAfter
  <2>4. call'.op = call.op  BY <2>2 DEF SameCall
  <2> QED  BY <2>1, <2>2, <2>3, <2>4, CallKinds
<1>4. ASSUME NEW s \in Twins(p)
      PROVE  InPlace(call', s, r, c, p, series'[s], state'[s])
  <2>1. InPlace(call, s, r, c, p, series[s], state[s])  BY <1>1
  <2>2. CASE s = call.at
    <3>1. Midway(call, r, c, p, series[s], state[s])  BY <2>1, <2>2 DEF InPlace
    <3>2. Midway(call', r, c, p, series'[s], state'[s])  BY <1>1, <2>2, <3>1
    <3>3. ~(s > call.at) /\ ~(s < call.at)
      BY <1>2, <2>2, EstimatorAssumption
    <3> QED  BY <1>3, <2>2, <3>2, <3>3 DEF InPlace
  <2>3. CASE s # call.at
    <3>1. series'[s] = series[s] /\ state'[s] = state[s]
      BY <2>3 DEF Alone, Twins
    <3> QED  BY <1>3, <2>1, <2>3, <3>1 DEF InPlace
  <2> QED  BY <2>2, <2>3
<1> QED  BY <1>1, <1>2, <1>4 DEF Together

\* A statistic's part of a call ends, and it is as the call leaves it.
LEMMA StepOn ==
    ASSUME StepInv, StatTypeOK, call.op # "none", Alone(call.at), Proceed,
           \A p \in BOOLEAN : \A r, c :
              call.at \in Twins(p) /\ r.count \in Nat
                /\ Midway(call, r, c, p, series[call.at], state[call.at])
              => /\ series'[call.at] = RingAfter(call, r, c, p)
                 /\ Class(state'[call.at]) = ClassAfter(call, r, c, p)
    PROVE  StepInv'
<1>0. errors' = errors  BY DEF Proceed
<1> SUFFICES ASSUME errors = <<>>, NEW p \in BOOLEAN PROVE Together(p)'
  BY <1>0 DEF StepInv, Alone
<1>1. PICK r, c : /\ r.count \in Nat
                  /\ \A s \in Twins(p) : InPlace(call, s, r, c, p, series[s], state[s])
  BY DEF StepInv, Together
<1>2. Twins(p)' = Twins(p) /\ Twins(p) \subseteq Ids  BY DEF Twins, Alone
<1>3. call \in Calls /\ call.at \in Ids  BY CallKinds DEF StatTypeOK
<1>4. PICK n \in Nat : Ids = 1..n  BY EstimatorAssumption
<1>5. ASSUME NEW s \in Twins(p)
      PROVE  /\ s <= call.at => /\ series'[s] = RingAfter(call, r, c, p)
                                /\ Class(state'[s]) = ClassAfter(call, r, c, p)
             /\ s > call.at => series'[s] = r /\ Class(state'[s]) = c
  <2>1. InPlace(call, s, r, c, p, series[s], state[s])  BY <1>1
  <2>2. CASE s = call.at
    <3>1. Midway(call, r, c, p, series[s], state[s])  BY <2>1, <2>2 DEF InPlace
    <3> QED  BY <1>1, <1>2, <1>4, <2>2, <3>1
  <2>3. CASE s # call.at
    <3>1. series'[s] = series[s] /\ state'[s] = state[s]
      BY <2>3 DEF Alone, Twins
    <3>2. s \in Int /\ call.at \in Int  BY <1>2, <1>3, <1>4
    <3> QED  BY <2>1, <2>3, <3>1, <3>2 DEF InPlace
  <2> QED  BY <2>2, <2>3
<1>6. CASE call.at + 1 \in Ids
  <2>1. call' = [call EXCEPT !.at = call.at + 1, !.step = "enter"]
    BY <1>6 DEF Proceed
  <2>2. SameCall(call', call) /\ call'.at = call.at + 1 /\ call'.step = "enter"
    BY <1>3, <2>1, CallMoves
  <2>3. /\ RingAfter(call', r, c, p) = RingAfter(call, r, c, p)
        /\ ClassAfter(call', r, c, p) = ClassAfter(call, r, c, p)
    BY <1>3, <2>2, SameAfter
  <2>4. ASSUME NEW s \in Twins(p)
        PROVE  InPlace(call', s, r, c, p, series'[s], state'[s])
    <3>1. s \in Int /\ call.at \in Int  BY <1>2, <1>3, <1>4
    <3>2. s < call'.at => s <= call.at  BY <2>2, <3>1
    <3>3. s >= call'.at => s > call.at  BY <2>2, <3>1
    <3>4. s = call'.at => Midway(call', r, c, p, series'[s], state'[s])
      BY <1>5, <2>2, <3>1, <3>3 DEF Midway
    <3>5. s > call'.at => series'[s] = r /\ Class(state'[s]) = c
      BY <1>5, <2>2, <3>1
    <3> QED  BY <1>5, <2>2, <2>3, <3>2, <3>4, <3>5 DEF InPlace, SameCall
  <2> QED  BY <1>1, <1>2, <2>4 DEF Together
<1>7. CASE call.at + 1 \notin Ids
  <2>1. call'.op = "none"  BY <1>7 DEF Proceed, Idle
  <2> DEFINE q == RingAfter(call, r, c, p)
             d == ClassAfter(call, r, c, p)
  <2>2. q.count \in Nat  BY <1>1, RingAfterCounts
  <2>3. ASSUME NEW s \in Twins(p) PROVE series'[s] = q /\ Class(state'[s]) = d
    <3>1. s <= call.at  BY <1>2, <1>3, <1>4, <1>7
    <3> QED  BY <1>5, <3>1
  <2> HIDE DEF q, d
  <2>4. \A s \in Twins(p) : InPlace(call', s, q, d, p, series'[s], state'[s])
    BY <2>1, <2>3 DEF InPlace
  <2> QED  BY <1>2, <2>2, <2>4 DEF Together
<1> QED  BY <1>6, <1>7

\* A step that touches one statistic at most.
LEMMA AloneIf ==
    ASSUME StepInv, StatTypeOK, NEW a \in Ids, UNCHANGED <<poisson, sampler>>,
           series' = series \/ \E x : series' = [series EXCEPT ![a] = x],
           state' = state \/ \E x : state' = [state EXCEPT ![a] = x]
    PROVE  Alone(a)
<1>1. sampler' = [i \in Ids |-> sampler'[i]]  BY DEF StepInv
<1>2. series' = [i \in Ids |-> series'[i]]  BY DEF StepInv
<1>3. \A s \in Ids : s # a => series'[s] = series[s]  BY DEF StepInv
<1>4. \A s \in Ids : s # a => state'[s] = state[s]  BY DEF StatTypeOK
<1> QED  BY <1>1, <1>2, <1>3, <1>4 DEF Alone, Direct

\* Once a call has failed nothing is claimed.
LEMMA StepFails ==
    ASSUME StatTypeOK, NEW why, NEW found, Fail(why, found),
           series' = [i \in Ids |-> series'[i]], sampler' = [i \in Ids |-> sampler'[i]]
    PROVE  StepInv'
<1>1. errors' # <<>>
  BY DEF Fail, StatTypeOK
<1> QED  BY <1>1 DEF StepInv

\* What Record does to a direct series, and to others.
LEMMA StepRecord ==
    ASSUME StepInv, NEW a \in Ids, NEW v, Record(a, v)
    PROVE  /\ sampler' = sampler
           /\ series' = series \/ \E x : series' = [series EXCEPT ![a] = x]
           /\ Direct(a) => series'[a] = Put(series[a], v)
<1>1. CASE Direct(a)
  BY <1>1 DEF StepInv, Record, Store, closing
<1>2. CASE ~Direct(a)
  BY <1>2 DEF Record, closing
<1> QED  BY <1>1, <1>2

\* What Reset does to a series.
LEMMA StepReset ==
    ASSUME StepInv, NEW a \in Ids, Reset(a) \/ UNCHANGED seriesVars
    PROVE  /\ sampler' = sampler
           /\ series' = series \/ \E x : series' = [series EXCEPT ![a] = x]
           /\ Reset(a) => series'[a] = Empty
  BY DEF StepInv, Reset, closing, seriesVars

\* Twins read an observation in the same way, and are ready together.
LEMMA TwinsAgree ==
    ASSUME NEW p \in BOOLEAN, NEW a \in Twins(p)
    PROVE  /\ a \in Ids /\ Direct(a)
           /\ \A o : Transform(a, o) = Observed(o, p)
           /\ Ready(a) <=> Founded(series[a], p)
<1>1. a \in Ids /\ Direct(a) /\ (a \in poisson <=> p)  BY DEF Twins
<1>2. CASE p
  BY <1>1, <1>2 DEF Transform, Observed, Ready, Founded, VariancePositive
<1>3. CASE ~p
  BY <1>1, <1>3 DEF Transform, Observed, Ready, Founded, VariancePositive
<1> QED  BY <1>1, <1>2, <1>3

\* The steps of Record.
LEMMA StepJudge ==
    ASSUME StepInv, StatInv, NEW a \in Ids, Judge(a)
    PROVE  StepInv'
<1> DEFINE o == call.obs
<1>0. /\ StatTypeOK /\ call.op = "record" /\ call.at = a /\ call.op # "none"
      /\ call \in Calls /\ state \in [Ids -> States] /\ UNCHANGED poisson
  BY DEF StatInv, StatTypeOK, Judge, RecordUndefined, RecordValue, Restart, RecordAgain,
         Compare, TestValue, Bootstrap, Rest, At
<1>1. CASE RecordUndefined(a)
  <2>1. Fail("undefined", state[a]) /\ UNCHANGED <<series, sampler>>
    BY <1>1 DEF RecordUndefined, seriesVars, closing
  <2> QED  BY <1>0, <2>1, StepFails DEF StepInv
<1>2. CASE RecordValue(a)
  <2>1. /\ Record(a, Transform(a, o)) /\ call.step = "enter"
        /\ call' = [call EXCEPT !.step = "judge"] /\ UNCHANGED <<state, errors>>
    BY <1>2 DEF RecordValue, At
  <2>2. Alone(a)  BY <1>0, <2>1, StepRecord, AloneIf
  <2>3. SameCall(call', call) /\ call'.step = "judge"  BY <1>0, <2>1, CallStays
  <2>4. ASSUME NEW p \in BOOLEAN, NEW r, NEW c, a \in Twins(p),
               Midway(call, r, c, p, series[a], state[a])
        PROVE  Midway(call', r, c, p, series'[a], state'[a])
    <3>1. series[a] = r /\ Class(state[a]) = c  BY <2>1, <2>4 DEF Midway
    <3>2. series'[a] = Put(series[a], Observed(o, p))
      BY <2>1, <2>4, StepRecord, TwinsAgree
    <3>3. call'.obs = o  BY <1>0, <2>3 DEF SameCall
    <3> QED  BY <2>1, <2>3, <3>1, <3>2, <3>3 DEF Midway
  <2> QED  BY <1>0, <2>1, <2>2, <2>4, StepWithin
<1>3. CASE Restart(a)
  <2>1. /\ state[a] = "reset" /\ state' = [state EXCEPT ![a] = "ucl_initial"]
        /\ call.step = "judge" /\ UNCHANGED errors
        /\ Reset(a) \/ UNCHANGED seriesVars
    BY <1>3 DEF Restart, At
  <2>2. Alone(a)  BY <1>0, <2>1, StepReset, AloneIf
  <2>3. state'[a] = "ucl_initial"  BY <1>0, <2>1
  <2>4. PICK st \in {"again", "compare"} : call' = [call EXCEPT !.step = st]
    BY <1>3 DEF Restart
  <2>5. SameCall(call', call) /\ call'.step = st  BY <1>0, <2>4, CallStays
  <2>6. ASSUME NEW p \in BOOLEAN, NEW r, NEW c, a \in Twins(p), r.count \in Nat,
               Midway(call, r, c, p, series[a], state[a])
        PROVE  Midway(call', r, c, p, series'[a], state'[a])
    <3>1. series[a] = Put(r, Observed(o, p)) /\ Class(state[a]) = c
      BY <2>1, <2>6 DEF Midway
    <3>2. c = "reset"  BY <2>1, <3>1 DEF Class
    <3>3. series[a].count > 0  BY <2>6, <3>1, RingCounts
    <3>4. Reset(a) /\ call' = [call EXCEPT !.step = "again"]
      BY <1>3, <3>3 DEF Restart
    <3>5. call'.step = "again"  BY <1>0, <3>4, CallStays
    <3>6. series'[a] = Empty  BY <3>4, StepReset
    <3> QED  BY <2>3, <3>2, <3>5, <3>6 DEF Midway
  <2> QED  BY <1>0, <2>1, <2>2, <2>4, <2>6, StepWithin
<1>4. CASE RecordAgain(a)
  <2>1. /\ Record(a, Transform(a, o)) /\ call.step = "again"
        /\ call' = [call EXCEPT !.step = "compare"] /\ UNCHANGED <<state, errors>>
    BY <1>4 DEF RecordAgain, At
  <2>2. Alone(a)  BY <1>0, <2>1, StepRecord, AloneIf
  <2>3. SameCall(call', call) /\ call'.step = "compare"  BY <1>0, <2>1, CallStays
  <2>4. ASSUME NEW p \in BOOLEAN, NEW r, NEW c, a \in Twins(p),
               Midway(call, r, c, p, series[a], state[a])
        PROVE  Midway(call', r, c, p, series'[a], state'[a])
    <3>1. series[a] = Empty /\ c = "reset" /\ state[a] = "ucl_initial"
      BY <2>1, <2>4 DEF Midway
    <3>2. series'[a] = Put(series[a], Observed(o, p))
      BY <2>1, <2>4, StepRecord, TwinsAgree
    <3>3. call'.obs = o  BY <1>0, <2>3 DEF SameCall
    <3> QED  BY <2>1, <2>3, <3>1, <3>2, <3>3 DEF Midway
  <2> QED  BY <1>0, <2>1, <2>2, <2>4, StepWithin
<1>5. CASE Compare(a)
  <2>1. call.step = "compare" /\ UNCHANGED <<series, sampler>>
    BY <1>5 DEF Compare, At, seriesVars, closing
  <2>2. state[a] = "ucl_initial" /\ "ucl_trip" \notin Allowable[state[a]]
    <3>1. state[a] = "ucl_initial"  BY <1>0, <2>1 DEF StatInv, RestartedFirst
    <3> QED  BY <3>1 DEF Allowable, States
  <2>3. CASE Proceed /\ UNCHANGED state
    <3>1. Alone(a)  BY <1>0, <2>1, <2>3, AloneIf
    <3>2. ASSUME NEW p \in BOOLEAN, NEW r, NEW c,
                 Midway(call, r, c, p, series[a], state[a])
          PROVE  /\ series'[a] = RingAfter(call, r, c, p)
                 /\ Class(state'[a]) = ClassAfter(call, r, c, p)
      <4>1. series[a] = Put(Empty, Observed(o, p)) /\ c = "reset"
        BY <2>1, <3>2 DEF Midway
      <4> QED  BY <1>0, <2>1, <2>2, <2>3, <4>1 DEF RingAfter, ClassAfter, Class
    <3> QED  BY <1>0, <2>3, <3>1, <3>2, StepOn
  <2>4. CASE Move(a, "ucl_trip", "reset")
    <3>1. Fail("refused", "reset")  BY <2>2, <2>4 DEF Move
    <3> QED  BY <1>0, <2>1, <3>1, StepFails DEF StepInv
  <2> QED  BY <1>5, <2>3, <2>4 DEF Compare
<1>6. ASSUME call.step = "judge", UNCHANGED <<series, sampler>>, Proceed,
             UNCHANGED state \/ \E x : state' = [state EXCEPT ![a] = x],
             ASSUME NEW p \in BOOLEAN, NEW r, a \in Twins(p),
                    series[a] = Put(r, Observed(o, p))
             PROVE  Class(state'[a]) = ClassAfter(call, r, Class(state[a]), p),
             state[a] # "reset"
      PROVE  StepInv'
  <2>1. Alone(a)  BY <1>0, <1>6, AloneIf
  <2>2. ASSUME NEW p \in BOOLEAN, NEW r, NEW c, a \in Twins(p),
               Midway(call, r, c, p, series[a], state[a])
        PROVE  /\ series'[a] = RingAfter(call, r, c, p)
               /\ Class(state'[a]) = ClassAfter(call, r, c, p)
    <3>1. series[a] = Put(r, Observed(o, p)) /\ c = Class(state[a])
      BY <1>6, <2>2 DEF Midway
    <3>2. c # "reset"  BY <1>6, <3>1 DEF Class
    <3>3. series'[a] = RingAfter(call, r, c, p)
      BY <1>0, <1>6, <3>1, <3>2 DEF RingAfter
    <3> QED  BY <1>6, <2>2, <3>1, <3>3
  <2> QED  BY <1>0, <1>6, <2>1, <2>2, StepOn
<1>7. CASE TestValue(a)
  <2>1. /\ call.step = "judge" /\ UNCHANGED <<series, sampler>>
        /\ state[a] \in {"testing_ucl", "testing_lcl"}
        /\ Proceed /\ \/ UNCHANGED state
                      \/ state' = [state EXCEPT ![a] = "ucl_trip"]
                      \/ state' = [state EXCEPT ![a] = "lcl_trip"]
    <3>1. /\ state[a] = "testing_ucl" => "ucl_trip" \in Allowable[state[a]]
          /\ state[a] = "testing_lcl" => "lcl_trip" \in Allowable[state[a]]
      BY DEF Allowable, States
    <3> QED  BY <1>7, <3>1 DEF TestValue, At, Move, seriesVars, closing
  <2>2. Class(state[a]) = "other" /\ Class(state'[a]) = "other"
    BY <1>0, <2>1 DEF Class
  <2>3. \A p \in BOOLEAN : \A r : ClassAfter(call, r, "other", p) = "other"
    BY <1>0 DEF ClassAfter
  <2>4. state[a] # "reset"  BY <2>1
  <2> QED  BY <1>6, <2>1, <2>2, <2>3, <2>4
<1>8. CASE Bootstrap(a)
  <2> DEFINE to == IF state[a] = "ucl_initial" THEN "testing_ucl" ELSE "testing_lcl"
  <2>1. /\ call.step = "judge" /\ UNCHANGED <<series, sampler>> /\ Ready(a)
        /\ state[a] \in {"ucl_initial", "lcl_initial"} /\ Move(a, to, state[a])
    BY <1>8 DEF Bootstrap, At, seriesVars, closing
  <2>2. to \in Allowable[state[a]]  BY <2>1 DEF Allowable, States
  <2>3. Proceed /\ state' = [state EXCEPT ![a] = to]  BY <2>1, <2>2 DEF Move
  <2>4. Class(state'[a]) = "other" /\ Class(state[a]) \in {"ucl_initial", "lcl_initial"}
    BY <1>0, <2>1, <2>3 DEF Class
  <2>5. ASSUME NEW p \in BOOLEAN, NEW r, a \in Twins(p),
               series[a] = Put(r, Observed(o, p))
        PROVE  Class(state'[a]) = ClassAfter(call, r, Class(state[a]), p)
    <3>1. Founded(Put(r, Observed(o, p)), p)  BY <2>1, <2>5, TwinsAgree
    <3> QED  BY <1>0, <2>4, <3>1 DEF ClassAfter
  <2>6. state[a] # "reset"  BY <2>1
  <2> HIDE DEF to
  <2> QED  BY <1>6, <2>1, <2>3, <2>5, <2>6
<1>9. CASE Rest(a)
  <2>1. /\ call.step = "judge" /\ UNCHANGED <<series, sampler, state>> /\ Proceed
        /\ \/ state[a] \in {"ucl_trip", "lcl_trip"}
           \/ state[a] \in {"ucl_initial", "lcl_initial"} /\ ~Ready(a)
    BY <1>9 DEF Rest, At, seriesVars, closing
  <2>2. ASSUME NEW p \in BOOLEAN, NEW r, a \in Twins(p),
               series[a] = Put(r, Observed(o, p))
        PROVE  Class(state'[a]) = ClassAfter(call, r, Class(state[a]), p)
    <3>1. CASE state[a] \in {"ucl_trip", "lcl_trip"}
      <4>1. Class(state[a]) = "other"  BY <3>1 DEF Class
      <4> QED  BY <1>0, <2>1, <4>1 DEF ClassAfter
    <3>2. CASE state[a] \in {"ucl_initial", "lcl_initial"} /\ ~Ready(a)
      <4>1. ~Founded(Put(r, Observed(o, p)), p)  BY <2>2, <3>2, TwinsAgree
      <4>2. Class(state[a]) \in {"ucl_initial", "lcl_initial"}  BY <3>2 DEF Class
      <4> QED  BY <1>0, <2>1, <4>1, <4>2 DEF ClassAfter
    <3> QED  BY <2>1, <3>1, <3>2
  <2>3. state[a] # "reset"  BY <2>1
  <2> QED  BY <1>6, <2>1, <2>2, <2>3
<1> QED  BY <1>1, <1>2, <1>3, <1>4, <1>5, <1>7, <1>8, <1>9 DEF Judge

\* A statistic's part of Transition.
LEMMA StepTransition ==
    ASSUME StepInv, StatInv, NEW a \in Ids, Transition(a)
    PROVE  StepInv'
<1>0. /\ StatTypeOK /\ call.op = "transition" /\ call.at = a /\ call.op # "none"
      /\ call.step = "enter" /\ call \in Calls /\ state \in [Ids -> States]
      /\ UNCHANGED poisson /\ Move(a, call.to, "any")
  BY DEF StatInv, StatTypeOK, Transition, At
<1>1. /\ Reset(a) \/ UNCHANGED seriesVars
      /\ call.reset => Reset(a)
      /\ ~call.reset => UNCHANGED series
  BY DEF Transition, seriesVars
<1>2. CASE call.to \notin Allowable[state[a]]
  <2>1. Fail("refused", "any") /\ UNCHANGED state  BY <1>0, <1>2 DEF Move
  <2>2. Alone(a)  BY <1>0, <1>1, <2>1, StepReset, AloneIf
  <2> QED  BY <1>0, <2>1, <2>2, StepFails DEF Alone
<1>3. CASE call.to \in Allowable[state[a]]
  <2>1. Proceed /\ state' = [state EXCEPT ![a] = call.to]  BY <1>0, <1>3 DEF Move
  <2>2. Alone(a)  BY <1>0, <1>1, <2>1, StepReset, AloneIf
  <2>3. ASSUME NEW p \in BOOLEAN, NEW r, NEW c,
               Midway(call, r, c, p, series[a], state[a])
        PROVE  /\ series'[a] = RingAfter(call, r, c, p)
               /\ Class(state'[a]) = ClassAfter(call, r, c, p)
    <3>1. series[a] = r  BY <1>0, <2>3 DEF Midway
    <3>2. series'[a] = RingAfter(call, r, c, p)
      BY <1>0, <1>1, <3>1, StepReset DEF RingAfter
    <3>3. state'[a] = call.to  BY <1>0, <2>1
    <3> QED  BY <1>0, <3>2, <3>3 DEF ClassAfter
  <2> QED  BY <1>0, <2>1, <2>2, <2>3, StepOn
<1> QED  BY <1>2, <1>3

\* A statistic's part of Done.
LEMMA StepDone ==
    ASSUME StepInv, StatInv, NEW a \in Ids, Done(a) \/ DoneFinished(a)
    PROVE  StepInv'
<1>0. /\ StatTypeOK /\ call.op = "done" /\ call.at = a /\ call.op # "none"
      /\ call.step \in {"enter", "wait"} /\ call \in Calls
      /\ UNCHANGED <<poisson, state, series, sampler>>
  BY DEF StatInv, StatTypeOK, Done, DoneFinished, DoneCall, At, seriesVars, closing
<1>1. Alone(a)  BY <1>0, AloneIf
<1>2. CASE Done(a)
  <2>1. call' = [call EXCEPT !.step = "wait"] /\ UNCHANGED errors  BY <1>2 DEF Done
  <2>2. call'.step = "wait"  BY <1>0, <2>1, CallStays
  <2>3. ASSUME NEW p \in BOOLEAN, NEW r, NEW c,
               Midway(call, r, c, p, series[a], state[a])
        PROVE  Midway(call', r, c, p, series'[a], state'[a])
    BY <1>0, <2>2, <2>3 DEF Midway
  <2> QED  BY <1>0, <1>1, <2>1, <2>3, StepWithin
<1>3. CASE DoneFinished(a)
  <2>1. Proceed  BY <1>3 DEF DoneFinished
  <2>2. ASSUME NEW p \in BOOLEAN, NEW r, NEW c,
               Midway(call, r, c, p, series[a], state[a])
        PROVE  /\ series'[a] = RingAfter(call, r, c, p)
               /\ Class(state'[a]) = ClassAfter(call, r, c, p)
    BY <1>0, <2>2 DEF Midway, RingAfter, ClassAfter
  <2> QED  BY <1>0, <1>1, <2>1, <2>2, StepOn
<1> QED  BY <1>2, <1>3

\* A call begins: all statistics are where the last one left them.
LEMMA StepStart ==
    ASSUME StepInv, StatInv,
           \/ \E o \in Inputs : StartRecord(o)
           \/ \E to \in Requests, r \in BOOLEAN : StartTransition(to, r)
           \/ StartDone
    PROVE  StepInv'
<1>1. /\ call = Idle /\ UNCHANGED <<series, sampler, poisson, state, errors>>
      /\ call'.op # "none" /\ call'.at = 1 /\ call'.step = "enter"
  BY DEF StartRecord, StartTransition, StartDone, seriesVars, closing
<1> SUFFICES ASSUME errors = <<>>, NEW p \in BOOLEAN PROVE Together(p)'
  BY <1>1 DEF StepInv
<1>2. PICK r, c : /\ r.count \in Nat
                  /\ \A s \in Twins(p) : InPlace(call, s, r, c, p, series[s], state[s])
  BY DEF StepInv, Together
<1>3. Twins(p)' = Twins(p)  BY <1>1 DEF Twins, Direct
<1>4. ASSUME NEW s \in Twins(p)
      PROVE  InPlace(call', s, r, c, p, series'[s], state'[s])
  <2>1. InPlace(call, s, r, c, p, series[s], state[s])  BY <1>2
  <2>2. series[s] = r /\ Class(state[s]) = c  BY <1>1, <2>1 DEF InPlace, Idle
  <2>3. s \in Nat /\ s >= 1
    <3>1. s \in Ids  BY DEF Twins
    <3> QED  BY <3>1, EstimatorAssumption
  <2> QED  BY <1>1, <2>2, <2>3 DEF InPlace, Midway
<1> QED  BY <1>2, <1>3, <1>4 DEF Together

\* Nothing that is said depends on the samplers.
LEMMA StepSame ==
    ASSUME StepInv, UNCHANGED estVars,
           series' = [i \in Ids |-> series'[i]], sampler' = [i \in Ids |-> sampler'[i]],
           \A s \in Ids : Direct(s)' <=> Direct(s),
           \A s \in Ids : Direct(s) => series'[s] = series[s]
    PROVE  StepInv'
<1>1. UNCHANGED <<poisson, state, call, errors>>  BY DEF estVars
<1> SUFFICES ASSUME errors = <<>>, NEW p \in BOOLEAN PROVE Together(p)'
  BY <1>1 DEF StepInv
<1>2. PICK r, c : /\ r.count \in Nat
                  /\ \A s \in Twins(p) : InPlace(call, s, r, c, p, series[s], state[s])
  BY DEF StepInv, Together
<1>3. Twins(p)' = Twins(p)  BY <1>1 DEF Twins
<1>4. \A s \in Twins(p) : series'[s] = series[s] /\ state'[s] = state[s]
  BY <1>1 DEF Twins
<1>5. \A s \in Twins(p) : InPlace(call', s, r, c, p, series'[s], state'[s])
  BY <1>1, <1>2, <1>4
<1> QED  BY <1>2, <1>3, <1>5 DEF Together

\* The samplers work on series with a window only.
LEMMA StepSampler ==
    ASSUME StepInv, NEW i \in Ids, SamplerNext(i), UNCHANGED estVars
    PROVE  StepInv'
<1>1. series = [j \in Ids |-> series[j]] /\ sampler = [j \in Ids |-> sampler[j]]
  BY DEF StepInv
<1>2. CASE Sample(i)
  <2>1. ~Direct(i) /\ UNCHANGED sampler
    BY <1>2 DEF Sample, Direct, closing
  <2>2. series' = [series EXCEPT ![i] = Put(@, Combine(obs[i]))]
    BY <1>2 DEF Sample, Store
  <2>3. /\ series' = [j \in Ids |-> series'[j]]
        /\ \A s \in Ids : s # i => series'[s] = series[s]
    BY <1>1, <2>2
  <2> QED  BY <1>1, <2>1, <2>3, StepSame DEF Direct
<1>3. CASE TakeDone(i)
  <2>1. /\ sampler[i] = "running" /\ sampler' = [sampler EXCEPT ![i] = "stopped"]
        /\ UNCHANGED series
    BY <1>3 DEF TakeDone
  <2>2. sampler' = [j \in Ids |-> sampler'[j]] /\ \A s \in Ids : Direct(s)' <=> Direct(s)
    BY <1>1, <2>1 DEF Direct
  <2> QED  BY <1>1, <2>1, <2>2, StepSame
<1>4. CASE DoneReturn(i)
  <2>1. UNCHANGED <<series, sampler>>  BY <1>4 DEF DoneReturn
  <2> QED  BY <1>1, <2>1, StepSame DEF Direct
<1> QED  BY <1>2, <1>3, <1>4 DEF SamplerNext

\* At first all statistics have the empty ring and wait for the upper baseline.
LEMMA StepInit == Init => StepInv
<1> SUFFICES ASSUME Init, NEW p \in BOOLEAN PROVE Together(p)
  BY DEF StepInv, Init, SeriesInit
<1>1. \A s \in Ids : series[s] = Empty /\ state[s] = "ucl_initial"
  BY DEF Init, SeriesInit
<1>2. call.op = "none"  BY DEF Init, Idle
<1>3. Class("ucl_initial") = "ucl_initial"  BY DEF Class
<1>4. \A s \in Twins(p) : InPlace(call, s, Empty, "ucl_initial", p, series[s], state[s])
  BY <1>1, <1>2, <1>3 DEF Twins, InPlace
<1>5. Empty.count \in Nat  BY RingCounts
<1> QED  BY <1>4, <1>5 DEF Together

\* The invariant holds in every run.
LEMMA StepInvAlways == Spec => []StepInv
<1>1. StepInv /\ StatInv /\ [Next]_vars => StepInv'
  <2> SUFFICES ASSUME StepInv, StatInv, [Next]_vars PROVE StepInv'  OBVIOUS
  <2>1. CASE UNCHANGED vars
    BY <2>1, StepSame DEF vars, StepInv, seriesVars, closing, Direct
  <2>2. CASE \/ \E o \in Inputs : StartRecord(o)
             \/ \E to \in Requests, r \in BOOLEAN : StartTransition(to, r)
             \/ StartDone
    BY <2>2, StepStart
  <2>3. CASE \E s \in Ids : \/ Judge(s) \/ Transition(s) \/ Done(s) \/ DoneFinished(s)
                            \/ SamplerNext(s) /\ UNCHANGED estVars
    BY <2>3, StepJudge, StepTransition, StepDone, StepSampler
  <2> QED  BY <2>1, <2>2, <2>3 DEF Next
<1> QED  BY <1>1, StepInit, StatInvAlways, PTL DEF Spec

\* Statistics of a kind keep in step: between calls, and while none has failed, they have
\* the same observations and wait for a baseline together, for any number of them,
\* whatever is recorded and asked for (stattest.go 24-40, lognormal.go 20-34).
THEOREM InStepAlways == Spec => []InStep
<1>1. StepInv => InStep
  <2> SUFFICES ASSUME StepInv, call = Idle, errors = <<>>, NEW s \in Ids, NEW t \in Ids,
                      Direct(s), Direct(t), s \in poisson <=> t \in poisson
               PROVE  /\ series[s] = series[t]
                      /\ state[s] \in {"reset", "ucl_initial", "lcl_initial"}
                            => state[t] = state[s]
    BY DEF InStep
  <2> DEFINE p == s \in poisson
  <2>1. p \in BOOLEAN /\ s \in Twins(p) /\ t \in Twins(p)  BY DEF Twins
  <2> HIDE DEF p
  <2>2. PICK r, c : \A i \in Twins(p) : InPlace(call, i, r, c, p, series[i], state[i])
    BY <2>1 DEF StepInv, Together
  <2>3. call.op = "none"  BY DEF Idle
  <2>4. series[s] = r /\ Class(state[s]) = c /\ series[t] = r /\ Class(state[t]) = c
    BY <2>1, <2>2, <2>3 DEF InPlace
  <2> QED  BY <2>4 DEF Class
<1> QED  BY <1>1, StepInvAlways, PTL
=============================================================================
