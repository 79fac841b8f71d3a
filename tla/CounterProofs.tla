---------------------------- MODULE CounterProofs ----------------------------
(***************************************************************************)
(* Proofs about WindowedCounter, for any lengths, limits, amounts and        *)
(* number of histories that callers hold.                                    *)
(***************************************************************************)
EXTENDS WindowedCounter, SequenceProofs

Counters  == [start : Nat, value : Nat]
Slices    == [first : Nat \ {0}, last : Nat]
Histories == [shared : BOOLEAN, slice : Slices, copy : Seq(Counters)]
Additions == [at : Nat, n : Nat]

-----------------------------------------------------------------------------
(***************************************************************************)
(* Filter.                                                                   *)
(***************************************************************************)

\* f has the young counters among the first k elements of e, for each k up to n.
IsKept(f, e, n) ==
    f = [k \in 0..n |->
           IF k = 0 THEN <<>>
           ELSE IF Young(e[k]) THEN Append(f[k - 1], e[k]) ELSE f[k - 1]]

\* What such a function has at k.
LEMMA KeptAt ==
    ASSUME NEW f, NEW e, NEW n, IsKept(f, e, n), NEW k \in 0..n
    PROVE  f[k] = IF k = 0 THEN <<>>
                  ELSE IF Young(e[k]) THEN Append(f[k - 1], e[k]) ELSE f[k - 1]
<1>1. PICK F : F = [j \in 0..n |->
                      IF j = 0 THEN <<>>
                      ELSE IF Young(e[j]) THEN Append(f[j - 1], e[j]) ELSE f[j - 1]]
  OBVIOUS
<1>2. F[k] = IF k = 0 THEN <<>>
             ELSE IF Young(e[k]) THEN Append(f[k - 1], e[k]) ELSE f[k - 1]
  BY <1>1
<1>3. f = F  BY <1>1, Zenon DEF IsKept
<1> QED  BY <1>2, <1>3

\* There is such a function, for every n.
LEMMA KeptExists ==
    ASSUME NEW e, NEW n \in Nat
    PROVE  \E f : IsKept(f, e, n)
<1> DEFINE S == {m \in Nat : \E f : IsKept(f, e, m)}
<1>1. 0 \in S
  <2> DEFINE g == [k \in 0..0 |-> <<>>]
             h == [k \in 0..0 |->
                     IF k = 0 THEN <<>>
                     ELSE IF Young(e[k]) THEN Append(g[k - 1], e[k]) ELSE g[k - 1]]
  <2>1. \A k \in 0..0 : g[k] = h[k]  OBVIOUS
  <2>2. g = h  BY <2>1
  <2>3. IsKept(g, e, 0)  BY <2>2 DEF IsKept
  <2> QED  BY <2>3
<1>2. ASSUME NEW m \in Nat, m \in S PROVE m + 1 \in S
  <2>1. PICK f : IsKept(f, e, m)  BY <1>2
  <2> DEFINE last == IF Young(e[m + 1]) THEN Append(f[m], e[m + 1]) ELSE f[m]
             g == [k \in 0..(m + 1) |-> IF k = m + 1 THEN last ELSE f[k]]
             h == [k \in 0..(m + 1) |->
                     IF k = 0 THEN <<>>
                     ELSE IF Young(e[k]) THEN Append(g[k - 1], e[k]) ELSE g[k - 1]]
  <2>2. ASSUME NEW k \in 0..(m + 1) PROVE g[k] = h[k]
    <3>1. CASE k = m + 1
      <4>1. k # 0 /\ g[k - 1] = f[m]  BY <3>1
      <4> QED  BY <3>1, <4>1
    <3>2. CASE k # m + 1
      <4>1. k \in 0..m  BY <3>2
      <4>2. f[k] = IF k = 0 THEN <<>>
                   ELSE IF Young(e[k]) THEN Append(f[k - 1], e[k]) ELSE f[k - 1]
        BY <2>1, <4>1, KeptAt
      <4>3. k # 0 => k - 1 \in 0..(m + 1) /\ k - 1 # m + 1  BY <3>2
      <4>4. k # 0 => g[k - 1] = f[k - 1]  BY <4>3
      <4> QED  BY <3>2, <4>2, <4>4
    <3> QED  BY <3>1, <3>2
  <2>3. g = h  BY <2>2
  <2>4. IsKept(g, e, m + 1)  BY <2>3 DEF IsKept
  <2> QED  BY <2>4
<1> HIDE DEF S
<1>3. Nat \subseteq S  BY <1>1, <1>2, SetInduction
<1> QED  BY <1>3 DEF S

\* What Filter takes is the last value of one.
LEMMA FilterIsKept ==
    ASSUME maxAge > 0, NEW e, Len(e) \in Nat
    PROVE  \E f : IsKept(f, e, Len(e)) /\ Filter(e) = f[Len(e)]
<1> DEFINE f == CHOOSE g : IsKept(g, e, Len(e))
<1>1. IsKept(f, e, Len(e))  BY KeptExists
<1>2. Filter(e) = f[Len(e)]  BY DEF Filter, IsKept
<1> HIDE DEF f
<1> QED  BY <1>1, <1>2

\* Filter leaves a sequence of such elements as it has.
LEMMA FilterType ==
    ASSUME maxAge \in Nat, NEW S, NEW e \in Seq(S)
    PROVE  Filter(e) \in Seq(S)
<1>1. CASE maxAge > 0
  <2> DEFINE n == Len(e)
  <2>1. n \in Nat /\ \A k \in 1..n : e[k] \in S  OBVIOUS
  <2>2. PICK f : IsKept(f, e, n) /\ Filter(e) = f[n]  BY <1>1, <2>1, FilterIsKept
  <2> DEFINE T == {k \in Nat : k \in 0..n => f[k] \in Seq(S)}
  <2> HIDE DEF n
  <2>3. 0 \in T
    <3>1. 0 \in 0..n  BY <2>1
    <3>2. f[0] = <<>>  BY <2>2, <3>1, KeptAt
    <3>3. f[0] \in Seq(S)  BY <3>2, EmptySeq
    <3> QED  BY <3>3
  <2>4. ASSUME NEW j \in Nat, j \in T PROVE j + 1 \in T
    <3> SUFFICES ASSUME j + 1 \in 0..n PROVE f[j + 1] \in Seq(S)  OBVIOUS
    <3> PICK k \in Nat : k = j + 1  OBVIOUS
    <3>1. k \in 0..n /\ k # 0 /\ k - 1 = j /\ e[k] \in S /\ f[j] \in Seq(S)
      BY <2>1, <2>4
    <3>2. f[k] = IF Young(e[k]) THEN Append(f[k - 1], e[k]) ELSE f[k - 1]
      BY <2>2, <3>1, KeptAt
    <3>3. Append(f[j], e[k]) \in Seq(S)  BY <3>1
    <3>4. f[k] \in Seq(S)  BY <3>1, <3>2, <3>3
    <3> QED  BY <3>4
  <2> HIDE DEF T
  <2>5. Nat \subseteq T  BY <2>3, <2>4, SetInduction
  <2> QED  BY <2>1, <2>2, <2>5 DEF T
<1>2. CASE ~(maxAge > 0)  BY <1>2 DEF Filter
<1> QED  BY <1>1, <1>2

-----------------------------------------------------------------------------
(***************************************************************************)
(* The slices.  A slice that a caller holds ends where c.hist ends, before   *)
(* it, or one element behind it; that element is a copy of the current        *)
(* counter, made when it had counted less.                                   *)
(***************************************************************************)
SlicesType ==
    /\ duration \in Nat /\ maxHistory \in Nat /\ maxAge \in Nat /\ clock \in Nat
    /\ array \in Seq(Counters) /\ hist \in Slices /\ current \in Counters
    /\ held \in Seq(Histories)

SlicesFit ==
    /\ hist.first <= hist.last + 1
    /\ hist.last <= Len(array) /\ Len(array) <= hist.last + 1
    /\ Len(array) > hist.last =>
          /\ array[Len(array)].start = current.start
          /\ array[Len(array)].value <= current.value
    /\ \A k \in DOMAIN held : held[k].shared => held[k].slice.last <= Len(array)

SlicesInv == SlicesType /\ SlicesFit

\* What HeldHistoriesStand says of a history that was old and is new.
Stands(old, new) ==
    /\ Len(new) = Len(old)
    /\ \A j \in DOMAIN old :
          /\ new[j].start = old[j].start
          /\ new[j].value >= old[j].value
          /\ j < Len(old) => new[j] = old[j]

AllStand == \A k \in DOMAIN held : Stands(Seen(held[k]), Seen(held[k])')

\* A slice of a sequence of counters.
LEMMA SliceElements ==
    ASSUME NEW a \in Seq(Counters), NEW s \in Slices, s.last <= Len(a)
    PROVE  LET e == SubSeq(a, s.first, s.last) IN
           /\ e \in Seq(Counters)
           /\ Len(e) = IF s.first <= s.last THEN s.last - s.first + 1 ELSE 0
           /\ \A i \in 1..(s.last - s.first + 1) : e[i] = a[s.first + i - 1]
<1>1. s.first \in Int /\ s.last \in Int  BY DEF Slices
<1>2. \A i \in s.first..s.last : a[i] \in Counters  BY DEF Slices
<1> HIDE DEF Slices, Counters
<1> QED  BY <1>1, <1>2, SubSeqProperties

\* What a caller sees are counters.
LEMMA SeenType ==
    ASSUME SlicesInv, NEW k \in DOMAIN held
    PROVE  /\ held[k] \in Histories /\ Seen(held[k]) \in Seq(Counters)
           /\ held[k].shared => held[k].slice \in Slices /\ held[k].slice.last <= Len(array)
<1>1. held[k] \in Histories  BY DEF SlicesInv, SlicesType
<1>2. held[k].shared => held[k].slice.last <= Len(array)  BY DEF SlicesInv, SlicesFit
<1>3. held[k].slice \in Slices /\ held[k].copy \in Seq(Counters)  BY <1>1 DEF Histories
<1>4. array \in Seq(Counters)  BY DEF SlicesInv, SlicesType
<1>5. held[k].shared => Elements(held[k].slice) \in Seq(Counters)
  BY <1>2, <1>3, <1>4, SliceElements DEF Elements
<1> HIDE DEF Histories, Slices, Counters
<1> QED  BY <1>1, <1>2, <1>3, <1>5 DEF Seen

\* Each history stands where it is.
LEMMA StandsStill ==
    ASSUME NEW e \in Seq(Counters)
    PROVE  Stands(e, e)
<1>1. \A j \in DOMAIN e : e[j] \in Counters  OBVIOUS
<1>2. \A j \in DOMAIN e : e[j].value \in Nat  BY <1>1 DEF Counters
<1> QED  BY <1>2 DEF Stands

\* A step that keeps the array, and what the callers hold.
LEMMA KeepsArray ==
    ASSUME SlicesInv, array' = array, \A k \in DOMAIN held : held'[k] = held[k]
    PROVE  AllStand
<1> SUFFICES ASSUME NEW k \in DOMAIN held
             PROVE  Stands(Seen(held[k]), Seen(held[k])')
  BY DEF AllStand
<1>1. Seen(held[k])' = Seen(held[k])  BY DEF Seen, Elements
<1>2. Seen(held[k]) \in Seq(Counters)  BY SeenType
<1> QED  BY <1>1, <1>2, StandsStill

\* A step that gives c.hist another array, while the callers keep theirs.
LEMMA Detaches ==
    ASSUME SlicesInv, held' = Detached
    PROVE  AllStand /\ held' \in Seq(Histories) /\ \A k \in DOMAIN held' : ~held'[k].shared
<1>1. ASSUME NEW k \in DOMAIN held
      PROVE  /\ held'[k] \in Histories /\ ~held'[k].shared
             /\ held'[k].copy = Seen(held[k]) /\ Seen(held[k]) \in Seq(Counters)
  <2>1. held'[k] = [held[k] EXCEPT !.shared = FALSE, !.copy = Seen(held[k])]
    BY DEF Detached
  <2>2. held[k] \in Histories /\ Seen(held[k]) \in Seq(Counters)  BY SeenType
  <2> QED  BY <2>1, <2>2 DEF Histories
<1>2. held \in Seq(Histories)  BY DEF SlicesInv, SlicesType
<1>3. DOMAIN held' = DOMAIN held /\ held' \in Seq(Histories)
  <2>0. Len(held) \in Nat /\ DOMAIN held = 1..Len(held)  BY <1>2, LenProperties
  <2>1. held' = [k \in 1..Len(held) |-> held'[k]]  BY <2>0 DEF Detached
  <2>2. \A k \in 1..Len(held) : held'[k] \in Histories  BY <1>1, <2>0
  <2>3. DOMAIN held' = 1..Len(held)  BY <2>1
  <2> HIDE DEF Histories
  <2> QED  BY <2>0, <2>1, <2>2, <2>3
<1>4. ASSUME NEW k \in DOMAIN held PROVE Stands(Seen(held[k]), Seen(held[k])')
  <2>1. Seen(held[k])' = Seen(held[k])  BY <1>1 DEF Seen
  <2> QED  BY <1>1, <2>1, StandsStill
<1> QED  BY <1>1, <1>3, <1>4 DEF AllStand

\* The array with the current counter in the element behind c.hist.
LEMMA WrittenElements ==
    ASSUME SlicesInv
    PROVE  /\ Written \in Seq(Counters) /\ Len(Written) = hist.last + 1
           /\ \A i \in 1..hist.last : Written[i] = array[i]
           /\ Written[hist.last + 1] = current
<1> DEFINE m == hist.last
           b == SubSeq(array, 1, m)
           c == <<current>>
<1>1. /\ m \in Nat /\ m <= Len(array) /\ array \in Seq(Counters) /\ current \in Counters
  BY DEF SlicesInv, SlicesType, SlicesFit, Slices
<1>2. \A i \in 1..m : array[i] \in Counters  BY <1>1
<1> HIDE DEF m, Counters
<1>3. b \in Seq(Counters) /\ Len(b) = m /\ \A i \in 1..m : b[i] = array[i]
  BY <1>1, <1>2, SubSeqProperties
<1>4. c \in Seq(Counters) /\ Len(c) = 1 /\ c[1] = current  BY <1>1
<1>5. Written = b \o c  BY DEF Written, m
<1> HIDE DEF b, c
<1>6. /\ b \o c \in Seq(Counters) /\ Len(b \o c) = m + 1
      /\ \A i \in 1..m : (b \o c)[i] = b[i]
      /\ (b \o c)[m + 1] = c[1]
  <2>1. /\ b \o c \in Seq(Counters) /\ Len(b \o c) = Len(b) + Len(c)
        /\ \A i \in 1..(Len(b) + Len(c)) :
              (b \o c)[i] = IF i <= Len(b) THEN b[i] ELSE c[i - Len(b)]
    BY <1>3, <1>4, ConcatProperties
  <2>2. (m + 1) - m = 1 /\ m + 1 \in 1..(m + 1)  BY <1>1
  <2> QED  BY <1>1, <1>3, <1>4, <2>1, <2>2
<1> QED  BY <1>3, <1>4, <1>5, <1>6 DEF m

\* A step that writes it there changes no element of a history but the last one.
LEMMA WritesBehind ==
    ASSUME SlicesInv, array' = Written, \A k \in DOMAIN held : held'[k] = held[k]
    PROVE  AllStand
<1> SUFFICES ASSUME NEW k \in DOMAIN held
             PROVE  Stands(Seen(held[k]), Seen(held[k])')
  BY DEF AllStand
<1>1. CASE ~held[k].shared
  <2>1. Seen(held[k])' = Seen(held[k])  BY <1>1 DEF Seen
  <2>2. Seen(held[k]) \in Seq(Counters)  BY SeenType
  <2> QED  BY <2>1, <2>2, StandsStill
<1>2. CASE held[k].shared
  <2> DEFINE s == held[k].slice
             old == SubSeq(array, s.first, s.last)
             new == SubSeq(Written, s.first, s.last)
  <2>1. s \in Slices /\ s.last <= Len(array)  BY <1>2, SeenType
  <2>2. Seen(held[k]) = old /\ Seen(held[k])' = new  BY <1>2 DEF Seen, Elements
  <2>3. /\ array \in Seq(Counters) /\ current \in Counters /\ hist.last \in Nat
        /\ Len(array) <= hist.last + 1
        /\ Len(array) > hist.last => /\ array[Len(array)].start = current.start
                                     /\ array[Len(array)].value <= current.value
    BY DEF SlicesInv, SlicesType, SlicesFit, Slices
  <2>4. /\ Written \in Seq(Counters) /\ Len(Written) = hist.last + 1
        /\ \A i \in 1..hist.last : Written[i] = array[i]
        /\ Written[hist.last + 1] = current
    BY WrittenElements
  <2> DEFINE n == s.last - s.first + 1
  <2>5. s.last <= Len(Written) /\ s.first \in Nat \ {0} /\ s.last \in Nat
    BY <2>1, <2>3, <2>4 DEF Slices
  <2>6. /\ old \in Seq(Counters) /\ Len(old) = IF s.first <= s.last THEN n ELSE 0
        /\ \A j \in 1..n : old[j] = array[s.first + j - 1]
    BY <2>1, <2>3, SliceElements
  <2>7. /\ new \in Seq(Counters) /\ Len(new) = IF s.first <= s.last THEN n ELSE 0
        /\ \A j \in 1..n : new[j] = Written[s.first + j - 1]
    BY <2>1, <2>4, <2>5, SliceElements
  <2> HIDE DEF s, old, new
  <2>8. ASSUME NEW j \in DOMAIN old
        PROVE  /\ new[j].start = old[j].start /\ new[j].value >= old[j].value
               /\ j < Len(old) => new[j] = old[j]
    <3>1. j \in 1..n /\ Len(old) = n  BY <2>5, <2>6
    <3> DEFINE i == s.first + j - 1
    <3>2. i \in 1..Len(array) /\ i \in Nat /\ i <= s.last  BY <2>1, <2>3, <2>5, <3>1
    <3>3. old[j] = array[i] /\ new[j] = Written[i]  BY <2>6, <2>7, <3>1
    <3>4. array[i] \in Counters  BY <2>3, <3>2
    <3>5. CASE i <= hist.last
      <4>1. i \in 1..hist.last  BY <3>2, <3>5
      <4>2. new[j] = old[j]  BY <2>4, <3>3, <4>1
      <4>3. old[j].value \in Nat  BY <3>3, <3>4 DEF Counters
      <4> QED  BY <4>2, <4>3
    <3>6. CASE ~(i <= hist.last)
      <4>1. i = hist.last + 1 /\ i = Len(array) /\ Len(array) > hist.last
        BY <2>1, <2>3, <3>2, <3>6
      <4>2. new[j] = current  BY <2>4, <3>3, <4>1
      <4>3. old[j].start = current.start /\ old[j].value <= current.value
        BY <2>3, <3>3, <4>1
      <4>4. i = s.last  BY <2>1, <2>5, <3>2, <4>1
      <4>5. j = n  BY <2>5, <3>1, <4>4
      <4>6. old[j].value \in Nat /\ current.value \in Nat  BY <2>3, <3>3, <3>4 DEF Counters
      <4> QED  BY <3>1, <4>2, <4>3, <4>5, <4>6
    <3> QED  BY <3>5, <3>6
  <2>9. Stands(old, new)  BY <2>6, <2>7, <2>8 DEF Stands
  <2> QED  BY <2>2, <2>9
<1> QED  BY <1>1, <1>2

-----------------------------------------------------------------------------
(* The steps *)

\* Cut moves the beginning of a slice.
LEMMA CutSlice ==
    ASSUME maxHistory \in Nat, NEW s \in Slices, s.first <= s.last + 1
    PROVE  /\ Cut(s) \in Slices /\ Cut(s).last = s.last
           /\ s.first <= Cut(s).first /\ Cut(s).first <= s.last + 1
<1>1. s = [first |-> s.first, last |-> s.last] /\ s.first \in Nat \ {0} /\ s.last \in Nat
  BY DEF Slices
<1>2. CASE maxHistory > 0 /\ s.last - s.first + 1 > maxHistory
  <2>1. Cut(s) = [s EXCEPT !.first = s.last - maxHistory + 1]  BY <1>2 DEF Cut
  <2>2. Cut(s).first = s.last - maxHistory + 1 /\ Cut(s).last = s.last
    BY <1>1, <2>1
  <2>3. s.last - maxHistory + 1 \in Nat \ {0}  BY <1>1, <1>2
  <2>4. Cut(s) \in Slices  BY <1>1, <2>1, <2>3 DEF Slices
  <2> QED  BY <1>1, <1>2, <2>2, <2>4
<1>3. CASE ~(maxHistory > 0 /\ s.last - s.first + 1 > maxHistory)
  <2>1. Cut(s) = s  BY <1>3 DEF Cut
  <2> QED  BY <1>1, <2>1
<1> QED  BY <1>2, <1>3

\* What a caller is returned is a history, and looks into the array no further than s.
LEMMA ResultType ==
    ASSUME maxHistory \in Nat, maxAge \in Nat, NEW shared \in BOOLEAN,
           NEW s \in Slices, s.first <= s.last + 1,
           NEW e \in Seq(Counters), s.last <= Len(e)
    PROVE  /\ Result(s, shared, e) \in Histories
           /\ Result(s, shared, e).shared => shared /\ Result(s, shared, e).slice.last = s.last
<1>1. Cut(s) \in Slices /\ Cut(s).last = s.last  BY CutSlice
<1>2. None \in Slices  BY DEF None, Slices
<1>3. <<>> \in Seq(Counters)  OBVIOUS
<1>4. Filter(SubSeq(e, Cut(s).first, Cut(s).last)) \in Seq(Counters)
  <2>1. SubSeq(e, Cut(s).first, Cut(s).last) \in Seq(Counters)  BY <1>1, SliceElements
  <2> QED  BY <2>1, FilterType
<1> HIDE DEF Slices, Counters
<1>5. CASE shared /\ maxAge = 0
  BY <1>1, <1>3, <1>5 DEF Result, Histories
<1>6. CASE ~(shared /\ maxAge = 0)
  BY <1>2, <1>4, <1>6 DEF Result, Histories
<1> QED  BY <1>5, <1>6

\* A caller that keeps a history changes none of the others.
LEMMA HoldKeeps ==
    ASSUME held \in Seq(Histories), NEW h \in Histories, Hold(h)
    PROVE  /\ held' \in Seq(Histories) /\ \A k \in DOMAIN held : held'[k] = held[k]
           /\ \A k \in DOMAIN held' : held'[k] = h \/ (k \in DOMAIN held /\ held'[k] = held[k])
<1> HIDE DEF Histories
<1>1. CASE held' = Append(held, h)
  <2>1. /\ Append(held, h) \in Seq(Histories)
        /\ DOMAIN held = 1..Len(held) /\ Len(held) \in Nat
        /\ DOMAIN Append(held, h) = 1..(Len(held) + 1)
        /\ \A k \in 1..Len(held) : Append(held, h)[k] = held[k]
        /\ Append(held, h)[Len(held) + 1] = h
    BY AppendProperties
  <2>2. \A k \in 1..(Len(held) + 1) : k \in 1..Len(held) \/ k = Len(held) + 1  BY <2>1
  <2> QED  BY <1>1, <2>1, <2>2
<1>2. CASE UNCHANGED held  BY <1>2
<1> QED  BY <1>1, <1>2 DEF Hold

\* The elements of c.hist and the current counter.
LEMMA AllElements ==
    ASSUME SlicesInv
    PROVE  LET e == Elements(hist)
               all == e \o <<current>> IN
           /\ e \in Seq(Counters) /\ Len(e) = hist.last - hist.first + 1
           /\ \A i \in 1..Len(e) : e[i] = array[hist.first + i - 1]
           /\ all \in Seq(Counters) /\ Len(all) = Len(e) + 1
           /\ all[Len(all)] = current /\ \A i \in 1..Len(e) : all[i] = e[i]
<1> DEFINE e == Elements(hist)
           c == <<current>>
           n == hist.last - hist.first + 1
<1>1. /\ array \in Seq(Counters) /\ hist \in Slices /\ hist.last <= Len(array)
      /\ hist.first \in Nat \ {0} /\ hist.last \in Nat /\ n \in Nat
      /\ current \in Counters
  BY DEF SlicesInv, SlicesType, SlicesFit, Slices
<1>2. e \in Seq(Counters) /\ Len(e) = n /\ \A i \in 1..n : e[i] = array[hist.first + i - 1]
  BY <1>1, SliceElements DEF Elements
<1>3. c \in Seq(Counters) /\ Len(c) = 1 /\ c[1] = current
  <2> HIDE DEF Counters
  <2> QED  BY <1>1
<1> HIDE DEF e, c, n, Counters
<1>4. /\ e \o c \in Seq(Counters) /\ Len(e \o c) = n + 1
      /\ \A i \in 1..n : (e \o c)[i] = e[i]
      /\ (e \o c)[n + 1] = c[1]
  <2>1. /\ e \o c \in Seq(Counters) /\ Len(e \o c) = Len(e) + Len(c)
        /\ \A i \in 1..(Len(e) + Len(c)) :
              (e \o c)[i] = IF i <= Len(e) THEN e[i] ELSE c[i - Len(e)]
    BY <1>2, <1>3, ConcatProperties
  <2>2. (n + 1) - n = 1 /\ n + 1 \in 1..(n + 1)  BY <1>1
  <2> QED  BY <1>1, <1>2, <1>3, <2>1, <2>2
<1>5. /\ Len(e) = n /\ Len(e \o c) = Len(e) + 1 /\ (e \o c)[Len(e \o c)] = current
      /\ \A i \in 1..Len(e) : (e \o c)[i] = e[i] /\ e[i] = array[hist.first + i - 1]
  BY <1>2, <1>3, <1>4
<1> QED  BY <1>2, <1>4, <1>5 DEF e, c, n

\* A step that leaves the slices alone, and may let the current counter count.
LEMMA SlicesSame ==
    ASSUME SlicesInv, UNCHANGED <<config, array, hist, held>>, clock' \in Nat,
           current' \in Counters, current'.start = current.start,
           current'.value >= current.value
    PROVE  SlicesInv' /\ AllStand
<1>1. AllStand  BY KeepsArray
<1>2. SlicesType'  BY DEF SlicesInv, SlicesType, config
<1>3. SlicesFit'
  <2>1. Len(array) > hist.last =>
          array[Len(array)].start = current'.start /\ array[Len(array)].value <= current'.value
    <3> SUFFICES ASSUME Len(array) > hist.last
                 PROVE  /\ array[Len(array)].start = current'.start
                        /\ array[Len(array)].value <= current'.value
      OBVIOUS
    <3>1. /\ array[Len(array)].start = current.start /\ array[Len(array)].value <= current.value
          /\ array \in Seq(Counters) /\ hist.last \in Nat /\ current \in Counters
      BY DEF SlicesInv, SlicesFit, SlicesType, Slices
    <3>2. Len(array) \in 1..Len(array)  BY <3>1
    <3>3. array[Len(array)] \in Counters  BY <3>1, <3>2
    <3>4. /\ array[Len(array)].value \in Nat /\ current.value \in Nat /\ current'.value \in Nat
      BY <3>1, <3>3 DEF Counters
    <3> QED  BY <3>1, <3>4
  <2> QED  BY <2>1 DEF SlicesInv, SlicesFit
<1> QED  BY <1>1, <1>2, <1>3 DEF SlicesInv

\* A step that gives c.hist an array of its own.
LEMMA SlicesNew ==
    ASSUME SlicesInv, UNCHANGED <<config, clock>>, held' = Detached,
           current' \in Counters, array' \in Seq(Counters), hist' \in Slices,
           hist'.first <= hist'.last + 1, hist'.last = Len(array')
    PROVE  SlicesInv' /\ AllStand
<1>1. AllStand /\ held' \in Seq(Histories) /\ \A k \in DOMAIN held' : ~held'[k].shared
  BY Detaches
<1>2. SlicesType'  BY <1>1 DEF SlicesInv, SlicesType, config
<1>3. Len(array') \in Nat  OBVIOUS
<1>4. SlicesFit'  BY <1>1, <1>3 DEF SlicesFit
<1> QED  BY <1>1, <1>2, <1>4 DEF SlicesInv

\* HistoryInclusive writes behind c.hist, or leaves the array alone.
LEMMA SlicesInclusive ==
    ASSUME SlicesInv, HistoryInclusive
    PROVE  SlicesInv' /\ AllStand
<1>1. /\ maxHistory \in Nat /\ maxAge \in Nat /\ hist \in Slices /\ array \in Seq(Counters)
      /\ current \in Counters /\ held \in Seq(Histories)
      /\ hist.first <= hist.last + 1 /\ hist.last <= Len(array)
      /\ hist.first \in Nat \ {0} /\ hist.last \in Nat
  BY DEF SlicesInv, SlicesType, SlicesFit, Slices
<1>2. UNCHANGED <<config, clock, hist, current>>  BY DEF HistoryInclusive
<1>3. CASE Spare
  <2> DEFINE s == [hist EXCEPT !.last = @ + 1]
             h == Result(s, TRUE, Written)
  <2>1. Hold(Result(s, Spare, Written)) /\ array' = Written
    BY <1>3 DEF HistoryInclusive
  <2>2. Result(s, Spare, Written) = h  BY <1>3 DEF Result
  <2>3. /\ Written \in Seq(Counters) /\ Len(Written) = hist.last + 1
        /\ Written[hist.last + 1] = current
    BY WrittenElements
  <2>4. s \in Slices /\ s.first = hist.first /\ s.last = hist.last + 1
    BY <1>1 DEF Slices
  <2>5. s.first <= s.last + 1 /\ s.last <= Len(Written)
    BY <1>1, <2>3, <2>4
  <2> HIDE DEF s
  <2>6. h \in Histories /\ (h.shared => h.slice.last = s.last)
    BY <1>1, <2>3, <2>4, <2>5, ResultType
  <2> HIDE DEF h
  <2>7. /\ held' \in Seq(Histories) /\ \A k \in DOMAIN held : held'[k] = held[k]
        /\ \A k \in DOMAIN held' : held'[k] = h \/ (k \in DOMAIN held /\ held'[k] = held[k])
    BY <1>1, <2>1, <2>2, <2>6, HoldKeeps
  <2>8. AllStand  BY <2>1, <2>7, WritesBehind
  <2>9. ASSUME NEW k \in DOMAIN held', held'[k].shared
        PROVE  held'[k].slice.last <= Len(Written)
    <3>1. CASE held'[k] = h  BY <2>3, <2>4, <2>6, <2>9, <3>1
    <3>2. CASE k \in DOMAIN held /\ held'[k] = held[k]
      <4>1. held[k].slice \in Slices /\ held[k].slice.last <= Len(array)
        BY <2>9, <3>2, SeenType
      <4>2. Len(array) <= hist.last + 1 /\ Len(array) \in Nat /\ held[k].slice.last \in Nat
        BY <1>1, <4>1 DEF SlicesInv, SlicesFit, Slices
      <4> QED  BY <1>1, <2>3, <3>2, <4>1, <4>2
    <3> QED  BY <2>7, <3>1, <3>2
  <2>10. SlicesType'  BY <1>2, <2>1, <2>3, <2>7 DEF SlicesInv, SlicesType, config
  <2>11. current.value <= current.value  BY <1>1 DEF Counters
  <2>12. SlicesFit'
    BY <1>1, <1>2, <2>1, <2>3, <2>9, <2>11 DEF SlicesFit
  <2> QED  BY <2>8, <2>10, <2>12 DEF SlicesInv
<1>4. CASE ~Spare
  <2> DEFINE all == Elements(hist) \o <<current>>
             s == [first |-> 1, last |-> Len(all)]
             h == Result(s, FALSE, all)
  <2>1. Hold(Result(s, Spare, all)) /\ array' = array
    BY <1>4 DEF HistoryInclusive
  <2>2. Result(s, Spare, all) = h  BY <1>4 DEF Result
  <2>3. all \in Seq(Counters) /\ Len(all) \in Nat  BY AllElements
  <2> HIDE DEF all
  <2>4. s \in Slices /\ s.first = 1 /\ s.last = Len(all)  BY <2>3 DEF Slices
  <2>5. s.first <= s.last + 1 /\ s.last <= Len(all)  BY <2>3, <2>4
  <2> HIDE DEF s
  <2>6. h \in Histories /\ ~h.shared  BY <1>1, <2>3, <2>4, <2>5, ResultType
  <2> HIDE DEF h
  <2>7. /\ held' \in Seq(Histories) /\ \A k \in DOMAIN held : held'[k] = held[k]
        /\ \A k \in DOMAIN held' : held'[k] = h \/ (k \in DOMAIN held /\ held'[k] = held[k])
    BY <1>1, <2>1, <2>2, <2>6, HoldKeeps
  <2>8. AllStand  BY <2>1, <2>7, KeepsArray
  <2>9. SlicesType'  BY <1>2, <2>1, <2>7 DEF SlicesInv, SlicesType, config
  <2>10. SlicesFit'  BY <1>2, <2>1, <2>6, <2>7 DEF SlicesInv, SlicesFit
  <2> QED  BY <2>8, <2>9, <2>10 DEF SlicesInv
<1> QED  BY <1>3, <1>4

\* History, of an open window, returns what is there.
LEMMA SlicesHistory ==
    ASSUME SlicesInv, History
    PROVE  SlicesInv' /\ AllStand
<1>1. CASE clock > End \/ duration = 0  BY <1>1, SlicesInclusive DEF History
<1>2. CASE ~(clock > End \/ duration = 0)
  <2> DEFINE h == Result(hist, TRUE, array)
  <2>1. Hold(h) /\ UNCHANGED <<config, clock, array, hist, current>>
    BY <1>2 DEF History
  <2>2. /\ maxHistory \in Nat /\ maxAge \in Nat /\ hist \in Slices /\ array \in Seq(Counters)
        /\ held \in Seq(Histories) /\ hist.first <= hist.last + 1 /\ hist.last <= Len(array)
    BY DEF SlicesInv, SlicesType, SlicesFit
  <2>3. h \in Histories /\ (h.shared => h.slice.last = hist.last)  BY <2>2, ResultType
  <2> HIDE DEF h
  <2>4. /\ held' \in Seq(Histories) /\ \A k \in DOMAIN held : held'[k] = held[k]
        /\ \A k \in DOMAIN held' : held'[k] = h \/ (k \in DOMAIN held /\ held'[k] = held[k])
    BY <2>1, <2>2, <2>3, HoldKeeps
  <2>5. AllStand  BY <2>1, <2>4, KeepsArray
  <2>6. SlicesType'  BY <2>1, <2>4 DEF SlicesInv, SlicesType, config
  <2>7. SlicesFit'  BY <2>1, <2>2, <2>3, <2>4 DEF SlicesInv, SlicesFit
  <2> QED  BY <2>5, <2>6, <2>7 DEF SlicesInv
<1> QED  BY <1>1, <1>2

\* All that Roll has to store, and where it is.
Rolled == IF Spare THEN Written ELSE Elements(hist) \o <<current>>

RolledSlice == IF Spare THEN [hist EXCEPT !.last = @ + 1]
               ELSE [first |-> 1, last |-> Len(Rolled)]

\* It is a slice to the end of its array.
LEMMA RollParts ==
    ASSUME SlicesInv
    PROVE  LET all == Rolled  s == RolledSlice IN
           /\ all \in Seq(Counters) /\ s \in Slices
           /\ s.first <= s.last + 1 /\ s.last = Len(all)
           /\ IF Spare THEN s.first = hist.first /\ s.last = hist.last + 1 ELSE s.first = 1
<1> DEFINE all == Rolled
           s   == RolledSlice
<1>1. /\ hist \in Slices /\ hist.first <= hist.last + 1
      /\ hist.first \in Nat \ {0} /\ hist.last \in Nat
  BY DEF SlicesInv, SlicesType, SlicesFit, Slices
<1>2. CASE Spare
  <2>1. all = Written /\ s = [hist EXCEPT !.last = hist.last + 1]
    BY <1>2 DEF Rolled, RolledSlice
  <2>2. Written \in Seq(Counters) /\ Len(Written) = hist.last + 1  BY WrittenElements
  <2> HIDE DEF all, s
  <2>3. s \in Slices /\ s.first = hist.first /\ s.last = hist.last + 1
    <3>1. hist = [first |-> hist.first, last |-> hist.last]  BY <1>1 DEF Slices
    <3>2. s = [first |-> hist.first, last |-> hist.last + 1]  BY <2>1, <3>1
    <3>3. hist.last + 1 \in Nat  BY <1>1
    <3> QED  BY <1>1, <3>2, <3>3 DEF Slices
  <2>4. /\ all \in Seq(Counters) /\ s \in Slices
        /\ s.first <= s.last + 1 /\ s.last = Len(all)
        /\ IF Spare THEN s.first = hist.first /\ s.last = hist.last + 1 ELSE s.first = 1
    BY <1>1, <1>2, <2>1, <2>2, <2>3
  <2> QED  BY <2>4 DEF all, s
<1>3. CASE ~Spare
  <2>1. all = Elements(hist) \o <<current>> /\ s = [first |-> 1, last |-> Len(all)]
    BY <1>3 DEF Rolled, RolledSlice
  <2>2. all \in Seq(Counters) /\ Len(all) \in Nat  BY <2>1, AllElements
  <2> HIDE DEF all, s
  <2>3. /\ all \in Seq(Counters) /\ s \in Slices
        /\ s.first <= s.last + 1 /\ s.last = Len(all)
        /\ IF Spare THEN s.first = hist.first /\ s.last = hist.last + 1 ELSE s.first = 1
    BY <1>3, <2>1, <2>2 DEF Slices
  <2> QED  BY <2>3 DEF all, s
<1> QED  BY <1>2, <1>3

\* Roll, into the spare element or into an array that append or the filter makes.
LEMMA SlicesRoll ==
    ASSUME SlicesInv, NEW n \in Amounts, Roll(n)
    PROVE  SlicesInv' /\ AllStand
<1> DEFINE all   == IF Spare THEN Written ELSE Elements(hist) \o <<current>>
           s     == IF Spare THEN [hist EXCEPT !.last = @ + 1]
                    ELSE [first |-> 1, last |-> Len(all)]
           young == Filter(SubSeq(all, Cut(s).first, Cut(s).last))
<1>1. /\ maxHistory \in Nat /\ maxAge \in Nat /\ hist \in Slices /\ array \in Seq(Counters)
      /\ hist.first <= hist.last + 1 /\ hist.first \in Nat \ {0} /\ hist.last \in Nat
      /\ clock \in Nat
  BY DEF SlicesInv, SlicesType, SlicesFit, Slices
<1>2. UNCHANGED <<config, clock>> /\ current' = Counter(clock, n)  BY DEF Roll
<1>3. current' \in Counters  BY <1>1, <1>2, CounterAssumption DEF Counters, Counter
<1>4. all \in Seq(Counters) /\ s \in Slices /\ s.first <= s.last + 1 /\ s.last = Len(all)
  BY RollParts DEF Rolled, RolledSlice
<1>5. CASE maxAge > 0
  <2>1. /\ array' = young /\ hist' = [first |-> 1, last |-> Len(young)] /\ held' = Detached
    BY <1>5 DEF Roll
  <2>2. young \in Seq(Counters)
    <3> HIDE DEF all, s
    <3>1. Cut(s) \in Slices /\ Cut(s).last = s.last  BY <1>1, <1>4, CutSlice
    <3>2. SubSeq(all, Cut(s).first, Cut(s).last) \in Seq(Counters)
      <4>1. Cut(s).last <= Len(all)  BY <1>4, <3>1 DEF Slices
      <4> QED  BY <1>4, <3>1, <4>1, SliceElements
    <3> QED  BY <1>1, <3>2, FilterType
  <2> HIDE DEF young
  <2>3. Len(young) \in Nat  BY <2>2
  <2>4. hist' \in Slices /\ hist'.first <= hist'.last + 1 /\ hist'.last = Len(array')
    BY <2>1, <2>3 DEF Slices
  <2> QED  BY <1>2, <1>3, <2>1, <2>2, <2>4, SlicesNew
<1>6. CASE ~(maxAge > 0)
  <2>1. /\ array' = all /\ hist' = Cut(s)
        /\ IF Spare THEN UNCHANGED held ELSE held' = Detached
    BY <1>6 DEF Roll
  <2>2. /\ Cut(s) \in Slices /\ Cut(s).last = Len(all) /\ Cut(s).first <= Cut(s).last + 1
    <3> HIDE DEF all, s
    <3> QED  BY <1>1, <1>4, CutSlice
  <2>3. CASE Spare
    <3>1. array' = Written  BY <2>1, <2>3
    <3>2. UNCHANGED held /\ hist' \in Slices /\ hist'.last = Len(array')
          /\ hist'.first <= hist'.last + 1
      <4> HIDE DEF all, s
      <4> QED  BY <2>1, <2>2, <2>3
    <3>3. Written \in Seq(Counters) /\ Len(Written) = hist.last + 1  BY WrittenElements
    <3>4. AllStand  BY <3>1, <3>2, WritesBehind
    <3>5. SlicesType'  BY <1>2, <1>3, <3>1, <3>2, <3>3 DEF SlicesInv, SlicesType, config
    <3>6. Len(array') = hist.last + 1 /\ Len(array) <= hist.last + 1  BY <3>1, <3>3
          DEF SlicesInv, SlicesFit
    <3>7. ASSUME NEW k \in DOMAIN held, held[k].shared
          PROVE  held[k].slice.last <= Len(array')
      <4>1. held[k].slice \in Slices /\ held[k].slice.last <= Len(array)  BY <3>7, SeenType
      <4>2. held[k].slice.last \in Nat /\ Len(array) \in Nat  BY <1>1, <4>1 DEF Slices
      <4> QED  BY <1>1, <3>6, <4>1, <4>2
    <3>8. SlicesFit'
      BY <1>1, <3>2, <3>6, <3>7 DEF SlicesFit
    <3> QED  BY <3>4, <3>5, <3>8 DEF SlicesInv
  <2>4. CASE ~Spare
    <3>1. held' = Detached  BY <2>1, <2>4
    <3>2. /\ array' \in Seq(Counters) /\ hist' \in Slices /\ hist'.last = Len(array')
          /\ hist'.first <= hist'.last + 1
      <4> HIDE DEF all, s
      <4> QED  BY <1>4, <2>1, <2>2
    <3> QED  BY <1>2, <1>3, <3>1, <3>2, SlicesNew
  <2> QED  BY <2>3, <2>4
<1> QED  BY <1>5, <1>6

\* Every step keeps the slices in the array, and lets the histories stand.
LEMMA SlicesNext ==
    SlicesInv /\ [Next]_vars => SlicesInv' /\ AllStand
<1> SUFFICES ASSUME SlicesInv, [Next]_vars PROVE SlicesInv' /\ AllStand  OBVIOUS
<1>1. /\ clock \in Nat /\ current \in Counters /\ current.value \in Nat
      /\ current = [start |-> current.start, value |-> current.value] /\ current.start \in Nat
  BY DEF SlicesInv, SlicesType, Counters
<1>2. CASE UNCHANGED vars  BY <1>1, <1>2, SlicesSame DEF vars, config
<1>3. CASE Tick  BY <1>1, <1>3, SlicesSame DEF Tick
<1>4. ASSUME NEW n \in Amounts, Add(n) PROVE SlicesInv' /\ AllStand
  <2>1. current' = [current EXCEPT !.value = current.value + n] /\ n \in Nat
    BY <1>4, CounterAssumption DEF Add
  <2>2. /\ current' \in Counters /\ current'.start = current.start
        /\ current'.value = current.value + n
    BY <1>1, <2>1 DEF Counters
  <2> QED  BY <1>1, <1>4, <2>1, <2>2, SlicesSame DEF Add
<1>5. CASE Reset
  <2>1. /\ array' = <<>> /\ hist' = None /\ held' = Detached /\ current' = Counter(clock, 0)
        /\ UNCHANGED <<config, clock>>
    BY <1>5 DEF Reset
  <2>2. current' \in Counters /\ hist' \in Slices /\ hist'.first = 1 /\ hist'.last = 0
    BY <1>1, <2>1 DEF Counter, Counters, None, Slices
  <2>3. array' \in Seq(Counters) /\ Len(array') = 0  BY <2>1
  <2> QED  BY <2>1, <2>2, <2>3, SlicesNew
<1>6. CASE HistoryInclusive \/ History  BY <1>6, SlicesInclusive, SlicesHistory
<1>7. ASSUME NEW n \in Amounts, Roll(n) PROVE SlicesInv' /\ AllStand  BY <1>7, SlicesRoll
<1> QED  BY <1>2, <1>3, <1>4, <1>5, <1>6, <1>7 DEF Next

\* At first there is no array.
LEMMA SlicesInit == Init => SlicesInv
<1> SUFFICES ASSUME Init PROVE SlicesInv  OBVIOUS
<1>1. /\ duration \in Nat /\ maxHistory \in Nat /\ maxAge \in Nat /\ clock = 0
  BY CounterAssumption DEF Init
<1>2. array = <<>> /\ held = <<>> /\ hist.first = 1 /\ hist.last = 0 /\ hist \in Slices
  BY DEF Init, None, Slices
<1>3. current \in Counters  BY DEF Init, Counter, Counters
<1>4. array \in Seq(Counters) /\ held \in Seq(Histories) /\ Len(array) = 0  BY <1>2
<1>5. SlicesType  BY <1>1, <1>2, <1>3, <1>4 DEF SlicesType
<1>6. SlicesFit  BY <1>2, <1>4 DEF SlicesFit
<1> QED  BY <1>5, <1>6 DEF SlicesInv

\* Whatever the length of the windows, the limits and the number of callers, no call
\* changes the closed windows of a history that another caller holds, although append
\* may write into the array they share (counter.go 88-118, 207-217).
THEOREM HeldHistoriesStandAlways == Spec => HeldHistoriesStand
<1>1. SlicesInv /\ [Next]_vars
        => [\A k \in DOMAIN held :
              LET old == Seen(held[k])  new == Seen(held[k])'
              IN /\ Len(new) = Len(old)
                 /\ \A j \in DOMAIN old :
                       /\ new[j].start = old[j].start
                       /\ new[j].value >= old[j].value
                       /\ j < Len(old) => new[j] = old[j]]_vars
  BY SlicesNext DEF AllStand, Stands
<1>2. SlicesInv /\ [Next]_vars => SlicesInv'  BY SlicesNext
<1> QED  BY <1>1, <1>2, SlicesInit, PTL DEF Spec, HeldHistoriesStand

-----------------------------------------------------------------------------
(***************************************************************************)
(* The windows of what was added.                                            *)
(***************************************************************************)

\* f has the windows of the first k of what was added, for each k up to n.
IsAfter(f, length, start, xs, n) ==
    f = [k \in 0..n |->
           IF k = 0 THEN <<Counter(start, 0)>> ELSE Observe(length, f[k - 1], xs[k])]

\* What such a function has at k.
LEMMA AfterAt ==
    ASSUME NEW f, NEW length, NEW start, NEW xs, NEW n, IsAfter(f, length, start, xs, n),
           NEW k \in 0..n
    PROVE  /\ k = 0 => f[k] = <<Counter(start, 0)>>
           /\ \A j : k # 0 /\ j = k - 1 => f[k] = Observe(length, f[j], xs[k])
<1>1. PICK F : F = [j \in 0..n |->
                      IF j = 0 THEN <<Counter(start, 0)>>
                      ELSE Observe(length, f[j - 1], xs[j])]
  OBVIOUS
<1>2. F[k] = IF k = 0 THEN <<Counter(start, 0)>> ELSE Observe(length, f[k - 1], xs[k])
  BY <1>1
<1>3. f = F  BY <1>1, Zenon DEF IsAfter
<1> QED  BY <1>2, <1>3

\* There is such a function, for every n.
LEMMA AfterExists ==
    ASSUME NEW length, NEW start, NEW xs, NEW n \in Nat
    PROVE  \E f : IsAfter(f, length, start, xs, n)
<1> DEFINE first == <<Counter(start, 0)>>
           S == {m \in Nat : \E f : IsAfter(f, length, start, xs, m)}
<1>1. 0 \in S
  <2> DEFINE g == [k \in 0..0 |-> first]
             h == [k \in 0..0 |->
                     IF k = 0 THEN first ELSE Observe(length, g[k - 1], xs[k])]
  <2>1. \A k \in 0..0 : g[k] = h[k]  OBVIOUS
  <2>2. g = h  BY <2>1
  <2>3. IsAfter(g, length, start, xs, 0)  BY <2>2 DEF IsAfter
  <2> QED  BY <2>3
<1>2. ASSUME NEW m \in Nat, m \in S PROVE m + 1 \in S
  <2>1. PICK f : IsAfter(f, length, start, xs, m)  BY <1>2
  <2> DEFINE last == Observe(length, f[m], xs[m + 1])
             g == [k \in 0..(m + 1) |-> IF k = m + 1 THEN last ELSE f[k]]
             h == [k \in 0..(m + 1) |->
                     IF k = 0 THEN first ELSE Observe(length, g[k - 1], xs[k])]
  <2>2. ASSUME NEW k \in 0..(m + 1) PROVE g[k] = h[k]
    <3>1. CASE k = m + 1
      <4>1. k # 0 /\ g[k - 1] = f[m]  BY <3>1
      <4> QED  BY <3>1, <4>1
    <3>2. CASE k # m + 1
      <4>1. k \in 0..m  BY <3>2
      <4>2. CASE k = 0
        <5>1. f[k] = first  BY <2>1, <4>1, <4>2, AfterAt
        <5> QED  BY <3>2, <4>2, <5>1
      <4>3. CASE k # 0
        <5> PICK j : j = k - 1  OBVIOUS
        <5>1. f[k] = Observe(length, f[j], xs[k])  BY <2>1, <4>1, <4>3, AfterAt
        <5>2. j \in 0..(m + 1) /\ j # m + 1  BY <4>1, <4>3
        <5>3. g[j] = f[j]  BY <5>2
        <5> QED  BY <3>2, <4>3, <5>1, <5>3
      <4> QED  BY <4>2, <4>3
    <3> QED  BY <3>1, <3>2
  <2>3. g = h  BY <2>2
  <2>4. IsAfter(g, length, start, xs, m + 1)  BY <2>3 DEF IsAfter
  <2> QED  BY <2>4
<1> HIDE DEF S
<1>3. Nat \subseteq S  BY <1>1, <1>2, SetInduction
<1> QED  BY <1>3 DEF S

\* They agree where the sequences do.
LEMMA AfterAgrees ==
    ASSUME NEW length, NEW start, NEW xs, NEW ys, NEW n \in Nat, NEW m \in Nat, n <= m,
           NEW f, NEW g, IsAfter(f, length, start, xs, n), IsAfter(g, length, start, ys, m),
           \A i \in 1..n : xs[i] = ys[i]
    PROVE  \A i \in 0..n : f[i] = g[i]
<1> DEFINE S == {j \in Nat : j \in 0..n => f[j] = g[j]}
<1>1. 0 \in S
  <2>1. 0 \in 0..n /\ 0 \in 0..m  OBVIOUS
  <2>2. f[0] = <<Counter(start, 0)>>  BY <2>1, AfterAt
  <2>3. g[0] = <<Counter(start, 0)>>  BY <2>1, AfterAt
  <2> QED  BY <2>2, <2>3
<1>2. ASSUME NEW j \in Nat, j \in S PROVE j + 1 \in S
  <2> SUFFICES ASSUME j + 1 \in 0..n PROVE f[j + 1] = g[j + 1]  OBVIOUS
  <2> PICK p \in Nat : p = j + 1  OBVIOUS
  <2>1. p \in 0..n /\ p \in 0..m /\ p - 1 = j /\ p # 0 /\ p \in 1..n  OBVIOUS
  <2>2. f[p] = Observe(length, f[j], xs[p])  BY <2>1, AfterAt
  <2>3. g[p] = Observe(length, g[j], ys[p])  BY <2>1, AfterAt
  <2>4. f[j] = g[j]  BY <1>2, <2>1
  <2>5. xs[p] = ys[p]  BY <2>1
  <2>6. f[p] = g[p]  BY <2>1, <2>2, <2>3, <2>4, <2>5
  <2> QED  BY <2>6
<1> HIDE DEF S
<1>3. Nat \subseteq S  BY <1>1, <1>2, SetInduction
<1> QED  BY <1>3 DEF S

\* What WindowsOf takes is the last value of such a function.
LEMMA WindowsIsAfter ==
    ASSUME NEW length, NEW start, NEW xs, Len(xs) \in Nat
    PROVE  \E f : /\ IsAfter(f, length, start, xs, Len(xs))
                  /\ WindowsOf(length, start, xs) = f[Len(xs)]
<1> DEFINE f == CHOOSE g : IsAfter(g, length, start, xs, Len(xs))
<1>1. IsAfter(f, length, start, xs, Len(xs))  BY AfterExists
<1>2. WindowsOf(length, start, xs) = f[Len(xs)]  BY DEF WindowsOf, IsAfter
<1> HIDE DEF f
<1> QED  BY <1>1, <1>2

\* Before anything is added there is one window.
LEMMA WindowsEmpty ==
    ASSUME NEW length, NEW start
    PROVE  WindowsOf(length, start, <<>>) = <<Counter(start, 0)>>
<1> DEFINE xs == <<>>
<1>1. Len(xs) = 0  OBVIOUS
<1> HIDE DEF xs
<1>2. PICK f : /\ IsAfter(f, length, start, xs, Len(xs))
               /\ WindowsOf(length, start, xs) = f[Len(xs)]
  BY <1>1, WindowsIsAfter
<1>3. 0 \in 0..Len(xs)  BY <1>1
<1>4. f[0] = <<Counter(start, 0)>>  BY <1>2, <1>3, AfterAt
<1> QED  BY <1>1, <1>2, <1>4 DEF xs

\* What is added is observed after all that was added before.
LEMMA WindowsAppend ==
    ASSUME NEW length, NEW start, NEW xs \in Seq(Additions), NEW a \in Additions
    PROVE  WindowsOf(length, start, Append(xs, a))
             = Observe(length, WindowsOf(length, start, xs), a)
<1> DEFINE ys == Append(xs, a)
           n == Len(xs)
           m == Len(ys)
<1>1. /\ n \in Nat /\ m = n + 1 /\ ys[m] = a /\ \A i \in 1..n : xs[i] = ys[i]
  <2> HIDE DEF Additions
  <2> QED  BY AppendProperties
<1> HIDE DEF ys
<1>2. PICK f : IsAfter(f, length, start, xs, n) /\ WindowsOf(length, start, xs) = f[n]
  BY <1>1, WindowsIsAfter
<1>3. m \in Nat  BY <1>1
<1>4. PICK g : IsAfter(g, length, start, ys, m) /\ WindowsOf(length, start, ys) = g[m]
  BY <1>3, WindowsIsAfter
<1>5. n <= m /\ m \in 0..m /\ m # 0 /\ m - 1 = n /\ n \in 0..n  BY <1>1
<1> HIDE DEF n, m
<1>6. \A i \in 0..n : f[i] = g[i]  BY <1>1, <1>2, <1>3, <1>4, <1>5, AfterAgrees
<1>7. g[m] = Observe(length, g[n], ys[m])  BY <1>4, <1>5, AfterAt
<1> QED  BY <1>1, <1>2, <1>4, <1>5, <1>6, <1>7 DEF ys

-----------------------------------------------------------------------------
(***************************************************************************)
(* What Filter leaves of counters in the order of their start: the last ones *)
(* of them.                                                                  *)
(***************************************************************************)

\* No counter started after a later one.
InOrder(ws) == \A i, j \in DOMAIN ws : i <= j => ws[i].start <= ws[j].start

\* s are the elements of e after the first p up to the m-th, and these are the young
\* ones.
YoungTail(s, e, m, p) ==
    /\ s \in Seq(Counters) /\ Len(s) = m - p
    /\ \A j \in 1..(m - p) : s[j] = e[p + j]
    /\ \A j \in 1..m : Young(e[j]) <=> j > p

\* One element more: it is appended, or it is not young and no earlier one is.
LEMMA YoungTailNext ==
    ASSUME clock \in Nat, maxAge \in Nat, NEW e \in Seq(Counters), InOrder(e),
           NEW m \in Nat, NEW k \in DOMAIN e, k - 1 = m, NEW p \in 0..m,
           NEW s, YoungTail(s, e, m, p)
    PROVE  \E q \in 0..k : YoungTail(IF Young(e[k]) THEN Append(s, e[k]) ELSE s, e, k, q)
<1>1. /\ k \in Nat /\ k = m + 1 /\ e[k] \in Counters /\ p \in Nat /\ p <= m
      /\ s \in Seq(Counters) /\ Len(s) = m - p
      /\ \A j \in 1..m : e[j] \in Counters /\ j <= k /\ j \in DOMAIN e
  BY DEF YoungTail
<1>2. CASE Young(e[k])
  <2> DEFINE t == Append(s, e[k])
  <2>1. /\ t \in Seq(Counters) /\ Len(t) = Len(s) + 1 /\ t[Len(s) + 1] = e[k]
        /\ \A j \in 1..Len(s) : t[j] = s[j]
    <3> HIDE DEF Counters
    <3> QED  BY <1>1, AppendProperties
  <2> HIDE DEF t
  <2>2. Len(t) = k - p  BY <1>1, <2>1
  <2>3. ASSUME NEW j \in 1..(k - p) PROVE t[j] = e[p + j]
    <3>1. CASE j <= m - p
      <4>1. j \in 1..(m - p) /\ j \in 1..Len(s)  BY <1>1, <3>1
      <4>2. s[j] = e[p + j]  BY <4>1 DEF YoungTail
      <4> QED  BY <2>1, <4>1, <4>2
    <3>2. CASE ~(j <= m - p)
      <4>1. j = Len(s) + 1 /\ p + j = k  BY <1>1, <3>2
      <4> QED  BY <2>1, <4>1
    <3> QED  BY <3>1, <3>2
  <2>4. ASSUME NEW j \in 1..k PROVE Young(e[j]) <=> j > p
    <3>1. CASE j <= m
      <4>1. j \in 1..m  BY <1>1, <3>1
      <4> QED  BY <4>1 DEF YoungTail
    <3>2. CASE ~(j <= m)
      <4>1. j = k /\ k > p  BY <1>1, <3>2
      <4> QED  BY <1>2, <4>1
    <3> QED  BY <3>1, <3>2
  <2>5. YoungTail(t, e, k, p)  BY <2>1, <2>2, <2>3, <2>4 DEF YoungTail
  <2>6. p \in 0..k  BY <1>1
  <2> QED  BY <1>2, <2>5, <2>6 DEF t
<1>3. CASE ~Young(e[k])
  <2>1. ASSUME NEW j \in 1..m PROVE ~Young(e[j])
    <3>1. e[j].start <= e[k].start  BY <1>1 DEF InOrder
    <3>2. e[j].start \in Nat /\ e[k].start \in Nat  BY <1>1 DEF Counters
    <3> QED  BY <1>3, <3>1, <3>2 DEF Young
  <2>2. p = m
    <3>1. CASE p < m
      <4>1. m \in 1..m /\ m > p  BY <1>1, <3>1
      <4>2. Young(e[m])  BY <4>1 DEF YoungTail
      <4> QED  BY <2>1, <4>1, <4>2
    <3> QED  BY <1>1, <3>1
  <2>3. ASSUME NEW j \in 1..k PROVE ~Young(e[j])
    <3>1. j \in 1..m \/ j = k  BY <1>1
    <3> QED  BY <1>3, <2>1, <3>1
  <2>4. Len(s) = k - k /\ 1..(k - k) = {} /\ k \in 0..k /\ \A j \in 1..k : ~(j > k)
    BY <1>1, <2>2
  <2>5. YoungTail(s, e, k, k)  BY <1>1, <2>3, <2>4 DEF YoungTail
  <2> QED  BY <1>3, <2>4, <2>5
<1> QED  BY <1>2, <1>3

\* Filter leaves the young ones, which are the last.
LEMMA FilterTail ==
    ASSUME clock \in Nat, maxAge \in Nat, maxAge > 0, NEW e \in Seq(Counters), InOrder(e)
    PROVE  \E p \in 0..Len(e) : YoungTail(Filter(e), e, Len(e), p)
<1> DEFINE n == Len(e)
<1>1. n \in Nat /\ DOMAIN e = 1..n  OBVIOUS
<1>2. PICK f : IsKept(f, e, n) /\ Filter(e) = f[n]  BY <1>1, FilterIsKept
<1> DEFINE T == {m \in Nat : m \in 0..n => \E p \in 0..m : YoungTail(f[m], e, m, p)}
<1> HIDE DEF n
<1>3. 0 \in T
  <2>1. 0 \in 0..n  BY <1>1
  <2>2. f[0] = <<>>  BY <1>2, <2>1, KeptAt
  <2>3. f[0] \in Seq(Counters) /\ Len(f[0]) = 0 - 0 /\ 0 \in 0..0  BY <2>2, EmptySeq
  <2>4. 1..(0 - 0) = {} /\ 1..0 = {}  OBVIOUS
  <2>5. YoungTail(f[0], e, 0, 0)  BY <2>3, <2>4 DEF YoungTail
  <2> QED  BY <2>3, <2>5
<1>4. ASSUME NEW m \in Nat, m \in T PROVE m + 1 \in T
  <2> SUFFICES ASSUME m + 1 \in 0..n
               PROVE  \E q \in 0..(m + 1) : YoungTail(f[m + 1], e, m + 1, q)
    OBVIOUS
  <2> PICK k \in Nat : k = m + 1  OBVIOUS
  <2>1. k \in 0..n /\ k # 0 /\ k - 1 = m /\ k \in DOMAIN e /\ m \in 0..n
    BY <1>1
  <2>2. f[k] = IF Young(e[k]) THEN Append(f[m], e[k]) ELSE f[m]
    <3>1. f[k] = IF k = 0 THEN <<>>
                 ELSE IF Young(e[k]) THEN Append(f[k - 1], e[k]) ELSE f[k - 1]
      BY <1>2, <2>1, KeptAt
    <3> QED  BY <2>1, <3>1
  <2>3. PICK p \in 0..m : YoungTail(f[m], e, m, p)  BY <1>4, <2>1
  <2>4. \E q \in 0..k : YoungTail(f[k], e, k, q)
    <3> HIDE DEF T
    <3>1. PICK s : s = f[m]  OBVIOUS
    <3>2. YoungTail(s, e, m, p)  BY <2>3, <3>1
    <3>3. \E q \in 0..k : YoungTail(IF Young(e[k]) THEN Append(s, e[k]) ELSE s, e, k, q)
      BY <2>1, <3>2, YoungTailNext
    <3> QED  BY <2>2, <3>1, <3>3
  <2> QED  BY <2>4
<1> HIDE DEF T
<1>5. Nat \subseteq T  BY <1>3, <1>4, SetInduction
<1>6. n \in T /\ n \in 0..n  BY <1>1, <1>5
<1> QED  BY <1>2, <1>6 DEF T, n

-----------------------------------------------------------------------------
(***************************************************************************)
(* The history and the windows.  The history ends the closed windows, and     *)
(* those that it lacks will never be shown again: they stay too old, and      *)
(* there stay as many later ones.  So trimming what is left of them leaves    *)
(* what trimming all of them would leave.                                    *)
(***************************************************************************)

\* The counter c, which is the j-th of n windows, is too old to be shown, or there
\* are MaxHistory later ones.
Gone(c, j, n) ==
    (maxAge > 0 /\ ~Young(c)) \/ (maxHistory > 0 /\ j <= n - maxHistory)

\* The elements of a from x to y are the last ones of the first n of ws, and the
\* earlier ones of these are gone.
Ends(ws, n, a, x, y) ==
    /\ y - x + 1 <= n
    /\ \A i \in x..y : a[i] = ws[i + n - y]
    /\ \A j \in 1..(n - (y - x + 1)) : Gone(ws[j], j, n)

\* The same elements in a sequence of their own.
LEMMA EndsSlice ==
    ASSUME NEW ws, NEW n \in Nat, NEW a \in Seq(Counters), NEW s \in Slices,
           s.first <= s.last + 1, s.last <= Len(a), Ends(ws, n, a, s.first, s.last)
    PROVE  LET e == SubSeq(a, s.first, s.last) IN
           /\ e \in Seq(Counters) /\ Len(e) = s.last - s.first + 1
           /\ Ends(ws, n, e, 1, Len(e))
<1> DEFINE e == SubSeq(a, s.first, s.last)
<1>1. PICK x \in Nat \ {0}, y \in Nat : x = s.first /\ y = s.last  BY DEF Slices
<1> DEFINE m == y - x + 1
<1>2. /\ e \in Seq(Counters) /\ Len(e) = m /\ m \in Nat
      /\ \A i \in 1..m : e[i] = a[x + i - 1]
  <2>1. /\ e \in Seq(Counters)
        /\ Len(e) = IF s.first <= s.last THEN s.last - s.first + 1 ELSE 0
        /\ \A i \in 1..(s.last - s.first + 1) : e[i] = a[s.first + i - 1]
    BY SliceElements
  <2> HIDE DEF e
  <2> QED  BY <1>1, <2>1
<1> HIDE DEF e
<1>3. ASSUME NEW i \in 1..m PROVE e[i] = ws[i + n - m]
  <2>1. i \in Int /\ 1 <= i /\ i <= y - x + 1  OBVIOUS
  <2>2. x + i - 1 \in x..y  BY <2>1
  <2>3. (x + i - 1) + n - y = i + n - m  BY <2>1
  <2>4. a[x + i - 1] = ws[(x + i - 1) + n - y]  BY <1>1, <2>2 DEF Ends
  <2> QED  BY <1>2, <2>3, <2>4
<1>4. m <= n /\ \A j \in 1..(n - m) : Gone(ws[j], j, n)  BY <1>1 DEF Ends
<1>5. m - 1 + 1 = m  BY <1>2
<1> HIDE DEF m
<1>6. Ends(ws, n, e, 1, m)  BY <1>2, <1>3, <1>4, <1>5 DEF Ends
<1>7. Len(e) = s.last - s.first + 1  BY <1>1, <1>2 DEF m
<1> QED  BY <1>2, <1>6, <1>7 DEF e

\* What Cut leaves out has MaxHistory later ones, and what it leaves has not.
LEMMA EndsCut ==
    ASSUME maxHistory \in Nat, NEW ws, NEW n \in Nat, NEW a, NEW s \in Slices,
           s.first <= s.last + 1, Ends(ws, n, a, s.first, s.last)
    PROVE  /\ Ends(ws, n, a, Cut(s).first, Cut(s).last)
           /\ \A k \in (n - (Cut(s).last - Cut(s).first + 1) + 1)..n :
                 maxHistory > 0 => k > n - maxHistory
<1>1. PICK x \in Nat \ {0}, y \in Nat : x = s.first /\ y = s.last  BY DEF Slices
<1>2. PICK z \in Nat \ {0} : z = Cut(s).first /\ x <= z /\ z <= y + 1 /\ Cut(s).last = y
  BY <1>1, CutSlice DEF Slices
<1>3. z = IF maxHistory > 0 /\ y - x + 1 > maxHistory THEN y - maxHistory + 1 ELSE x
  BY <1>1, <1>2 DEF Cut, Slices
<1>4. y - z + 1 <= n  BY <1>1, <1>2 DEF Ends
<1>5. ASSUME NEW i \in z..y PROVE a[i] = ws[i + n - y]
  <2>1. i \in x..y  BY <1>2
  <2> QED  BY <1>1, <2>1 DEF Ends
<1>6. ASSUME NEW j \in 1..(n - (y - z + 1)) PROVE Gone(ws[j], j, n)
  <2>1. CASE j \in 1..(n - (y - x + 1))  BY <1>1, <2>1 DEF Ends
  <2>2. CASE j \notin 1..(n - (y - x + 1))
    <3>1. z # x  BY <2>2
    <3>2. maxHistory > 0 /\ z = y - maxHistory + 1  BY <1>3, <3>1
    <3>3. j <= n - maxHistory  BY <1>2, <3>2
    <3> QED  BY <3>2, <3>3 DEF Gone
  <2> QED  BY <2>1, <2>2
<1>7. ASSUME NEW k \in (n - (y - z + 1) + 1)..n, maxHistory > 0
      PROVE  k > n - maxHistory
  <2>1. y - z + 1 <= maxHistory  BY <1>2, <1>3, <1>7
  <2> QED  BY <1>2, <2>1
<1>8. Ends(ws, n, a, z, y)  BY <1>4, <1>5, <1>6 DEF Ends
<1> QED  BY <1>2, <1>7, <1>8

\* What Filter leaves out is too old, and what it leaves is not.
LEMMA EndsFilter ==
    ASSUME clock \in Nat, maxAge \in Nat, maxAge > 0, NEW ws \in Seq(Counters), InOrder(ws),
           NEW n \in Nat, n <= Len(ws), NEW e \in Seq(Counters), Ends(ws, n, e, 1, Len(e))
    PROVE  /\ Filter(e) \in Seq(Counters) /\ Len(Filter(e)) <= Len(e)
           /\ Ends(ws, n, Filter(e), 1, Len(Filter(e)))
           /\ \A k \in (n - Len(Filter(e)) + 1)..n : Young(ws[k])
<1> DEFINE y == Filter(e)
<1>1. PICK m \in Nat : m = Len(e) /\ m <= n /\ DOMAIN e = 1..m
  BY DEF Ends
<1>2. ASSUME NEW i \in 1..m PROVE e[i] = ws[i + n - m] /\ i + n - m \in DOMAIN ws
  <2>1. i \in 1..Len(e)  BY <1>1
  <2> QED  BY <1>1, <2>1 DEF Ends
<1>3. InOrder(e)
  <2> SUFFICES ASSUME NEW i \in DOMAIN e, NEW j \in DOMAIN e, i <= j
               PROVE  e[i].start <= e[j].start
    BY DEF InOrder
  <2>1. i \in 1..m /\ j \in 1..m  BY <1>1
  <2>2. i + n - m <= j + n - m  BY <2>1
  <2>3. ws[i + n - m].start <= ws[j + n - m].start  BY <1>2, <2>1, <2>2 DEF InOrder
  <2> QED  BY <1>2, <2>1, <2>3
<1>4. PICK p \in 0..m : YoungTail(y, e, m, p)  BY <1>1, <1>3, FilterTail
<1> HIDE DEF y
<1>5. y \in Seq(Counters) /\ Len(y) = m - p /\ m - p \in Nat /\ m - p <= m
  BY <1>4 DEF YoungTail
<1>6. ASSUME NEW i \in 1..(m - p) PROVE y[i] = ws[i + n - (m - p)]
  <2>1. p + i \in 1..m /\ (p + i) + n - m = i + n - (m - p)  BY <1>4
  <2>2. y[i] = e[p + i]  BY <1>4 DEF YoungTail
  <2>3. e[p + i] = ws[(p + i) + n - m]  BY <1>2, <2>1
  <2> QED  BY <2>1, <2>2, <2>3
<1>7. ASSUME NEW j \in 1..(n - (m - p)) PROVE Gone(ws[j], j, n)
  <2>1. CASE j \in 1..(n - m)
    <3>1. Len(e) - 1 + 1 = m  BY <1>1
    <3> QED  BY <2>1, <3>1 DEF Ends
  <2>2. CASE j \notin 1..(n - m)
    <3> DEFINE i == j - (n - m)
    <3>1. i \in 1..m /\ ~(i > p) /\ i + n - m = j  BY <1>1, <2>2
    <3>2. ~Young(e[i])  BY <1>4, <3>1 DEF YoungTail
    <3>3. e[i] = ws[j]  BY <1>2, <3>1
    <3> QED  BY <3>2, <3>3 DEF Gone
  <2> QED  BY <2>1, <2>2
<1>8. ASSUME NEW k \in (n - (m - p) + 1)..n PROVE Young(ws[k])
  <2> DEFINE i == k - (n - m)
  <2>1. i \in 1..m /\ i > p /\ i + n - m = k  BY <1>1
  <2>2. Young(e[i])  BY <1>4, <2>1 DEF YoungTail
  <2>3. e[i] = ws[k]  BY <1>2, <2>1
  <2> QED  BY <2>2, <2>3
<1>9. Ends(ws, n, y, 1, Len(y))
  <2>1. PICK l \in Nat : l = m - p /\ l = Len(y) /\ l <= n  BY <1>1, <1>5
  <2>2. l - 1 + 1 = l  OBVIOUS
  <2>3. \A i \in 1..l : y[i] = ws[i + n - l]  BY <1>6, <2>1
  <2>4. \A j \in 1..(n - l) : Gone(ws[j], j, n)  BY <1>7, <2>1
  <2>5. Ends(ws, n, y, 1, l)  BY <2>1, <2>2, <2>3, <2>4 DEF Ends
  <2> QED  BY <2>1, <2>5
<1>10. Len(y) <= Len(e)  BY <1>1, <1>5
<1> QED  BY <1>5, <1>8, <1>9, <1>10 DEF y

\* What follows the windows of a sequence is appended to it.
LEMMA EndsAppend ==
    ASSUME maxHistory \in Nat, NEW ws, NEW n \in Nat, NEW e \in Seq(Counters),
           NEW c \in Counters, Ends(ws, n - 1, e, 1, Len(e)), ws[n] = c
    PROVE  LET b == e \o <<c>> IN
           /\ b \in Seq(Counters) /\ Len(b) = Len(e) + 1
           /\ Ends(ws, n, b, 1, Len(b))
<1> DEFINE b == e \o <<c>>
<1>1. PICK m \in Nat : m = Len(e)  OBVIOUS
<1>2. /\ b \in Seq(Counters) /\ Len(b) = m + 1 /\ b[m + 1] = c
      /\ \A i \in 1..m : b[i] = e[i]
  <2> DEFINE d == <<c>>
  <2>1. d \in Seq(Counters) /\ Len(d) = 1 /\ d[1] = c  OBVIOUS
  <2> HIDE DEF d, Counters
  <2>2. /\ e \o d \in Seq(Counters) /\ Len(e \o d) = Len(e) + Len(d)
        /\ \A i \in 1..(Len(e) + Len(d)) :
              (e \o d)[i] = IF i <= Len(e) THEN e[i] ELSE d[i - Len(e)]
    BY <2>1, ConcatProperties
  <2>3. (m + 1) - m = 1 /\ m + 1 \in 1..(m + 1)  OBVIOUS
  <2> QED  BY <1>1, <2>1, <2>2, <2>3 DEF d
<1> HIDE DEF b
<1>3. m <= n - 1 /\ m - 1 + 1 = m  BY <1>1 DEF Ends
<1>4. ASSUME NEW i \in 1..(m + 1) PROVE b[i] = ws[i + n - (m + 1)]
  <2>1. CASE i \in 1..m
    <3>1. i + (n - 1) - m = i + n - (m + 1)  OBVIOUS
    <3>2. e[i] = ws[i + (n - 1) - m]  BY <1>1, <2>1 DEF Ends
    <3> QED  BY <1>2, <2>1, <3>1, <3>2
  <2>2. CASE i \notin 1..m
    <3>1. i = m + 1 /\ i + n - (m + 1) = n  BY <2>2
    <3> QED  BY <1>2, <3>1
  <2> QED  BY <2>1, <2>2
<1>5. ASSUME NEW j \in 1..(n - (m + 1)) PROVE Gone(ws[j], j, n)
  <2>1. j \in 1..((n - 1) - m)  OBVIOUS
  <2>2. Gone(ws[j], j, n - 1)  BY <1>1, <1>3, <2>1 DEF Ends
  <2> QED  BY <2>2 DEF Gone
<1>6. PICK l \in Nat : l = m + 1  OBVIOUS
<1>7. l - 1 + 1 = l /\ l <= n  BY <1>3, <1>6
<1>8. Ends(ws, n, b, 1, l)  BY <1>4, <1>5, <1>6, <1>7 DEF Ends
<1>9. Len(b) = l  BY <1>2, <1>6
<1> QED  BY <1>1, <1>2, <1>8, <1>9 DEF b

\* The same elements, still at their places in an array where one more was written.
LEMMA EndsWritten ==
    ASSUME maxHistory \in Nat, NEW ws, NEW n \in Nat, NEW a, NEW b, NEW x \in Nat, NEW y \in Nat,
           Ends(ws, n - 1, a, x, y), \A i \in x..y : b[i] = a[i], b[y + 1] = ws[n]
    PROVE  Ends(ws, n, b, x, y + 1)
<1>1. y - x + 1 <= n - 1  BY DEF Ends
<1>2. PICK z \in Nat : z = y + 1  OBVIOUS
<1>3. ASSUME NEW i \in x..z PROVE b[i] = ws[i + n - z]
  <2>1. CASE i \in x..y
    <3>1. i + (n - 1) - y = i + n - z  BY <1>2
    <3>2. a[i] = ws[i + (n - 1) - y]  BY <2>1 DEF Ends
    <3> QED  BY <2>1, <3>1, <3>2
  <2>2. CASE i \notin x..y
    <3>1. i = y + 1 /\ i + n - z = n  BY <1>2, <2>2
    <3> QED  BY <3>1
  <2> QED  BY <2>1, <2>2
<1>4. ASSUME NEW j \in 1..(n - (z - x + 1)) PROVE Gone(ws[j], j, n)
  <2>1. j \in 1..((n - 1) - (y - x + 1))  BY <1>2
  <2>2. Gone(ws[j], j, n - 1)  BY <2>1 DEF Ends
  <2> QED  BY <2>2 DEF Gone
<1>5. z - x + 1 <= n  BY <1>1, <1>2
<1>6. Ends(ws, n, b, x, z)  BY <1>3, <1>4, <1>5 DEF Ends
<1> QED  BY <1>2, <1>6

-----------------------------------------------------------------------------
(***************************************************************************)
(* The inductive invariant of HistoryIsExact.  That the windows which are     *)
(* missing are gone is what makes it inductive: of the windows themselves     *)
(* the counter keeps nothing.                                                *)
(***************************************************************************)
WindowsType ==
    /\ adds \in Seq(Additions) /\ began \in Nat
    /\ Windows \in Seq(Counters) /\ Len(Windows) > 0

\* The windows are in order, the last one is the current counter, and the history
\* ends the closed ones.
WindowsFit ==
    /\ Windows[Len(Windows)] = current /\ current.start <= clock
    /\ InOrder(Windows)
    /\ Ends(Windows, Len(Windows) - 1, array, hist.first, hist.last)

WindowsInv == SlicesInv /\ WindowsType /\ WindowsFit

\* What is left when nothing more is to be left out is what a caller may be shown.
LEMMA EndsShown ==
    ASSUME clock \in Nat, maxAge \in Nat, maxHistory \in Nat, NEW ws \in Seq(Counters),
           NEW y \in Seq(Counters), Ends(ws, Len(ws), y, 1, Len(y)),
           \A k \in (Len(ws) - Len(y) + 1)..Len(ws) :
              /\ maxAge > 0 => Young(ws[k])
              /\ maxHistory > 0 => k > Len(ws) - maxHistory
    PROVE  LET from == Len(ws) - Len(y) + 1 IN
           /\ y = SubSeq(ws, from, Len(ws))
           /\ Shown(ws) = from..Len(ws)
<1>1. PICK n \in Nat, m \in Nat : n = Len(ws) /\ m = Len(y) /\ m - 1 + 1 = m
  OBVIOUS
<1>2. m <= n /\ DOMAIN ws = 1..n  BY <1>1 DEF Ends
<1>3. PICK x \in Nat \ {0} : x = n - m + 1  BY <1>2
<1>4. y = SubSeq(ws, x, n)
  <2> DEFINE z == SubSeq(ws, x, n)
  <2>1. \A i \in x..n : ws[i] \in Counters  BY <1>1, <1>3
  <2>2. /\ z \in Seq(Counters) /\ Len(z) = IF x <= n THEN n - x + 1 ELSE 0
        /\ \A i \in 1..(n - x + 1) : z[i] = ws[x + i - 1]
    <3> HIDE DEF Counters
    <3> QED  BY <1>1, <1>3, <2>1, SubSeqProperties
  <2> HIDE DEF z
  <2>3. Len(z) = m /\ n - x + 1 = m  BY <1>2, <1>3, <2>2
  <2>4. ASSUME NEW i \in 1..m PROVE y[i] = z[i]
    <3>1. x + i - 1 = i + n - m  BY <1>3
    <3>2. y[i] = ws[i + n - m]  BY <1>1 DEF Ends
    <3> QED  BY <2>2, <2>3, <3>1, <3>2
  <2>5. y = z
    <3> HIDE DEF Counters
    <3> QED  BY <1>1, <2>2, <2>3, <2>4, SeqEqual
  <2> QED  BY <2>5 DEF z
<1>5. Shown(ws) = x..n
  <2>1. ASSUME NEW k \in x..n PROVE k \in Shown(ws)
    <3>1. k \in 1..n /\ k \in (Len(ws) - Len(y) + 1)..Len(ws)  BY <1>1, <1>3
    <3>2. /\ maxAge > 0 => Young(ws[k])
          /\ maxHistory > 0 => k > Len(ws) - maxHistory
      BY <3>1
    <3> QED  BY <1>2, <3>1, <3>2 DEF Shown, Young
  <2>2. ASSUME NEW k \in Shown(ws) PROVE k \in x..n
    <3>1. /\ k \in 1..n
          /\ maxAge > 0 => Young(ws[k])
          /\ maxHistory > 0 => k > n - maxHistory
      BY <1>1, <1>2 DEF Shown, Young
    <3>2. ~Gone(ws[k], k, n)  BY <3>1 DEF Gone
    <3>3. k \notin 1..(n - m)  BY <1>1, <3>2 DEF Ends
    <3> QED  BY <1>3, <3>1, <3>3
  <2> QED  BY <2>1, <2>2
<1> QED  BY <1>1, <1>3, <1>4, <1>5

\* Cut and Filter leave the last windows, and of those all that may be shown.
LEMMA TrimEnds ==
    ASSUME clock \in Nat, maxAge \in Nat, maxHistory \in Nat, NEW ws \in Seq(Counters),
           InOrder(ws), NEW n \in Nat, n <= Len(ws), NEW a \in Seq(Counters),
           NEW s \in Slices, s.first <= s.last + 1, s.last <= Len(a),
           Ends(ws, n, a, s.first, s.last)
    PROVE  LET y == Filter(SubSeq(a, Cut(s).first, Cut(s).last)) IN
           /\ y \in Seq(Counters) /\ Ends(ws, n, y, 1, Len(y))
           /\ \A k \in (n - Len(y) + 1)..n : /\ maxAge > 0 => Young(ws[k])
                                             /\ maxHistory > 0 => k > n - maxHistory
<1> DEFINE e == SubSeq(a, Cut(s).first, Cut(s).last)
<1>1. PICK z \in Slices : z = Cut(s) /\ z.last = s.last /\ z.first <= z.last + 1
  BY CutSlice
<1>2. /\ Ends(ws, n, a, z.first, z.last)
      /\ \A k \in (n - (z.last - z.first + 1) + 1)..n : maxHistory > 0 => k > n - maxHistory
  BY <1>1, EndsCut
<1>3. /\ e \in Seq(Counters) /\ Len(e) = z.last - z.first + 1 /\ Ends(ws, n, e, 1, Len(e))
  <2>1. e = SubSeq(a, z.first, z.last)  BY <1>1
  <2>2. z.last <= Len(a) /\ z.first <= z.last + 1 /\ Ends(ws, n, a, z.first, z.last)
    BY <1>1, <1>2
  <2> HIDE DEF e
  <2>3. LET d == SubSeq(a, z.first, z.last)
        IN d \in Seq(Counters) /\ Len(d) = z.last - z.first + 1 /\ Ends(ws, n, d, 1, Len(d))
    BY ONLY <2>2, EndsSlice, n \in Nat, a \in Seq(Counters), z \in Slices
  <2> QED  BY <2>1, <2>3
<1> HIDE DEF e
<1>4. CASE maxAge > 0
  <2>1. PICK y : y = Filter(e)  OBVIOUS
  <2>2. /\ y \in Seq(Counters) /\ Len(y) <= Len(e) /\ Ends(ws, n, y, 1, Len(y))
        /\ \A k \in (n - Len(y) + 1)..n : Young(ws[k])
    BY <1>3, <1>4, <2>1, EndsFilter
  <2>3. ASSUME NEW k \in (n - Len(y) + 1)..n, maxHistory > 0 PROVE k > n - maxHistory
    <3>1. Len(e) \in Nat /\ Len(y) \in Nat  BY <1>3, <2>2
    <3>2. k \in (n - Len(e) + 1)..n  BY <2>2, <3>1
    <3>3. k \in (n - (z.last - z.first + 1) + 1)..n  BY <1>3, <3>2
    <3> QED  BY <1>2, <2>3, <3>3
  <2> QED  BY <2>1, <2>2, <2>3 DEF e
<1>5. CASE ~(maxAge > 0)
  <2>1. Filter(e) = e  BY <1>5 DEF Filter
  <2> QED  BY <1>2, <1>3, <1>5, <2>1 DEF e
<1> QED  BY <1>4, <1>5

\* The elements of c.hist and the current counter end all windows.
LEMMA AllEnds ==
    ASSUME WindowsInv
    PROVE  LET all == Elements(hist) \o <<current>> IN
           /\ all \in Seq(Counters) /\ Ends(Windows, Len(Windows), all, 1, Len(all))
<1> DEFINE e == Elements(hist)
<1>1. PICK ws \in Seq(Counters) : ws = Windows  BY DEF WindowsInv, WindowsType
<1>2. PICK n \in Nat \ {0} : n = Len(ws)  BY <1>1 DEF WindowsInv, WindowsType
<1>3. /\ array \in Seq(Counters) /\ hist \in Slices /\ hist.first <= hist.last + 1
      /\ hist.last <= Len(array) /\ maxHistory \in Nat /\ current \in Counters
  BY DEF WindowsInv, SlicesInv, SlicesType, SlicesFit
<1>4. Ends(ws, n - 1, array, hist.first, hist.last) /\ ws[n] = current
  BY <1>1, <1>2 DEF WindowsInv, WindowsFit
<1>5. n - 1 \in Nat  BY <1>2
<1>6. e \in Seq(Counters) /\ Ends(ws, n - 1, e, 1, Len(e))
  BY <1>3, <1>4, <1>5, EndsSlice DEF Elements
<1> HIDE DEF e
<1>7. /\ e \o <<current>> \in Seq(Counters)
      /\ Ends(ws, n, e \o <<current>>, 1, Len(e \o <<current>>))
  BY <1>3, <1>4, <1>6, EndsAppend
<1> QED  BY <1>1, <1>2, <1>7 DEF e

\* The invariant says that the history is exact.
LEMMA ExactFromInv == WindowsInv => HistoryIsExact
<1> SUFFICES ASSUME WindowsInv PROVE HistoryIsExact  OBVIOUS
<1> DEFINE all  == Elements(hist) \o <<current>>
           s    == [first |-> 1, last |-> Len(all)]
           seen == Filter(SubSeq(all, Cut(s).first, Len(all)))
<1>1. PICK ws \in Seq(Counters) : ws = Windows  BY DEF WindowsInv, WindowsType
<1>2. PICK n \in Nat : n = Len(ws) /\ n <= Len(ws)  BY <1>1
<1>3. /\ clock \in Nat /\ maxAge \in Nat /\ maxHistory \in Nat /\ InOrder(ws)
      /\ ws[n] = current
  BY <1>1, <1>2 DEF WindowsInv, WindowsFit, SlicesInv, SlicesType
<1>4. all \in Seq(Counters) /\ Ends(ws, n, all, 1, Len(all))  BY <1>1, <1>2, AllEnds
<1>5. /\ s \in Slices /\ s.first = 1 /\ s.last = Len(all) /\ s.first <= s.last + 1
      /\ s.last <= Len(all)
  <2>1. Len(all) \in Nat  BY <1>4
  <2> HIDE DEF all
  <2> QED  BY <2>1 DEF Slices
<1>6. Cut(s).last = Len(all)
  <2> HIDE DEF s, all
  <2> QED  BY <1>3, <1>5, CutSlice
<1>7. seen = Filter(SubSeq(all, Cut(s).first, Cut(s).last))  BY <1>6
<1>8. /\ seen \in Seq(Counters) /\ Ends(ws, n, seen, 1, Len(seen))
      /\ \A k \in (n - Len(seen) + 1)..n : /\ maxAge > 0 => Young(ws[k])
                                           /\ maxHistory > 0 => k > n - maxHistory
  <2>1. Ends(ws, n, all, s.first, s.last)  BY <1>4, <1>5
  <2> HIDE DEF s, all, seen
  <2> QED  BY <1>2, <1>3, <1>4, <1>5, <1>7, <2>1, TrimEnds
<1> HIDE DEF seen
<1>9. /\ seen = SubSeq(ws, n - Len(seen) + 1, n)
      /\ Shown(ws) = (n - Len(seen) + 1)..n
  BY <1>2, <1>3, <1>8, EndsShown
<1> QED  BY <1>1, <1>2, <1>3, <1>9 DEF HistoryIsExact, seen

\* While time passes the windows that are gone stay gone.
LEMMA EndsFrame ==
    ASSUME maxAge' = maxAge, maxHistory' = maxHistory, maxAge \in Nat, clock \in Nat, clock' \in Nat,
           clock <= clock', NEW ws \in Seq(Counters), NEW n \in Nat, n <= Len(ws), NEW a,
           NEW x \in Nat \ {0}, NEW y \in Nat, x <= y + 1, Ends(ws, n, a, x, y),
           NEW vs, \A j \in 1..n : vs[j] = ws[j], NEW b, \A i \in x..y : b[i] = a[i]
    PROVE  Ends(vs, n, b, x, y)'
<1>1. y - x + 1 <= n  BY DEF Ends
<1>2. ASSUME NEW i \in x..y PROVE b[i] = vs[i + n - y]
  <2>1. i + n - y \in 1..n  BY <1>1
  <2>2. a[i] = ws[i + n - y]  BY DEF Ends
  <2> QED  BY <2>1, <2>2
<1>3. ASSUME NEW j \in 1..(n - (y - x + 1))
      PROVE  /\ vs[j] = ws[j]
             /\ \/ maxAge' > 0 /\ ~(clock' - ws[j].start <= maxAge')
                \/ maxHistory' > 0 /\ j <= n - maxHistory'
  <2>1. j \in 1..n /\ j \in 1..Len(ws)  BY <1>1
  <2>2. Gone(ws[j], j, n)  BY DEF Ends
  <2>3. ws[j].start \in Nat
    <3>1. ws[j] \in Counters  BY <2>1
    <3> QED  BY <3>1 DEF Counters
  <2>4. ~(clock - ws[j].start <= maxAge) => ~(clock' - ws[j].start <= maxAge)  BY <2>3
  <2> QED  BY <2>1, <2>2, <2>4 DEF Gone, Young
<1> QED  BY <1>1, <1>2, <1>3 DEF Ends, Gone, Young

\* The windows and c.hist after a step are the ones named.
LEMMA EndsNext ==
    ASSUME NEW vs, NEW n, NEW b, NEW x, NEW y, Ends(vs, n, b, x, y)',
           vs = Windows', n = Len(Windows') - 1, b = array', x = hist'.first, y = hist'.last
    PROVE  Ends(Windows, Len(Windows) - 1, array, hist.first, hist.last)'
BY DEF Ends, Gone, Young

\* The windows are a function of the length, the beginning and what was added.
LEMMA WindowsPrimed ==
    /\ Windows = WindowsOf(duration, began, adds)
    /\ Windows' = WindowsOf(duration', began', adds')
BY DEF Windows, WindowsOf, Observe

\* A step that adds nothing: the windows stay, and so do the elements of c.hist.
LEMMA WindowsSame ==
    ASSUME WindowsInv, SlicesInv', UNCHANGED <<config, current, hist, began, adds>>,
           clock <= clock', \A i \in 1..hist.last : array'[i] = array[i]
    PROVE  WindowsInv'
<1>1. Windows' = Windows
  <2>1. UNCHANGED <<duration, began, adds>>  BY DEF config
  <2> QED  BY <2>1, WindowsPrimed
<1>2. WindowsType'  BY <1>1 DEF WindowsInv, WindowsType
<1>3. PICK ws \in Seq(Counters) : ws = Windows /\ Len(ws) > 0
  BY DEF WindowsInv, WindowsType
<1>4. PICK n \in Nat : n = Len(ws) - 1 /\ n <= Len(ws)
  <2>1. PICK l \in Nat : l = Len(ws) /\ l > 0  BY <1>3
  <2>2. l - 1 \in Nat /\ l - 1 <= l  BY <2>1
  <2> QED  BY <2>1, <2>2
<1>5. /\ maxAge \in Nat /\ clock \in Nat /\ clock' \in Nat /\ current.start \in Nat
      /\ hist \in Slices /\ hist.first <= hist.last + 1 /\ current.start <= clock
  BY DEF WindowsInv, WindowsFit, SlicesInv, SlicesType, SlicesFit, Counters
<1>6. PICK x \in Nat \ {0}, y \in Nat : x = hist.first /\ y = hist.last /\ x <= y + 1
  BY <1>5 DEF Slices
<1>7. PICK a : a = array /\ Ends(ws, n, a, x, y)
  BY <1>3, <1>4, <1>6 DEF WindowsInv, WindowsFit
<1>8. Ends(Windows, Len(Windows) - 1, array, hist.first, hist.last)'
  <2>1. maxAge' = maxAge /\ maxHistory' = maxHistory  BY DEF config
  <2>2. PICK vs : vs = Windows' /\ \A j \in 1..n : vs[j] = ws[j]  BY <1>1, <1>3, <1>4
  <2>3. PICK b : b = array' /\ \A i \in x..y : b[i] = a[i]  BY <1>6, <1>7
  <2>4. n <= Len(ws) /\ x <= y + 1 /\ Ends(ws, n, a, x, y)  BY <1>4, <1>6, <1>7
  <2>5. maxAge \in Nat /\ clock \in Nat /\ clock' \in Nat /\ clock <= clock'  BY <1>5
  <2>6. Ends(vs, n, b, x, y)'
    BY ONLY <2>1, <2>2, <2>3, <2>4, <2>5, EndsFrame,
            ws \in Seq(Counters), n \in Nat, x \in Nat \ {0}, y \in Nat
  <2>7. n = Len(Windows') - 1 /\ x = hist'.first /\ y = hist'.last
    BY <1>1, <1>3, <1>4, <1>6
  <2> QED  BY ONLY <2>2, <2>3, <2>6, <2>7, EndsNext
<1>9. WindowsFit'
  <2>1. current'.start <= clock'  BY <1>5
  <2>2. Windows'[Len(Windows')] = current'  BY <1>1 DEF WindowsInv, WindowsFit
  <2>3. InOrder(Windows)'  BY <1>1 DEF WindowsInv, WindowsFit, InOrder
  <2> QED  BY <1>8, <2>1, <2>2, <2>3 DEF WindowsFit
<1> QED  BY <1>2, <1>9 DEF WindowsInv

\* HistoryInclusive writes behind the elements of c.hist.
LEMMA WindowsInclusive ==
    ASSUME WindowsInv, SlicesInv', HistoryInclusive
    PROVE  WindowsInv'
<1>1. UNCHANGED <<config, clock, hist, current, began, adds>>  BY DEF HistoryInclusive
<1>2. array' = Written \/ array' = array
  <2>1. CASE Spare  BY <2>1 DEF HistoryInclusive
  <2>2. CASE ~Spare  BY <2>2 DEF HistoryInclusive
  <2> QED  BY <2>1, <2>2
<1>3. \A i \in 1..hist.last : array'[i] = array[i]
  <2>1. SlicesInv  BY DEF WindowsInv
  <2>2. \A i \in 1..hist.last : Written[i] = array[i]  BY <2>1, WrittenElements
  <2> QED  BY <1>2, <2>2
<1>4. clock <= clock'
  <2>1. clock \in Nat  BY DEF WindowsInv, SlicesInv, SlicesType
  <2> QED  BY <1>1, <2>1
<1> QED  BY <1>1, <1>3, <1>4, WindowsSame

\* Add counts in the last window.
LEMMA WindowsAdd ==
    ASSUME WindowsInv, SlicesInv', NEW n \in Amounts, Add(n)
    PROVE  WindowsInv'
<1>1. PICK ws \in Seq(Counters) : ws = Windows /\ Len(ws) > 0
  BY DEF WindowsInv, WindowsType
<1>2. PICK m \in Nat : m = Len(ws) - 1 /\ m <= Len(ws)
  <2>1. PICK l \in Nat : l = Len(ws) /\ l > 0  BY <1>1
  <2>2. l - 1 \in Nat /\ l - 1 <= l  BY <2>1
  <2> QED  BY <2>1, <2>2
<1>3. PICK l \in Nat \ {0} : l = Len(ws) /\ l = m + 1 /\ DOMAIN ws = 1..l  BY <1>1, <1>2
<1> DEFINE a == [at |-> clock, n |-> n]
<1>4. /\ maxAge \in Nat /\ clock \in Nat /\ n \in Nat /\ a \in Additions
      /\ current \in Counters /\ ws[l] = current /\ current.start <= clock
      /\ current.start \in Nat /\ current.value \in Nat
      /\ hist \in Slices /\ hist.first <= hist.last + 1
      /\ adds \in Seq(Additions) /\ InOrder(ws)
  BY <1>1, <1>3, CounterAssumption
  DEF WindowsInv, WindowsType, WindowsFit, SlicesInv, SlicesType, SlicesFit, Counters, Additions
<1>5. /\ adds' = Append(adds, a) /\ current' = [current EXCEPT !.value = current.value + n]
      /\ UNCHANGED <<config, clock, array, hist, began>>
  BY DEF Add, Added
<1>6. Windows' = [ws EXCEPT ![l] = current']
  <2>1. Windows' = Observe(duration, ws, a)
    <3>1. Windows' = WindowsOf(duration, began, Append(adds, a))
      BY <1>5, WindowsPrimed DEF config
    <3> HIDE DEF a
    <3>2. WindowsOf(duration, began, Append(adds, a))
            = Observe(duration, WindowsOf(duration, began, adds), a)
      BY <1>4, WindowsAppend
    <3> QED  BY <1>1, <3>1, <3>2, WindowsPrimed
  <2>2. duration = 0 \/ a.at < ws[l].start + duration
    BY <1>4 DEF Add, InWindow, End
  <2>3. Observe(duration, ws, a) = [ws EXCEPT ![l].value = ws[l].value + a.n]
    BY <1>3, <2>2 DEF Observe
  <2>4. [ws EXCEPT ![l].value = ws[l].value + a.n] = [ws EXCEPT ![l] = current']
    BY <1>3, <1>4, <1>5
  <2> QED  BY <2>1, <2>3, <2>4
<1>7. current' \in Counters /\ current'.start = current.start
  <2>1. current = [start |-> current.start, value |-> current.value]
    BY <1>4 DEF Counters
  <2>2. current' = [start |-> current.start, value |-> current.value + n]
    BY <1>5, <2>1
  <2> QED  BY <1>4, <2>2 DEF Counters
<1>8. /\ Windows' \in Seq(Counters) /\ Len(Windows') = l /\ DOMAIN Windows' = 1..l
      /\ Windows'[l] = current' /\ \A j \in 1..m : Windows'[j] = ws[j]
  <2> HIDE DEF Counters, a
  <2> QED  BY <1>2, <1>3, <1>6, <1>7, ExceptSeq
<1>9. WindowsType'
  <2>1. adds' \in Seq(Additions)
    <3> HIDE DEF Additions, a
    <3> QED  BY <1>4, <1>5
  <2> QED  BY <1>5, <1>8, <2>1 DEF WindowsInv, WindowsType
<1>10. InOrder(Windows)'
  <2>1. \A j \in 1..l : Windows'[j].start = ws[j].start
    <3>1. \A j \in 1..l : j \in 1..m \/ j = l  BY <1>3
    <3> QED  BY <1>4, <1>7, <1>8, <3>1
  <2>2. \A i, j \in 1..l : i <= j => ws[i].start <= ws[j].start  BY <1>3, <1>4 DEF InOrder
  <2> QED  BY <1>8, <2>1, <2>2 DEF InOrder
<1>11. Ends(Windows, Len(Windows) - 1, array, hist.first, hist.last)'
  <2>1. PICK x \in Nat \ {0}, y \in Nat : x = hist.first /\ y = hist.last /\ x <= y + 1
    BY <1>4 DEF Slices
  <2>2. PICK b : b = array /\ Ends(ws, m, b, x, y)
    BY <1>1, <1>2, <2>1 DEF WindowsInv, WindowsFit
  <2>3. maxAge' = maxAge /\ maxHistory' = maxHistory  BY <1>5 DEF config
  <2>4. PICK vs : vs = Windows' /\ \A j \in 1..m : vs[j] = ws[j]  BY <1>3, <1>8
  <2>5. PICK c : c = array' /\ \A i \in x..y : c[i] = b[i]  BY <1>5, <2>1, <2>2
  <2>6. clock' \in Nat /\ clock <= clock'  BY <1>4, <1>5
  <2>7. m <= Len(ws) /\ x <= y + 1 /\ Ends(ws, m, b, x, y)  BY <1>2, <2>1, <2>2
  <2>8. maxAge \in Nat /\ clock \in Nat  BY <1>4
  <2>9. Ends(vs, m, c, x, y)'
    BY ONLY <2>3, <2>4, <2>5, <2>6, <2>7, <2>8, EndsFrame,
            ws \in Seq(Counters), m \in Nat, x \in Nat \ {0}, y \in Nat
  <2>10. m = Len(Windows') - 1 /\ x = hist'.first /\ y = hist'.last
    BY <1>3, <1>5, <1>8, <2>1
  <2> QED  BY ONLY <2>4, <2>5, <2>9, <2>10, EndsNext
<1>12. WindowsFit'
  <2>1. current'.start <= clock'  BY <1>4, <1>5, <1>7
  <2>2. Windows'[Len(Windows')] = current'  BY <1>8
  <2> QED  BY <1>10, <1>11, <2>1, <2>2 DEF WindowsFit
<1> QED  BY <1>9, <1>12 DEF WindowsInv

\* Add after the end of the window opens the next one, and Roll adds the closed one to
\* the history before it trims that.
LEMMA WindowsRoll ==
    ASSUME WindowsInv, SlicesInv', NEW n \in Amounts, Roll(n)
    PROVE  WindowsInv'
<1>1. PICK ws \in Seq(Counters) : ws = Windows /\ Len(ws) > 0
  BY DEF WindowsInv, WindowsType
<1>2. PICK l \in Nat \ {0} : l = Len(ws) /\ l <= Len(ws) /\ DOMAIN ws = 1..l  BY <1>1
<1> DEFINE a == [at |-> clock, n |-> n]
           c == Counter(clock, n)
<1>3. /\ maxAge \in Nat /\ maxHistory \in Nat /\ clock \in Nat /\ n \in Nat
      /\ a \in Additions /\ c \in Counters /\ c.start = clock
      /\ ws[l] = current /\ current.start <= clock /\ current.start \in Nat
      /\ adds \in Seq(Additions) /\ InOrder(ws) /\ SlicesInv
  BY <1>1, <1>2, CounterAssumption
  DEF WindowsInv, WindowsType, WindowsFit, SlicesInv, SlicesType, Counter, Counters, Additions
<1>4. /\ adds' = Append(adds, a) /\ current' = c
      /\ UNCHANGED <<config, clock, began>>
  BY DEF Roll, Added
<1>5. Windows' = Append(ws, c)
  <2>1. Windows' = Observe(duration, ws, a)
    <3>1. Windows' = WindowsOf(duration, began, Append(adds, a))
      BY <1>4, WindowsPrimed DEF config
    <3> HIDE DEF a
    <3>2. WindowsOf(duration, began, Append(adds, a))
            = Observe(duration, WindowsOf(duration, began, adds), a)
      BY <1>3, WindowsAppend
    <3> QED  BY <1>1, <3>1, <3>2, WindowsPrimed
  <2>2. ~(duration = 0 \/ a.at < ws[l].start + duration)
    BY <1>3 DEF Roll, InWindow, End
  <2>3. Observe(duration, ws, a) = Append(ws, Counter(a.at, a.n))
    BY <1>2, <2>2 DEF Observe
  <2> QED  BY <2>1, <2>3
<1> HIDE DEF c
<1>6. /\ Windows' \in Seq(Counters) /\ Len(Windows') = l + 1
      /\ Windows'[l + 1] = c /\ \A j \in 1..l : Windows'[j] = ws[j]
  <2> HIDE DEF Counters, a
  <2> QED  BY <1>2, <1>3, <1>5, AppendProperties
<1>7. WindowsType'
  <2>1. adds' \in Seq(Additions)
    <3> HIDE DEF Additions, a
    <3> QED  BY <1>3, <1>4
  <2>2. began' \in Nat  BY <1>4 DEF WindowsInv, WindowsType
  <2> QED  BY <1>6, <2>1, <2>2 DEF WindowsType
<1>8. \A j \in 1..l : ws[j].start <= clock
  <2> SUFFICES ASSUME NEW j \in 1..l PROVE ws[j].start <= clock  OBVIOUS
  <2>1. ws[j].start <= ws[l].start  BY <1>2, <1>3 DEF InOrder
  <2>2. ws[j] \in Counters  BY <1>2
  <2>3. ws[j].start \in Nat  BY <2>2 DEF Counters
  <2> QED  BY <1>3, <2>1, <2>3
<1>9. InOrder(Windows)'
  <2> SUFFICES ASSUME NEW i \in 1..(l + 1), NEW j \in 1..(l + 1), i <= j
               PROVE  Windows'[i].start <= Windows'[j].start
    BY <1>6 DEF InOrder
  <2>1. CASE j = l + 1
    <3>1. Windows'[j].start = clock  BY <1>3, <1>6, <2>1
    <3>2. CASE i = l + 1  BY <1>3, <2>1, <3>1, <3>2
    <3>3. CASE i # l + 1
      <4>1. i \in 1..l  BY <3>3
      <4> QED  BY <1>6, <1>8, <3>1, <4>1
    <3> QED  BY <3>2, <3>3
  <2>2. CASE j # l + 1
    <3>1. i \in 1..l /\ j \in 1..l  BY <2>2
    <3>2. ws[i].start <= ws[j].start  BY <1>2, <1>3, <3>1 DEF InOrder
    <3> QED  BY <1>6, <3>1, <3>2
  <2> QED  BY <2>1, <2>2
<1>10. /\ Rolled \in Seq(Counters) /\ RolledSlice \in Slices
       /\ RolledSlice.first <= RolledSlice.last + 1 /\ RolledSlice.last = Len(Rolled)
       /\ IF Spare THEN RolledSlice.first = hist.first /\ RolledSlice.last = hist.last + 1
          ELSE RolledSlice.first = 1
  BY <1>3, RollParts
<1>11. Ends(ws, l, Rolled, RolledSlice.first, RolledSlice.last)
  <2>1. CASE Spare
    <3>1. PICK x \in Nat, y \in Nat : x = hist.first /\ y = hist.last
      BY <1>3 DEF SlicesInv, SlicesType, Slices
    <3>2. PICK b : b = array /\ Ends(ws, l - 1, b, x, y)
      BY <1>1, <1>2, <3>1 DEF WindowsInv, WindowsFit
    <3>3. PICK d : d = Written  OBVIOUS
    <3>4. d[y + 1] = ws[l] /\ \A i \in 1..y : d[i] = b[i]
      BY <1>3, <3>1, <3>2, <3>3, WrittenElements
    <3>5. x # 0  BY <3>1, <1>3 DEF SlicesInv, SlicesType, Slices
    <3>6. \A i \in x..y : d[i] = b[i]  BY <3>4, <3>5
    <3>7. Ends(ws, l, d, x, y + 1)  BY <1>3, <3>2, <3>4, <3>6, EndsWritten
    <3>8. Rolled = d  BY <2>1, <3>3 DEF Rolled
    <3>9. RolledSlice.first = x /\ RolledSlice.last = y + 1  BY <1>10, <2>1, <3>1
    <3> QED  BY <3>7, <3>8, <3>9
  <2>2. CASE ~Spare
    <3>1. Rolled = Elements(hist) \o <<current>>  BY <2>2 DEF Rolled
    <3>2. Ends(ws, l, Rolled, 1, Len(Rolled))  BY <1>1, <1>2, <3>1, AllEnds
    <3> QED  BY <1>10, <2>2, <3>2
  <2> QED  BY <2>1, <2>2
<1>12. PICK x \in Nat \ {0}, y \in Nat :
          /\ x = hist'.first /\ y = hist'.last /\ x <= y + 1
          /\ Ends(ws, l, array', x, y)
  <2>1. hist' \in Slices /\ hist'.first <= hist'.last + 1
    BY DEF SlicesInv, SlicesType, SlicesFit
  <2>2. Ends(ws, l, array', hist'.first, hist'.last)
    <3>1. CASE maxAge > 0
      <4> DEFINE young == Filter(SubSeq(Rolled, Cut(RolledSlice).first, Cut(RolledSlice).last))
      <4>1. array' = young /\ hist' = [first |-> 1, last |-> Len(young)]
        BY <3>1 DEF Roll, Rolled, RolledSlice
      <4>2. Ends(ws, l, young, 1, Len(young))
        <5>1. RolledSlice.last <= Len(Rolled)  BY <1>10
        <5> QED  BY <1>2, <1>3, <1>10, <1>11, <5>1, TrimEnds
      <4> HIDE DEF young
      <4>3. hist'.first = 1 /\ hist'.last = Len(young)  BY <4>1
      <4> QED  BY <4>1, <4>2, <4>3
    <3>2. CASE ~(maxAge > 0)
      <4>1. array' = Rolled /\ hist' = Cut(RolledSlice)
        BY <3>2 DEF Roll, Rolled, RolledSlice
      <4>2. Ends(ws, l, Rolled, Cut(RolledSlice).first, Cut(RolledSlice).last)
        BY <1>3, <1>10, <1>11, EndsCut
      <4> QED  BY <4>1, <4>2
    <3> QED  BY <3>1, <3>2
  <2> QED  BY <2>1, <2>2 DEF Slices
<1>13. Ends(Windows, Len(Windows) - 1, array, hist.first, hist.last)'
  <2>1. PICK b : b = array' /\ Ends(ws, l, b, x, y)  BY <1>12
  <2>2. maxAge' = maxAge /\ maxHistory' = maxHistory  BY <1>4 DEF config
  <2>3. PICK m \in Nat : m = l  OBVIOUS
  <2>4. PICK vs : vs = Windows' /\ \A j \in 1..m : vs[j] = ws[j]  BY <1>6, <2>3
  <2>5. PICK d : d = array' /\ \A i \in x..y : d[i] = b[i]  BY <2>1
  <2>6. clock' \in Nat /\ clock <= clock'  BY <1>3, <1>4
  <2>7. m <= Len(ws) /\ x <= y + 1 /\ Ends(ws, m, b, x, y)  BY <1>2, <1>12, <2>1, <2>3
  <2>8. maxAge \in Nat /\ clock \in Nat  BY <1>3
  <2>9. Ends(vs, m, d, x, y)'
    BY ONLY <2>2, <2>4, <2>5, <2>6, <2>7, <2>8, EndsFrame,
            ws \in Seq(Counters), m \in Nat, x \in Nat \ {0}, y \in Nat
  <2>10. m = Len(Windows') - 1 /\ x = hist'.first /\ y = hist'.last
    BY <1>6, <1>12, <2>3
  <2> QED  BY ONLY <2>4, <2>5, <2>9, <2>10, EndsNext
<1>14. WindowsFit'
  <2>1. current'.start <= clock'  BY <1>3, <1>4
  <2>2. Windows'[Len(Windows')] = current'  BY <1>4, <1>6
  <2> QED  BY <1>9, <1>13, <2>1, <2>2 DEF WindowsFit
<1> QED  BY <1>7, <1>14 DEF WindowsInv

\* One window, no history.
LEMMA WindowsOne ==
    ASSUME NEW c \in Counters, c.start <= clock, Windows = <<c>>, current = c, hist = None
    PROVE  WindowsFit /\ Windows \in Seq(Counters) /\ Len(Windows) > 0
<1> DEFINE ws == <<c>>
<1>1. ws \in Seq(Counters) /\ Len(ws) = 1 /\ ws[1] = c /\ DOMAIN ws = {1}  OBVIOUS
<1> HIDE DEF ws
<1>2. InOrder(ws)
  <2>1. c.start <= c.start  BY DEF Counters
  <2> QED  BY <1>1, <2>1 DEF InOrder
<1>3. hist.first = 1 /\ hist.last = 0  BY DEF None
<1>4. Ends(ws, 0, array, 1, 0)  BY DEF Ends
<1>5. Ends(ws, Len(ws) - 1, array, hist.first, hist.last)
  <2>1. Len(ws) - 1 = 0  BY <1>1
  <2> QED  BY <1>3, <1>4, <2>1
<1> QED  BY <1>1, <1>2, <1>5 DEF WindowsFit, ws

\* At first, and after Reset.
LEMMA WindowsInit == Init => WindowsInv
<1> SUFFICES ASSUME Init PROVE WindowsInv  OBVIOUS
<1>1. Windows = <<Counter(0, 0)>>
  BY WindowsPrimed, WindowsEmpty DEF Init
<1>2. Counter(0, 0) \in Counters /\ Counter(0, 0).start = 0  BY DEF Counter, Counters
<1>3. clock = 0 /\ current = Counter(0, 0) /\ hist = None /\ began = 0 /\ adds = <<>>
  BY DEF Init
<1>4. adds \in Seq(Additions)  BY <1>3, EmptySeq
<1>5. WindowsFit /\ Windows \in Seq(Counters) /\ Len(Windows) > 0
  BY <1>1, <1>2, <1>3, WindowsOne
<1> QED  BY <1>3, <1>4, <1>5, SlicesInit DEF WindowsInv, WindowsType

LEMMA WindowsReset ==
    ASSUME WindowsInv, SlicesInv', Reset
    PROVE  WindowsInv'
<1>1. /\ clock \in Nat /\ clock' = clock /\ current' = Counter(clock, 0) /\ hist' = None
      /\ began' = clock /\ adds' = <<>>
  BY DEF Reset, WindowsInv, SlicesInv, SlicesType
<1>2. Windows' = <<Counter(clock, 0)>>
  BY <1>1, WindowsPrimed, WindowsEmpty
<1>3. PICK c \in Counters : c = Counter(clock, 0) /\ c.start = clock
  BY <1>1 DEF Counter, Counters
<1>4. adds' \in Seq(Additions)  BY <1>1, EmptySeq
<1>5. c.start <= clock' /\ Windows' = <<c>> /\ current' = c /\ hist' = None
  BY <1>1, <1>2, <1>3
<1>6. (WindowsFit /\ Windows \in Seq(Counters) /\ Len(Windows) > 0)'
  <2> DEFINE ws == <<c>>
  <2>1. ws \in Seq(Counters) /\ Len(ws) = 1 /\ ws[1] = c /\ DOMAIN ws = {1}  OBVIOUS
  <2> HIDE DEF ws
  <2>2. c.start <= c.start  BY DEF Counters
  <2>3. Windows' = ws  BY <1>5 DEF ws
  <2>4. InOrder(Windows)'  BY <2>1, <2>2, <2>3 DEF InOrder
  <2>5. hist'.first = 1 /\ hist'.last = 0  BY <1>5 DEF None
  <2>6. Len(Windows') - 1 = 0  BY <2>1, <2>3
  <2>7. Ends(Windows, Len(Windows) - 1, array, hist.first, hist.last)'
    <3>1. 0 - 1 + 1 <= 0 /\ 1..0 = {} /\ 1..(0 - (0 - 1 + 1)) = {}  OBVIOUS
    <3> PICK n, x, y : n = Len(Windows') - 1 /\ x = hist'.first /\ y = hist'.last  OBVIOUS
    <3>2. n = 0 /\ x = 1 /\ y = 0  BY <2>5, <2>6
    <3>3. y - x + 1 <= n /\ x..y = {} /\ 1..(n - (y - x + 1)) = {}  BY <3>1, <3>2
    <3> QED  BY <3>3 DEF Ends
  <2> QED  BY <1>5, <2>1, <2>3, <2>4, <2>7 DEF WindowsFit
<1> QED  BY <1>1, <1>4, <1>6 DEF WindowsInv, WindowsType

\* Every step keeps the invariant.
LEMMA WindowsNext ==
    WindowsInv /\ [Next]_vars => WindowsInv'
<1> SUFFICES ASSUME WindowsInv, [Next]_vars PROVE WindowsInv'  OBVIOUS
<1>1. SlicesInv'  BY SlicesNext DEF WindowsInv
<1>2. clock \in Nat  BY DEF WindowsInv, SlicesInv, SlicesType
<1>3. CASE UNCHANGED vars  BY <1>1, <1>2, <1>3, WindowsSame DEF vars
<1>4. CASE Tick  BY <1>1, <1>2, <1>4, WindowsSame DEF Tick
<1>5. CASE HistoryInclusive  BY <1>1, <1>5, WindowsInclusive
<1>6. CASE History
  <2>1. CASE clock > End \/ duration = 0  BY <1>1, <1>6, <2>1, WindowsInclusive DEF History
  <2>2. CASE ~(clock > End \/ duration = 0)
    <3>1. UNCHANGED <<config, clock, array, hist, current, began, adds>>
      BY <1>6, <2>2 DEF History
    <3> QED  BY <1>1, <1>2, <3>1, WindowsSame
  <2> QED  BY <2>1, <2>2
<1>7. CASE Reset  BY <1>1, <1>7, WindowsReset
<1>8. ASSUME NEW n \in Amounts, Add(n) PROVE WindowsInv'  BY <1>1, <1>8, WindowsAdd
<1>9. ASSUME NEW n \in Amounts, Roll(n) PROVE WindowsInv'  BY <1>1, <1>9, WindowsRoll
<1> QED  BY <1>3, <1>4, <1>5, <1>6, <1>7, <1>8, <1>9 DEF Next

\* Whatever the length of the windows, the limits and the amounts: no count is lost,
\* repeated or put into a neighbouring window, and the limits that each roll applies to
\* the stored history leave what they would leave of the complete one, although the
\* counter knows only the stored one (counter.go 57-66, 88-138).
THEOREM HistoryIsExactAlways == Spec => []HistoryIsExact
<1> QED  BY WindowsInit, WindowsNext, ExactFromInv, PTL DEF Spec
=============================================================================
