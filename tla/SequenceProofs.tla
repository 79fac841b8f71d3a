--------------------------- MODULE SequenceProofs ---------------------------
(***************************************************************************)
(* Lemmas that the proofs about several components share: induction over     *)
(* the natural numbers, sequences of sequences, and what appending and       *)
(* dropping does to a history of consecutive lines.                          *)
(***************************************************************************)
EXTENDS Lines, SequencesExt, FiniteSetTheorems, SequenceTheorems, TLAPS

(***************************************************************************)
(* Induction, for a set in place of a predicate.  If m were missing in S,    *)
(* adding one would map what S has up to m into what it has from 1 up to m,  *)
(* which is one element less.                                                *)
(***************************************************************************)

\* A set with 0 and the successors of its elements has all natural numbers.
LEMMA SetInduction ==
    ASSUME NEW S, 0 \in S, \A n \in Nat : n \in S => n + 1 \in S
    PROVE  Nat \subseteq S
<1> SUFFICES ASSUME NEW m \in Nat, m \notin S PROVE FALSE  OBVIOUS
<1> DEFINE A == {k \in 0..m : k \in S}
           B == A \ {0}
           up == [k \in A |-> k + 1]
<1>1. IsFiniteSet(A) /\ Cardinality(A) \in Nat /\ IsFiniteSet(B)
  <2>1. IsFiniteSet(0..m)  BY FS_Interval
  <2>2. A \in SUBSET (0..m)  OBVIOUS
  <2> QED  BY <2>1, <2>2, FS_Subset, FS_CardinalityType, FS_RemoveElement
<1>2. Cardinality(B) = Cardinality(A) - 1
  <2>1. 0 \in A  OBVIOUS
  <2> QED  BY <1>1, <2>1, FS_RemoveElement
<1>3. up \in [A -> B]
  <2> SUFFICES ASSUME NEW k \in A PROVE k + 1 \in B  OBVIOUS
  <2> QED  OBVIOUS
<1>4. \E x, y \in A : x # y /\ up[x] = up[y]
  <2> HIDE DEF A, B, up
  <2>1. Cardinality(B) < Cardinality(A)  BY <1>1, <1>2
  <2> QED  BY <1>1, <1>3, <2>1, FS_PigeonHole
<1> QED  BY <1>4

-----------------------------------------------------------------------------
(***************************************************************************)
(* FlattenSeq.                                                               *)
(***************************************************************************)

\* f has the concatenations of the first n elements of ws.
IsFlat(f, ws, n) ==
    f = [i \in 1..n |-> IF i = 1 THEN ws[i] ELSE f[i - 1] \o ws[i]]

\* What such a function has at i.
LEMMA FlatAt ==
    ASSUME NEW f, NEW ws, NEW n, IsFlat(f, ws, n), NEW i \in 1..n
    PROVE  f[i] = IF i = 1 THEN ws[i] ELSE f[i - 1] \o ws[i]
<1>1. PICK F : F = [j \in 1..n |-> IF j = 1 THEN ws[j] ELSE f[j - 1] \o ws[j]]
  OBVIOUS
<1>2. F[i] = IF i = 1 THEN ws[i] ELSE f[i - 1] \o ws[i]  BY <1>1
<1>3. f = F  BY <1>1, Zenon DEF IsFlat
<1> QED  BY <1>2, <1>3

\* There is such a function, for every n.
LEMMA FlatExists ==
    ASSUME NEW ws, NEW n \in Nat
    PROVE  \E f : IsFlat(f, ws, n)
<1> DEFINE S == {m \in Nat : \E f : IsFlat(f, ws, m)}
<1>1. 0 \in S
  <2>1. IsFlat([i \in 1..0 |-> <<>>], ws, 0)  BY DEF IsFlat
  <2> QED  BY <2>1
<1>2. ASSUME NEW m \in Nat, m \in S PROVE m + 1 \in S
  <2>1. PICK f : IsFlat(f, ws, m)  BY <1>2
  <2> DEFINE last == IF m + 1 = 1 THEN ws[m + 1] ELSE f[m] \o ws[m + 1]
             g == [i \in 1..(m + 1) |-> IF i = m + 1 THEN last ELSE f[i]]
             h == [i \in 1..(m + 1) |-> IF i = 1 THEN ws[i] ELSE g[i - 1] \o ws[i]]
  <2>2. ASSUME NEW i \in 1..(m + 1) PROVE g[i] = h[i]
    <3>1. CASE i = m + 1
      <4>1. i # 1 => g[i - 1] = f[m] /\ m \in 1..(m + 1)  BY <3>1
      <4> QED  BY <3>1, <4>1
    <3>2. CASE i # m + 1
      <4>0. i \in 1..m  BY <3>2
      <4>1. f[i] = IF i = 1 THEN ws[i] ELSE f[i - 1] \o ws[i]
        BY <2>1, <4>0, FlatAt
      <4>2. i # 1 => i - 1 \in 1..(m + 1) /\ i - 1 # m + 1  BY <3>2
      <4> QED  BY <3>2, <4>1, <4>2
    <3> QED  BY <3>1, <3>2
  <2>3. g = h  BY <2>2
  <2>4. IsFlat(g, ws, m + 1)  BY <2>3 DEF IsFlat
  <2> QED  BY <2>4
<1> HIDE DEF S
<1>3. Nat \subseteq S  BY <1>1, <1>2, SetInduction
<1> QED  BY <1>3 DEF S

\* They agree where the sequences do.
LEMMA FlatAgrees ==
    ASSUME NEW ws, NEW vs, NEW n \in Nat, NEW m \in Nat, n <= m,
           NEW f, NEW g, IsFlat(f, ws, n), IsFlat(g, vs, m),
           \A i \in 1..n : ws[i] = vs[i]
    PROVE  \A i \in 1..n : f[i] = g[i]
<1> DEFINE S == {j \in Nat : j \in 1..n => f[j] = g[j]}
<1>1. 0 \in S  OBVIOUS
<1>2. ASSUME NEW j \in Nat, j \in S PROVE j + 1 \in S
  <2> SUFFICES ASSUME j + 1 \in 1..n PROVE f[j + 1] = g[j + 1]  OBVIOUS
  <2> PICK p \in Nat : p = j + 1  OBVIOUS
  <2>1. p \in 1..n /\ p \in 1..m /\ p - 1 = j  OBVIOUS
  <2>2. f[p] = IF p = 1 THEN ws[p] ELSE f[p - 1] \o ws[p]  BY <2>1, FlatAt
  <2>3. g[p] = IF p = 1 THEN vs[p] ELSE g[p - 1] \o vs[p]  BY <2>1, FlatAt
  <2>4. p # 1 => f[j] = g[j]  BY <1>2
  <2>5. ws[p] = vs[p]  BY <2>1
  <2>6. f[p] = g[p]  BY <2>1, <2>2, <2>3, <2>4, <2>5
  <2> QED  BY <2>6
<1> HIDE DEF S
<1>3. Nat \subseteq S  BY <1>1, <1>2, SetInduction
<1> QED  BY <1>3 DEF S

\* What FlattenSeq takes is the last of these concatenations.
LEMMA FlattenIsFlat ==
    ASSUME NEW ws, Len(ws) \in Nat \ {0}
    PROVE  \E f : IsFlat(f, ws, Len(ws)) /\ FlattenSeq(ws) = f[Len(ws)]
<1>1. PICK f : IsFlat(f, ws, Len(ws))  BY FlatExists
<1>2. ASSUME NEW g, IsFlat(g, ws, Len(ws)) PROVE g = f
  <2>1. \A i \in 1..Len(ws) : f[i] = g[i]
    <3> DEFINE n == Len(ws)
    <3>1. n \in Nat /\ n <= n /\ IsFlat(f, ws, n) /\ IsFlat(g, ws, n)
      BY <1>1, <1>2
    <3> HIDE DEF n
    <3>2. \A i \in 1..n : f[i] = g[i]  BY <3>1, FlatAgrees
    <3> QED  BY <3>2 DEF n
  <2>2. DOMAIN f = 1..Len(ws) /\ DOMAIN g = 1..Len(ws)  BY <1>1, <1>2 DEF IsFlat
  <2>3. f = [i \in 1..Len(ws) |-> f[i]] /\ g = [i \in 1..Len(ws) |-> g[i]]
    BY <1>1, <1>2 DEF IsFlat
  <2> QED  BY <2>1, <2>3
<1>3. FlattenSeq(ws) = (CHOOSE g : IsFlat(g, ws, Len(ws)))[Len(ws)]
  BY DEF FlattenSeq, IsFlat
<1>4. (CHOOSE g : IsFlat(g, ws, Len(ws))) = f  BY <1>1, <1>2
<1> QED  BY <1>1, <1>3, <1>4

\* The concatenation of sequences over S is one.
LEMMA FlattenType ==
    ASSUME NEW S, NEW ws \in Seq(Seq(S))
    PROVE  FlattenSeq(ws) \in Seq(S)
<1>1. CASE ws = <<>>
  <2>1. FlattenSeq(ws) = <<>>  BY <1>1 DEF FlattenSeq
  <2> QED  BY <2>1
<1>2. CASE ws # <<>>
  <2> DEFINE n == Len(ws)
  <2>1. n \in Nat \ {0} /\ \A i \in 1..n : ws[i] \in Seq(S)  BY <1>2
  <2>2. PICK f : IsFlat(f, ws, n) /\ FlattenSeq(ws) = f[n]  BY <2>1, FlattenIsFlat
  <2> DEFINE T == {j \in Nat : j \in 1..n => f[j] \in Seq(S)}
  <2> HIDE DEF n
  <2>3. 0 \in T  OBVIOUS
  <2>4. ASSUME NEW j \in Nat, j \in T PROVE j + 1 \in T
    <3> SUFFICES ASSUME j + 1 \in 1..n PROVE f[j + 1] \in Seq(S)  OBVIOUS
    <3>1. f[j + 1] = IF j + 1 = 1 THEN ws[j + 1] ELSE f[(j + 1) - 1] \o ws[j + 1]
      BY <2>2, FlatAt
    <3>2. (j + 1) - 1 = j /\ ws[j + 1] \in Seq(S)  BY <2>1
    <3>3. j + 1 # 1 => f[j] \in Seq(S)  BY <2>1, <2>4
    <3>4. j + 1 # 1 => f[j] \o ws[j + 1] \in Seq(S)  BY <3>2, <3>3, ConcatProperties
    <3> QED  BY <3>1, <3>2, <3>4
  <2> HIDE DEF T
  <2>5. Nat \subseteq T  BY <2>3, <2>4, SetInduction
  <2> QED  BY <2>1, <2>2, <2>5 DEF T
<1> QED  BY <1>1, <1>2

\* The concatenation of one sequence.
LEMMA FlattenOne ==
    ASSUME NEW vs, Len(vs) = 1
    PROVE  FlattenSeq(vs) = vs[1]
<1>1. Len(vs) \in Nat \ {0}  OBVIOUS
<1>2. PICK g : IsFlat(g, vs, Len(vs)) /\ FlattenSeq(vs) = g[Len(vs)]
  BY ONLY <1>1, FlattenIsFlat
<1>3. 1 \in 1..Len(vs)  OBVIOUS
<1>4. g[1] = vs[1]  BY ONLY <1>2, <1>3, FlatAt
<1> QED  BY <1>2, <1>4

\* The concatenation of one sequence more.
LEMMA FlattenLonger ==
    ASSUME NEW ws, NEW vs, Len(ws) \in Nat \ {0}, Len(vs) \in Nat \ {0},
           Len(ws) <= Len(vs), \A i \in 1..Len(ws) : ws[i] = vs[i]
    PROVE  Len(vs) - 1 = Len(ws) => FlattenSeq(vs) = FlattenSeq(ws) \o vs[Len(vs)]
<1> DEFINE n == Len(ws)
           m == Len(vs)
<1>1. PICK f : IsFlat(f, ws, n) /\ FlattenSeq(ws) = f[n]
  BY FlattenIsFlat
<1>2. PICK g : IsFlat(g, vs, m) /\ FlattenSeq(vs) = g[m]
  BY FlattenIsFlat
<1>3. n \in Nat /\ m \in Nat /\ n <= m /\ \A i \in 1..n : ws[i] = vs[i]  OBVIOUS
<1>4. n \in 1..n /\ m \in 1..m  OBVIOUS
<1> HIDE DEF n, m
<1>5. \A i \in 1..n : f[i] = g[i]  BY <1>1, <1>2, <1>3, FlatAgrees
<1>6. g[m] = IF m = 1 THEN vs[m] ELSE g[m - 1] \o vs[m]
  BY <1>2, <1>4, FlatAt
<1>7. m - 1 = n => m # 1  BY <1>3, <1>4
<1>8. m - 1 = n => FlattenSeq(vs) = FlattenSeq(ws) \o vs[m]
  BY <1>1, <1>2, <1>4, <1>5, <1>6, <1>7
<1> QED  BY <1>8 DEF n, m

\* One more sequence is appended to the concatenation.
LEMMA FlattenAppend ==
    ASSUME NEW S, NEW ws \in Seq(Seq(S)), NEW w \in Seq(S)
    PROVE  FlattenSeq(Append(ws, w)) = FlattenSeq(ws) \o w
<1> DEFINE vs == Append(ws, w)
<1>1. /\ Len(ws) \in Nat /\ Len(vs) = Len(ws) + 1 /\ vs[Len(vs)] = w
      /\ \A i \in 1..Len(ws) : ws[i] = vs[i]
  BY AppendProperties
<1>2. CASE ws = <<>>
  <2>1. Len(vs) = 1 /\ vs[1] = w  BY <1>1, <1>2
  <2> HIDE DEF vs
  <2>2. FlattenSeq(vs) = w  BY <2>1, FlattenOne
  <2>3. FlattenSeq(ws) = <<>>  BY <1>2 DEF FlattenSeq
  <2>4. <<>> \o w = w  BY ConcatEmptySeq
  <2> QED  BY <2>2, <2>3, <2>4 DEF vs
<1>3. CASE ws # <<>>
  <2>1. /\ Len(ws) \in Nat \ {0} /\ Len(vs) \in Nat \ {0} /\ Len(ws) <= Len(vs)
        /\ Len(vs) - 1 = Len(ws)
    BY <1>1, <1>3
  <2> HIDE DEF vs
  <2>2. FlattenSeq(vs) = FlattenSeq(ws) \o vs[Len(vs)]
    BY ONLY <1>1, <2>1, FlattenLonger
  <2> QED  BY <1>1, <2>2 DEF vs
<1> QED  BY <1>2, <1>3

-----------------------------------------------------------------------------
(***************************************************************************)
(* Histories of consecutive lines.                                           *)
(***************************************************************************)

\* The next line, appended to consecutive lines that end before it.
LEMMA AppendsNext ==
    ASSUME NEW t \in Seq(Nat), NEW n \in Nat, EndsWith(t, n)
    PROVE  /\ Append(t, n + 1) \in Seq(Nat)
           /\ Len(Append(t, n + 1)) - Len(t) = 1
           /\ EndsWith(Append(t, n + 1), n + 1)
<1>1. Append(t, n + 1) \in Seq(Nat) BY AppendProperties
<1>2. PICK g \in Seq(Nat) : g = Append(t, n + 1) BY <1>1
<1>3. Len(g) - Len(t) = 1 BY <1>2
<1>4. (\A k \in 1..Len(t) : g[k] = t[k]) /\ g[Len(t) + 1] = n + 1
  BY <1>2, AppendProperties
<1>5. ASSUME NEW k \in DOMAIN g PROVE g[k] = (n + 1) - Len(g) + k
  <2>1. CASE k <= Len(t)
    <3>1. k \in 1..Len(t) BY <2>1
    <3>2. g[k] = t[k] /\ t[k] = n - Len(t) + k BY <3>1, <1>4 DEF EndsWith
    <3> QED BY <3>2, <1>3
  <2>2. CASE ~(k <= Len(t))
    <3>1. k = Len(t) + 1 BY <2>2, <1>3
    <3> QED BY <3>1, <1>3, <1>4
  <2> QED BY <2>1, <2>2
<1>6. EndsWith(g, n + 1) BY <1>5 DEF EndsWith
<1> QED BY <1>1, <1>2, <1>3, <1>6

\* Consecutive lines without the first two.
LEMMA DropsTwo ==
    ASSUME NEW h \in Seq(Nat), NEW n \in Nat, Len(h) >= 2, EndsWith(h, n)
    PROVE  /\ SubSeq(h, 3, Len(h)) \in Seq(Nat)
           /\ Len(SubSeq(h, 3, Len(h))) - Len(h) = -2
           /\ EndsWith(SubSeq(h, 3, Len(h)), n)
<1>1. \A k \in 3..Len(h) : h[k] \in Nat OBVIOUS
<1>2. SubSeq(h, 3, Len(h)) \in Seq(Nat) BY <1>1, SubSeqProperties
<1>3. PICK t \in Seq(Nat) : t = SubSeq(h, 3, Len(h)) BY <1>2
<1>4. PICK m \in Nat : m = Len(h) OBVIOUS
<1>5. /\ Len(t) = IF 3 <= m THEN m - 3 + 1 ELSE 0
      /\ \A k \in 1..(m - 3 + 1) : t[k] = h[3 + k - 1]
  BY <1>1, <1>3, <1>4, SubSeqProperties
<1>6. m >= 2 BY <1>4
<1>7. PICK j \in Nat : j = Len(t) OBVIOUS
<1>8. j = IF 3 <= m THEN m - 3 + 1 ELSE 0 BY <1>5, <1>7
<1>9. j = m - 2 BY <1>8, <1>6
<1>10. ASSUME NEW k \in 1..j PROVE t[k] = n - j + k
  <2>1. k \in 1..(m - 3 + 1) /\ k + 2 \in 1..m /\ 3 + k - 1 = k + 2 BY <1>9
  <2>2. t[k] = h[k + 2] BY <2>1, <1>5
  <2>3. k + 2 \in DOMAIN h BY <2>1, <1>4
  <2>4. h[k + 2] = n - Len(h) + (k + 2) BY <2>3 DEF EndsWith
  <2>5. h[k + 2] = n - m + (k + 2) BY <2>4, <1>4
  <2>6. n - m + (k + 2) = n - j + k BY <1>9
  <2> QED BY <2>2, <2>5, <2>6
<1>11. EndsWith(t, n)
  <2>1. \A k \in DOMAIN t : t[k] = n - Len(t) + k BY <1>7, <1>10
  <2> QED BY <2>1 DEF EndsWith
<1>12. Len(t) - Len(h) = -2 BY <1>4, <1>7, <1>9
<1> QED BY <1>2, <1>3, <1>11, <1>12

\* Consecutive lines without the first one.
LEMMA DropsOne ==
    ASSUME NEW h \in Seq(Nat), NEW n \in Nat, Len(h) >= 1, EndsWith(h, n)
    PROVE  /\ Tail(h) \in Seq(Nat)
           /\ Len(Tail(h)) - Len(h) = -1
           /\ EndsWith(Tail(h), n)
<1>1. h # <<>> OBVIOUS
<1>2. Tail(h) \in Seq(Nat) BY <1>1, HeadTailProperties
<1>3. PICK t \in Seq(Nat) : t = Tail(h) BY <1>2
<1>4. PICK m \in Nat : m = Len(h) OBVIOUS
<1>5. PICK j \in Nat : j = Len(t) OBVIOUS
<1>6. Len(t) = m - 1 /\ \A k \in 1..Len(t) : t[k] = h[k + 1]
  BY <1>1, <1>3, <1>4, HeadTailProperties
<1>7. j = m - 1 BY <1>5, <1>6
<1>8. ASSUME NEW k \in 1..j PROVE t[k] = n - j + k
  <2>1. k + 1 \in 1..m BY <1>7
  <2>2. k + 1 \in DOMAIN h BY <2>1, <1>4
  <2>3. t[k] = h[k + 1] BY <1>5, <1>6
  <2>4. h[k + 1] = n - Len(h) + (k + 1) BY <2>2 DEF EndsWith
  <2>5. h[k + 1] = n - m + (k + 1) BY <2>4, <1>4
  <2>6. n - m + (k + 1) = n - j + k BY <1>7
  <2> QED BY <2>3, <2>5, <2>6
<1>9. EndsWith(t, n)
  <2>1. \A k \in DOMAIN t : t[k] = n - Len(t) + k BY <1>5, <1>8
  <2> QED BY <2>1 DEF EndsWith
<1>10. Len(t) - Len(h) = -1 BY <1>4, <1>5, <1>7
<1> QED BY <1>2, <1>3, <1>9, <1>10
=============================================================================
