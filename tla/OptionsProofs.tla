---------------------------- MODULE OptionsProofs ----------------------------
(***************************************************************************)
(* Proofs about Options, for any flags, values and files and any number of   *)
(* them.                                                                     *)
(***************************************************************************)
EXTENDS Options, SequenceProofs

(***************************************************************************)
(* What the loader reads.  ConfigIsAsGiven speaks of what is given; the      *)
(* induction goes over what the loader makes of it, and the last part of the *)
(* module relates the two.                                                   *)
(***************************************************************************)

\* What one flag is read as under a name, a file in its place, whatever the order of
\* its keys: a boolean is the empty string, and no list is read under a setting.
Reads(g, n) ==
    IF g.file = NoFile THEN (IF g.name = n THEN <<g.value>> ELSE <<>>)
    ELSE IF n \notin DOMAIN g.file THEN <<>>
    ELSE IF g.file[n].kind = "bool" THEN <<"">>
    ELSE IF g.file[n].kind = "scalar" \/ n \in ListNames THEN g.file[n].values ELSE <<>>

\* What the first m flags are read as, and what all of them are.
ReadIn(m, n) == FlattenSeq([k \in 1..m |-> Reads(given[k], n)])
ReadBy(n) == ReadIn(Len(given), n)

\* A file that is refused whatever its strings are: null is, and a value that is no
\* scalar if a list field is a scalar or none of them has elements.
FileFaulty(f) ==
    \/ \E n \in DOMAIN f : f[n].kind = "null"
    \/ /\ \E n \in DOMAIN f : f[n].kind \in {"list", "other"}
       /\ ~Decodable(f) \/ AllLists(f) = <<>>

\* What is read is not valid.
Wrong ==
    \/ \E k \in DOMAIN given :
          \/ given[k].name = "config" /\ given[k].value = "bad"
          \/ FileFaulty(given[k].file)
    \/ \E n \in FlagNames \union FileNames : \E v \in ToSet(ReadBy(n)) :
          \/ ~Handled(n, v)
          \/ n \notin FlagsOnly /\ Parsed(n, v) = <<>>
    \/ ReadBy("id") = <<>> \/ Last(ReadBy("id")) = "" \/ shell = ""

\* The configuration is what was read.
AsRead ==
    /\ \A n \in Settings \ {"shell"} :
          config.set[n] = IF ReadBy(n) = <<>> THEN Default.set[n]
                          ELSE Parsed(n, Last(ReadBy(n)))
    /\ config.flags = {n \in FlagsOnly : ReadBy(n) # <<>>}
    /\ ToSet(config.rules) = UNION {{Parsed(n, v)[1] : v \in ToSet(ReadBy(n))} :
                                      n \in {"rule", "rule-json"}}
    /\ ToSet(config.creates) = ToSet(ReadBy("creates"))

ConfigIsAsRead ==
    /\ phase = "started" => AsRead /\ ~Wrong
    /\ phase = "refused" => Wrong

(***************************************************************************)
(* The invariant.                                                            *)
(***************************************************************************)

\* The values that are read, the flags with theirs, and the options.
Strings == Values \union {"", "f:a", "bad", "true", "false"}

Givens == [name : FlagNames, value : Values \union {"true", "false"}, file : {NoFile}]
            \union [name : {"config"}, value : {"bad"}, file : {NoFile}]
            \union [name : {"config"}, value : {""}, file : Files]

Taken == [name : FlagNames \union FileNames, value : Strings]

OptionsType ==
    /\ given \in Seq(Givens) /\ options \in Seq(Taken)
    /\ phase \in {"flags", "file", "started", "refused"}
    /\ phase = "flags" => left = {}
    /\ phase = "file" => /\ file \in Files /\ left \subseteq DOMAIN file
                         /\ Len(given) > 0
                         /\ given[Len(given)] = [name |-> "config", value |-> "", file |-> file]

\* The values of the options of a name.
ValuesOf(os, n) == {os[k].value : k \in {j \in DOMAIN os : os[j].name = n}}

\* Option k is the last one of the name.
LastAt(os, n, k) ==
    /\ k \in DOMAIN os /\ os[k].name = n
    /\ \A j \in DOMAIN os : j > k => os[j].name # n

\* The options are what q asks for under the name: the values, and the last one of them
\* where that one counts.
Follows(os, n, q) ==
    /\ ValuesOf(os, n) = ToSet(q)
    /\ n \notin ListNames /\ q # <<>> =>
          \E k \in DOMAIN os : LastAt(os, n, k) /\ os[k].value = q[Len(q)]

AllNames == FlagNames \union FileNames \union KnownNames

\* A key that the loop took is followed.  A list field that it did not take may have been
\* taken with another; any other key of which that is true is followed up to the file.
FollowsInv ==
    phase \in {"flags", "file"} =>
       \A n \in AllNames :
          /\ n \notin left => Follows(options, n, ReadBy(n))
          /\ n \in left /\ n \notin ListNames => Follows(options, n, ReadIn(Len(given) - 1, n))
          /\ n \in left /\ n \in ListNames =>
                /\ ToSet(ReadIn(Len(given) - 1, n)) \subseteq ValuesOf(options, n)
                /\ ValuesOf(options, n) \subseteq ToSet(ReadBy(n))

\* What was read so far is not faulty, a file as far as the loop has taken its keys.
SoundInv ==
    phase \in {"flags", "file"} =>
       /\ \A k \in DOMAIN options : Handled(options[k].name, options[k].value)
       /\ \A k \in DOMAIN given :
             \/ phase = "file" /\ k = Len(given)
             \/ /\ ~(given[k].name = "config" /\ given[k].value = "bad")
                /\ ~FileFaulty(given[k].file)
       /\ \A n \in DOMAIN file \ left :
             /\ file[n].kind # "null"
             /\ file[n].kind \in {"list", "other"} => Decodable(file) /\ AllLists(file) # <<>>

ConfigInv == OptionsType /\ FollowsInv /\ SoundInv /\ ConfigIsAsRead
-----------------------------------------------------------------------------
(***************************************************************************)
(* The loop over the options.                                                *)
(***************************************************************************)

\* f has the configurations after the first n options.
IsAfter(f, os, n) ==
    f = [k \in 0..n |-> IF k = 0 THEN Default ELSE Apply(f[k - 1], os[k])]

\* What such a function has at k.
LEMMA AfterAt ==
    ASSUME NEW f, NEW os, NEW n, IsAfter(f, os, n), NEW k \in 0..n
    PROVE  /\ k = 0 => f[k] = Default
           /\ k # 0 => \A j : j = k - 1 => f[k] = Apply(f[j], os[k])
<1>1. PICK F : F = [i \in 0..n |-> IF i = 0 THEN Default ELSE Apply(f[i - 1], os[i])]
  OBVIOUS
<1>2. F[k] = IF k = 0 THEN Default ELSE Apply(f[k - 1], os[k])  BY <1>1
<1>3. f = F  BY <1>1, Zenon DEF IsAfter
<1> QED  BY <1>2, <1>3

\* There is one, for every n.
LEMMA AfterExists ==
    ASSUME NEW os, NEW n \in Nat
    PROVE  \E f : IsAfter(f, os, n)
<1> DEFINE S == {m \in Nat : \E f : IsAfter(f, os, m)}
<1>1. 0 \in S
  <2> DEFINE g == [k \in 0..0 |-> Default]
             h == [k \in 0..0 |-> IF k = 0 THEN Default ELSE Apply(g[k - 1], os[k])]
  <2>1. \A k \in 0..0 : g[k] = h[k]  OBVIOUS
  <2>2. g = h  BY <2>1
  <2>3. IsAfter(g, os, 0)  BY <2>2 DEF IsAfter
  <2> QED  BY <2>3
<1>2. ASSUME NEW m \in Nat, m \in S PROVE m + 1 \in S
  <2>1. PICK f : IsAfter(f, os, m)  BY <1>2
  <2> DEFINE last == Apply(f[m], os[m + 1])
             g == [k \in 0..(m + 1) |-> IF k = m + 1 THEN last ELSE f[k]]
             h == [k \in 0..(m + 1) |-> IF k = 0 THEN Default ELSE Apply(g[k - 1], os[k])]
  <2>2. ASSUME NEW k \in 0..(m + 1) PROVE g[k] = h[k]
    <3>1. CASE k = m + 1
      <4>1. k # 0 /\ g[k - 1] = f[m]  BY <3>1
      <4> QED  BY <3>1, <4>1
    <3>2. CASE k # m + 1
      <4>1. k \in 0..m  BY <3>2
      <4>2. CASE k = 0
        <5>1. f[k] = Default  BY <2>1, <4>1, <4>2, AfterAt
        <5> QED  BY <3>2, <4>2, <5>1
      <4>3. CASE k # 0
        <5> PICK j : j = k - 1  OBVIOUS
        <5>1. f[k] = Apply(f[j], os[k])  BY <2>1, <4>1, <4>3, AfterAt
        <5>2. j \in 0..(m + 1) /\ j # m + 1  BY <4>1, <4>3
        <5>3. g[j] = f[j]  BY <5>2
        <5> QED  BY <3>2, <4>3, <5>1, <5>3
      <4> QED  BY <4>2, <4>3
    <3> QED  BY <3>1, <3>2
  <2>3. g = h  BY <2>2
  <2>4. IsAfter(g, os, m + 1)  BY <2>3 DEF IsAfter
  <2> QED  BY <2>4
<1> HIDE DEF S
<1>3. Nat \subseteq S  BY <1>1, <1>2, SetInduction
<1> QED  BY <1>3 DEF S

\* What Configured takes is the last of these configurations.
LEMMA ConfiguredIsAfter ==
    ASSUME NEW os, Len(os) \in Nat
    PROVE  \E f : IsAfter(f, os, Len(os)) /\ Configured(os) = f[Len(os)]
<1> DEFINE f == CHOOSE g : IsAfter(g, os, Len(os))
<1>1. IsAfter(f, os, Len(os))  BY AfterExists
<1>2. Configured(os) = f[Len(os)]  BY DEF Configured, IsAfter
<1> HIDE DEF f
<1> QED  BY <1>1, <1>2

-----------------------------------------------------------------------------
(***************************************************************************)
(* What the options make of the configuration, if none of them is refused.   *)
(***************************************************************************)

RuleNames == {"rule", "rule-json"}
RuleType == [field : {"", "f"}, regex : Strings \union {"a"}]

\* The names of the options are of four kinds.
LEMMA NameKinds ==
    ASSUME NEW n \in KnownNames
    PROVE  /\ n \in FlagsOnly \/ n = "creates" \/ n \in RuleNames \/ n \in Settings
           /\ n \in FlagsOnly => n # "creates" /\ n \notin RuleNames /\ n \notin Settings
           /\ n = "creates" => n \notin RuleNames /\ n \notin Settings
           /\ n \in RuleNames => n \notin Settings
BY DEF KnownNames, FlagsOnly, RuleNames, ListNames, Settings, Histories, Memory, Timeouts

\* What an option does that is not refused.
LEMMA ApplyKinds ==
    ASSUME NEW c, NEW o, o.name \in KnownNames, ~Refused(o)
    PROVE  /\ o.name \in FlagsOnly =>
                Apply(c, o) = [c EXCEPT !.flags = c.flags \union {o.name}]
           /\ o.name = "creates" =>
                Apply(c, o) = [c EXCEPT !.creates = Append(c.creates, o.value)]
           /\ o.name \in RuleNames =>
                Apply(c, o) = [c EXCEPT !.rules = c.rules \o Parsed(o.name, o.value)]
           /\ o.name \in Settings =>
                Apply(c, o) = [c EXCEPT !.set[o.name] = Parsed(o.name, o.value)]
BY NameKinds DEF Apply, RuleNames

\* A rule that compiles is one rule.
LEMMA ParsedRule ==
    ASSUME NEW n \in RuleNames, NEW v \in Strings, Parsed(n, v) # <<>>
    PROVE  Parsed(n, v)[1] \in RuleType /\ Parsed(n, v) = <<Parsed(n, v)[1]>>
<1>1. ASSUME NEW r \in RuleType, Parsed(n, v) = <<r>>
      PROVE  Parsed(n, v)[1] \in RuleType /\ Parsed(n, v) = <<Parsed(n, v)[1]>>
  <2>1. <<r>>[1] = r  OBVIOUS
  <2> QED  BY <1>1, <2>1, Zenon
<1>2. CASE n = "rule"
  <2>1. Parsed(n, v) = IF v = "f:(" THEN <<>> ELSE <<[field |-> "", regex |-> v]>>
    BY <1>2 DEF Parsed, Histories, Timeouts, Memory
  <2>2. [field |-> "", regex |-> v] \in RuleType  BY DEF RuleType
  <2> QED  BY <1>1, <2>1, <2>2
<1>3. CASE n = "rule-json"
  <2>1. Parsed(n, v) = IF v = "f:(" THEN <<>> ELSE <<[field |-> "f", regex |-> "a"]>>
    BY <1>3 DEF Parsed, Histories, Timeouts, Memory
  <2>2. [field |-> "f", regex |-> "a"] \in RuleType  BY DEF RuleType
  <2> QED  BY <1>1, <2>1, <2>2
<1> QED  BY <1>2, <1>3 DEF RuleNames

\* The elements of a sequence and one more.
LEMMA ToSetMore ==
    ASSUME NEW S, NEW q \in Seq(S), NEW v \in S
    PROVE  /\ Append(q, v) \in Seq(S) /\ q \o <<v>> = Append(q, v)
           /\ ToSet(Append(q, v)) = ToSet(q) \union {v}
<1>1. PICK r : r = Append(q, v)  OBVIOUS
<1>2. PICK m \in Nat : m = Len(q)  OBVIOUS
<1>3. /\ r \in Seq(S) /\ Len(r) = m + 1 /\ \A i \in 1..m : r[i] = q[i]
      /\ r[m + 1] = v
  BY <1>1, <1>2, AppendProperties
<1>4. DOMAIN q = 1..m /\ DOMAIN r = 1..(m + 1)  BY <1>2, <1>3
<1>5. 1..(m + 1) = 1..m \union {m + 1}  OBVIOUS
<1>6. ToSet(r) = ToSet(q) \union {v}
  BY ONLY <1>3, <1>4, <1>5, m \in Nat DEF ToSet
<1>7. q \o <<v>> = Append(q, v)  OBVIOUS
<1> QED  BY <1>1, <1>3, <1>6, <1>7

\* What a Config holds after the first m options.
Holds(c, os, m) ==
    /\ c = [set |-> c.set, flags |-> c.flags, rules |-> c.rules, creates |-> c.creates]
    /\ c.set = [n \in Settings |-> c.set[n]]
    /\ c.rules \in Seq(RuleType) /\ c.creates \in Seq(Strings)
    /\ \A n \in Settings :
          /\ (\A j \in 1..m : os[j].name # n) => c.set[n] = Default.set[n]
          /\ \A k \in 1..m :
                os[k].name = n /\ (\A j \in 1..m : j > k => os[j].name # n)
                  => c.set[n] = Parsed(n, os[k].value)
    /\ c.flags = {n \in FlagsOnly : \E j \in 1..m : os[j].name = n}
    /\ ToSet(c.rules) = {Parsed(os[j].name, os[j].value)[1] :
                           j \in {i \in 1..m : os[i].name \in RuleNames}}
    /\ ToSet(c.creates) = {os[j].value : j \in {i \in 1..m : os[i].name = "creates"}}

\* Before the first one it is the default.
LEMMA HoldsDefault ==
    ASSUME NEW os
    PROVE  Holds(Default, os, 0)
<1>1. /\ Default.rules = <<>> /\ Default.creates = <<>> /\ Default.flags = {}
      /\ Default = [set |-> Default.set, flags |-> Default.flags,
                    rules |-> Default.rules, creates |-> Default.creates]
      /\ Default.set = [n \in Settings |-> Default.set[n]]
  BY DEF Default
<1>2. <<>> \in Seq(RuleType) /\ <<>> \in Seq(Strings) /\ ToSet(<<>>) = {}
  BY EmptySeq DEF ToSet
<1>3. 1..0 = {}  OBVIOUS
<1> QED  BY <1>1, <1>2, <1>3 DEF Holds

\* An option more that is not refused.
LEMMA HoldsNext ==
    ASSUME NEW os \in Seq(Taken), NEW m \in Nat, NEW c, Holds(c, os, m),
           NEW p, p = m + 1, p \in DOMAIN os,
           os[p].name \in KnownNames, ~Refused(os[p])
    PROVE  Holds(Apply(c, os[p]), os, p)
<1>0. /\ 1..p = 1..m \union {p} /\ p \notin 1..m /\ p \in Nat
      /\ \A j \in 1..m : p > j /\ ~(j > p)
  OBVIOUS
<1>1. PICK o : o = os[p]  OBVIOUS
<1>2. o.name \in KnownNames /\ ~Refused(o) /\ o.value \in Strings
  <2>1. os[p] \in Taken  OBVIOUS
  <2> QED  BY <1>1, <2>1 DEF Taken
<1>3. PICK d : d = Apply(c, o)  OBVIOUS
<1> DEFINE Rest == {i \in 1..m : os[i].name \in RuleNames}
           Made == {i \in 1..m : os[i].name = "creates"}
<1>4. /\ o.name \in RuleNames => {i \in 1..p : os[i].name \in RuleNames} = Rest \union {p}
      /\ o.name \notin RuleNames => {i \in 1..p : os[i].name \in RuleNames} = Rest
      /\ o.name = "creates" => {i \in 1..p : os[i].name = "creates"} = Made \union {p}
      /\ o.name # "creates" => {i \in 1..p : os[i].name = "creates"} = Made
  BY <1>0, <1>1
<1>5. ASSUME NEW n \in Settings, o.name # n, d.set[n] = c.set[n]
      PROVE  /\ (\A j \in 1..p : os[j].name # n) => d.set[n] = Default.set[n]
             /\ \A k \in 1..p :
                   os[k].name = n /\ (\A j \in 1..p : j > k => os[j].name # n)
                     => d.set[n] = Parsed(n, os[k].value)
  BY <1>0, <1>1, <1>5 DEF Holds
<1>6. o.name \notin FlagsOnly =>
         {n \in FlagsOnly : \E j \in 1..p : os[j].name = n}
           = {n \in FlagsOnly : \E j \in 1..m : os[j].name = n}
  BY <1>0, <1>1
<1>7. CASE o.name \in FlagsOnly
  <2>1. d = [c EXCEPT !.flags = c.flags \union {o.name}]  BY <1>2, <1>3, <1>7, ApplyKinds
  <2>2. /\ d = [set |-> c.set, flags |-> c.flags \union {o.name},
                rules |-> c.rules, creates |-> c.creates]
    BY <2>1 DEF Holds
  <2>3. d.flags = {n \in FlagsOnly : \E j \in 1..p : os[j].name = n}
    BY <1>0, <1>1, <1>7, <2>2 DEF Holds
  <2>4. o.name # "creates" /\ o.name \notin RuleNames /\ o.name \notin Settings
    BY <1>2, <1>7, NameKinds
  <2>5. \A n \in Settings : o.name # n /\ d.set[n] = c.set[n]  BY <2>2, <2>4
  <2> QED  BY <1>1, <1>3, <1>4, <1>5, <2>2, <2>3, <2>4, <2>5 DEF Holds
<1>8. CASE o.name = "creates"
  <2>1. d = [c EXCEPT !.creates = Append(c.creates, o.value)]
    BY <1>2, <1>3, <1>8, ApplyKinds
  <2>2. /\ d = [set |-> c.set, flags |-> c.flags,
                rules |-> c.rules, creates |-> Append(c.creates, o.value)]
    BY <2>1 DEF Holds
  <2>3. /\ Append(c.creates, o.value) \in Seq(Strings)
        /\ ToSet(Append(c.creates, o.value)) = ToSet(c.creates) \union {o.value}
    BY <1>2, ToSetMore DEF Holds
  <2>4. o.name \notin FlagsOnly /\ o.name \notin RuleNames /\ o.name \notin Settings
    BY <1>2, <1>8, NameKinds
  <2>5. ToSet(d.creates) = {os[j].value : j \in Made \union {p}}
    BY <1>1, <2>2, <2>3 DEF Holds
  <2>6. \A n \in Settings : o.name # n /\ d.set[n] = c.set[n]  BY <2>2, <2>4
  <2>7. d.creates \in Seq(Strings)  BY <2>2, <2>3
  <2>8. /\ d.flags = {n \in FlagsOnly : \E j \in 1..p : os[j].name = n}
        /\ ToSet(d.rules) = {Parsed(os[j].name, os[j].value)[1] :
                                j \in {i \in 1..p : os[i].name \in RuleNames}}
        /\ ToSet(d.creates) = {os[j].value : j \in {i \in 1..p : os[i].name = "creates"}}
    BY <1>4, <1>6, <1>8, <2>2, <2>4, <2>5 DEF Holds
  <2>9. /\ d = [set |-> d.set, flags |-> d.flags, rules |-> d.rules, creates |-> d.creates]
        /\ d.set = [n \in Settings |-> d.set[n]] /\ d.rules \in Seq(RuleType)
    BY <2>2 DEF Holds
  <2> HIDE DEF Rest, Made, RuleType
  <2> QED  BY <1>1, <1>3, <1>5, <2>6, <2>7, <2>8, <2>9 DEF Holds
<1>9. CASE o.name \in RuleNames
  <2> DEFINE r == Parsed(o.name, o.value)[1]
  <2>1. d = [c EXCEPT !.rules = c.rules \o Parsed(o.name, o.value)]
    BY <1>2, <1>3, <1>9, ApplyKinds
  <2>2. o.name \notin FlagsOnly /\ o.name # "creates" /\ o.name \notin Settings
    BY <1>2, <1>9, NameKinds
  <2>3. r \in RuleType /\ Parsed(o.name, o.value) = <<r>>
    BY <1>2, <1>9, <2>2, ParsedRule DEF Refused
  <2> HIDE DEF r
  <2>4. /\ d = [set |-> c.set, flags |-> c.flags,
                rules |-> c.rules \o <<r>>, creates |-> c.creates]
    BY <2>1, <2>3 DEF Holds
  <2>5. /\ c.rules \o <<r>> \in Seq(RuleType)
        /\ ToSet(c.rules \o <<r>>) = ToSet(c.rules) \union {r}
    <3> HIDE DEF RuleType
    <3>1. c.rules \in Seq(RuleType)  BY DEF Holds
    <3>2. r \in RuleType  BY <2>3
    <3>3. /\ Append(c.rules, r) \in Seq(RuleType) /\ c.rules \o <<r>> = Append(c.rules, r)
          /\ ToSet(Append(c.rules, r)) = ToSet(c.rules) \union {r}
      BY ONLY <3>1, <3>2, ToSetMore
    <3> QED  BY ONLY <3>3
  <2>6. ToSet(d.rules) = {Parsed(os[j].name, os[j].value)[1] : j \in Rest \union {p}}
    <3>1. ToSet(d.rules) = {Parsed(os[j].name, os[j].value)[1] : j \in Rest} \union {r}
      BY <2>4, <2>5 DEF Holds
    <3>2. r = Parsed(os[p].name, os[p].value)[1]  BY <1>1 DEF r
    <3> QED  BY <3>1, <3>2
  <2>7. \A n \in Settings : o.name # n /\ d.set[n] = c.set[n]  BY <2>2, <2>4
  <2>8. d.rules \in Seq(RuleType)  BY <2>4, <2>5
  <2>9. /\ d.flags = {n \in FlagsOnly : \E j \in 1..p : os[j].name = n}
        /\ ToSet(d.rules) = {Parsed(os[j].name, os[j].value)[1] :
                                j \in {i \in 1..p : os[i].name \in RuleNames}}
        /\ ToSet(d.creates) = {os[j].value : j \in {i \in 1..p : os[i].name = "creates"}}
    BY <1>4, <1>6, <1>9, <2>2, <2>4, <2>6 DEF Holds
  <2>10. /\ d = [set |-> d.set, flags |-> d.flags, rules |-> d.rules, creates |-> d.creates]
         /\ d.set = [n \in Settings |-> d.set[n]] /\ d.creates \in Seq(Strings)
    BY <2>4 DEF Holds
  <2> HIDE DEF Rest, Made, RuleType
  <2> QED  BY <1>1, <1>3, <1>5, <2>7, <2>8, <2>9, <2>10 DEF Holds
<1>10. CASE o.name \in Settings
  <2>1. d = [c EXCEPT !.set[o.name] = Parsed(o.name, o.value)]
    BY <1>2, <1>3, <1>10, ApplyKinds
  <2>2. o.name \notin FlagsOnly /\ o.name # "creates" /\ o.name \notin RuleNames
    BY <1>2, <1>10, NameKinds
  <2> DEFINE s == [c.set EXCEPT ![o.name] = Parsed(o.name, o.value)]
  <2>3. d = [set |-> s, flags |-> c.flags, rules |-> c.rules, creates |-> c.creates]
    BY <2>1 DEF Holds
  <2>4. /\ s = [n \in Settings |-> s[n]] /\ s[o.name] = Parsed(o.name, o.value)
        /\ \A n \in Settings : n # o.name => s[n] = c.set[n]
    BY <1>10 DEF Holds
  <2> HIDE DEF s
  <2>5. ASSUME NEW n \in Settings
        PROVE  /\ (\A j \in 1..p : os[j].name # n) => d.set[n] = Default.set[n]
               /\ \A k \in 1..p :
                     os[k].name = n /\ (\A j \in 1..p : j > k => os[j].name # n)
                       => d.set[n] = Parsed(n, os[k].value)
    <3>1. CASE n = o.name
      <4>1. ~(\A j \in 1..p : os[j].name # n)  BY <1>0, <1>1, <3>1
      <4>2. ASSUME NEW k \in 1..p, \A j \in 1..p : j > k => os[j].name # n
            PROVE  d.set[n] = Parsed(n, os[k].value)
        <5>1. k = p  BY <1>0, <1>1, <3>1, <4>2
        <5> QED  BY <1>1, <2>3, <2>4, <3>1, <5>1
      <4> QED  BY <4>1, <4>2
    <3>2. CASE n # o.name  BY <1>5, <2>3, <2>4, <3>2
    <3> QED  BY <3>1, <3>2
  <2> QED  BY <1>1, <1>3, <1>4, <1>6, <2>2, <2>3, <2>4, <2>5 DEF Holds
<1> QED  BY <1>2, <1>7, <1>8, <1>9, <1>10, NameKinds

\* After the loop the configuration holds all options.
LEMMA ConfiguredHolds ==
    ASSUME NEW os \in Seq(Taken),
           \A k \in DOMAIN os : os[k].name \in KnownNames /\ ~Refused(os[k])
    PROVE  Holds(Configured(os), os, Len(os))
<1> DEFINE n == Len(os)
<1>1. n \in Nat /\ DOMAIN os = 1..n  OBVIOUS
<1>2. PICK f : IsAfter(f, os, n) /\ Configured(os) = f[n]  BY <1>1, ConfiguredIsAfter
<1> DEFINE S == {m \in Nat : m \in 0..n => Holds(f[m], os, m)}
<1> HIDE DEF n
<1>3. 0 \in S
  <2>1. 0 \in 0..n  BY <1>1
  <2>2. f[0] = Default  BY <1>2, <2>1, AfterAt
  <2> QED  BY <2>2, HoldsDefault
<1>4. ASSUME NEW m \in Nat, m \in S PROVE m + 1 \in S
  <2> SUFFICES ASSUME m + 1 \in 0..n PROVE Holds(f[m + 1], os, m + 1)  OBVIOUS
  <2>1. PICK p : p = m + 1  OBVIOUS
  <2>2. p \in 0..n /\ p # 0 /\ m = p - 1 /\ m \in 0..n /\ p \in DOMAIN os  BY <1>1, <2>1
  <2>3. f[p] = Apply(f[m], os[p])  BY <1>2, <2>2, AfterAt
  <2>4. Holds(f[m], os, m)  BY <1>4, <2>2
  <2>5. Holds(Apply(f[m], os[p]), os, p)  BY <2>1, <2>2, <2>4, HoldsNext
  <2> QED  BY <2>1, <2>3, <2>5
<1> HIDE DEF S
<1>5. Nat \subseteq S  BY <1>3, <1>4, SetInduction
<1>6. n \in 0..n  BY <1>1
<1> QED  BY <1>1, <1>2, <1>5, <1>6 DEF S, n

-----------------------------------------------------------------------------
(***************************************************************************)
(* What the flags ask for.                                                   *)
(***************************************************************************)

\* What a file holds.
LEMMA FileType ==
    ASSUME NEW f \in Files
    PROVE  /\ DOMAIN f # {} /\ DOMAIN f \subseteq FileNames /\ f # NoFile
           /\ \A n \in DOMAIN f :
                 /\ f[n].kind \in {"scalar", "bool", "list", "null", "other"}
                 /\ f[n].values \in Seq(Strings)
                 /\ f[n].kind = "scalar" =>
                       \E v \in Values : f[n].values = <<v>> /\ f[n].values[1] = v
                 /\ f[n].kind = "bool" =>
                       \E v \in {"true", "false"} : f[n].values = <<v>> /\ f[n].values[1] = v
                 /\ f[n].kind \in {"null", "other"} => f[n].values = <<>>
<1>1. PICK K \in SUBSET FileNames : K # {} /\ f \in [K -> Entries]  BY DEF Files
<1>2. ASSUME NEW e \in Entries
      PROVE  /\ e.kind \in {"scalar", "bool", "list", "null", "other"}
             /\ e.values \in Seq(Strings)
             /\ e.kind = "scalar" => \E v \in Values : e.values = <<v>> /\ e.values[1] = v
             /\ e.kind = "bool" =>
                   \E v \in {"true", "false"} : e.values = <<v>> /\ e.values[1] = v
             /\ e.kind \in {"null", "other"} => e.values = <<>>
  <2>1. CASE e \in [kind : {"scalar"}, values : {<<v>> : v \in Values}]
    <3>1. PICK v \in Values : e.values = <<v>>  BY <2>1
    <3>2. <<v>>[1] = v /\ <<v>> \in Seq(Strings)
      <4>1. v \in Strings  BY DEF Strings
      <4> QED  BY <4>1
    <3>3. e.kind = "scalar"  BY <2>1
    <3> QED  BY <3>1, <3>2, <3>3, Zenon
  <2>4. CASE e \in [kind : {"bool"}, values : {<<"true">>, <<"false">>}]
    <3>1. PICK v \in {"true", "false"} : e.values = <<v>>  BY <2>4
    <3>2. <<v>>[1] = v /\ <<v>> \in Seq(Strings)
      <4>1. v \in Strings  BY DEF Strings
      <4> QED  BY <4>1
    <3>3. e.kind = "bool"  BY <2>4
    <3> QED  BY <3>1, <3>2, <3>3, Zenon
  <2>2. CASE e \in {[kind |-> k, values |-> <<>>] : k \in {"list", "null", "other"}}
    <3>1. <<>> \in Seq(Strings)  BY EmptySeq
    <3>2. PICK k \in {"list", "null", "other"} : e = [kind |-> k, values |-> <<>>]  BY <2>2
    <3>3. e.kind = k /\ e.values = <<>>  BY <3>2
    <3>4. k # "scalar" /\ k # "bool"  OBVIOUS
    <3> QED  BY <3>1, <3>3, <3>4
  <2>3. CASE e \in [kind : {"list"}, values : {<<v, w>> : v \in Values, w \in {"f:a"}}]
    <3>1. PICK v \in Values, w \in {"f:a"} : e.values = <<v, w>>  BY <2>3
    <3>2. <<v, w>> \in Seq(Strings)
      <4>1. v \in Strings /\ w \in Strings  BY DEF Strings
      <4> QED  BY <4>1
    <3>3. e.kind = "list"  BY <2>3
    <3> QED  BY <3>1, <3>2, <3>3, Zenon
  <2> QED  BY <2>1, <2>2, <2>3, <2>4 DEF Entries
<1>3. DOMAIN f = K /\ \A n \in K : f[n] \in Entries  BY <1>1
<1>4. f # NoFile  BY <1>1, <1>3 DEF NoFile
<1> HIDE DEF Entries
<1> QED  BY <1>1, <1>2, <1>3, <1>4

\* A flag asks for a sequence of values.
LEMMA ReadsType ==
    ASSUME NEW g \in Givens, NEW n
    PROVE  Reads(g, n) \in Seq(Strings)
<1>1. <<>> \in Seq(Strings) /\ <<"">> \in Seq(Strings)  BY EmptySeq DEF Strings
<1>2. CASE g \in [name : FlagNames, value : Values \union {"true", "false"},
                    file : {NoFile}]
                   \union [name : {"config"}, value : {"bad"}, file : {NoFile}]
  <2>1. g.file = NoFile  BY <1>2
  <2>2. Reads(g, n) = IF g.name = n THEN <<g.value>> ELSE <<>>  BY <2>1 DEF Reads
  <2>3. PICK v \in Strings : v = g.value  BY <1>2 DEF Strings
  <2>4. <<v>> \in Seq(Strings)  OBVIOUS
  <2> QED  BY <1>1, <2>2, <2>3, <2>4
<1>3. CASE g \in [name : {"config"}, value : {""}, file : Files]
  <2>1. g.file \in Files  BY <1>3
  <2>2. g.file # NoFile /\ \A i \in DOMAIN g.file : g.file[i].values \in Seq(Strings)
    BY <2>1, FileType
  <2> QED  BY <1>1, <2>2 DEF Reads
<1> QED  BY <1>2, <1>3 DEF Givens

\* What the first m of the flags gs ask for.
ReadOf(gs, m, n) == FlattenSeq([k \in 1..m |-> Reads(gs[k], n)])

LEMMA ReadIsOf ==
    ASSUME NEW n, NEW m
    PROVE  /\ ReadIn(m, n) = ReadOf(given, m, n)
           /\ ReadIn(m, n)' = ReadOf(given', m, n)
           /\ ReadBy(n) = ReadOf(given, Len(given), n)
           /\ ReadBy(n)' = ReadOf(given', Len(given'), n)
BY DEF ReadBy, ReadIn, ReadOf, Reads, NoFile

\* One flag more.
LEMMA ReadNext ==
    ASSUME NEW gs \in Seq(Givens), NEW m \in Nat, NEW p, p = m + 1, p <= Len(gs), NEW n
    PROVE  /\ ReadOf(gs, m, n) \in Seq(Strings) /\ ReadOf(gs, p, n) \in Seq(Strings)
           /\ Reads(gs[p], n) \in Seq(Strings)
           /\ ReadOf(gs, p, n) = ReadOf(gs, m, n) \o Reads(gs[p], n)
<1> DEFINE ws == [k \in 1..m |-> Reads(gs[k], n)]
           vs == [k \in 1..p |-> Reads(gs[k], n)]
<1>1. \A k \in 1..p : Reads(gs[k], n) \in Seq(Strings)
  <2> SUFFICES ASSUME NEW k \in 1..p PROVE Reads(gs[k], n) \in Seq(Strings)  OBVIOUS
  <2>1. gs[k] \in Givens  OBVIOUS
  <2> QED  BY <2>1, ReadsType
<1>2. p \in 1..p /\ p \in Nat /\ 1..m \subseteq 1..p  OBVIOUS
<1>3. ws \in Seq(Seq(Strings)) /\ Len(ws) = m  BY <1>1, <1>2
<1>4. vs \in Seq(Seq(Strings)) /\ Len(vs) = p  BY <1>1, <1>2
<1>5. vs = Append(ws, Reads(gs[p], n))
  <2>1. PICK a \in Seq(Strings) : a = Reads(gs[p], n)  BY <1>1, <1>2
  <2>2. Append(ws, a) \in Seq(Seq(Strings))  BY <1>3, AppendProperties
  <2>3. Len(Append(ws, a)) = m + 1  BY <1>3, AppendProperties
  <2>4. \A k \in 1..p : vs[k] = Append(ws, a)[k]
    <3>1. \A k \in 1..m : Append(ws, a)[k] = ws[k]  BY <1>3, AppendProperties
    <3>2. Append(ws, a)[p] = a  BY <1>3, AppendProperties
    <3>3. \A k \in 1..p : k \in 1..m \/ k = p  OBVIOUS
    <3> QED  BY <1>2, <2>1, <3>1, <3>2, <3>3
  <2> HIDE DEF ws, vs
  <2>5. DOMAIN vs = 1..p /\ DOMAIN Append(ws, a) = 1..p  BY <1>4, <2>2, <2>3
  <2> QED  BY <1>4, <2>1, <2>2, <2>3, <2>4, <2>5, SeqEqual
<1>6. FlattenSeq(ws) \in Seq(Strings)
  <2> HIDE DEF ws, Strings
  <2> QED  BY <1>3, FlattenType
<1>7. FlattenSeq(vs) \in Seq(Strings)
  <2> HIDE DEF vs, Strings
  <2> QED  BY <1>4, FlattenType
<1>8. FlattenSeq(vs) = FlattenSeq(ws) \o Reads(gs[p], n)
  <2>1. PICK a \in Seq(Strings) : a = Reads(gs[p], n)  BY <1>1, <1>2
  <2>2. vs = Append(ws, a)  BY <1>5, <2>1
  <2> HIDE DEF ws, vs, Strings
  <2>3. FlattenSeq(Append(ws, a)) = FlattenSeq(ws) \o a  BY <1>3, FlattenAppend
  <2> QED  BY <2>1, <2>2, <2>3
<1> QED  BY <1>1, <1>2, <1>6, <1>7, <1>8 DEF ReadOf

\* It does not depend on later flags.
LEMMA ReadSame ==
    ASSUME NEW gs, NEW hs, NEW m \in Nat, \A k \in 1..m : gs[k] = hs[k], NEW n
    PROVE  ReadOf(gs, m, n) = ReadOf(hs, m, n)
<1>1. [k \in 1..m |-> Reads(gs[k], n)] = [k \in 1..m |-> Reads(hs[k], n)]  OBVIOUS
<1> QED  BY <1>1 DEF ReadOf

-----------------------------------------------------------------------------
(***************************************************************************)
(* What follows what is asked for.                                           *)
(***************************************************************************)

\* Before anything was asked for.
LEMMA FollowsFirst ==
    ASSUME NEW n
    PROVE  Follows(<<>>, n, <<>>)
BY DEF Follows, ValuesOf, ToSet

\* Options more.
LEMMA TakenMore ==
    ASSUME NEW os \in Seq(Taken), NEW ps \in Seq(Taken), NEW n
    PROVE  /\ os \o ps \in Seq(Taken)
           /\ ValuesOf(os \o ps, n) = ValuesOf(os, n) \union ValuesOf(ps, n)
<1>1. PICK r : r = os \o ps  OBVIOUS
<1>2. PICK a \in Nat, b \in Nat : a = Len(os) /\ b = Len(ps)  OBVIOUS
<1>3. /\ r \in Seq(Taken) /\ Len(r) = a + b
      /\ \A i \in 1..(a + b) : r[i] = IF i <= a THEN os[i] ELSE ps[i - a]
  <2> HIDE DEF Taken
  <2> QED  BY <1>1, <1>2, ConcatProperties
<1>4. DOMAIN os = 1..a /\ DOMAIN ps = 1..b /\ DOMAIN r = 1..(a + b)  BY <1>2, <1>3
<1>5. ASSUME NEW v PROVE v \in ValuesOf(r, n) <=> v \in ValuesOf(os, n) \union ValuesOf(ps, n)
  <2>1. ASSUME v \in ValuesOf(r, n) PROVE v \in ValuesOf(os, n) \union ValuesOf(ps, n)
    <3>1. PICK k \in 1..(a + b) : r[k].name = n /\ r[k].value = v
      BY <1>4, <2>1 DEF ValuesOf
    <3>2. CASE k <= a
      <4>1. k \in 1..a /\ r[k] = os[k]  BY <1>3, <3>2
      <4> QED  BY <1>4, <3>1, <4>1 DEF ValuesOf
    <3>3. CASE ~(k <= a)
      <4>1. PICK j : j = k - a  OBVIOUS
      <4>2. j \in 1..b /\ r[k] = ps[j]  BY <1>3, <3>3, <4>1
      <4> QED  BY <1>4, <3>1, <4>2 DEF ValuesOf
    <3> QED  BY <3>2, <3>3
  <2>2. ASSUME v \in ValuesOf(os, n) PROVE v \in ValuesOf(r, n)
    <3>1. PICK k \in 1..a : os[k].name = n /\ os[k].value = v
      BY <1>4, <2>2 DEF ValuesOf
    <3>2. k \in 1..(a + b) /\ r[k] = os[k]  BY <1>3
    <3> QED  BY <1>4, <3>1, <3>2 DEF ValuesOf
  <2>3. ASSUME v \in ValuesOf(ps, n) PROVE v \in ValuesOf(r, n)
    <3>1. PICK j \in 1..b : ps[j].name = n /\ ps[j].value = v
      BY <1>4, <2>3 DEF ValuesOf
    <3>2. PICK k : k = j + a  OBVIOUS
    <3>3. k \in 1..(a + b) /\ ~(k <= a) /\ k - a = j  BY <3>2
    <3>4. r[k] = ps[j]  BY <1>3, <3>3
    <3> QED  BY <1>4, <3>1, <3>3, <3>4 DEF ValuesOf
  <2> QED  BY <2>1, <2>2, <2>3
<1> QED  BY <1>1, <1>3, <1>5

\* Options of other names change nothing.
LEMMA FollowsStill ==
    ASSUME NEW os \in Seq(Taken), NEW ps \in Seq(Taken), NEW n, NEW q,
           \A k \in DOMAIN ps : ps[k].name # n, Follows(os, n, q)
    PROVE  Follows(os \o ps, n, q)
<1>1. PICK r : r = os \o ps  OBVIOUS
<1>2. PICK a \in Nat, b \in Nat : a = Len(os) /\ b = Len(ps)  OBVIOUS
<1>3. /\ r \in Seq(Taken) /\ Len(r) = a + b
      /\ \A i \in 1..(a + b) : r[i] = IF i <= a THEN os[i] ELSE ps[i - a]
  <2> HIDE DEF Taken
  <2> QED  BY <1>1, <1>2, ConcatProperties
<1>4. DOMAIN os = 1..a /\ DOMAIN ps = 1..b /\ DOMAIN r = 1..(a + b)  BY <1>2, <1>3
<1>5. ValuesOf(r, n) = ToSet(q)
  <2>1. ValuesOf(r, n) = ValuesOf(os, n) \union ValuesOf(ps, n)  BY <1>1, TakenMore
  <2>2. ValuesOf(ps, n) = {}  BY DEF ValuesOf
  <2> QED  BY <2>1, <2>2 DEF Follows
<1>6. ASSUME n \notin ListNames, q # <<>>
      PROVE  \E k \in DOMAIN r : LastAt(r, n, k) /\ r[k].value = q[Len(q)]
  <2>1. PICK k \in 1..a : LastAt(os, n, k) /\ os[k].value = q[Len(q)]
    BY <1>4, <1>6 DEF Follows
  <2>2. k \in 1..(a + b) /\ r[k] = os[k]  BY <1>3
  <2>3. ASSUME NEW j \in 1..(a + b), j > k PROVE r[j].name # n
    <3>1. CASE j <= a
      <4>1. j \in 1..a /\ r[j] = os[j]  BY <1>3, <3>1
      <4> QED  BY <1>4, <2>1, <2>3, <4>1 DEF LastAt
    <3>2. CASE ~(j <= a)
      <4>1. PICK i : i = j - a  OBVIOUS
      <4>2. i \in 1..b /\ r[j] = ps[i]  BY <1>3, <3>2, <4>1
      <4> QED  BY <1>4, <4>2
    <3> QED  BY <3>1, <3>2
  <2>4. r[k].name = n /\ r[k].value = q[Len(q)]  BY <2>1, <2>2 DEF LastAt
  <2> QED  BY <1>4, <2>2, <2>3, <2>4 DEF LastAt
<1> QED  BY <1>1, <1>5, <1>6 DEF Follows

\* The value that is asked for next.
LEMMA FollowsNext ==
    ASSUME NEW os \in Seq(Taken), NEW o \in Taken, NEW n, n = o.name,
           NEW q \in Seq(Strings), Follows(os, n, q)
    PROVE  Follows(os \o <<o>>, n, q \o <<o.value>>)
<1>1. PICK r : r = Append(os, o)  OBVIOUS
<1>2. PICK a \in Nat : a = Len(os)  OBVIOUS
<1>3. /\ r \in Seq(Taken) /\ Len(r) = a + 1 /\ r[a + 1] = o
      /\ \A i \in 1..a : r[i] = os[i]
  <2> HIDE DEF Taken
  <2> QED  BY <1>1, <1>2, AppendProperties
<1>4. DOMAIN os = 1..a /\ DOMAIN r = 1..(a + 1)  BY <1>2, <1>3
<1>5. PICK v \in Strings : v = o.value  BY DEF Taken
<1>6. PICK w : w = Append(q, v)  OBVIOUS
<1>7. w = q \o <<v>> /\ ToSet(w) = ToSet(q) \union {v} /\ w[Len(w)] = v
  <2>1. w = q \o <<v>> /\ ToSet(w) = ToSet(q) \union {v}
    <3> HIDE DEF Strings
    <3> QED  BY <1>6, ToSetMore
  <2>2. w[Len(w)] = v  BY <1>6, AppendProperties
  <2> QED  BY <2>1, <2>2
<1>8. ValuesOf(r, n) = ValuesOf(os, n) \union {v}
  <2>1. {j \in 1..(a + 1) : r[j].name = n} = {j \in 1..a : os[j].name = n} \union {a + 1}
    BY <1>3
  <2> QED  BY <1>3, <1>4, <1>5, <2>1 DEF ValuesOf
<1>9. LastAt(r, n, a + 1) /\ r[a + 1].value = w[Len(w)] /\ a + 1 \in DOMAIN r
  BY <1>3, <1>4, <1>5, <1>7 DEF LastAt
<1>10. Follows(r, n, w)
  <2>1. ValuesOf(r, n) = ToSet(w)  BY <1>7, <1>8 DEF Follows
  <2> QED  BY <1>9, <2>1 DEF Follows
<1>11. os \o <<o>> = r  BY <1>1
<1> QED  BY <1>5, <1>7, <1>10, <1>11

\* The elements of two sequences.
LEMMA ToSetConcat ==
    ASSUME NEW S, NEW a \in Seq(S), NEW b \in Seq(S)
    PROVE  /\ a \o b \in Seq(S) /\ ToSet(a \o b) = ToSet(a) \union ToSet(b)
           /\ a \o <<>> = a /\ ToSet(<<>>) = {}
<1>1. PICK r : r = a \o b  OBVIOUS
<1>2. PICK m \in Nat, n \in Nat : m = Len(a) /\ n = Len(b)  OBVIOUS
<1>3. /\ r \in Seq(S) /\ Len(r) = m + n
      /\ \A i \in 1..(m + n) : r[i] = IF i <= m THEN a[i] ELSE b[i - m]
  BY <1>1, <1>2, ConcatProperties
<1>4. DOMAIN a = 1..m /\ DOMAIN b = 1..n /\ DOMAIN r = 1..(m + n)  BY <1>2, <1>3
<1>5. \A i \in 1..m : i \in 1..(m + n) /\ r[i] = a[i]  BY <1>3
<1>6. \A i \in 1..n : \E j \in 1..(m + n) : r[j] = b[i]
  <2> SUFFICES ASSUME NEW i \in 1..n PROVE \E j \in 1..(m + n) : r[j] = b[i]  OBVIOUS
  <2>1. PICK j : j = i + m  OBVIOUS
  <2>2. j \in 1..(m + n) /\ ~(j <= m) /\ j - m = i  BY <2>1
  <2>3. r[j] = b[i]  BY <1>3, <2>2
  <2> QED  BY <2>2, <2>3
<1>7. \A j \in 1..(m + n) : (\E i \in 1..m : r[j] = a[i]) \/ (\E i \in 1..n : r[j] = b[i])
  <2> SUFFICES ASSUME NEW j \in 1..(m + n)
               PROVE  (\E i \in 1..m : r[j] = a[i]) \/ (\E i \in 1..n : r[j] = b[i])
    OBVIOUS
  <2>1. CASE j <= m  BY <1>3, <2>1
  <2>2. CASE ~(j <= m)
    <3>1. PICK i : i = j - m  OBVIOUS
    <3>2. i \in 1..n /\ r[j] = b[i]  BY <1>3, <2>2, <3>1
    <3> QED  BY <3>2
  <2> QED  BY <2>1, <2>2
<1>8. ToSet(r) = ToSet(a) \union ToSet(b)
  <2>1. /\ ToSet(r) = {r[j] : j \in 1..(m + n)} /\ ToSet(a) = {a[i] : i \in 1..m}
        /\ ToSet(b) = {b[i] : i \in 1..n}
    BY <1>4 DEF ToSet
  <2>2. \A v \in ToSet(r) : v \in ToSet(a) \union ToSet(b)  BY <1>7, <2>1
  <2>3. \A v \in ToSet(a) \union ToSet(b) : v \in ToSet(r)  BY <1>5, <1>6, <2>1
  <2> QED  BY ONLY <2>2, <2>3
<1>9. a \o <<>> = a  BY ConcatEmptySeq
<1>10. ToSet(<<>>) = {}  BY DEF ToSet
<1> QED  BY <1>1, <1>3, <1>8, <1>9, <1>10

\* The options for one list field.
LEMMA FieldTaken ==
    ASSUME NEW f \in Files, NEW n
    PROVE  /\ OptionsFor(f, n) \in Seq(Taken)
           /\ ValuesOf(OptionsFor(f, n), n) = ToSet(Listed(f, n))
           /\ \A x : x # n => ValuesOf(OptionsFor(f, n), x) = {}
           /\ Listed(f, n) \in Seq(Strings)
           /\ n \notin DOMAIN f => Listed(f, n) = <<>>
<1>1. PICK q \in Seq(Strings) : q = Listed(f, n) /\ (n \notin DOMAIN f => q = <<>>)
  <2>1. <<>> \in Seq(Strings)  BY EmptySeq
  <2> QED  BY <2>1, FileType DEF Listed
<1>2. PICK os : os = [k \in DOMAIN q |-> Option(n, q[k])]  OBVIOUS
<1>3. OptionsFor(f, n) = os  BY <1>1, <1>2 DEF OptionsFor
<1>4. PICK m \in Nat : m = Len(q) /\ DOMAIN q = 1..m  OBVIOUS
<1>5. os \in Seq(Taken)
  <2>1. CASE n \in DOMAIN f
    <3>1. n \in FileNames  BY <2>1, FileType
    <3>2. \A k \in 1..m : Option(n, q[k]) \in Taken
      <4>1. \A k \in 1..m : q[k] \in Strings  BY <1>4
      <4> QED  BY <3>1, <4>1 DEF Option, Taken
    <3> HIDE DEF Taken
    <3> QED  BY <1>2, <1>4, <3>2
  <2>2. CASE n \notin DOMAIN f
    <3>1. m = 0  BY <1>1, <1>4, <2>2
    <3>2. os = [k \in 1..0 |-> Option(n, q[k])]  BY <1>2, <1>4, <3>1
    <3>3. os = <<>>  BY <3>2
    <3> QED  BY <3>3, EmptySeq
  <2> QED  BY <2>1, <2>2
<1>6. DOMAIN os = DOMAIN q /\ \A k \in DOMAIN q : os[k].name = n /\ os[k].value = q[k]
  BY <1>2 DEF Option
<1>7. ValuesOf(os, n) = ToSet(q) /\ \A x : x # n => ValuesOf(os, x) = {}
  BY <1>6 DEF ValuesOf, ToSet
<1> QED  BY <1>1, <1>3, <1>5, <1>7

\* The options for all of them.
LEMMA ListsTaken ==
    ASSUME NEW f \in Files
    PROVE  /\ AllLists(f) \in Seq(Taken)
           /\ \A x \in ListNames : ValuesOf(AllLists(f), x) = ToSet(Listed(f, x))
           /\ \A x : x \notin ListNames => ValuesOf(AllLists(f), x) = {}
           /\ \A k \in DOMAIN AllLists(f) :
                 LET o == AllLists(f)[k] IN
                 o.name \in ListNames /\ o.value \in ToSet(Listed(f, o.name))
<1> DEFINE a == OptionsFor(f, "rule")
           b == OptionsFor(f, "rule-json")
           c == OptionsFor(f, "creates")
<1>1. a \in Seq(Taken) /\ b \in Seq(Taken) /\ c \in Seq(Taken)  BY FieldTaken
<1>2. ASSUME NEW x
      PROVE  /\ x = "rule" => ValuesOf(a, x) = ToSet(Listed(f, x))
             /\ x # "rule" => ValuesOf(a, x) = {}
             /\ x = "rule-json" => ValuesOf(b, x) = ToSet(Listed(f, x))
             /\ x # "rule-json" => ValuesOf(b, x) = {}
             /\ x = "creates" => ValuesOf(c, x) = ToSet(Listed(f, x))
             /\ x # "creates" => ValuesOf(c, x) = {}
  BY FieldTaken
<1>3. AllLists(f) = (a \o b) \o c  BY DEF AllLists
<1> HIDE DEF a, b, c
<1>4. a \o b \in Seq(Taken)  BY <1>1, TakenMore
<1>5. (a \o b) \o c \in Seq(Taken)  BY <1>1, <1>4, TakenMore
<1>6. ASSUME NEW x
      PROVE  ValuesOf((a \o b) \o c, x)
               = (ValuesOf(a, x) \union ValuesOf(b, x)) \union ValuesOf(c, x)
  <2>1. ValuesOf(a \o b, x) = ValuesOf(a, x) \union ValuesOf(b, x)  BY <1>1, TakenMore
  <2>2. PICK ab \in Seq(Taken) : ab = a \o b  BY <1>4
  <2>3. ValuesOf(ab \o c, x) = ValuesOf(ab, x) \union ValuesOf(c, x)  BY <1>1, TakenMore
  <2> QED  BY <2>1, <2>2, <2>3
<1>7. \A x \in ListNames : ValuesOf(AllLists(f), x) = ToSet(Listed(f, x))
  <2> SUFFICES ASSUME NEW x \in ListNames
               PROVE  ValuesOf(AllLists(f), x) = ToSet(Listed(f, x))
    OBVIOUS
  <2>1. ValuesOf(AllLists(f), x)
          = (ValuesOf(a, x) \union ValuesOf(b, x)) \union ValuesOf(c, x)
    BY <1>3, <1>6
  <2>2. x = "rule" \/ x = "rule-json" \/ x = "creates"  BY DEF ListNames
  <2> QED  BY <1>2, <2>1, <2>2
<1>8. ASSUME NEW x, x \notin ListNames PROVE ValuesOf(AllLists(f), x) = {}
  <2>1. x # "rule" /\ x # "rule-json" /\ x # "creates"  BY <1>8 DEF ListNames
  <2> QED  BY <1>2, <1>3, <1>6, <2>1
<1>9. ASSUME NEW os, NEW k \in DOMAIN os PROVE os[k].value \in ValuesOf(os, os[k].name)
  BY DEF ValuesOf
<1>10. ASSUME NEW k \in DOMAIN AllLists(f)
       PROVE  LET o == AllLists(f)[k] IN
              o.name \in ListNames /\ o.value \in ToSet(Listed(f, o.name))
  <2>1. PICK o : o = AllLists(f)[k]  OBVIOUS
  <2>2. o.value \in ValuesOf(AllLists(f), o.name)  BY <1>9, <2>1
  <2>3. o.name \in ListNames  BY <1>8, <2>2
  <2> QED  BY <1>7, <2>1, <2>2, <2>3
<1> QED  BY <1>3, <1>5, <1>7, <1>8, <1>10

\* What a file asks for.
LEMMA FileReads ==
    ASSUME NEW g, NEW n, g.file \in Files
    PROVE  /\ n \notin DOMAIN g.file => Reads(g, n) = <<>>
           /\ n \in DOMAIN g.file /\ g.file[n].kind = "bool" => Reads(g, n) = <<"">>
           /\ n \in DOMAIN g.file /\ g.file[n].kind = "scalar" =>
                 Reads(g, n) = g.file[n].values
           /\ n \in DOMAIN g.file /\ g.file[n].kind \in {"list", "null", "other"} =>
                 Reads(g, n) = IF n \in ListNames THEN g.file[n].values ELSE <<>>
BY FileType DEF Reads

\* A flag other than --config.
LEMMA FlagReads ==
    ASSUME NEW g, NEW n, g.file = NoFile
    PROVE  Reads(g, n) = (IF g.name = n THEN <<g.value>> ELSE <<>>) /\ ~FileFaulty(g.file)
BY DEF Reads, FileFaulty, NoFile

-----------------------------------------------------------------------------
(***************************************************************************)
(* The steps.                                                                *)
(***************************************************************************)

\* A flag more is read.
LEMMA GivenMore ==
    ASSUME given \in Seq(Givens), NEW g \in Givens, given' = Append(given, g)
    PROVE  /\ given' \in Seq(Givens) /\ Len(given) \in Nat /\ Len(given') = Len(given) + 1
           /\ DOMAIN given = 1..Len(given) /\ DOMAIN given' = 1..Len(given')
           /\ given'[Len(given')] = g /\ \A k \in 1..Len(given) : given'[k] = given[k]
           /\ \A n : /\ ReadIn(Len(given) - 1, n)' = ReadBy(n)
                     /\ ReadBy(n)' = ReadBy(n) \o Reads(g, n)
                     /\ ReadBy(n) \in Seq(Strings) /\ Reads(g, n) \in Seq(Strings)
<1>1. PICK hs : hs = given'  OBVIOUS
<1>2. PICK m \in Nat : m = Len(given)  OBVIOUS
<1>3. PICK p \in Nat : p = m + 1  OBVIOUS
<1>4. /\ hs \in Seq(Givens) /\ Len(hs) = p /\ hs[p] = g
      /\ \A k \in 1..m : hs[k] = given[k]
  <2> HIDE DEF Givens
  <2> QED  BY <1>1, <1>2, <1>3, AppendProperties
<1>5. ASSUME NEW n
      PROVE  /\ ReadIn(Len(given) - 1, n)' = ReadBy(n)
             /\ ReadBy(n)' = ReadBy(n) \o Reads(g, n)
             /\ ReadBy(n) \in Seq(Strings) /\ Reads(g, n) \in Seq(Strings)
  <2>1. /\ ReadOf(hs, m, n) \in Seq(Strings) /\ Reads(hs[p], n) \in Seq(Strings)
        /\ ReadOf(hs, p, n) = ReadOf(hs, m, n) \o Reads(hs[p], n)
    <3> HIDE DEF Givens, Strings
    <3>1. p <= Len(hs) /\ hs \in Seq(Givens) /\ p = m + 1  BY <1>3, <1>4
    <3> QED  BY ONLY <3>1, ReadNext, m \in Nat
  <2>2. ReadOf(hs, m, n) = ReadOf(given, m, n)
    <3>1. PICK gs : gs = given  OBVIOUS
    <3>2. \A k \in 1..m : hs[k] = gs[k]  BY <1>4, <3>1
    <3>3. ReadOf(hs, m, n) = ReadOf(gs, m, n)  BY ONLY <3>2, ReadSame, m \in Nat
    <3> QED  BY <3>1, <3>3
  <2>3. ReadBy(n) = ReadOf(given, m, n)  BY <1>2, ReadIsOf
  <2>4. ReadBy(n)' = ReadOf(hs, p, n)
    <3>1. Len(given') = p  BY <1>1, <1>4
    <3>2. ReadBy(n)' = ReadOf(given', Len(given'), n)  BY ReadIsOf
    <3> QED  BY <1>1, <3>1, <3>2
  <2>5. ReadIn(Len(given) - 1, n)' = ReadOf(hs, m, n)
    <3>1. Len(given') - 1 = m  BY <1>1, <1>3, <1>4
    <3>2. ReadIn(m, n)' = ReadOf(given', m, n)  BY ReadIsOf
    <3> QED  BY <1>1, <3>1, <3>2 DEF ReadIn
  <2> QED  BY <1>4, <2>1, <2>2, <2>3, <2>4, <2>5
<1> QED  BY <1>1, <1>2, <1>3, <1>4, <1>5

\* The last flag that was read.
LEMMA GivenLast ==
    ASSUME given \in Seq(Givens), Len(given) > 0, NEW n
    PROVE  /\ ReadIn(Len(given) - 1, n) \in Seq(Strings) /\ ReadBy(n) \in Seq(Strings)
           /\ Reads(given[Len(given)], n) \in Seq(Strings)
           /\ ReadBy(n) = ReadIn(Len(given) - 1, n) \o Reads(given[Len(given)], n)
<1>1. PICK gs : gs = given  OBVIOUS
<1>2. PICK p \in Nat : p = Len(given) /\ p > 0  OBVIOUS
<1>3. PICK m \in Nat : m = p - 1 /\ p = m + 1
  <2>1. p - 1 \in Nat /\ p = (p - 1) + 1  BY <1>2
  <2> QED  BY <2>1
<1>4. /\ ReadOf(gs, m, n) \in Seq(Strings) /\ ReadOf(gs, p, n) \in Seq(Strings)
      /\ Reads(gs[p], n) \in Seq(Strings)
      /\ ReadOf(gs, p, n) = ReadOf(gs, m, n) \o Reads(gs[p], n)
  <2>1. gs \in Seq(Givens) /\ p = m + 1 /\ p <= Len(gs)  BY <1>1, <1>2, <1>3
  <2> QED  BY ONLY <2>1, ReadNext, m \in Nat
<1>5. ReadIn(m, n) = ReadOf(given, m, n) /\ ReadBy(n) = ReadOf(given, Len(given), n)
  BY ReadIsOf
<1> QED  BY <1>1, <1>2, <1>3, <1>4, <1>5

\* As long as no flag is read.
LEMMA GivenSame ==
    ASSUME given' = given, NEW n
    PROVE  /\ ReadBy(n)' = ReadBy(n) /\ ReadIn(Len(given) - 1, n)' = ReadIn(Len(given) - 1, n)
BY DEF ReadBy, ReadIn, Reads, NoFile

\* An error is an answer to something faulty.
LEMMA RefuseStep ==
    ASSUME OptionsType', phase' = "refused", Wrong'
    PROVE  ConfigInv'
BY DEF ConfigInv, FollowsInv, SoundInv, ConfigIsAsRead

\* What was asked for under any name.
LEMMA WrongValue ==
    ASSUME NEW n \in FlagNames \union FileNames, NEW v \in ToSet(ReadBy(n))', ~Handled(n, v)
    PROVE  Wrong'
BY DEF Wrong

\* A flag other than --config.
LEMMA FlagStep ==
    ASSUME ConfigInv, NEW n \in FlagNames, NEW v \in FlagValues(n), Flag(n, v)
    PROVE  ConfigInv'
<1> DEFINE g == [name |-> n, value |-> v, file |-> NoFile]
           o == Option(n, v)
<1>1. /\ given' = Append(given, g) /\ phase = "flags"
      /\ UNCHANGED <<shell, file, left>>
      /\ IF Handled(n, v) THEN Take(<<o>>) ELSE Refuse
  BY DEF Flag, Read
<1>2. g \in Givens /\ g.file = NoFile /\ g.name = n /\ g.value = v
  BY DEF Givens, FlagValues
<1>3. o \in Taken /\ o.name = n /\ o.value = v  BY DEF Option, Taken, Strings, FlagValues
<1> HIDE DEF g, o
<1>4. /\ given \in Seq(Givens) /\ options \in Seq(Taken) /\ left = {}
  BY <1>1 DEF ConfigInv, OptionsType
<1>5. /\ given' \in Seq(Givens) /\ Len(given) \in Nat /\ Len(given') = Len(given) + 1
      /\ DOMAIN given = 1..Len(given) /\ DOMAIN given' = 1..Len(given')
      /\ given'[Len(given')] = g /\ \A k \in 1..Len(given) : given'[k] = given[k]
      /\ \A m : /\ ReadBy(m)' = ReadBy(m) \o Reads(g, m)
                /\ ReadBy(m) \in Seq(Strings) /\ Reads(g, m) \in Seq(Strings)
  BY <1>1, <1>2, <1>4, GivenMore
<1>6. /\ \A m : Reads(g, m) = IF n = m THEN <<v>> ELSE <<>>
      /\ ~FileFaulty(g.file)
  BY <1>2, FlagReads
<1>7. CASE Handled(n, v)
  <2>1. options' = options \o <<o>> /\ UNCHANGED <<phase, config, errors>>
    BY <1>1, <1>7 DEF Take
  <2>2. <<o>> \in Seq(Taken) /\ Len(<<o>>) = 1 /\ <<o>>[1] = o /\ DOMAIN <<o>> = {1}
    <3> HIDE DEF Taken
    <3> QED  BY <1>3
  <2>3. OptionsType'
    <3>1. options' \in Seq(Taken)  BY <1>4, <2>1, <2>2, TakenMore
    <3> QED  BY <1>1, <1>5, <2>1, <3>1 DEF ConfigInv, OptionsType
  <2>4. FollowsInv'
    <3> SUFFICES ASSUME NEW m \in AllNames PROVE Follows(options', m, ReadBy(m)')
      BY <1>1, <1>4 DEF FollowsInv
    <3>1. Follows(options, m, ReadBy(m))
      BY <1>1, <1>4 DEF ConfigInv, FollowsInv
    <3>2. CASE m = n
      <4>1. PICK q \in Seq(Strings) : q = ReadBy(m)  BY <1>5
      <4>2. Follows(options \o <<o>>, n, q \o <<o.value>>)
        BY <1>3, <1>4, <3>1, <3>2, <4>1, FollowsNext
      <4> QED  BY <1>3, <1>5, <1>6, <2>1, <3>2, <4>1, <4>2
    <3>3. CASE m # n
      <4>1. ReadBy(m)' = ReadBy(m)
        <5>1. ReadBy(m) \in Seq(Strings) /\ Reads(g, m) = <<>>  BY <1>5, <1>6, <3>3
        <5> QED  BY <1>5, <5>1, ConcatEmptySeq
      <4>2. \A k \in DOMAIN <<o>> : <<o>>[k].name # m  BY <1>3, <2>2, <3>3
      <4>3. PICK q : q = ReadBy(m)  OBVIOUS
      <4>4. Follows(options \o <<o>>, m, q)
        BY <1>4, <2>2, <3>1, <4>2, <4>3, FollowsStill
      <4> QED  BY <2>1, <4>1, <4>3, <4>4
    <3> QED  BY <3>2, <3>3
  <2>5. SoundInv'
    <3>1. \A k \in DOMAIN options : Handled(options[k].name, options[k].value)
      BY <1>1 DEF ConfigInv, SoundInv
    <3>2. ASSUME NEW k \in DOMAIN options' PROVE Handled(options'[k].name, options'[k].value)
      <4>1. PICK r : r = options \o <<o>>  OBVIOUS
      <4>2. DOMAIN r = 1..(Len(options) + 1) /\ r[Len(options) + 1] = o
            /\ \A i \in 1..Len(options) : r[i] = options[i]
        BY <1>4, <4>1
      <4>3. k \in 1..Len(options) \/ k = Len(options) + 1  BY <1>4, <2>1, <4>1, <4>2
      <4>4. DOMAIN options = 1..Len(options)  BY <1>4
      <4> QED  BY <1>3, <1>7, <2>1, <3>1, <4>1, <4>2, <4>3, <4>4
    <3>3. n # "config"
      BY <1>7 DEF Handled, KnownNames, ListNames, FlagsOnly, Settings, Histories, Memory,
                  Timeouts
    <3>4. ASSUME NEW k \in DOMAIN given'
          PROVE  /\ ~(given'[k].name = "config" /\ given'[k].value = "bad")
                 /\ ~FileFaulty(given'[k].file)
      <4>1. CASE k = Len(given')  BY <1>2, <1>5, <1>6, <3>3, <4>1
      <4>2. CASE k # Len(given')
        <5>1. k \in DOMAIN given /\ given'[k] = given[k]  BY <1>5, <4>2
        <5> QED  BY <1>1, <5>1 DEF ConfigInv, SoundInv
      <4> QED  BY <4>1, <4>2
    <3>5. \A m \in DOMAIN file \ left :
             /\ file[m].kind # "null"
             /\ file[m].kind \in {"list", "other"} => Decodable(file) /\ AllLists(file) # <<>>
      BY <1>1 DEF ConfigInv, SoundInv
    <3>6. file' = file /\ left' = left  BY <1>1
    <3> QED  BY <3>2, <3>4, <3>5, <3>6 DEF SoundInv
  <2>6. ConfigIsAsRead'  BY <1>1, <2>1 DEF ConfigIsAsRead
  <2> QED  BY <2>3, <2>4, <2>5, <2>6 DEF ConfigInv
<1>8. CASE ~Handled(n, v)
  <2>1. phase' = "refused" /\ options' = options  BY <1>1, <1>8 DEF Refuse
  <2>2. OptionsType'  BY <1>4, <1>5, <2>1 DEF OptionsType
  <2>3. v \in ToSet(ReadBy(n))'
    <3>1. Reads(g, n) = <<v>> /\ v \in ToSet(<<v>>)  BY <1>6 DEF ToSet
    <3>2. ToSet(ReadBy(n) \o Reads(g, n)) = ToSet(ReadBy(n)) \union ToSet(Reads(g, n))
      <4>1. ReadBy(n) \in Seq(Strings) /\ Reads(g, n) \in Seq(Strings)  BY <1>5
      <4> HIDE DEF Strings
      <4> QED  BY ONLY <4>1, ToSetConcat
    <3>3. ReadBy(n)' = ReadBy(n) \o Reads(g, n)  BY <1>5
    <3>4. v \in ToSet(ReadBy(n)')  BY <3>1, <3>2, <3>3
    <3> QED  BY <3>4 DEF ToSet
  <2>4. Wrong'  BY <1>8, <2>3, WrongValue
  <2> QED  BY <2>1, <2>2, <2>4, RefuseStep
<1> QED  BY <1>7, <1>8

\* --config with a file that cannot be read.
LEMMA BadFileStep ==
    ASSUME ConfigInv, BadFile
    PROVE  ConfigInv'
<1> DEFINE g == [name |-> "config", value |-> "bad", file |-> NoFile]
<1>1. given' = Append(given, g) /\ phase' = "refused" /\ options' = options
  BY DEF BadFile, Read, Refuse
<1>2. g \in Givens /\ g.name = "config" /\ g.value = "bad"  BY DEF Givens
<1> HIDE DEF g
<1>3. given \in Seq(Givens) /\ options \in Seq(Taken)  BY DEF ConfigInv, OptionsType
<1>4. /\ given' \in Seq(Givens) /\ Len(given) \in Nat /\ Len(given') = Len(given) + 1
      /\ DOMAIN given' = 1..Len(given') /\ given'[Len(given')] = g
  BY <1>1, <1>2, <1>3, GivenMore
<1>5. OptionsType'  BY <1>1, <1>3, <1>4 DEF OptionsType
<1>6. Len(given') \in DOMAIN given'  BY <1>4
<1>7. Wrong'  BY <1>2, <1>4, <1>6 DEF Wrong
<1> QED  BY <1>1, <1>5, <1>7, RefuseStep

\* --config with a file.
LEMMA ConfigFileStep ==
    ASSUME ConfigInv, ConfigFile
    PROVE  ConfigInv'
<1>1. PICK f \in Files :
         /\ given' = Append(given, [name |-> "config", value |-> "", file |-> f])
         /\ phase = "flags" /\ phase' = "file" /\ file' = f /\ left' = DOMAIN f
         /\ UNCHANGED <<shell, options, config, errors>>
  BY DEF ConfigFile, Read
<1>2. PICK g : g = [name |-> "config", value |-> "", file |-> f]  OBVIOUS
<1>3. g \in Givens /\ g.file = f  BY <1>2 DEF Givens
<1>4. given \in Seq(Givens) /\ options \in Seq(Taken) /\ left = {}
  BY <1>1 DEF ConfigInv, OptionsType
<1>5. /\ given' \in Seq(Givens) /\ Len(given) \in Nat /\ Len(given') = Len(given) + 1
      /\ DOMAIN given = 1..Len(given) /\ DOMAIN given' = 1..Len(given')
      /\ given'[Len(given')] = g /\ \A k \in 1..Len(given) : given'[k] = given[k]
      /\ \A m : /\ ReadIn(Len(given) - 1, m)' = ReadBy(m)
                /\ ReadBy(m)' = ReadBy(m) \o Reads(g, m)
                /\ ReadBy(m) \in Seq(Strings) /\ Reads(g, m) \in Seq(Strings)
  BY <1>1, <1>2, <1>3, <1>4, GivenMore
<1>6. OptionsType'
  <2>1. Len(given') > 0 /\ given'[Len(given')] = g  BY <1>5
  <2> QED  BY <1>1, <1>2, <1>4, <1>5, <2>1 DEF OptionsType
<1>7. FollowsInv'
  <2> SUFFICES ASSUME NEW m \in AllNames
               PROVE  /\ m \notin left' => Follows(options', m, ReadBy(m)')
                      /\ m \in left' /\ m \notin ListNames =>
                            Follows(options', m, ReadIn(Len(given) - 1, m)')
                      /\ m \in left' /\ m \in ListNames =>
                            /\ ToSet(ReadIn(Len(given) - 1, m)') \subseteq ValuesOf(options', m)
                            /\ ValuesOf(options', m) \subseteq ToSet(ReadBy(m)')
    BY DEF FollowsInv, ToSet
  <2>1. Follows(options, m, ReadBy(m)) /\ options' = options /\ left' = DOMAIN f
    BY <1>1, <1>4 DEF ConfigInv, FollowsInv
  <2>2. m \notin DOMAIN f => ReadBy(m)' = ReadBy(m)
    <3>1. m \notin DOMAIN f => Reads(g, m) = <<>>  BY <1>3, FileReads
    <3> QED  BY <1>5, <3>1, ConcatEmptySeq
  <2>3. ToSet(ReadBy(m)') = ToSet(ReadBy(m)) \union ToSet(Reads(g, m))
    <3>1. ReadBy(m) \in Seq(Strings) /\ Reads(g, m) \in Seq(Strings)  BY <1>5
    <3> HIDE DEF Strings
    <3>2. ToSet(ReadBy(m) \o Reads(g, m)) = ToSet(ReadBy(m)) \union ToSet(Reads(g, m))
      BY ONLY <3>1, ToSetConcat
    <3> QED  BY <1>5, <3>2
  <2>4. ReadIn(Len(given) - 1, m)' = ReadBy(m)  BY <1>5
  <2>5. ValuesOf(options, m) = ToSet(ReadBy(m))  BY <2>1 DEF Follows
  <2> QED  BY <2>1, <2>2, <2>3, <2>4, <2>5
<1>8. SoundInv'
  <2>1. \A k \in DOMAIN options' : Handled(options'[k].name, options'[k].value)
    BY <1>1 DEF ConfigInv, SoundInv
  <2>2. ASSUME NEW k \in DOMAIN given', k # Len(given')
        PROVE  /\ ~(given'[k].name = "config" /\ given'[k].value = "bad")
               /\ ~FileFaulty(given'[k].file)
    <3>1. k \in DOMAIN given /\ given'[k] = given[k]  BY <1>5, <2>2
    <3> QED  BY <1>1, <3>1 DEF ConfigInv, SoundInv
  <2>3. DOMAIN file' \ left' = {}  BY <1>1
  <2> QED  BY <1>1, <2>1, <2>2, <2>3 DEF SoundInv
<1>9. ConfigIsAsRead'  BY <1>1 DEF ConfigIsAsRead
<1> QED  BY <1>6, <1>7, <1>8, <1>9 DEF ConfigInv

\* A key whose value is a string, an integer or a boolean.
LEMMA ScalarKeyStep ==
    ASSUME ConfigInv, NEW n \in FileNames, phase = "file", n \in left, left' = left \ {n},
           ScalarKey(n), UNCHANGED <<shell, given, file>>
    PROVE  ConfigInv'
<1> DEFINE v == IF file[n].kind = "bool" THEN "" ELSE file[n].values[1]
           o == Option(n, v)
<1>1. /\ file[n].kind \in {"scalar", "bool"}
      /\ IF Handled(n, v) THEN Take(<<o>>) ELSE Refuse
  BY DEF ScalarKey
<1>2. /\ given \in Seq(Givens) /\ options \in Seq(Taken) /\ Len(given) > 0
      /\ file \in Files /\ left \subseteq DOMAIN file /\ n \in DOMAIN file
  BY DEF ConfigInv, OptionsType
<1>3. PICK g : g = given[Len(given)] /\ g.file = file
  <2>1. given[Len(given)] = [name |-> "config", value |-> "", file |-> file]
    BY DEF ConfigInv, OptionsType
  <2>2. [name |-> "config", value |-> "", file |-> file].file = file  OBVIOUS
  <2> QED  BY ONLY <2>1, <2>2
<1>4. v \in Strings /\ Reads(g, n) = <<v>>
  <2>1. CASE file[n].kind = "bool"  BY <1>2, <1>3, <2>1, FileReads DEF Strings
  <2>2. CASE file[n].kind = "scalar"
    <3>1. PICK w \in Values : file[n].values = <<w>> /\ file[n].values[1] = w
      BY <1>2, <2>2, FileType
    <3> QED  BY <1>2, <1>3, <2>2, <3>1, FileReads DEF Strings
  <2> QED  BY <1>1, <2>1, <2>2
<1>5. o \in Taken /\ o.name = n /\ o.value = v  BY <1>4 DEF Option, Taken
<1> HIDE DEF o, v
<1>6. \A m : /\ ReadIn(Len(given) - 1, m) \in Seq(Strings)
             /\ Reads(g, m) \in Seq(Strings)
             /\ ReadBy(m) = ReadIn(Len(given) - 1, m) \o Reads(g, m)
             /\ ToSet(ReadBy(m)) = ToSet(ReadIn(Len(given) - 1, m)) \union ToSet(Reads(g, m))
  <2> SUFFICES ASSUME NEW m
               PROVE  /\ ReadIn(Len(given) - 1, m) \in Seq(Strings)
                      /\ Reads(g, m) \in Seq(Strings)
                      /\ ReadBy(m) = ReadIn(Len(given) - 1, m) \o Reads(g, m)
                      /\ ToSet(ReadBy(m)) = ToSet(ReadIn(Len(given) - 1, m))
                                             \union ToSet(Reads(g, m))
    OBVIOUS
  <2>1. /\ ReadIn(Len(given) - 1, m) \in Seq(Strings) /\ Reads(g, m) \in Seq(Strings)
        /\ ReadBy(m) = ReadIn(Len(given) - 1, m) \o Reads(g, m)
    BY <1>2, <1>3, GivenLast
  <2> HIDE DEF Strings
  <2>2. ToSet(ReadIn(Len(given) - 1, m) \o Reads(g, m))
          = ToSet(ReadIn(Len(given) - 1, m)) \union ToSet(Reads(g, m))
    BY ONLY <2>1, ToSetConcat
  <2> QED  BY <2>1, <2>2
<1>7. \A m : /\ ReadBy(m)' = ReadBy(m)
             /\ ReadIn(Len(given) - 1, m)' = ReadIn(Len(given) - 1, m)
  BY GivenSame
<1>8. ToSet(<<v>>) = {v}  BY DEF ToSet
<1>9. CASE Handled(n, v)
  <2>1. options' = options \o <<o>> /\ UNCHANGED <<phase, config, errors>>
    BY <1>1, <1>9 DEF Take
  <2>2. <<o>> \in Seq(Taken) /\ Len(<<o>>) = 1 /\ <<o>>[1] = o /\ DOMAIN <<o>> = {1}
    <3> HIDE DEF Taken
    <3> QED  BY <1>5
  <2>3. OptionsType'
    <3>1. options' \in Seq(Taken)  BY <1>2, <2>1, <2>2, TakenMore
    <3> QED  BY <1>2, <2>1, <3>1 DEF ConfigInv, OptionsType
  <2>4. ASSUME NEW m
        PROVE  ValuesOf(options', m) = ValuesOf(options, m) \union (IF m = n THEN {v} ELSE {})
    <3>1. ValuesOf(options \o <<o>>, m) = ValuesOf(options, m) \union ValuesOf(<<o>>, m)
      BY <1>2, <2>2, TakenMore
    <3>2. ValuesOf(<<o>>, m) = IF m = n THEN {v} ELSE {}
      BY <1>5, <2>2 DEF ValuesOf
    <3> QED  BY <2>1, <3>1, <3>2
  <2>5. FollowsInv'
    <3> SUFFICES ASSUME NEW m \in AllNames
                 PROVE  /\ m \notin left' => Follows(options', m, ReadBy(m))
                        /\ m \in left' /\ m \notin ListNames =>
                              Follows(options', m, ReadIn(Len(given) - 1, m))
                        /\ m \in left' /\ m \in ListNames =>
                              /\ ToSet(ReadIn(Len(given) - 1, m)) \subseteq ValuesOf(options', m)
                              /\ ValuesOf(options', m) \subseteq ToSet(ReadBy(m))
      BY <1>7 DEF FollowsInv, ToSet
    <3>1. /\ m \notin left => Follows(options, m, ReadBy(m))
          /\ m \in left /\ m \notin ListNames =>
                Follows(options, m, ReadIn(Len(given) - 1, m))
          /\ m \in left /\ m \in ListNames =>
                /\ ToSet(ReadIn(Len(given) - 1, m)) \subseteq ValuesOf(options, m)
                /\ ValuesOf(options, m) \subseteq ToSet(ReadBy(m))
      BY DEF ConfigInv, FollowsInv
    <3>2. CASE m = n /\ m \notin ListNames
      <4>1. PICK q \in Seq(Strings) : q = ReadIn(Len(given) - 1, m)  BY <1>6
      <4>2. Follows(options \o <<o>>, n, q \o <<o.value>>)
        BY <1>2, <1>5, <3>1, <3>2, <4>1, FollowsNext
      <4>3. ReadBy(m) = q \o <<o.value>>  BY <1>4, <1>5, <1>6, <3>2, <4>1
      <4> QED  BY <2>1, <3>2, <4>2, <4>3
    <3>3. CASE m = n /\ m \in ListNames
      <4>1. ValuesOf(options', m) = ValuesOf(options, m) \union {v}  BY <2>4, <3>3
      <4>2. ToSet(ReadBy(m)) = ToSet(ReadIn(Len(given) - 1, m)) \union {v}
        BY <1>4, <1>6, <1>8, <3>3
      <4>3. ValuesOf(options', m) = ToSet(ReadBy(m))  BY <3>1, <3>3, <4>1, <4>2
      <4> QED  BY <3>3, <4>3 DEF Follows
    <3>4. CASE m # n
      <4>1. \A k \in DOMAIN <<o>> : <<o>>[k].name # m  BY <1>5, <2>2, <3>4
      <4>2. ASSUME NEW q, Follows(options, m, q) PROVE Follows(options', m, q)
        BY <1>2, <2>1, <2>2, <4>1, <4>2, FollowsStill
      <4>3. ValuesOf(options', m) = ValuesOf(options, m)  BY <2>4, <3>4
      <4> QED  BY <3>1, <3>4, <4>2, <4>3
    <3> QED  BY <3>2, <3>3, <3>4
  <2>6. SoundInv'
    <3>1. \A k \in DOMAIN options : Handled(options[k].name, options[k].value)
      BY DEF ConfigInv, SoundInv
    <3>2. ASSUME NEW k \in DOMAIN options' PROVE Handled(options'[k].name, options'[k].value)
      <4>1. PICK r : r = options \o <<o>>  OBVIOUS
      <4>2. DOMAIN r = 1..(Len(options) + 1) /\ r[Len(options) + 1] = o
            /\ \A i \in 1..Len(options) : r[i] = options[i]
        BY <1>2, <4>1
      <4>3. k \in 1..Len(options) \/ k = Len(options) + 1  BY <1>2, <2>1, <4>1, <4>2
      <4>4. DOMAIN options = 1..Len(options)  BY <1>2
      <4> QED  BY <1>5, <1>9, <2>1, <3>1, <4>1, <4>2, <4>3, <4>4
    <3>3. \A m \in DOMAIN file' \ left' :
             /\ file'[m].kind # "null"
             /\ file'[m].kind \in {"list", "other"} => Decodable(file') /\ AllLists(file') # <<>>
      <4>1. file' = file /\ \A m \in DOMAIN file \ left' : m \in DOMAIN file \ left \/ m = n
        OBVIOUS
      <4>2. file[n].kind \notin {"list", "null", "other"}  BY <1>1
      <4> QED  BY <4>1, <4>2 DEF ConfigInv, SoundInv
    <3> QED  BY <2>1, <3>2, <3>3 DEF ConfigInv, SoundInv
  <2>7. ConfigIsAsRead'  BY <2>1 DEF ConfigIsAsRead
  <2> QED  BY <2>3, <2>5, <2>6, <2>7 DEF ConfigInv
<1>10. CASE ~Handled(n, v)
  <2>1. phase' = "refused" /\ options' = options  BY <1>1, <1>10 DEF Refuse
  <2>2. OptionsType'  BY <1>2, <2>1 DEF OptionsType
  <2>3. v \in ToSet(ReadBy(n)')  BY <1>4, <1>6, <1>7, <1>8
  <2>4. Wrong'  BY <1>10, <2>3, WrongValue DEF ToSet
  <2> QED  BY <2>1, <2>2, <2>4, RefuseStep
<1> QED  BY <1>9, <1>10

\* A key with null.
LEMMA NullKeyStep ==
    ASSUME ConfigInv, NEW n \in FileNames, phase = "file", n \in left, left' = left \ {n},
           NullKey(n), UNCHANGED <<shell, given, file>>
    PROVE  ConfigInv'
<1>1. /\ file[n].kind = "null" /\ phase' = "refused"
      /\ UNCHANGED <<options, config, errors>>
  BY DEF NullKey, Refuse
<1>2. /\ given \in Seq(Givens) /\ options \in Seq(Taken) /\ Len(given) > 0
      /\ left \subseteq DOMAIN file
      /\ given[Len(given)] = [name |-> "config", value |-> "", file |-> file]
  BY DEF ConfigInv, OptionsType
<1>3. [name |-> "config", value |-> "", file |-> file].file = file  OBVIOUS
<1>4. given[Len(given)].file = file  BY ONLY <1>2, <1>3
<1>5. FileFaulty(file)  BY <1>1, <1>2 DEF FileFaulty
<1>6. FileFaulty(given'[Len(given)].file)  BY <1>4, <1>5
<1>7. Len(given) \in DOMAIN given
  <2>1. given \in Seq(Givens) /\ Len(given) > 0  BY <1>2
  <2> HIDE DEF Givens
  <2> QED  BY ONLY <2>1
<1>8. Wrong'  BY <1>6, <1>7 DEF Wrong
<1>9. OptionsType'  BY <1>1, <1>2 DEF OptionsType
<1> QED  BY <1>1, <1>8, <1>9, RefuseStep

\* A key with any other value: the list fields are taken.
LEMMA OtherKeyStep ==
    ASSUME ConfigInv, NEW n \in FileNames, phase = "file", n \in left, left' = left \ {n},
           OtherKey(n), UNCHANGED <<shell, given, file>>
    PROVE  ConfigInv'
<1> DEFINE good == /\ Decodable(file) /\ AllLists(file) # <<>>
                   /\ \A k \in DOMAIN AllLists(file) :
                         Handled(AllLists(file)[k].name, AllLists(file)[k].value)
<1>1. /\ file[n].kind \in {"list", "other"}
      /\ IF good THEN Take(AllLists(file)) ELSE Refuse
  BY DEF OtherKey
<1>2. /\ given \in Seq(Givens) /\ options \in Seq(Taken) /\ Len(given) > 0
      /\ file \in Files /\ left \subseteq DOMAIN file /\ n \in DOMAIN file
  BY DEF ConfigInv, OptionsType
<1>3. PICK g : g = given[Len(given)] /\ g.file = file
  <2>1. given[Len(given)] = [name |-> "config", value |-> "", file |-> file]
    BY DEF ConfigInv, OptionsType
  <2>2. [name |-> "config", value |-> "", file |-> file].file = file  OBVIOUS
  <2> QED  BY ONLY <2>1, <2>2
<1>4. PICK ps \in Seq(Taken) :
         /\ ps = AllLists(file)
         /\ \A x \in ListNames : ValuesOf(ps, x) = ToSet(Listed(file, x))
         /\ \A x : x \notin ListNames => ValuesOf(ps, x) = {}
         /\ \A k \in DOMAIN ps :
               ps[k].name \in ListNames /\ ps[k].value \in ToSet(Listed(file, ps[k].name))
  BY <1>2, ListsTaken
<1>5. n \notin ListNames => Reads(g, n) = <<>>  BY <1>1, <1>2, <1>3, FileReads
<1>6. \A m : /\ ReadIn(Len(given) - 1, m) \in Seq(Strings)
             /\ Reads(g, m) \in Seq(Strings)
             /\ ReadBy(m) = ReadIn(Len(given) - 1, m) \o Reads(g, m)
             /\ ToSet(ReadBy(m)) = ToSet(ReadIn(Len(given) - 1, m)) \union ToSet(Reads(g, m))
  <2> SUFFICES ASSUME NEW m
               PROVE  /\ ReadIn(Len(given) - 1, m) \in Seq(Strings)
                      /\ Reads(g, m) \in Seq(Strings)
                      /\ ReadBy(m) = ReadIn(Len(given) - 1, m) \o Reads(g, m)
                      /\ ToSet(ReadBy(m)) = ToSet(ReadIn(Len(given) - 1, m))
                                             \union ToSet(Reads(g, m))
    OBVIOUS
  <2>1. /\ ReadIn(Len(given) - 1, m) \in Seq(Strings) /\ Reads(g, m) \in Seq(Strings)
        /\ ReadBy(m) = ReadIn(Len(given) - 1, m) \o Reads(g, m)
    BY <1>2, <1>3, GivenLast
  <2> HIDE DEF Strings
  <2>2. ToSet(ReadIn(Len(given) - 1, m) \o Reads(g, m))
          = ToSet(ReadIn(Len(given) - 1, m)) \union ToSet(Reads(g, m))
    BY ONLY <2>1, ToSetConcat
  <2> QED  BY <2>1, <2>2
<1>7. \A m : /\ ReadBy(m)' = ReadBy(m)
             /\ ReadIn(Len(given) - 1, m)' = ReadIn(Len(given) - 1, m)
  BY GivenSame
<1>8. CASE good
  <2>1. options' = options \o ps /\ UNCHANGED <<phase, config, errors>>
    BY <1>1, <1>4, <1>8 DEF Take
  <2>2. OptionsType'
    <3>1. options' \in Seq(Taken)  BY <1>2, <2>1, TakenMore
    <3> QED  BY <1>2, <2>1, <3>1 DEF ConfigInv, OptionsType
  <2>3. ASSUME NEW m PROVE ValuesOf(options', m) = ValuesOf(options, m) \union ValuesOf(ps, m)
    BY <1>2, <2>1, TakenMore
  <2>4. \A x \in ListNames : Reads(g, x) = Listed(file, x)
    <3> SUFFICES ASSUME NEW x \in ListNames PROVE Reads(g, x) = Listed(file, x)  OBVIOUS
    <3>1. CASE x \in DOMAIN file
      <4>1. file[x].kind \in {"list", "null"}  BY <1>8, <3>1 DEF Decodable
      <4>2. file[x].kind = "null" => file[x].values = <<>>  BY <1>2, <3>1, FileType
      <4> QED  BY <1>2, <1>3, <3>1, <4>1, <4>2, FileReads DEF Listed
    <3>2. CASE x \notin DOMAIN file  BY <1>2, <1>3, <3>2, FileReads DEF Listed
    <3> QED  BY <3>1, <3>2
  <2>5. FollowsInv'
    <3> SUFFICES ASSUME NEW m \in AllNames
                 PROVE  /\ m \notin left' => Follows(options', m, ReadBy(m))
                        /\ m \in left' /\ m \notin ListNames =>
                              Follows(options', m, ReadIn(Len(given) - 1, m))
                        /\ m \in left' /\ m \in ListNames =>
                              /\ ToSet(ReadIn(Len(given) - 1, m)) \subseteq ValuesOf(options', m)
                              /\ ValuesOf(options', m) \subseteq ToSet(ReadBy(m))
      BY <1>7 DEF FollowsInv, ToSet
    <3>1. /\ m \notin left => Follows(options, m, ReadBy(m))
          /\ m \in left /\ m \notin ListNames =>
                Follows(options, m, ReadIn(Len(given) - 1, m))
          /\ m \in left /\ m \in ListNames =>
                /\ ToSet(ReadIn(Len(given) - 1, m)) \subseteq ValuesOf(options, m)
                /\ ValuesOf(options, m) \subseteq ToSet(ReadBy(m))
      BY DEF ConfigInv, FollowsInv
    <3>2. CASE m \notin ListNames
      <4>1. \A k \in DOMAIN ps : ps[k].name # m  BY <1>4, <3>2
      <4>2. ASSUME NEW q, Follows(options, m, q) PROVE Follows(options', m, q)
        BY <1>2, <2>1, <4>1, <4>2, FollowsStill
      <4>3. m = n => ReadBy(m) = ReadIn(Len(given) - 1, m)
        BY <1>5, <1>6, <3>2, ConcatEmptySeq
      <4> QED  BY <3>1, <3>2, <4>2, <4>3
    <3>3. CASE m \in ListNames
      <4>1. ValuesOf(options', m) = ValuesOf(options, m) \union ToSet(Reads(g, m))
        BY <1>4, <2>3, <2>4, <3>3
      <4>2. ToSet(ReadBy(m)) = ToSet(ReadIn(Len(given) - 1, m)) \union ToSet(Reads(g, m))
        BY <1>6
      <4>3. m \notin left => ValuesOf(options, m) = ToSet(ReadBy(m))
        BY <3>1 DEF Follows
      <4>4. m \notin left' => ValuesOf(options', m) = ToSet(ReadBy(m))
        BY <3>1, <3>3, <4>1, <4>2, <4>3
      <4>5. m \in left' => m \in left  OBVIOUS
      <4> QED  BY <3>1, <3>3, <4>1, <4>2, <4>4, <4>5 DEF Follows
    <3> QED  BY <3>2, <3>3
  <2>6. SoundInv'
    <3>1. \A k \in DOMAIN options : Handled(options[k].name, options[k].value)
      BY DEF ConfigInv, SoundInv
    <3>2. \A k \in DOMAIN ps : Handled(ps[k].name, ps[k].value)  BY <1>4, <1>8
    <3>3. ASSUME NEW k \in DOMAIN options' PROVE Handled(options'[k].name, options'[k].value)
      <4>1. PICK r : r = options \o ps  OBVIOUS
      <4>2. PICK a \in Nat, b \in Nat : a = Len(options) /\ b = Len(ps)  BY <1>2
      <4>3. /\ Len(r) = a + b /\ r \in Seq(Taken)
            /\ \A i \in 1..(a + b) : r[i] = IF i <= a THEN options[i] ELSE ps[i - a]
        <5> HIDE DEF Taken
        <5> QED  BY <1>2, <4>1, <4>2, ConcatProperties
      <4>4. DOMAIN options = 1..a /\ DOMAIN ps = 1..b /\ DOMAIN r = 1..(a + b)
        BY <1>2, <4>2, <4>3
      <4>5. k \in 1..(a + b) /\ options' = r  BY <2>1, <4>1, <4>4
      <4>6. CASE k <= a  BY <3>1, <4>3, <4>4, <4>5, <4>6
      <4>7. CASE ~(k <= a)
        <5>1. PICK i : i = k - a  OBVIOUS
        <5>2. i \in 1..b /\ r[k] = ps[i]  BY <4>3, <4>5, <4>7, <5>1
        <5> QED  BY <3>2, <4>4, <4>5, <5>2
      <4> QED  BY <4>6, <4>7
    <3>4. Decodable(file) /\ AllLists(file) # <<>>  BY <1>8
    <3>5. file' = file /\ given' = given /\ phase' = phase  BY <2>1
    <3>6. \A m \in DOMAIN file \ left' : file[m].kind # "null"
      <4>1. \A m \in DOMAIN file \ left' : m \in DOMAIN file \ left \/ m = n
        OBVIOUS
      <4>2. file[n].kind # "null"  BY <1>1
      <4> QED  BY <4>1, <4>2 DEF ConfigInv, SoundInv
    <3> QED  BY <3>3, <3>4, <3>5, <3>6 DEF ConfigInv, SoundInv
  <2>7. ConfigIsAsRead'  BY <2>1 DEF ConfigIsAsRead
  <2> QED  BY <2>2, <2>5, <2>6, <2>7 DEF ConfigInv
<1>9. CASE ~good
  <2>1. phase' = "refused" /\ options' = options  BY <1>1, <1>9 DEF Refuse
  <2>2. OptionsType'  BY <1>2, <2>1 DEF OptionsType
  <2>3. CASE ~Decodable(file) \/ AllLists(file) = <<>>
    <3>1. FileFaulty(file)  BY <1>1, <1>2, <2>3 DEF FileFaulty
    <3>2. Len(given) \in DOMAIN given  BY <1>2
    <3>3. FileFaulty(given'[Len(given)].file)  BY <1>3, <3>1
    <3>4. Wrong'  BY <3>2, <3>3 DEF Wrong
    <3> QED  BY <2>1, <2>2, <3>4, RefuseStep
  <2>4. CASE \E k \in DOMAIN ps : ~Handled(ps[k].name, ps[k].value)
    <3>1. PICK k \in DOMAIN ps : ~Handled(ps[k].name, ps[k].value)  BY <2>4
    <3>2. PICK x, w : x = ps[k].name /\ w = ps[k].value  OBVIOUS
    <3>3. x \in ListNames /\ w \in ToSet(Listed(file, x))  BY <1>4, <3>2
    <3>4. x \in DOMAIN file /\ file[x].kind = "list" /\ Listed(file, x) = file[x].values
      BY <3>3 DEF Listed, ToSet
    <3>5. x \in FileNames  BY <1>2, <3>4, FileType
    <3>6. Reads(g, x) = Listed(file, x)  BY <1>2, <1>3, <3>3, <3>4, FileReads
    <3>7. w \in ToSet(ReadBy(x)')  BY <1>6, <1>7, <3>3, <3>6
    <3>8. Wrong'  BY <3>1, <3>2, <3>5, <3>7, WrongValue DEF ToSet
    <3> QED  BY <2>1, <2>2, <3>8, RefuseStep
  <2> QED  BY <1>4, <1>9, <2>3, <2>4
<1> QED  BY <1>8, <1>9

\* The file is read.
LEMMA FileDoneStep ==
    ASSUME ConfigInv, FileDone
    PROVE  ConfigInv'
<1>1. /\ phase = "file" /\ left = {} /\ phase' = "flags" /\ file' = NoFile /\ left' = {}
      /\ UNCHANGED <<shell, given, options, config, errors>>
  BY DEF FileDone
<1>2. OptionsType'  BY <1>1 DEF ConfigInv, OptionsType
<1>3. FollowsInv'
  <2>1. \A m \in AllNames : Follows(options, m, ReadBy(m))
    BY <1>1 DEF ConfigInv, FollowsInv
  <2>2. \A m : ReadBy(m)' = ReadBy(m)  BY <1>1, GivenSame
  <2> QED  BY <1>1, <2>1, <2>2 DEF FollowsInv
<1>4. SoundInv'
  <2>1. \A k \in DOMAIN options : Handled(options[k].name, options[k].value)
    BY <1>1 DEF ConfigInv, SoundInv
  <2>2. ASSUME NEW k \in DOMAIN given
        PROVE  /\ ~(given[k].name = "config" /\ given[k].value = "bad")
               /\ ~FileFaulty(given[k].file)
    <3>1. CASE k = Len(given)
      <4>1. given[k].value = "" /\ given[k].file = file
        <5>1. given[k] = [name |-> "config", value |-> "", file |-> file]
          BY <1>1, <3>1 DEF ConfigInv, OptionsType
        <5>2. [name |-> "config", value |-> "", file |-> file].value = ""  OBVIOUS
        <5>3. [name |-> "config", value |-> "", file |-> file].file = file  OBVIOUS
        <5> QED  BY ONLY <5>1, <5>2, <5>3
      <4>2. ~FileFaulty(file)  BY <1>1 DEF ConfigInv, SoundInv, FileFaulty
      <4> QED  BY <4>1, <4>2
    <3>2. CASE k # Len(given)  BY <1>1, <3>2 DEF ConfigInv, SoundInv
    <3> QED  BY <3>1, <3>2
  <2>3. DOMAIN file' = {}  BY <1>1 DEF NoFile
  <2> QED  BY <1>1, <2>1, <2>2, <2>3 DEF SoundInv
<1>5. ConfigIsAsRead'  BY <1>1 DEF ConfigIsAsRead
<1> QED  BY <1>2, <1>3, <1>4, <1>5 DEF ConfigInv

\* newConfig: what it reports is wrong, and what it returns is as given.
LEMMA NewConfigStep ==
    ASSUME ConfigInv, NewConfig
    PROVE  ConfigInv'
<1> DEFINE c == Configured(options)
           refused == \E k \in DOMAIN options : Refused(options[k])
           noId == c.set["id"] \in {<<>>, <<"">>}
<1>1. /\ phase = "flags" /\ UNCHANGED <<shell, given, file, left, options>>
      /\ \/ /\ ~refused /\ ~noId /\ shell # "" /\ phase' = "started"
            /\ config' = [c EXCEPT !.set["shell"] = <<shell>>]
         \/ /\ refused \/ noId \/ shell = ""
            /\ phase' = "refused"
  <2>1. PICK bad, unnamed, unset :
           /\ bad = {options[k].name : k \in {j \in DOMAIN options : Refused(options[j])}}
           /\ unnamed = (IF noId THEN {"id"} ELSE {})
           /\ unset = (IF shell = "" THEN {"SHELL"} ELSE {})
    OBVIOUS
  <2>2. bad = {} <=> ~refused  BY <2>1
  <2>3. unnamed = {} <=> ~noId  BY ONLY <2>1
  <2>4. unset = {} <=> shell # ""  BY ONLY <2>1
  <2>5. /\ phase = "flags" /\ UNCHANGED <<shell, given, file, left, options>>
        /\ IF bad \union unnamed \union unset = {}
           THEN phase' = "started" /\ config' = [c EXCEPT !.set["shell"] = <<shell>>]
           ELSE phase' = "refused"
    BY <2>1 DEF NewConfig
  <2>6. bad \union unnamed \union unset = {} <=> bad = {} /\ unnamed = {} /\ unset = {}
    OBVIOUS
  <2> HIDE DEF c, refused, noId
  <2> QED  BY ONLY <2>2, <2>3, <2>4, <2>5, <2>6
<1>2. given \in Seq(Givens) /\ options \in Seq(Taken) /\ left = {}
  BY <1>1 DEF ConfigInv, OptionsType
<1>3. OptionsType'  BY <1>1, <1>2 DEF OptionsType
<1>4. \A n \in AllNames : Follows(options, n, ReadBy(n))
  BY <1>1, <1>2 DEF ConfigInv, FollowsInv
<1>5. \A n : ReadBy(n)' = ReadBy(n)  BY <1>1, GivenSame
<1>6. ASSUME NEW k \in DOMAIN options
      PROVE  /\ options[k].name \in FlagNames \union FileNames
             /\ options[k].name \in KnownNames /\ options[k].name \in AllNames
             /\ options[k].value \in ToSet(ReadBy(options[k].name))
  <2>1. options[k] \in Taken  BY <1>2
  <2>2. options[k].name \in FlagNames \union FileNames  BY <2>1 DEF Taken
  <2>3. options[k].name \in KnownNames
    BY <1>1 DEF ConfigInv, SoundInv, Handled
  <2>4. options[k].name \in AllNames  BY <2>2 DEF AllNames
  <2>5. options[k].value \in ValuesOf(options, options[k].name)  BY DEF ValuesOf
  <2> QED  BY <1>4, <2>2, <2>3, <2>4, <2>5 DEF Follows
<1>7. ASSUME refused PROVE Wrong'
  <2>1. PICK k \in DOMAIN options : Refused(options[k])  BY <1>7
  <2>2. PICK n, v : n = options[k].name /\ v = options[k].value  OBVIOUS
  <2>3. n \notin FlagsOnly /\ Parsed(n, v) = <<>>  BY <2>1, <2>2 DEF Refused
  <2>4. n \in FlagNames \union FileNames /\ v \in ToSet(ReadBy(n)')  BY <1>5, <1>6, <2>2
  <2> QED  BY <2>3, <2>4 DEF Wrong, ToSet
<1>8. ASSUME ~refused
      PROVE  Holds(c, options, Len(options)) /\ DOMAIN options = 1..Len(options)
  <2>1. \A k \in DOMAIN options : options[k].name \in KnownNames /\ ~Refused(options[k])
    BY <1>6, <1>8
  <2>2. Holds(c, options, Len(options))  BY <1>2, <2>1, ConfiguredHolds
  <2> QED  BY <1>2, <2>2
<1> HIDE DEF c
<1>9. ASSUME ~refused, NEW n \in Settings
      PROVE  c.set[n] = IF ReadBy(n) = <<>> THEN Default.set[n]
                        ELSE Parsed(n, ReadBy(n)[Len(ReadBy(n))])
  <2>1. n \in AllNames /\ n \notin ListNames
    BY DEF AllNames, KnownNames, ListNames, Settings, Histories, Memory, Timeouts
  <2>2. PICK q : q = ReadBy(n)  OBVIOUS
  <2>3. Follows(options, n, q)  BY <1>4, <2>1, <2>2
  <2>4. CASE q = <<>>
    <3>1. ValuesOf(options, n) = {}  BY <2>3, <2>4 DEF Follows, ToSet
    <3>2. \A j \in DOMAIN options : options[j].name # n  BY <3>1 DEF ValuesOf
    <3> QED  BY <1>8, <1>9, <2>2, <2>4, <3>2 DEF Holds
  <2>5. CASE q # <<>>
    <3>1. PICK k \in DOMAIN options :
             LastAt(options, n, k) /\ options[k].value = q[Len(q)]
      BY <2>1, <2>3, <2>5 DEF Follows
    <3>2. c.set[n] = Parsed(n, options[k].value)
      BY <1>8, <1>9, <3>1 DEF Holds, LastAt
    <3> QED  BY <2>2, <2>5, <3>1, <3>2
  <2> QED  BY <2>4, <2>5
<1>10. ASSUME ~refused, noId PROVE Wrong'
  <2>1. "id" \in Settings /\ Default.set["id"] = <<>>
    BY DEF Default, Settings, Histories
  <2>2. PICK q : q = ReadBy("id")  OBVIOUS
  <2>3. c.set["id"] = IF q = <<>> THEN <<>> ELSE Parsed("id", q[Len(q)])
    BY <1>9, <1>10, <2>1, <2>2
  <2>4. \A v : Parsed("id", v) = <<v>>
    BY DEF Parsed, Histories, Timeouts, Memory
  <2>5. q = <<>> \/ q[Len(q)] = ""
    <3>1. ASSUME NEW v, <<v>> \in {<<>>, <<"">>} PROVE v = ""
      <4>1. <<v>> = <<"">>  BY <3>1
      <4>2. <<v>>[1] = v /\ <<"">>[1] = ""  OBVIOUS
      <4> QED  BY ONLY <4>1, <4>2
    <3>2. CASE q # <<>>
      <4>1. PICK v : v = q[Len(q)]  OBVIOUS
      <4>2. <<v>> \in {<<>>, <<"">>}  BY <1>10, <2>3, <2>4, <3>2, <4>1
      <4> QED  BY <3>1, <4>1, <4>2
    <3> QED  BY <3>2
  <2>6. ReadBy("id")' = q  BY <1>5, <2>2
  <2>7. ReadBy("id")' = <<>> \/ Last(ReadBy("id"))' = ""  BY <2>5, <2>6 DEF Last
  <2> QED  BY <2>7 DEF Wrong
<1>11. CASE phase' = "refused"
  <2>1. shell = "" => Wrong'  BY <1>1 DEF Wrong
  <2>2. Wrong'  BY <1>1, <1>7, <1>10, <1>11, <2>1
  <2> QED  BY <1>3, <1>11, <2>2, RefuseStep
<1>12. CASE phase' = "started"
  <2>1. /\ ~refused /\ ~noId /\ shell # "" /\ shell' = shell
        /\ config' = [c EXCEPT !.set["shell"] = <<shell>>]
    BY <1>1, <1>12
  <2>2. Holds(c, options, Len(options)) /\ DOMAIN options = 1..Len(options)
    BY <1>8, <2>1
  <2>3. /\ config'.flags = c.flags /\ config'.rules = c.rules /\ config'.creates = c.creates
        /\ \A n \in Settings : n # "shell" => config'.set[n] = c.set[n]
    <3>1. /\ c = [set |-> c.set, flags |-> c.flags, rules |-> c.rules, creates |-> c.creates]
          /\ c.set = [n \in Settings |-> c.set[n]]
      BY <2>2 DEF Holds
    <3>2. config' = [set |-> [c.set EXCEPT !["shell"] = <<shell>>], flags |-> c.flags,
                     rules |-> c.rules, creates |-> c.creates]
      BY <2>1, <3>1
    <3> QED  BY <3>1, <3>2
  <2>4. \A n \in AllNames : ValuesOf(options, n) = ToSet(ReadBy(n))  BY <1>4 DEF Follows
  <2>5. \A n \in Settings \ {"shell"} :
           config'.set[n] = IF ReadBy(n)' = <<>> THEN Default.set[n]
                            ELSE Parsed(n, Last(ReadBy(n))')
    <3> SUFFICES ASSUME NEW n \in Settings \ {"shell"}
                 PROVE  config'.set[n] = IF ReadBy(n)' = <<>> THEN Default.set[n]
                                         ELSE Parsed(n, Last(ReadBy(n))')
      OBVIOUS
    <3>1. PICK q : q = ReadBy(n)  OBVIOUS
    <3>2. ReadBy(n)' = q  BY <1>5, <3>1
    <3>3. Last(ReadBy(n))' = q[Len(q)]  BY <3>2 DEF Last
    <3>4. c.set[n] = IF q = <<>> THEN Default.set[n] ELSE Parsed(n, q[Len(q)])
      BY <1>9, <2>1, <3>1
    <3> QED  BY <2>3, <3>2, <3>3, <3>4
  <2>6. config'.flags = {n \in FlagsOnly : ReadBy(n)' # <<>>}
    <3>1. ASSUME NEW n \in FlagsOnly
          PROVE  (\E j \in 1..Len(options) : options[j].name = n) <=> ReadBy(n)' # <<>>
      <4>1. n \in AllNames  BY DEF AllNames, KnownNames
      <4>2. PICK q : q = ReadBy(n)  OBVIOUS
      <4>3. ValuesOf(options, n) = ToSet(q) /\ ReadBy(n)' = q  BY <1>5, <2>4, <4>1, <4>2
      <4>4. ToSet(q) # {} <=> q # <<>>
        <5>1. PICK s \in Seq(Strings) : s = q
          <6>1. CASE given = <<>>
            <7>1. ReadBy(n) = <<>>  BY <6>1 DEF ReadBy, ReadIn, FlattenSeq
            <7> QED  BY <4>2, <7>1, EmptySeq
          <6>2. CASE given # <<>>
            <7>1. Len(given) > 0  BY <1>2, <6>2
            <7> QED  BY <1>2, <4>2, <7>1, GivenLast
          <6> QED  BY <6>1, <6>2
        <5> HIDE DEF Strings
        <5>2. s # <<>> => 1 \in DOMAIN s  OBVIOUS
        <5>3. s # <<>> => s[1] \in ToSet(s)  BY <5>2 DEF ToSet
        <5>4. ToSet(<<>>) = {}  BY DEF ToSet
        <5> QED  BY <5>1, <5>3, <5>4
      <4>5. (\E j \in 1..Len(options) : options[j].name = n) <=> ValuesOf(options, n) # {}
        BY <2>2 DEF ValuesOf
      <4> QED  BY <4>3, <4>4, <4>5
    <3>2. c.flags = {n \in FlagsOnly : \E j \in 1..Len(options) : options[j].name = n}
      BY <2>2 DEF Holds
    <3> QED  BY <2>3, <3>1, <3>2
  <2>7. ToSet(config'.creates) = ToSet(ReadBy("creates")')
    <3>1. "creates" \in AllNames  BY DEF AllNames, KnownNames, ListNames
    <3>2. ToSet(c.creates) = ValuesOf(options, "creates")  BY <2>2 DEF Holds, ValuesOf
    <3> QED  BY <1>5, <2>3, <2>4, <3>1, <3>2
  <2>8. ToSet(config'.rules)
          = UNION {{Parsed(n, v)[1] : v \in ToSet(ReadBy(n)')} : n \in {"rule", "rule-json"}}
    <3>1. ToSet(c.rules) = {Parsed(options[j].name, options[j].value)[1] :
                              j \in {i \in DOMAIN options : options[i].name \in RuleNames}}
      BY <2>2 DEF Holds
    <3>2. \A n \in RuleNames : ToSet(ReadBy(n)') = ValuesOf(options, n)
      <4>1. RuleNames \subseteq AllNames  BY DEF RuleNames, AllNames, KnownNames, ListNames
      <4> QED  BY <1>5, <2>4, <4>1
    <3>3. ASSUME NEW r
          PROVE  r \in ToSet(c.rules)
                   <=> r \in UNION {{Parsed(n, v)[1] : v \in ToSet(ReadBy(n)')} : n \in RuleNames}
      <4>1. ASSUME r \in ToSet(c.rules)
            PROVE  \E n \in RuleNames : \E v \in ToSet(ReadBy(n)') : r = Parsed(n, v)[1]
        <5>1. PICK j \in DOMAIN options : /\ options[j].name \in RuleNames
                                          /\ r = Parsed(options[j].name, options[j].value)[1]
          BY <3>1, <4>1
        <5>2. options[j].value \in ValuesOf(options, options[j].name)  BY DEF ValuesOf
        <5> QED  BY <3>2, <5>1, <5>2
      <4>2. ASSUME NEW n \in RuleNames, NEW v, v \in ToSet(ReadBy(n)'), r = Parsed(n, v)[1]
            PROVE  r \in ToSet(c.rules)
        <5>1. v \in ValuesOf(options, n)  BY <3>2, <4>2
        <5>2. PICK j \in DOMAIN options : options[j].name = n /\ options[j].value = v
          BY <5>1 DEF ValuesOf
        <5> QED  BY <3>1, <4>2, <5>2
      <4>3. r \in UNION {{Parsed(n, v)[1] : v \in ToSet(ReadBy(n)')} : n \in RuleNames}
              <=> \E n \in RuleNames : \E v \in ToSet(ReadBy(n)') : r = Parsed(n, v)[1]
        OBVIOUS
      <4> QED  BY <4>1, <4>2, <4>3
    <3> QED  BY <2>3, <3>3 DEF RuleNames
  <2>9. AsRead'  BY <2>5, <2>6, <2>7, <2>8 DEF AsRead, ToSet
  <2>10. ~Wrong'
    <3>1. \A k \in DOMAIN given :
             /\ ~(given[k].name = "config" /\ given[k].value = "bad")
             /\ ~FileFaulty(given[k].file)
      BY <1>1 DEF ConfigInv, SoundInv
    <3>2. ASSUME NEW n \in FlagNames \union FileNames, NEW v \in ToSet(ReadBy(n)')
          PROVE  Handled(n, v) /\ (n \in FlagsOnly \/ Parsed(n, v) # <<>>)
      <4>1. n \in AllNames  BY DEF AllNames
      <4>2. PICK k \in DOMAIN options : options[k].name = n /\ options[k].value = v
        BY <1>5, <2>4, <3>2, <4>1 DEF ValuesOf
      <4>3. Handled(n, v)  BY <1>1, <4>2 DEF ConfigInv, SoundInv
      <4>4. ~Refused(options[k])  BY <2>1
      <4> QED  BY <4>2, <4>3, <4>4 DEF Refused
    <3>3. ReadBy("id")' # <<>> /\ Last(ReadBy("id"))' # ""
      <4>1. "id" \in Settings /\ Default.set["id"] = <<>>
        BY DEF Default, Settings, Histories
      <4>2. PICK q : q = ReadBy("id")  OBVIOUS
      <4>3. c.set["id"] = IF q = <<>> THEN <<>> ELSE Parsed("id", q[Len(q)])
        BY <1>9, <2>1, <4>1, <4>2
      <4>4. \A v : Parsed("id", v) = <<v>>
    BY DEF Parsed, Histories, Timeouts, Memory
      <4>5. c.set["id"] # <<>> /\ c.set["id"] # <<"">>  BY <2>1
      <4>6. q # <<>> /\ q[Len(q)] # ""  BY <4>3, <4>4, <4>5
      <4>7. ReadBy("id")' = q  BY <1>5, <4>2
      <4> QED  BY <4>6, <4>7 DEF Last
    <3> QED  BY <1>1, <2>1, <3>1, <3>2, <3>3 DEF Wrong, ToSet
  <2> QED  BY <1>3, <1>12, <2>9, <2>10
           DEF ConfigInv, FollowsInv, SoundInv, ConfigIsAsRead
<1> QED  BY <1>1, <1>11, <1>12

\* Nothing was read yet.
LEMMA FirstStep ==
    ASSUME Init
    PROVE  ConfigInv
<1>1. /\ given = <<>> /\ options = <<>> /\ phase = "flags" /\ left = {} /\ file = NoFile
  BY DEF Init
<1>2. OptionsType  BY <1>1, EmptySeq DEF OptionsType
<1>3. FollowsInv
  <2> SUFFICES ASSUME NEW n \in AllNames PROVE Follows(options, n, ReadBy(n))
    BY <1>1 DEF FollowsInv
  <2>1. ReadBy(n) = <<>>  BY <1>1 DEF ReadBy, ReadIn, FlattenSeq
  <2> QED  BY <1>1, <2>1, FollowsFirst
<1>4. SoundInv
  <2>1. DOMAIN file = {}  BY <1>1 DEF NoFile
  <2> QED  BY <1>1, <2>1 DEF SoundInv
<1> QED  BY <1>1, <1>2, <1>3, <1>4 DEF ConfigInv, ConfigIsAsRead

\* Every step preserves the invariant.
LEMMA ConfigStep == ConfigInv /\ [Next]_vars => ConfigInv'
<1> SUFFICES ASSUME ConfigInv, [Next]_vars PROVE ConfigInv'  OBVIOUS
<1>1. CASE \E n \in FlagNames : \E v \in FlagValues(n) : Flag(n, v)  BY <1>1, FlagStep
<1>2. CASE BadFile  BY <1>2, BadFileStep
<1>3. CASE ConfigFile  BY <1>3, ConfigFileStep
<1>4. CASE FileDone  BY <1>4, FileDoneStep
<1>5. CASE NewConfig  BY <1>5, NewConfigStep
<1>6. ASSUME NEW n \in FileNames, FileKey(n) PROVE ConfigInv'
  <2>1. /\ phase = "file" /\ n \in left /\ left' = left \ {n}
        /\ (ScalarKey(n) \/ NullKey(n) \/ OtherKey(n))
    BY <1>6 DEF FileKey
  <2>2. UNCHANGED <<shell, given, file>>  BY <1>6 DEF FileKey
  <2> QED  BY <2>1, <2>2, ScalarKeyStep, NullKeyStep, OtherKeyStep
<1>7. CASE UNCHANGED vars
  <2>1. UNCHANGED <<shell, given, phase, file, left, options, config>>  BY <1>7 DEF vars
  <2>2. \A n : /\ ReadBy(n)' = ReadBy(n)
               /\ ReadIn(Len(given) - 1, n)' = ReadIn(Len(given) - 1, n)
    BY <2>1, GivenSame
  <2>3. FollowsInv'  BY <2>1, <2>2 DEF ConfigInv, FollowsInv, ToSet
  <2>4. OptionsType' /\ SoundInv'  BY <2>1 DEF ConfigInv, OptionsType, SoundInv
  <2>5. Wrong' = Wrong  BY <2>1, <2>2 DEF Wrong, ToSet, Last
  <2>6. ASSUME AsRead PROVE AsRead'
    <3>1. \A n : Last(ReadBy(n))' = Last(ReadBy(n))  BY <2>2 DEF Last
    <3>2. \A n \in Settings \ {"shell"} :
             config'.set[n] = IF ReadBy(n)' = <<>> THEN Default.set[n]
                              ELSE Parsed(n, Last(ReadBy(n))')
      BY <2>1, <2>2, <2>6, <3>1 DEF AsRead
    <3>3. config'.flags = {n \in FlagsOnly : ReadBy(n)' # <<>>}
      BY <2>1, <2>2, <2>6 DEF AsRead
    <3>4. ToSet(config'.rules)
            = UNION {{Parsed(n, v)[1] : v \in ToSet(ReadBy(n)')} : n \in {"rule", "rule-json"}}
      BY <2>1, <2>2, <2>6 DEF AsRead
    <3>5. ToSet(config'.creates) = ToSet(ReadBy("creates")')
      BY <2>1, <2>2, <2>6 DEF AsRead
    <3> QED  BY <3>2, <3>3, <3>4, <3>5 DEF AsRead, ToSet
  <2> QED  BY <2>1, <2>3, <2>4, <2>5, <2>6 DEF ConfigInv, ConfigIsAsRead
<1> QED  BY <1>1, <1>2, <1>3, <1>4, <1>5, <1>6, <1>7 DEF Next

-----------------------------------------------------------------------------
(***************************************************************************)
(* From what is read to what is given.                                       *)
(***************************************************************************)

\* The elements of a flattened sequence.
LEMMA FlattenElements ==
    ASSUME NEW S, NEW ws \in Seq(Seq(S))
    PROVE  /\ FlattenSeq(ws) \in Seq(S)
           /\ ToSet(FlattenSeq(ws)) = UNION {ToSet(ws[k]) : k \in DOMAIN ws}
<1>1. FlattenSeq(ws) \in Seq(S)  BY FlattenType
<1>2. PICK n \in Nat : n = Len(ws) /\ DOMAIN ws = 1..n  OBVIOUS
<1>3. CASE n = 0
  <2>1. ws = <<>>  BY <1>2, <1>3
  <2>2. FlattenSeq(ws) = <<>>  BY <2>1 DEF FlattenSeq
  <2> QED  BY <1>1, <1>2, <1>3, <2>2 DEF ToSet
<1>4. CASE n # 0
  <2>1. PICK f : IsFlat(f, ws, n) /\ FlattenSeq(ws) = f[n]  BY <1>2, <1>4, FlattenIsFlat
  <2> DEFINE Good(m) == f[m] \in Seq(S) /\ ToSet(f[m]) = UNION {ToSet(ws[k]) : k \in 1..m}
             D == {m \in Nat : m \in 1..n => Good(m)}
  <2>2. 0 \in D  OBVIOUS
  <2>3. ASSUME NEW m \in Nat, m \in D PROVE m + 1 \in D
    <3> SUFFICES ASSUME m + 1 \in 1..n PROVE Good(m + 1)  OBVIOUS
    <3>1. PICK p \in 1..n : p = m + 1  OBVIOUS
    <3>2. f[p] = IF p = 1 THEN ws[p] ELSE f[p - 1] \o ws[p]  BY <2>1, FlatAt
    <3>3. PICK w \in Seq(S) : w = ws[p]  BY <1>2
    <3>4. CASE m = 0
      <4>1. p = 1 /\ 1..p = {p}  BY <3>1, <3>4
      <4>2. f[p] = w  BY <3>2, <3>3, <4>1
      <4>3. UNION {ToSet(ws[k]) : k \in {p}} = ToSet(w)  BY <3>3
      <4>4. UNION {ToSet(ws[k]) : k \in 1..p} = ToSet(w)  BY ONLY <4>1, <4>3
      <4>5. Good(p)  BY <4>2, <4>4
      <4> QED  BY <3>1, <4>5
    <3>5. CASE m # 0
      <4>1. p # 1 /\ p - 1 = m /\ m \in 1..n /\ 1..p = 1..m \union {p}  BY <3>1, <3>5
      <4>2. Good(m)  BY <2>3, <4>1
      <4>3. PICK v \in Seq(S) : v = f[m]  BY <4>2
      <4>4. f[p] = v \o w  BY <3>2, <3>3, <4>1, <4>3
      <4>5. v \o w \in Seq(S) /\ ToSet(v \o w) = ToSet(v) \union ToSet(w)
        BY ONLY v \in Seq(S), w \in Seq(S), ToSetConcat
      <4>6. UNION {ToSet(ws[k]) : k \in 1..m \union {p}}
              = (UNION {ToSet(ws[k]) : k \in 1..m}) \union ToSet(ws[p])
        OBVIOUS
      <4>7. ToSet(v) = UNION {ToSet(ws[k]) : k \in 1..m}  BY <4>2, <4>3
      <4>8. Good(p)  BY ONLY <3>3, <4>1, <4>4, <4>5, <4>6, <4>7
      <4> QED  BY <3>1, <4>8
    <3> QED  BY <3>4, <3>5
  <2> HIDE DEF D, Good
  <2>4. Nat \subseteq D  BY <2>2, <2>3, SetInduction
  <2>5. n \in 1..n  BY <1>4
  <2> QED  BY <1>2, <2>1, <2>4, <2>5 DEF D, Good
<1> QED  BY <1>3, <1>4

\* What a flag is.
LEMMA GivenKinds ==
    ASSUME NEW g \in Givens
    PROVE  \/ g.file = NoFile /\ DOMAIN g.file = {}
                /\ (g.name \in FlagNames \/ (g.name = "config" /\ g.value = "bad"))
                /\ g.value \in Strings
           \/ g.file \in Files /\ g.file # NoFile
<1>1. CASE g \in [name : FlagNames, value : Values \union {"true", "false"}, file : {NoFile}]
  <2>1. g.file = NoFile /\ g.name \in FlagNames /\ g.value \in Strings  BY <1>1 DEF Strings
  <2> QED  BY <2>1 DEF NoFile
<1>2. CASE g \in [name : {"config"}, value : {"bad"}, file : {NoFile}]
  <2>1. g.file = NoFile /\ g.name = "config" /\ g.value = "bad" /\ g.value \in Strings
    BY <1>2 DEF Strings
  <2> QED  BY <2>1 DEF NoFile
<1>3. CASE g \in [name : {"config"}, value : {""}, file : Files]
  <2>1. g.file \in Files  BY <1>3
  <2> QED  BY <2>1, FileType
<1> QED  BY <1>1, <1>2, <1>3 DEF Givens

\* A flag gives a sequence of values.
LEMMA AsksType ==
    ASSUME NEW g \in Givens, NEW n
    PROVE  Asks(g, n) \in Seq(Strings)
<1>1. <<>> \in Seq(Strings)  BY EmptySeq
<1>2. CASE g.file = NoFile /\ g.value \in Strings
  <2>1. Asks(g, n) = IF g.name = n THEN <<g.value>> ELSE <<>>  BY <1>2 DEF Asks
  <2>2. PICK v \in Strings : v = g.value  BY <1>2
  <2>3. <<v>> \in Seq(Strings)
    <3> HIDE DEF Strings
    <3> QED  OBVIOUS
  <2> QED  BY <1>1, <2>1, <2>2, <2>3
<1>3. CASE g.file \in Files /\ g.file # NoFile
  <2>1. \A i \in DOMAIN g.file : g.file[i].values \in Seq(Strings)  BY <1>3, FileType
  <2> QED  BY <1>1, <1>3, <2>1 DEF Asks
<1> QED  BY <1>2, <1>3, GivenKinds

\* What is given, and what is read, under a name: the values of all flags.
LEMMA GivenValues ==
    ASSUME given \in Seq(Givens), NEW n
    PROVE  /\ Asked(n) \in Seq(Strings) /\ ReadBy(n) \in Seq(Strings)
           /\ ToSet(Asked(n)) = UNION {ToSet(Asks(given[k], n)) : k \in DOMAIN given}
           /\ ToSet(ReadBy(n)) = UNION {ToSet(Reads(given[k], n)) : k \in DOMAIN given}
<1>1. PICK m \in Nat : m = Len(given) /\ DOMAIN given = 1..m
  <2> HIDE DEF Givens
  <2> QED  OBVIOUS
<1>2. \A k \in 1..m : given[k] \in Givens
  <2> HIDE DEF Givens
  <2> QED  BY <1>1
<1> DEFINE asks == [k \in 1..m |-> Asks(given[k], n)]
           rs == [k \in 1..m |-> Reads(given[k], n)]
<1>3. /\ \A k \in 1..m : Asks(given[k], n) \in Seq(Strings)
      /\ \A k \in 1..m : Reads(given[k], n) \in Seq(Strings)
  BY <1>2, AsksType, ReadsType
<1>4. asks \in Seq(Seq(Strings)) /\ rs \in Seq(Seq(Strings))
  <2> HIDE DEF Strings
  <2> QED  BY <1>3
<1>5. DOMAIN asks = 1..m /\ DOMAIN rs = 1..m  OBVIOUS
<1>6. /\ \A k \in 1..m : asks[k] = Asks(given[k], n)
      /\ \A k \in 1..m : rs[k] = Reads(given[k], n)
  OBVIOUS
<1>7. Asked(n) = FlattenSeq(asks) /\ ReadBy(n) = FlattenSeq(rs)
  BY <1>1 DEF Asked, ReadBy, ReadIn
<1> HIDE DEF asks, rs, Strings
<1>8. /\ FlattenSeq(asks) \in Seq(Strings)
      /\ ToSet(FlattenSeq(asks)) = UNION {ToSet(asks[k]) : k \in DOMAIN asks}
  BY ONLY <1>4, FlattenElements
<1>9. /\ FlattenSeq(rs) \in Seq(Strings)
      /\ ToSet(FlattenSeq(rs)) = UNION {ToSet(rs[k]) : k \in DOMAIN rs}
  BY ONLY <1>4, FlattenElements
<1>10. /\ UNION {ToSet(asks[k]) : k \in DOMAIN asks}
             = UNION {ToSet(Asks(given[k], n)) : k \in DOMAIN given}
       /\ UNION {ToSet(rs[k]) : k \in DOMAIN rs}
             = UNION {ToSet(Reads(given[k], n)) : k \in DOMAIN given}
  BY <1>1, <1>5, <1>6
<1> QED  BY ONLY <1>7, <1>8, <1>9, <1>10

\* A sequence without elements.
LEMMA NoElements ==
    ASSUME NEW S, NEW q \in Seq(S)
    PROVE  /\ q = <<>> <=> ToSet(q) = {}
           /\ q # <<>> => Last(q) \in ToSet(q)
<1>1. q # <<>> => 1 \in DOMAIN q /\ Len(q) \in DOMAIN q  OBVIOUS
<1>2. ToSet(<<>>) = {}  BY DEF ToSet
<1> QED  BY <1>1, <1>2 DEF ToSet, Last

\* The types of the keys.
LEMMA FitsKinds ==
    ASSUME NEW n, NEW e
    PROVE  /\ n \in FlagsOnly => (Fits(n, e) <=> e.kind = "bool")
           /\ n \in ListNames => (Fits(n, e) <=> e.kind \in {"scalar", "list"})
           /\ n \in Settings => (Fits(n, e) <=> e.kind = "scalar")
<1>1. /\ n \in FlagsOnly => n \notin ListNames /\ n \notin Settings
      /\ n \in ListNames => n \notin Settings
  BY DEF FlagsOnly, ListNames, Settings, Histories, Memory, Timeouts
<1> QED  BY <1>1 DEF Fits

\* Where what is given has its type, the loader reads it.
LEMMA FitsIsRead ==
    ASSUME NEW g \in Givens, NEW n, n \notin FlagsOnly,
           n \in DOMAIN g.file => Fits(n, g.file[n])
    PROVE  Asks(g, n) = Reads(g, n)
<1>1. CASE g.file = NoFile  BY <1>1 DEF Asks, Reads
<1>2. CASE g.file # NoFile /\ n \notin DOMAIN g.file  BY <1>2 DEF Asks, Reads
<1>3. CASE g.file # NoFile /\ n \in DOMAIN g.file
  <2>1. g.file[n].kind = "scalar" \/ (g.file[n].kind = "list" /\ n \in ListNames)
    BY <1>3 DEF Fits
  <2> QED  BY <1>3, <2>1 DEF Asks, Reads
<1> QED  BY <1>1, <1>2, <1>3

\* Under a name all of whose values have their type.
LEMMA FitIsRead ==
    ASSUME given \in Seq(Givens), NEW n, n \notin FlagsOnly,
           \A k \in DOMAIN given : n \in DOMAIN given[k].file => Fits(n, given[k].file[n])
    PROVE  Asked(n) = ReadBy(n)
<1>1. PICK m \in Nat : m = Len(given) /\ DOMAIN given = 1..m
  <2> HIDE DEF Givens
  <2> QED  OBVIOUS
<1>2. \A k \in 1..m : given[k] \in Givens
  <2> HIDE DEF Givens
  <2> QED  BY <1>1
<1>3. \A k \in 1..m : Asks(given[k], n) = Reads(given[k], n)  BY <1>1, <1>2, FitsIsRead
<1>4. [k \in 1..m |-> Asks(given[k], n)] = [k \in 1..m |-> Reads(given[k], n)]
  BY ONLY <1>3
<1> QED  BY <1>1, <1>4 DEF Asked, ReadBy, ReadIn

\* The options for the list fields, and the elements of these.
LEMMA ListElements ==
    ASSUME NEW f \in Files
    PROVE  AllLists(f) # <<>> <=> HasElements(f)
<1>1. /\ AllLists(f) \in Seq(Taken)
      /\ \A x \in ListNames : ValuesOf(AllLists(f), x) = ToSet(Listed(f, x))
      /\ \A k \in DOMAIN AllLists(f) :
            /\ AllLists(f)[k].name \in ListNames
            /\ AllLists(f)[k].value \in ToSet(Listed(f, AllLists(f)[k].name))
  BY ListsTaken
<1>2. ASSUME AllLists(f) # <<>> PROVE HasElements(f)
  <2>1. 1 \in DOMAIN AllLists(f)
    <3> HIDE DEF Taken
    <3> QED  BY <1>1, <1>2
  <2>2. PICK x \in ListNames : ToSet(Listed(f, x)) # {}  BY <1>1, <2>1
  <2>3. Listed(f, x) # <<>>  BY <2>2 DEF ToSet
  <2> QED  BY <2>3 DEF Listed, HasElements
<1>3. ASSUME HasElements(f) PROVE AllLists(f) # <<>>
  <2>1. PICK x \in ListNames : x \in DOMAIN f /\ f[x].kind = "list" /\ f[x].values # <<>>
    BY <1>3 DEF HasElements
  <2>2. Listed(f, x) = f[x].values /\ f[x].values \in Seq(Strings)
    BY <2>1, FileType DEF Listed
  <2>3. ToSet(Listed(f, x)) # {}
    <3> HIDE DEF Strings
    <3> QED  BY <2>1, <2>2, NoElements
  <2>4. ValuesOf(AllLists(f), x) # {}  BY <1>1, <2>3
  <2>5. ValuesOf(<<>>, x) = {}  BY DEF ValuesOf
  <2> QED  BY <2>4, <2>5
<1> QED  BY <1>2, <1>3

\* Whatever is wrong in what is read is a fault of what is given, or is spurned.
LEMMA WrongIsFaulty ==
    ASSUME given \in Seq(Givens), Wrong
    PROVE  Faulty \/ Spurned
<1>1. \A k \in DOMAIN given : given[k] \in Givens
  <2> HIDE DEF Givens
  <2> QED  OBVIOUS
<1>2. \A k \in DOMAIN given :
         /\ \A n \in DOMAIN given[k].file : given[k].file \in Files /\ n \in FileNames
  <2> SUFFICES ASSUME NEW k \in DOMAIN given, NEW n \in DOMAIN given[k].file
               PROVE  given[k].file \in Files /\ n \in FileNames
    OBVIOUS
  <2>1. given[k].file \in Files  BY <1>1, GivenKinds
  <2> QED  BY <2>1, FileType
<1>3. ASSUME NEW k \in DOMAIN given, NEW n \in DOMAIN given[k].file, ~Fits(n, given[k].file[n])
      PROVE  Faulty
  <2>1. FaultIn(n)  BY <1>3 DEF FaultIn
  <2> QED  BY <1>2, <2>1 DEF Faulty
<1>4. CASE \E k \in DOMAIN given : given[k].name = "config" /\ given[k].value = "bad"
  BY <1>4 DEF Faulty, Unreadable
<1>5. CASE \E k \in DOMAIN given : FileFaulty(given[k].file)
  <2>1. PICK k \in DOMAIN given : FileFaulty(given[k].file)  BY <1>5
  <2>2. PICK f : f = given[k].file  OBVIOUS
  <2>3. f \in Files  BY <1>2, <2>1, <2>2 DEF FileFaulty
  <2>4. CASE \E n \in DOMAIN f : ~Fits(n, f[n])  BY <1>3, <2>2, <2>4
  <2>5. CASE \A n \in DOMAIN f : Fits(n, f[n])
    <3>1. \A n \in DOMAIN f : /\ f[n].kind \notin {"null", "other"}
                              /\ n \in ListNames => f[n].kind \in {"scalar", "list"}
      BY <2>5 DEF Fits, FlagsOnly, ListNames
    <3>2. \E n \in DOMAIN f : f[n].kind = "list"
      BY <2>1, <2>2, <3>1 DEF FileFaulty
    <3>3. ~Decodable(f) \/ AllLists(f) = <<>>  BY <2>1, <2>2, <3>1 DEF FileFaulty
    <3>4. ~Decodable(f) => \E m \in ListNames \intersect DOMAIN f : f[m].kind = "scalar"
      BY <3>1 DEF Decodable
    <3>5. AllLists(f) = <<>> => ~HasElements(f)  BY <2>3, ListElements
    <3> QED  BY <2>2, <3>2, <3>3, <3>4, <3>5 DEF Spurned
  <2> QED  BY <2>4, <2>5
<1>6. CASE \E n \in FlagNames \union FileNames : \E v \in ToSet(ReadBy(n)) :
              ~Handled(n, v) \/ (n \notin FlagsOnly /\ Parsed(n, v) = <<>>)
  <2>0. PICK n \in FlagNames \union FileNames : \E v \in ToSet(ReadBy(n)) :
           ~Handled(n, v) \/ (n \notin FlagsOnly /\ Parsed(n, v) = <<>>)
    BY <1>6
  <2>1. PICK v \in ToSet(ReadBy(n)) :
           ~Handled(n, v) \/ (n \notin FlagsOnly /\ Parsed(n, v) = <<>>)
    BY <2>0
  <2>2. n \notin FlagsOnly  BY <2>1 DEF Handled, KnownNames, FlagsOnly
  <2>3. PICK k \in DOMAIN given : v \in ToSet(Reads(given[k], n))  BY <2>1, GivenValues
  <2>4. CASE n \in DOMAIN given[k].file /\ ~Fits(n, given[k].file[n])  BY <1>3, <2>4
  <2>5. CASE n \in DOMAIN given[k].file => Fits(n, given[k].file[n])
    <3>1. Asks(given[k], n) = Reads(given[k], n)  BY <1>1, <2>2, <2>5, FitsIsRead
    <3>2. v \in ToSet(Asked(n))  BY <2>3, <3>1, GivenValues
    <3>3. FaultIn(n)  BY <2>1, <3>2 DEF FaultIn
    <3> QED  BY <3>3 DEF Faulty
  <2> QED  BY <2>4, <2>5
<1>7. CASE ReadBy("id") = <<>> \/ Last(ReadBy("id")) = ""
  <2>1. CASE \E k \in DOMAIN given :
                "id" \in DOMAIN given[k].file /\ ~Fits("id", given[k].file["id"])
    BY <1>3, <2>1
  <2>2. CASE \A k \in DOMAIN given :
                "id" \in DOMAIN given[k].file => Fits("id", given[k].file["id"])
    <3>1. "id" \notin FlagsOnly  BY DEF FlagsOnly
    <3>2. Asked("id") = ReadBy("id")  BY <2>2, <3>1, FitIsRead
    <3>3. NoId  BY <1>7, <3>2 DEF NoId
    <3> QED  BY <3>3 DEF Faulty
  <2> QED  BY <2>1, <2>2
<1>8. CASE shell = ""  BY <1>8 DEF Faulty
<1> QED  BY <1>4, <1>5, <1>6, <1>7, <1>8 DEF Wrong

\* What a file holds that is not refused.
LEMMA SoundFile ==
    ASSUME NEW f \in Files, ~FileFaulty(f), NEW n \in DOMAIN f
    PROVE  /\ f[n].kind # "null"
           /\ f[n].kind \in {"list", "other"} => HasElements(f)
           /\ f[n].kind = "other" => n \notin ListNames
           /\ f[n].kind \in {"scalar", "bool", "list", "null", "other"}
<1>1. f[n].kind \in {"list", "other"} => Decodable(f) /\ AllLists(f) # <<>>
  BY DEF FileFaulty
<1>2. f[n].kind # "null"  BY DEF FileFaulty
<1>3. f[n].kind \in {"scalar", "bool", "list", "null", "other"}  BY FileType
<1> QED  BY <1>1, <1>2, <1>3, ListElements DEF Decodable

\* The switch is given as true, or not at all.
LEMMA SwitchIsRight ==
    ASSUME given \in Seq(Givens), AsRead, ~Wrong, NEW n \in FlagsOnly, ~Misread(n)
    PROVE  Right(n)
<1>1. \A k \in DOMAIN given : given[k] \in Givens
  <2> HIDE DEF Givens
  <2> QED  OBVIOUS
<1>2. ASSUME NEW k \in DOMAIN given
      PROVE  /\ Asks(given[k], n) \in {<<>>, <<"true">>}
             /\ Asks(given[k], n) = <<>> <=> Reads(given[k], n) = <<>>
             /\ n \in DOMAIN given[k].file => Fits(n, given[k].file[n])
  <2>1. PICK g : g = given[k]  OBVIOUS
  <2>2. <<"true">> # <<>> /\ <<"">> # <<>> /\ \A v : <<v>> # <<>>  OBVIOUS
  <2>3. CASE g.file = NoFile /\ DOMAIN g.file = {}
    <3>1. g.name = n => g.value = "true"  BY <2>1, <2>3 DEF Misread
    <3>2. Asks(g, n) = Reads(g, n)  BY <2>3 DEF Asks, Reads
    <3>3. Asks(g, n) \in {<<>>, <<"true">>}  BY <2>3, <3>1 DEF Asks
    <3> QED  BY <2>1, <2>3, <3>2, <3>3
  <2>4. CASE g.file # NoFile /\ n \notin DOMAIN g.file
    <3>1. Asks(g, n) = <<>> /\ Reads(g, n) = <<>>  BY <2>4 DEF Asks, Reads
    <3> QED  BY <2>1, <2>4, <3>1
  <2>5. CASE g.file # NoFile /\ n \in DOMAIN g.file
    <3>1. g.file[n] = [kind |-> "bool", values |-> <<"true">>]  BY <2>1, <2>5 DEF Misread
    <3>2. g.file[n].kind = "bool" /\ g.file[n].values = <<"true">>  BY <3>1
    <3>3. Fits(n, g.file[n])  BY <3>2, FitsKinds
    <3>4. Asks(g, n) = <<"true">>  BY <2>5, <3>2, <3>3 DEF Asks
    <3>5. Reads(g, n) = <<"">>  BY <2>5, <3>2 DEF Reads
    <3> QED  BY ONLY <2>1, <2>2, <3>3, <3>4, <3>5
  <2> QED  BY <1>1, <2>1, <2>3, <2>4, <2>5, GivenKinds
<1>3. PICK q \in Seq(Strings), p \in Seq(Strings) :
         /\ q = Asked(n) /\ ToSet(q) = UNION {ToSet(Asks(given[k], n)) : k \in DOMAIN given}
         /\ p = ReadBy(n) /\ ToSet(p) = UNION {ToSet(Reads(given[k], n)) : k \in DOMAIN given}
  BY GivenValues
<1>4. ToSet(<<>>) = {} /\ ToSet(<<"true">>) = {"true"}  BY DEF ToSet
<1>5. \A v \in ToSet(q) : v = "true"
  <2>1. \A k \in DOMAIN given : \A v \in ToSet(Asks(given[k], n)) : v = "true"
    BY ONLY <1>2, <1>4
  <2> QED  BY ONLY <1>3, <2>1
<1>6. /\ q = <<>> <=> ToSet(q) = {}
      /\ p = <<>> <=> ToSet(p) = {}
      /\ q # <<>> => Last(q) \in ToSet(q)
  <2> HIDE DEF Strings
  <2>1. (q = <<>> <=> ToSet(q) = {}) /\ (q # <<>> => Last(q) \in ToSet(q))
    BY ONLY q \in Seq(Strings), NoElements
  <2>2. p = <<>> <=> ToSet(p) = {}  BY ONLY p \in Seq(Strings), NoElements
  <2> QED  BY ONLY <2>1, <2>2
<1>7. ASSUME NEW k \in DOMAIN given
      PROVE  ToSet(Asks(given[k], n)) = {} <=> ToSet(Reads(given[k], n)) = {}
  <2>1. PICK a \in Seq(Strings), r \in Seq(Strings) :
           a = Asks(given[k], n) /\ r = Reads(given[k], n)
    BY <1>1, AsksType, ReadsType
  <2> HIDE DEF Strings
  <2>2. a = <<>> <=> ToSet(a) = {}  BY ONLY a \in Seq(Strings), NoElements
  <2>3. r = <<>> <=> ToSet(r) = {}  BY ONLY r \in Seq(Strings), NoElements
  <2>4. a = <<>> <=> r = <<>>  BY <1>2, <2>1
  <2> QED  BY ONLY <2>1, <2>2, <2>3, <2>4
<1>8. q = <<>> <=> p = <<>>
  <2>1. ToSet(q) = {} <=> \A k \in DOMAIN given : ToSet(Asks(given[k], n)) = {}
    BY ONLY <1>3
  <2>2. ToSet(p) = {} <=> \A k \in DOMAIN given : ToSet(Reads(given[k], n)) = {}
    BY ONLY <1>3
  <2> QED  BY ONLY <1>6, <1>7, <2>1, <2>2
<1>9. n \in config.flags <=> p # <<>>  BY <1>3 DEF AsRead
<1>10. ~FaultIn(n)
  <2>1. \A v : Handled(n, v)  BY DEF Handled, KnownNames, FlagsOnly
  <2> QED  BY <1>2, <2>1 DEF FaultIn
<1>11. n \notin Settings /\ n \notin RuleNames /\ n # "creates" /\ n # "id"
  <2>1. n \in KnownNames /\ "id" \in Settings  BY DEF KnownNames, Settings
  <2> QED  BY <2>1, NameKinds
<1>12. q # <<>> => Last(q) = "true"  BY ONLY <1>5, <1>6
<1> QED  BY <1>3, <1>8, <1>9, <1>10, <1>11, <1>12 DEF Right, RuleNames

\* Another option has its type, and is read as it is given.
LEMMA OptionIsRight ==
    ASSUME given \in Seq(Givens), AsRead, ~Wrong, NEW n \in KnownNames \ FlagsOnly,
           ~Misread(n)
    PROVE  Right(n)
<1>1. \A k \in DOMAIN given : given[k] \in Givens
  <2> HIDE DEF Givens
  <2> QED  OBVIOUS
<1>2. \A k \in DOMAIN given : ~FileFaulty(given[k].file)  BY DEF Wrong
<1>3. ASSUME NEW k \in DOMAIN given, n \in DOMAIN given[k].file
      PROVE  Fits(n, given[k].file[n])
  <2>1. PICK f : f = given[k].file  OBVIOUS
  <2>2. f \in Files  BY <1>1, <1>3, <2>1, GivenKinds
  <2>3. /\ f[n].kind # "null"
        /\ f[n].kind \in {"list", "other"} => HasElements(f)
        /\ f[n].kind = "other" => n \notin ListNames
        /\ f[n].kind \in {"scalar", "bool", "list", "null", "other"}
    BY <1>2, <1>3, <2>1, <2>2, SoundFile
  <2>4. f[n].kind # "bool"  BY <1>3, <2>1 DEF Misread
  <2>5. n \notin ListNames => f[n].kind \notin {"list", "other"}
    BY <1>3, <2>1, <2>3 DEF Misread
  <2>6. n \in ListNames \/ n \in Settings  BY DEF KnownNames
  <2> QED  BY <2>1, <2>3, <2>4, <2>5, <2>6, FitsKinds
<1>4. Asked(n) = ReadBy(n)  BY <1>3, FitIsRead
<1>5. ASSUME NEW m \in KnownNames \ FlagsOnly, NEW v \in ToSet(ReadBy(m))
      PROVE  Handled(m, v) /\ Parsed(m, v) # <<>> /\ v \in Strings
  <2>1. PICK k \in DOMAIN given : v \in ToSet(Reads(given[k], m))  BY GivenValues
  <2>2. PICK g : g = given[k]  OBVIOUS
  <2>3. m # "config"
    BY DEF KnownNames, ListNames, FlagsOnly, Settings, Histories, Memory, Timeouts
  <2>4. ToSet(<<>>) = {}  BY DEF ToSet
  <2>5. m \in FlagNames \union FileNames
    <3>1. CASE g.file = NoFile
      <4>1. g.name = m  BY <2>1, <2>2, <2>4, <3>1 DEF Reads
      <4>2. g.file \notin Files  BY <3>1, FileType
      <4> QED  BY <1>1, <2>2, <2>3, <4>1, <4>2, GivenKinds
    <3>2. CASE g.file # NoFile
      <4>1. m \in DOMAIN g.file  BY <2>1, <2>2, <2>4, <3>2 DEF Reads
      <4>2. g.file \in Files  BY <1>1, <2>2, <3>2, GivenKinds
      <4> QED  BY <4>1, <4>2, FileType
    <3> QED  BY <3>1, <3>2
  <2>6. Handled(m, v) /\ Parsed(m, v) # <<>>  BY <2>5 DEF Wrong
  <2>7. v \in Strings
    <3>1. PICK q \in Seq(Strings) : q = ReadBy(m)  BY GivenValues
    <3>2. v \in ToSet(q)  BY <3>1
    <3> HIDE DEF Strings
    <3> QED  BY <3>2 DEF ToSet
  <2> QED  BY <2>6, <2>7
<1>6. ~FaultIn(n)  BY <1>3, <1>4, <1>5 DEF FaultIn
<1>7. n \in Settings \ {"shell"} =>
         config.set[n] = IF Asked(n) = <<>> THEN Default.set[n] ELSE Parsed(n, Last(Asked(n)))
  BY <1>4 DEF AsRead
<1>8. n = "id" => ~NoId  BY <1>4 DEF NoId, Wrong
<1>9. n = "creates" => ToSet(config.creates) = ToSet(Asked("creates"))  BY <1>4 DEF AsRead
<1>10. n \in RuleNames =>
          {r \in ToSet(config.rules) : r.field = (IF n = "rule" THEN "" ELSE "f")}
             = {Parsed(n, v)[1] : v \in ToSet(Asked(n))}
  <2> SUFFICES ASSUME n \in RuleNames
               PROVE  {r \in ToSet(config.rules) : r.field = (IF n = "rule" THEN "" ELSE "f")}
                         = {Parsed(n, v)[1] : v \in ToSet(Asked(n))}
    OBVIOUS
  <2>1. ToSet(config.rules)
          = UNION {{Parsed(m, v)[1] : v \in ToSet(ReadBy(m))} : m \in RuleNames}
    BY DEF AsRead, RuleNames
  <2>2. ASSUME NEW m \in RuleNames, NEW v \in ToSet(ReadBy(m))
        PROVE  Parsed(m, v)[1].field = IF m = "rule" THEN "" ELSE "f"
    <3>1. m \in KnownNames \ FlagsOnly
      BY DEF RuleNames, KnownNames, ListNames, FlagsOnly
    <3>2. Parsed(m, v) # <<>>  BY <1>5, <3>1
    <3>3. CASE m = "rule"
      <4>1. Parsed(m, v) = <<[field |-> "", regex |-> v]>>
        BY <3>2, <3>3 DEF Parsed, Histories, Timeouts, Memory
      <4>2. [field |-> "", regex |-> v].field = ""  OBVIOUS
      <4>3. PICK r : r = [field |-> "", regex |-> v] /\ r.field = ""  BY <4>2
      <4>4. Parsed(m, v) = <<r>> /\ <<r>>[1] = r  BY <4>1, <4>3
      <4> QED  BY <3>3, <4>3, <4>4
    <3>4. CASE m = "rule-json"
      <4>1. Parsed(m, v) = <<[field |-> "f", regex |-> "a"]>>
        BY <3>2, <3>4 DEF Parsed, Histories, Timeouts, Memory
      <4>2. [field |-> "f", regex |-> "a"].field = "f"  OBVIOUS
      <4>3. PICK r : r = [field |-> "f", regex |-> "a"] /\ r.field = "f"  BY <4>2
      <4>4. Parsed(m, v) = <<r>> /\ <<r>>[1] = r  BY <4>1, <4>3
      <4> QED  BY <3>4, <4>3, <4>4
    <3> QED  BY <3>3, <3>4 DEF RuleNames
  <2>3. \A m \in RuleNames :
           (IF m = "rule" THEN "" ELSE "f") = (IF n = "rule" THEN "" ELSE "f") => m = n
    <3>1. n = "rule" \/ n = "rule-json"  BY DEF RuleNames
    <3>2. \A m \in RuleNames : m = "rule" \/ m = "rule-json"  BY DEF RuleNames
    <3>3. "" # "f" /\ "rule" # "rule-json"  OBVIOUS
    <3>4. ASSUME NEW m \in RuleNames, m # n
          PROVE  (IF m = "rule" THEN "" ELSE "f") # (IF n = "rule" THEN "" ELSE "f")
      <4>1. CASE m = "rule"
        <5>1. n # "rule"  BY <3>4, <4>1
        <5> QED  BY ONLY <3>3, <4>1, <5>1
      <4>2. CASE m # "rule"
        <5>1. n = "rule"  BY <3>1, <3>2, <3>4, <4>2
        <5> QED  BY ONLY <3>3, <4>2, <5>1
      <4> QED  BY <4>1, <4>2
    <3> QED  BY <3>4
  <2> HIDE DEF RuleNames
  <2>4. ASSUME NEW r
        PROVE  (r \in ToSet(config.rules) /\ r.field = (IF n = "rule" THEN "" ELSE "f"))
                  <=> r \in {Parsed(n, v)[1] : v \in ToSet(ReadBy(n))}
    <3>1. r \in ToSet(config.rules)
            <=> \E m \in RuleNames : \E v \in ToSet(ReadBy(m)) : r = Parsed(m, v)[1]
      BY ONLY <2>1
    <3>2. ASSUME NEW m \in RuleNames, NEW v \in ToSet(ReadBy(m)), r = Parsed(m, v)[1],
                 r.field = (IF n = "rule" THEN "" ELSE "f")
          PROVE  r \in {Parsed(n, x)[1] : x \in ToSet(ReadBy(n))}
      <4>1. m = n  BY <2>2, <2>3, <3>2
      <4> QED  BY <3>2, <4>1
    <3>3. ASSUME NEW v \in ToSet(ReadBy(n)), r = Parsed(n, v)[1]
          PROVE  r \in ToSet(config.rules) /\ r.field = (IF n = "rule" THEN "" ELSE "f")
      BY <2>2, <3>1, <3>3
    <3> QED  BY <3>1, <3>2, <3>3
  <2> QED  BY <1>4, <2>4
<1> QED  BY <1>6, <1>7, <1>8, <1>9, <1>10 DEF Right, RuleNames

\* No other key is given, except one that is misread.
LEMMA OtherIsRight ==
    ASSUME given \in Seq(Givens), ~Wrong, NEW n, n \notin KnownNames, ~Misread(n)
    PROVE  Right(n)
<1>1. \A k \in DOMAIN given : given[k] \in Givens
  <2> HIDE DEF Givens
  <2> QED  OBVIOUS
<1>2. n \notin FlagsOnly /\ n \notin ListNames /\ n \notin Settings  BY DEF KnownNames
<1>3. ASSUME n \in FlagNames \union FileNames, NEW k \in DOMAIN given
      PROVE  ToSet(Reads(given[k], n)) = {}
  <2>1. \A v : ~Handled(n, v)  BY DEF Handled
  <2>2. ToSet(ReadBy(n)) = {}  BY <1>3, <2>1 DEF Wrong
  <2>3. ToSet(ReadBy(n)) = UNION {ToSet(Reads(given[i], n)) : i \in DOMAIN given}
    BY GivenValues
  <2> QED  BY ONLY <2>2, <2>3, k \in DOMAIN given
<1>4. \A v : v \in ToSet(<<v>>)
  <2>1. \A v : DOMAIN <<v>> = {1} /\ <<v>>[1] = v  OBVIOUS
  <2> QED  BY <2>1 DEF ToSet
<1>5. ASSUME NEW k \in DOMAIN given
      PROVE  n \notin DOMAIN given[k].file /\ Asks(given[k], n) = <<>>
  <2>1. PICK g : g = given[k]  OBVIOUS
  <2>2. CASE g.file = NoFile /\ DOMAIN g.file = {}
    <3>1. g.name # n
      <4>1. SUFFICES ASSUME g.name = n PROVE FALSE  OBVIOUS
      <4>2. ~(g.name = "config" /\ g.value = "bad")  BY <2>1 DEF Wrong
      <4>3. g.file \notin Files  BY <2>2, FileType
      <4>4. n \in FlagNames  BY <1>1, <2>1, <4>1, <4>2, <4>3, GivenKinds
      <4>5. Reads(g, n) = <<g.value>>  BY <2>2, <4>1 DEF Reads
      <4> QED  BY <1>3, <1>4, <2>1, <4>4, <4>5
    <3> QED  BY <2>1, <2>2, <3>1 DEF Asks
  <2>3. CASE g.file \in Files /\ g.file # NoFile
    <3>1. n \notin DOMAIN g.file
      <4>1. SUFFICES ASSUME n \in DOMAIN g.file PROVE FALSE  OBVIOUS
      <4>2. PICK f \in Files : f = g.file  BY <2>3
      <4>3. n \in FileNames  BY <4>1, <4>2, FileType
      <4>4. ~FileFaulty(f)  BY <2>1, <4>2 DEF Wrong
      <4>5. /\ f[n].kind # "null"
            /\ f[n].kind \in {"list", "other"} => HasElements(f)
            /\ f[n].kind \in {"scalar", "bool", "list", "null", "other"}
        BY <4>1, <4>2, <4>4, SoundFile
      <4>6. f[n].kind \notin {"list", "other"}
        BY <1>2, <2>1, <4>1, <4>2, <4>5 DEF Misread
      <4>7. \E v : Reads(g, n) = <<v>>
        <5>1. f[n].kind = "scalar" => \E v \in Values : f[n].values = <<v>>
          BY <4>1, <4>2, FileType
        <5>2. CASE f[n].kind = "scalar"
          <6>1. Reads(g, n) = f[n].values  BY <2>3, <4>1, <4>2, <5>2 DEF Reads
          <6> QED  BY <5>1, <5>2, <6>1
        <5>3. CASE f[n].kind = "bool"
          <6>1. Reads(g, n) = <<"">>  BY <2>3, <4>1, <4>2, <5>3 DEF Reads
          <6> QED  BY <6>1
        <5> QED  BY <4>5, <4>6, <5>2, <5>3
      <4> QED  BY <1>3, <1>4, <2>1, <4>3, <4>7
    <3> QED  BY <2>1, <2>3, <3>1 DEF Asks
  <2> QED  BY <1>1, <2>1, <2>2, <2>3, GivenKinds
<1>6. ToSet(Asked(n)) = {}
  <2>1. ToSet(Asked(n)) = UNION {ToSet(Asks(given[k], n)) : k \in DOMAIN given}
    BY GivenValues
  <2>2. ToSet(<<>>) = {}  BY DEF ToSet
  <2> QED  BY ONLY <1>5, <2>1, <2>2
<1>7. ~FaultIn(n)  BY <1>5, <1>6 DEF FaultIn
<1> QED  BY <1>2, <1>7 DEF Right, ListNames, Settings

\* The invariant says what it should of the configuration.
LEMMA ReadAsGiven == ConfigInv => ConfigIsAsGiven
<1> SUFFICES ASSUME ConfigInv PROVE ConfigIsAsGiven  OBVIOUS
<1>1. given \in Seq(Givens)  BY DEF ConfigInv, OptionsType
<1>2. ASSUME phase = "refused" PROVE Faulty \/ Spurned
  <2>1. Wrong  BY <1>2 DEF ConfigInv, ConfigIsAsRead
  <2> QED  BY <1>1, <2>1, WrongIsFaulty
<1>3. ASSUME phase = "started"
      PROVE  /\ ~Unreadable /\ shell # ""
             /\ \A n \in FlagNames \union FileNames \union KnownNames : ~Misread(n) => Right(n)
  <2>1. AsRead /\ ~Wrong  BY <1>3 DEF ConfigInv, ConfigIsAsRead
  <2>2. ~Unreadable /\ shell # ""  BY <2>1 DEF Wrong, Unreadable
  <2>3. ASSUME NEW n, ~Misread(n) PROVE Right(n)
    <3>1. CASE n \in FlagsOnly  BY <1>1, <2>1, <2>3, <3>1, SwitchIsRight
    <3>2. CASE n \in KnownNames \ FlagsOnly  BY <1>1, <2>1, <2>3, <3>2, OptionIsRight
    <3>3. CASE n \notin KnownNames  BY <1>1, <2>1, <2>3, <3>3, OtherIsRight
    <3> QED  BY <3>1, <3>2, <3>3
  <2> QED  BY <2>2, <2>3
<1> QED  BY <1>2, <1>3 DEF ConfigIsAsGiven

\* Whatever the flags, values and files, in whatever order the loop takes the keys of a
\* file: a command starts only if everything under a name that is not misread is valid
\* and is what the configuration holds for it, and it is refused only if what was given is
\* not valid or spurned (parse.go 66-86, 133-200, config.go 53-92).
THEOREM ConfigIsAsGivenAlways == Spec => []ConfigIsAsGiven
<1>1. Init => ConfigInv  BY FirstStep
<1> QED  BY <1>1, ConfigStep, ReadAsGiven, PTL DEF Spec
=============================================================================
