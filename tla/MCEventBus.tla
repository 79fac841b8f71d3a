----------------------------- MODULE MCEventBus -----------------------------
(* Instances of EventBus for TLC. *)
EXTENDS EventBus

CONSTANTS s1, s2, t1, t2, dflt

\* s1 listens to the default topic, s2 to t1 only.
SingleTopics == [s \in Subs |-> IF s = s2 THEN <<t1>> ELSE <<>>]

\* s2 listens to two topics, which the doc of Subscribe allows.
MultiTopics == [s \in Subs |-> IF s = s2 THEN <<t1, t2>> ELSE <<>>]

\* Dispatch is called with no topic and with t1.
PlainLists == {<<>>, <<t1>>}

\* Dispatch is also called with both topics, and with the default one.
AllLists == {<<>>, <<t1, t2>>, <<dflt>>}

\* Every event goes to the default topic only.
NoLists == {<<>>}
=============================================================================
