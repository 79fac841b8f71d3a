------------------------------ MODULE MCTicker ------------------------------
(* Instances of Ticker for TLC. *)
EXTENDS Ticker

CONSTANTS k1, s1, t1, t2

\* Everybody listens to the default topic, and every event goes to it alone.
DefaultTopics == [s \in Subs |-> <<>>]
NoLists       == {<<>>}

\* s1 listens to two topics, which the doc of Subscribe allows.
MultiTopics == [s \in Subs |-> IF s = s1 THEN <<t1, t2>> ELSE <<>>]

\* Dispatch is also called with both topics.
AllLists == {<<>>, <<t1, t2>>}
=============================================================================
