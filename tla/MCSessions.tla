----------------------------- MODULE MCSessions -----------------------------
(***************************************************************************)
(* Values for the constants of the sessions, for TLC.                      *)
(***************************************************************************)
EXTENDS SessionProperties, TLC

CONSTANTS c1, c2, c3, ta, tb, ka, kb

Conns2 == {c1, c2}
Conns3 == {c1, c2, c3}
Symmetric == Permutations(Conn) \cup Permutations(TableName)

MinusOne == -1

NoData == [t \in TableName |-> NoEntries]

\* What an earlier session committed, to tell from what is SET now.
OldData == [t \in TableName |-> [k \in Key |-> 0]]

NoText == [w \in {} |-> 0]

CONSTANTS apple, huge, prefixed

\* Texts of every kind: what no int starts with, what does not fit an int,
\* and what std::stoi reads the start of.
PrefixValue == [w \in {prefixed} |-> 1]
SomeTexts == {IntMin, -1, 0, 2, apple, huge, prefixed}
=============================================================================
