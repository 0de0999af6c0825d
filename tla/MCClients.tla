----------------------------- MODULE MCClients ------------------------------
(***************************************************************************)
(* Lists of requests for TLC: two workers, a and b, that run incr_value    *)
(* two or three times on one entry, with or without transactions, or that  *)
(* each set an entry and get it back.                                      *)
(***************************************************************************)
EXTENDS Clients, TLC

CONSTANTS a1, a2, a3, b1, b2, b3, ta, tb, ka, kb

MinusOne == -1
NoText == [w \in {} |-> 0]

\* Only ta is there from the start, with a count of 0 to increment.
ZeroData == [t \in TableName |-> IF t = ta THEN [k \in Key |-> 0] ELSE NoEntries]

Increment == [c \in Conn |-> incr_value(ta, ka)]
Transaction == [c \in Conn |-> incr_value_transaction(ta, ka)]

\* a1 creates the table and an entry that a2 reads; meanwhile the b's set and
\* read another entry, and may come before there is a table.
SetAndGet ==
  [c \in Conn |->
    CASE c = a1 -> <<CREATE(tb)>> \o set_value(tb, ka, 1)
      [] c = a2 -> get_value(tb, ka)
      [] c = b1 -> set_value(tb, kb, 0)
      [] c = b2 -> get_value(tb, kb)]

OnlyIncrements == {Increment}
Transactions == {Transaction}
Everything == {Increment, Transaction, SetAndGet}

\* The runs of one worker come one after the other.
Sequentially ==
  [c \in Conn |->
    CASE c = a2 -> {a1} [] c = a3 -> {a2} [] c = b2 -> {b1} [] c = b3 -> {b2}
      [] OTHER -> {}]

\* Workers that do the same can change places: what keeps the order of runs.
Alike ==
  {f \in Permutations(Conn) :
     \A c \in Conn : Sequentially[f[c]] = {f[d] : d \in Sequentially[c]}}
=============================================================================
