------------------------------- MODULE MCWire -------------------------------
(***************************************************************************)
(* Programs and values for one connection, for TLC.  No request is longer  *)
(* than the buffers that the programs copy it into.                        *)
(***************************************************************************)
EXTENDS Wire

a == <<"a">>

\* Values to set: a word, the longest line there may be, words that make two
\* arguments, nothing, nothing in quotes, a quote that nothing closes.
SetTexts ==
  {a, <<"1", "a", "a">>, <<"a", Space, "a">>, << >>, <<Quote, Quote>>, <<Quote, "a">>}

AllPrograms ==
  {set_value(a, a, v) : v \in SetTexts}
  \cup {set_value(a, <<"1">>, a), get_value_of(a, a)}
  \cup {incr_value(use_transaction, a, a) : use_transaction \in BOOLEAN}

\* What TOP can find.  An unclosed quote is how a newline gets there.
StackedValues == {a, <<"a", Newline>>, <<"a", Space, "a">>}
=============================================================================
