---------------------------- MODULE MCAlgorithms ----------------------------
(***************************************************************************)
(* Every input of a bounded size, for TLC: every pair of ints of four bits *)
(* and one text of every kind, every short line, and every short stream of *)
(* two kinds of bytes for the reader of lines.  A behaviour is one of an   *)
(* algorithm or one of the reader.                                         *)
(***************************************************************************)
EXTENDS Algorithms, Rio

CONSTANTS apple, huge, prefixed, other

PrefixValue == [w \in {prefixed} |-> 1]
AllOperands == Value

\* A first piece, up to MaxArgs more, and the newline unless it is missing.
MaxArgs == 5
Pieces == Letter \cup Mark \cup {Space, Tab, Quote}
AllLines ==
  {<<first>> \o rest \o end :
     first \in {"PUSH", "SET", "FAILED", Space},
     rest \in SeqOf(Pieces, MaxArgs), end \in {<<Newline>>, << >>}}
  \cup {<<Space, "PUSH">> \o rest \o <<Newline>> : rest \in SeqOf(Pieces, 3)}

Bytes == {other, EndOfLine}

-----------------------------------------------------------------------------

SequentialInit == AlgorithmsInit /\ RioInit

\* The other one is still where it began.
TakeInput == RioInit /\ (Calculate \/ Transfer) /\ UNCHANGED rioVars
ReadStream == AlgorithmsInit /\ RioNext /\ UNCHANGED <<stackVars, codecVars>>

SequentialSpec ==
  SequentialInit /\ [][TakeInput \/ ReadStream]_<<stackVars, codecVars, rioVars>>
=============================================================================
