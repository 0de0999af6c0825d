----------------------------- MODULE Algorithms -----------------------------
(***************************************************************************)
(* The algorithms that work on one request alone, each on every input:     *)
(* arithmetic on every stack, and the codec on every line.  A behaviour    *)
(* takes one input for one of the two.                                     *)
(***************************************************************************)
EXTENDS ArithmeticProperties, CodecProperties

AlgorithmsInit == ArithInit /\ CodecInit

Calculate ==
  /\ stage = "idle" /\ \E op \in ArithOps : ArithRequest(op)
  /\ UNCHANGED codecVars
Transfer == request = "none" /\ CodecNext /\ UNCHANGED stackVars

AlgorithmsSpec == AlgorithmsInit /\ [][Calculate \/ Transfer]_<<stackVars, codecVars>>
=============================================================================
