----------------------------- MODULE LineStream -----------------------------
(***************************************************************************)
(* A stream of bytes that is read line by line, without buffers.  Whoever  *)
(* reads gets the next line as soon as all of it is there.                 *)
(***************************************************************************)
EXTENDS Integers, Sequences

CONSTANTS Byte, Newline, EndOfFile, ReadError,
          Limit  \* the length at which a line is cut

VARIABLES
  input,   \* bytes that no line has returned
  ended,   \* nothing more will come
  results  \* what the reader was given

StreamVars == <<input, ended, results>>

Rest(n) == SubSeq(input, n + 1, Len(input))

\* The first n bytes of the input are a line.
IsLine(n) ==
  /\ n <= Limit
  /\ \A i \in 1 .. n - 1 : input[i] # Newline
  /\ input[n] = Newline \/ n = Limit \/ (ended /\ n = Len(input))

Arrive ==
  /\ ~ended
  /\ \E byte \in Byte : input' = Append(input, byte)
  /\ UNCHANGED <<ended, results>>

End == ~ended /\ ended' = TRUE /\ UNCHANGED <<input, results>>

ReadLine ==
  \E n \in 1 .. Len(input) :
    /\ IsLine(n)
    /\ results' = Append(results, SubSeq(input, 1, n))
    /\ input' = Rest(n)
    /\ UNCHANGED ended

ReadEnd ==
  /\ ended /\ input = << >>
  /\ results' = Append(results, EndOfFile)
  /\ UNCHANGED <<input, ended>>

\* A failure loses the beginning of a line, never a whole one.
ReadFails ==
  /\ results' = Append(results, ReadError)
  /\ \E n \in 0 .. Len(input) :
       /\ n < Limit /\ \A i \in 1 .. n : input[i] # Newline
       /\ input' = Rest(n)
  /\ UNCHANGED ended

StreamInit == input = << >> /\ ended = FALSE /\ results = << >>

StreamNext == Arrive \/ End \/ ReadLine \/ ReadEnd \/ ReadFails

StreamSpec == StreamInit /\ [][StreamNext]_StreamVars
=============================================================================
