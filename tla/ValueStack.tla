----------------------------- MODULE ValueStack -----------------------------
(***************************************************************************)
(* The operand stack of a session (value_stack.cpp) and the arithmetic     *)
(* requests that work on it (handle_arithmetic_request).  The stack is a   *)
(* vector of strings; a string is here either the decimal text of an int,  *)
(* written as that integer, or a member of Word: any other text a client   *)
(* can push.  The top of the stack is the head of the sequence.            *)
(*                                                                         *)
(* These are operators, with no state: a stack is private to the thread of *)
(* its connection.                                                         *)
(***************************************************************************)
EXTENDS Integers, Sequences

CONSTANTS
  IntMax,      \* the largest int; INT_MAX in the code, small in the models
  Word,        \* texts that are not the canonical text of an int
  NonNumeric,  \* those on which std::stoi throws std::invalid_argument
  OutOfRange,  \* those on which std::stoi throws std::out_of_range
  StoiOf       \* what std::stoi makes of the others ("12abc" is 12)

IntMin == -IntMax - 1

IntRange == IntMin .. IntMax

Value == IntRange \cup Word

ASSUME ValueAssumption ==
  /\ IntMax \in Nat
  /\ \A w \in Word : w \notin IntRange
  /\ NonNumeric \subseteq Word
  /\ OutOfRange \subseteq Word /\ NonNumeric \cap OutOfRange = {}
  /\ StoiOf \in [Word \ (NonNumeric \cup OutOfRange) -> IntRange]

ArithOps == {"ADD", "SUB", "MUL", "DIV"}

-----------------------------------------------------------------------------

IsEmpty(s) == s = << >>

Push(s, v) == <<v>> \o s

Top(s) == Head(s)

Pop(s) == Tail(s)

Stoi(v) == IF v \in IntRange THEN v ELSE StoiOf[v]

(***************************************************************************)
(* int arithmetic.  Signed overflow is undefined in C++; the Makefile      *)
(* compiles without optimisation, where the x86 instructions wrap around.  *)
(***************************************************************************)
Wrap_unbounded(x) == x  \* MUTANT: the result is not brought back to an int
Wrap(x) == ((x - IntMin) % (IntMax - IntMin + 1)) + IntMin

Magnitude(x) == IF x < 0 THEN -x ELSE x

\* MUTANT: the quotient is rounded down.
TruncDiv_floor(l, r) == IF r < 0 THEN (-l) \div (-r) ELSE l \div r

\* Division truncates towards zero, where \div of TLA+ rounds down.
TruncDiv(l, r) ==
  LET q == Magnitude(l) \div Magnitude(r)
  IN  IF (l < 0) # (r < 0) THEN -q ELSE q

Compute(op, l, r) ==
  CASE op = "ADD" -> Wrap(l + r)
    [] op = "SUB" -> Wrap(l - r)
    [] op = "MUL" -> Wrap(l * r)
    [] op = "DIV" -> Wrap(TruncDiv(l, r))

(***************************************************************************)
(* The operand that an arithmetic request would take from the stack s.     *)
(* An empty stack and a non-numeric text raise OperationException, which   *)
(* is answered FAILED; std::out_of_range is caught by none of the handlers *)
(* of handle_request and ends the session.                                 *)
(***************************************************************************)
Operand_unchecked(s) ==  \* MUTANT: std::invalid_argument is not caught
  IF IsEmpty(s) THEN "FAILED"
  ELSE IF Top(s) \in NonNumeric \cup OutOfRange THEN "ESCAPES" ELSE "OK"
Operand(s) ==
  IF IsEmpty(s) THEN "FAILED"
  ELSE CASE Top(s) \in NonNumeric -> "FAILED"
         [] Top(s) \in OutOfRange -> "ESCAPES"
         [] OTHER                 -> "OK"

(***************************************************************************)
(* What handle_arithmetic_request does to the stack s: "OK" with the       *)
(* result pushed, "FAILED" or "ESCAPES" with the operands that were popped *)
(* before the failure gone, or "SIGFPE", the trap of the one quotient that *)
(* does not fit an int, which kills the process.                           *)
(***************************************************************************)
ArithResult(op, s) ==
  LET outcome(o, rest) == [outcome |-> o, stack |-> rest]
      s1    == Pop(s)
      right == Stoi(Top(s))
      left  == Stoi(Top(s1))
  IN  IF Operand(s) # "OK" THEN outcome(Operand(s), s)
      ELSE IF Operand(s1) # "OK" THEN outcome(Operand(s1), s1)
      ELSE IF op = "DIV" /\ right = 0 THEN outcome("FAILED", Pop(s1))
      ELSE IF op = "DIV" /\ left = IntMin /\ right = -1
           THEN outcome("SIGFPE", Pop(s1))
      ELSE outcome("OK", Push(Pop(s1), Compute(op, left, right)))
=============================================================================
