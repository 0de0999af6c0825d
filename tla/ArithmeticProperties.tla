------------------------ MODULE ArithmeticProperties ------------------------
(***************************************************************************)
(* The arithmetic requests against what arithmetic on integers says, for   *)
(* every pair of operands.  A step takes a fresh stack of at most          *)
(* MaxOperands operands and makes one request on it.                       *)
(***************************************************************************)
EXTENDS ValueStack

CONSTANTS
  Operands,    \* the values on the stacks
  MaxOperands  \* BOUND: how many there are on one

ASSUME OperandsAssumption == Operands \subseteq Value /\ MaxOperands \in Nat

VARIABLES
  before,  \* the stack the request finds, << >> before the first request
  request, \* the operator, "none" before the first request
  result   \* what ArithResult makes of it

stackVars == <<before, request, result>>

Stacks == UNION {[1 .. n -> Operands] : n \in 0 .. MaxOperands}

ArithInit ==
  /\ before = << >>
  /\ request = "none"
  /\ result = [outcome |-> "OK", stack |-> << >>]

ArithRequest(op) ==
  /\ request = "none" /\ request' = op
  /\ before' \in Stacks
  /\ result' = ArithResult(op, before')

Right == Stoi(before[1])
Left  == Stoi(before[2])
Answer == result.stack[1]

Exact ==
  CASE request = "ADD" -> Left + Right
    [] request = "SUB" -> Left - Right
    [] request = "MUL" -> Left * Right

Succeeds == request # "none" /\ result.outcome = "OK"

\* The sum, difference or product that is pushed is an int that differs from
\* the exact one by a multiple of 2^32 (here: of the number of ints), and is
\* the exact one when that is an int (client_connection.cpp:339-347).
AnswerIsCongruent ==
  Succeeds /\ request # "DIV" =>
    /\ Answer \in IntRange
    /\ (Answer - Exact) % (IntMax - IntMin + 1) = 0

\* The quotient that is pushed leaves a remainder smaller than the divisor,
\* with the sign of the dividend (client_connection.cpp:348-354).
QuotientLeavesRemainder ==
  Succeeds /\ request = "DIV" =>
    LET remainder == Left - Answer * Right
    IN  /\ Magnitude(remainder) < Magnitude(Right)
        /\ remainder # 0 => (remainder < 0) = (Left < 0)

\* A request that succeeds turns two operands into one; one that fails has
\* taken 0, 1 or 2 operands off and pushed nothing; the rest of the stack is
\* as it was.  It fails exactly when an operand is missing or is no int, or
\* the divisor is 0, and escapes FAILED only for text too long for an int.
OperandsAreConsumed ==
  request # "none" =>
    LET taken == Len(before) - Len(result.stack)
        numeric(i) == i <= Len(before) /\ before[i] \notin NonNumeric \cup OutOfRange
        tooLong(i) == i <= Len(before) /\ before[i] \in OutOfRange
        division == request = "DIV" /\ numeric(1) /\ numeric(2)
    IN  /\ IF Succeeds
           THEN taken = 1 /\ Pop(result.stack) = Pop(Pop(before))
           ELSE taken \in 0 .. 2 /\ result.stack = SubSeq(before, 1 + taken, Len(before))
        /\ result.outcome = "ESCAPES" <=> tooLong(1) \/ (numeric(1) /\ tooLong(2))
        /\ result.outcome = "SIGFPE" <=> division /\ Left = IntMin /\ Right = -1
        /\ Succeeds <=>
             /\ numeric(1) /\ numeric(2)
             /\ division => Right # 0 /\ result.outcome # "SIGFPE"
=============================================================================
