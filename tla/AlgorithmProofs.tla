--------------------------- MODULE AlgorithmProofs --------------------------
(***************************************************************************)
(* Proofs about the algorithms that work on one request alone: arithmetic  *)
(* for ints of any width, and the codec for lines of any length.           *)
(***************************************************************************)
EXTENDS Algorithms, MessageProofs

-----------------------------------------------------------------------------
(* Arithmetic.                                                             *)

Width == IntMax - IntMin + 1  \* how many ints there are

\* The instructions bring a result back to an int, by a multiple of Width.
LEMMA WrapIsCongruent ==
  ASSUME NEW x \in Int
  PROVE  Wrap(x) \in IntRange /\ (Wrap(x) - x) % Width = 0
<1>1. Width \in Nat \ {0} /\ IntMin \in Int
  BY ValueAssumption DEF Width, IntMin
<1> DEFINE q == (x - IntMin) \div Width
           m == (x - IntMin) % Width
<1>2. q \in Int /\ m \in 0 .. Width - 1 /\ x - IntMin = Width * q + m
  BY <1>1
<1>3. Wrap(x) = m + IntMin
  BY DEF Wrap, Width
<1> HIDE DEF q, m
<1>4. Wrap(x) \in IntRange
  BY <1>1, <1>2, <1>3, ValueAssumption DEF IntRange, Width, IntMin
<1>5. Wrap(x) - x = Width * (-q)
  BY <1>1, <1>2, <1>3
<1>6. \A k \in Int : (Width * k) % Width = 0
  BY <1>1
<1> QED
  BY <1>2, <1>4, <1>5, <1>6

\* An int is left as it is.
LEMMA WrapOfInt == ASSUME NEW x \in IntRange PROVE Wrap(x) = x
<1>1. x - IntMin \in 0 .. Width - 1 /\ Width \in Nat \ {0}
  BY ValueAssumption DEF IntRange, IntMin, Width
<1>2. \A y \in 0 .. Width - 1 : y % Width = y
  BY <1>1
<1> QED
  BY <1>1, <1>2, ValueAssumption DEF Wrap, Width, IntMin, IntRange

\* A quotient of natural numbers.
LEMMA Quotient ==
  ASSUME NEW a \in Nat, NEW b \in Nat \ {0}
  PROVE  /\ a \div b \in Nat /\ a \div b <= a
         /\ b > 1 /\ a > 0 => a \div b < a
         /\ a - (a \div b) * b \in 0 .. b - 1
<1> DEFINE q == a \div b
           m == a % b
<1>1. q \in Int /\ m \in 0 .. b - 1 /\ a = b * q + m
  OBVIOUS
<1> HIDE DEF q, m
<1>2. q >= 0
  <2> SUFFICES ASSUME q <= -1 PROVE FALSE
    BY <1>1
  <2>1. b * q <= b * (-1)
    BY <1>1
  <2> QED
    BY <1>1, <2>1
<1>3. b * q >= q /\ (b > 1 => b * q >= 2 * q)
  BY <1>1, <1>2
<1> QED
  BY <1>1, <1>2, <1>3 DEF q

\* The quotient that is pushed is an int, and leaves the remainder it should:
\* the one that would not fit is the trap's.
LEMMA DivisionTruncates ==
  ASSUME NEW l \in IntRange, NEW r \in IntRange, r # 0, ~(l = IntMin /\ r = -1)
  PROVE  LET answer == Wrap(TruncDiv(l, r))
             remainder == l - answer * r
         IN  /\ Magnitude(remainder) < Magnitude(r)
             /\ remainder # 0 => (remainder < 0) = (l < 0)
<1> DEFINE a == Magnitude(l)
           b == Magnitude(r)
           q == a \div b
           t == TruncDiv(l, r)
           rest == a - q * b
<1>1. a \in 0 .. IntMax + 1 /\ b \in 1 .. IntMax + 1 /\ IntMax \in Nat /\ l \in Int /\ r \in Int
  BY ValueAssumption DEF IntRange, IntMin, Magnitude
<1>2. /\ (l >= 0 => l = a) /\ (l < 0 => l = -a /\ a > 0)
      /\ (r >= 0 => r = b) /\ (r < 0 => r = -b)
  BY <1>1 DEF Magnitude
<1> HIDE DEF a, b
<1>3. q \in Nat /\ q <= a /\ (b > 1 /\ a > 0 => q < a) /\ rest \in 0 .. b - 1
  <2>1. a \in Nat /\ b \in Nat \ {0}
    BY <1>1
  <2> QED
    BY <2>1, Quotient
<1>4. t = IF (l < 0) # (r < 0) THEN -q ELSE q
  BY DEF TruncDiv, a, b
<1> HIDE DEF q, t
<1>5. t \in IntRange
  <2>1. CASE q < IntMax + 1
    BY <1>1, <1>3, <1>4, <2>1 DEF IntRange, IntMin
  <2>2. CASE q = IntMax + 1
    <3>1. a = IntMax + 1 /\ b = 1 /\ a > 0
      BY <1>1, <1>3, <2>2
    <3>2. l = IntMin /\ r = 1
      BY <1>1, <1>2, <3>1 DEF IntRange, IntMin
    <3> QED
      BY <1>1, <1>4, <2>2, <3>2 DEF IntRange, IntMin
  <2> QED
    BY <1>1, <1>3, <2>1, <2>2
<1>6. l - t * r = IF l < 0 THEN -rest ELSE rest
  <2>1. t * r = IF l < 0 THEN -(q * b) ELSE q * b
    <3>1. CASE (l < 0) # (r < 0)
      BY <1>1, <1>2, <1>3, <1>4, <3>1
    <3>2. CASE (l < 0) = (r < 0)
      BY <1>1, <1>2, <1>3, <1>4, <3>2
    <3> QED
      BY <3>1, <3>2
  <2> QED
    BY <1>1, <1>2, <1>3, <2>1
<1>7. Magnitude(l - t * r) = rest
  BY <1>3, <1>6 DEF Magnitude
<1>8. /\ Magnitude(l - t * r) < Magnitude(r)
      /\ l - t * r # 0 => (l - t * r < 0) = (l < 0)
  BY <1>1, <1>3, <1>6, <1>7 DEF b
<1>9. Wrap(TruncDiv(l, r)) = t
  BY <1>5, WrapOfInt DEF t
<1> QED
  BY <1>8, <1>9

\* When an operand is there, is missing, is no number or is too long.
LEMMA OperandCases ==
  ASSUME NEW s \in Seq(Value)
  PROVE  /\ Operand(s) = "OK" =>
              s # << >> /\ s[1] \notin NonNumeric \cup OutOfRange /\ Stoi(s[1]) \in IntRange
         /\ Operand(s) # "OK" <=> s = << >> \/ s[1] \in NonNumeric \cup OutOfRange
         /\ Operand(s) = "ESCAPES" <=> s # << >> /\ s[1] \in OutOfRange
         /\ Operand(s) \in {"OK", "FAILED", "ESCAPES"}
<1>1. s # << >> => s[1] \in Value
  OBVIOUS
<1>2. s # << >> /\ s[1] \notin NonNumeric \cup OutOfRange => Stoi(s[1]) \in IntRange
  BY <1>1, ValueAssumption DEF Value, Stoi
<1>3. CASE s = << >>
  BY <1>3 DEF Operand, IsEmpty
<1>4. CASE s # << >>
  BY <1>2, <1>4, ValueAssumption DEF Operand, IsEmpty, Top
<1> QED
  BY <1>3, <1>4

\* What a request that succeeds pushes.
LEMMA ArithResultSucceeds ==
  ASSUME NEW s \in Seq(Value), NEW op \in ArithOps, ArithResult(op, s).outcome = "OK"
  PROVE  /\ Len(s) >= 2
         /\ Stoi(s[1]) \in IntRange /\ Stoi(s[2]) \in IntRange
         /\ ArithResult(op, s).stack = Push(Pop(Pop(s)), Compute(op, Stoi(s[2]), Stoi(s[1])))
         /\ ArithResult(op, s).stack[1] = Compute(op, Stoi(s[2]), Stoi(s[1]))
         /\ op = "DIV" => Stoi(s[1]) # 0 /\ ~(Stoi(s[2]) = IntMin /\ Stoi(s[1]) = -1)
<1>1. Operand(s) = "OK" /\ s # << >> /\ Tail(s) \in Seq(Value)
  BY OperandCases DEF ArithResult, Pop
<1>2. Operand(Tail(s)) = "OK" /\ Tail(s) # << >>
  BY <1>1, OperandCases DEF ArithResult, Pop
<1>3. Len(s) >= 2 /\ Tail(s)[1] = s[2]
  BY <1>1, <1>2
<1>4. Stoi(s[1]) \in IntRange /\ Stoi(s[2]) \in IntRange
  BY <1>1, <1>2, <1>3, OperandCases
<1>5. \A v : Push(Pop(Pop(s)), v)[1] = v
  BY <1>3 DEF Push, Pop
<1> QED
  BY <1>1, <1>2, <1>3, <1>4, <1>5 DEF ArithResult, Pop, Top

\* The stack and the request it was made of, and the answer.
Answered ==
  /\ before \in Seq(Value)
  /\ request \in ArithOps \cup {"none"}
  /\ request # "none" => result = ArithResult(request, before)

\* The stacks have values, and what is answered is what ArithResult says.
LEMMA AlgorithmsAnswered == AlgorithmsSpec => []Answered
<1>1. AlgorithmsInit => Answered
  BY DEF AlgorithmsInit, ArithInit, Answered
<1>2. Answered /\ [Calculate \/ Transfer]_<<stackVars, codecVars>> => Answered'
  <2> SUFFICES ASSUME Answered, [Calculate \/ Transfer]_<<stackVars, codecVars>>
               PROVE  Answered'
    OBVIOUS
  <2>1. ASSUME NEW op \in ArithOps, ArithRequest(op) PROVE Answered'
    <3>1. \A S, n : S \subseteq Value /\ n \in Nat => [1 .. n -> S] \subseteq Seq(Value)
      OBVIOUS
    <3>2. before' \in Seq(Value)
      BY <2>1, <3>1, OperandsAssumption DEF ArithRequest, Stacks
    <3> QED
      BY <2>1, <3>2 DEF Answered, ArithRequest, ArithOps
  <2>2. CASE UNCHANGED stackVars
    BY <2>2 DEF Answered, stackVars
  <2> QED
    BY <2>1, <2>2 DEF Calculate, Transfer
<1> QED
  BY <1>1, <1>2, PTL DEF AlgorithmsSpec

\* ANSWERS ARE CONGRUENT: what ADD, SUB and MUL push is an int, and the exact
\* answer but for a multiple of the number of ints, for ints of any width
\* (client_connection.cpp:339-347).
THEOREM ArithmeticWraps == AlgorithmsSpec => []AnswerIsCongruent
<1>1. Answered => AnswerIsCongruent
  <2> SUFFICES ASSUME Answered, Succeeds, request # "DIV"
               PROVE  Answer \in IntRange /\ (Answer - Exact) % (IntMax - IntMin + 1) = 0
    BY DEF AnswerIsCongruent
  <2>1. /\ Left \in IntRange /\ Right \in IntRange /\ Answer = Compute(request, Left, Right)
        /\ request \in {"ADD", "SUB", "MUL"}
    <3>1. /\ request \in ArithOps /\ before \in Seq(Value) /\ result = ArithResult(request, before)
          /\ ArithResult(request, before).outcome = "OK"
      BY DEF Answered, Succeeds
    <3> QED
      BY <3>1, ArithResultSucceeds DEF ArithOps, Left, Right, Answer
  <2>2. Exact \in Int /\ Answer = Wrap(Exact)
    BY <2>1, ValueAssumption DEF Exact, Compute, IntRange, IntMin
  <2> QED
    BY <2>2, WrapIsCongruent DEF Width
<1> QED
  BY <1>1, AlgorithmsAnswered, PTL

\* QUOTIENTS LEAVE REMAINDERS: what DIV pushes is the quotient rounded towards
\* zero, for ints of any width (client_connection.cpp:348-354).
THEOREM DivisionRoundsToZero == AlgorithmsSpec => []QuotientLeavesRemainder
<1>1. Answered => QuotientLeavesRemainder
  <2> SUFFICES ASSUME Answered, Succeeds, request = "DIV"
               PROVE  QuotientLeavesRemainder
    BY DEF QuotientLeavesRemainder
  <2>1. /\ Left \in IntRange /\ Right \in IntRange /\ Answer = Compute("DIV", Left, Right)
        /\ Right # 0 /\ ~(Left = IntMin /\ Right = -1)
    <3>1. /\ request \in ArithOps /\ before \in Seq(Value) /\ result = ArithResult(request, before)
          /\ ArithResult(request, before).outcome = "OK"
      BY DEF Answered, Succeeds
    <3> QED
      BY <3>1, ArithResultSucceeds DEF ArithOps, Left, Right, Answer
  <2>2. Answer = Wrap(TruncDiv(Left, Right))
    BY <2>1 DEF Compute
  <2> QED
    BY <2>1, <2>2, DivisionTruncates DEF QuotientLeavesRemainder
<1> QED
  BY <1>1, AlgorithmsAnswered, PTL

\* The rest of a stack.
LEMMA RestOfStack ==
  ASSUME NEW s \in Seq(Value)
  PROVE  /\ SubSeq(s, 1, Len(s)) = s
         /\ s # << >> => Pop(s) = SubSeq(s, 2, Len(s)) /\ Len(Pop(s)) = Len(s) - 1
         /\ Len(s) >= 2 => /\ Pop(Pop(s)) = SubSeq(s, 3, Len(s))
                           /\ Len(Pop(Pop(s))) = Len(s) - 2 /\ Pop(Pop(s)) \in Seq(Value)
                           /\ Pop(s)[1] = s[2]
BY DEF Pop

\* Pushing, and popping again.
LEMMA PopOfPush ==
  ASSUME NEW s \in Seq(Value), NEW v
  PROVE  Len(Push(s, v)) = Len(s) + 1 /\ Pop(Push(s, v)) = s
<1>1. <<v>> \in Seq({v} \cup Value) /\ s \in Seq({v} \cup Value)
  OBVIOUS
<1>2. Len(Push(s, v)) = Len(s) + 1 /\ Push(s, v) \in Seq({v} \cup Value)
  BY <1>1 DEF Push
<1>3. Pop(Push(s, v)) \in Seq({v} \cup Value) /\ Len(Pop(Push(s, v))) = Len(s)
  BY <1>1, <1>2 DEF Pop
<1>4. \A i \in 1 .. Len(s) : Pop(Push(s, v))[i] = s[i]
  BY <1>1, <1>2 DEF Pop, Push
<1> QED
  BY <1>1, <1>2, <1>3, <1>4, SeqEqual

\* OPERANDS ARE CONSUMED: what a request takes off the stack, what it leaves
\* there and how it is answered, for stacks of any height
\* (handle_arithmetic_request and ValueStack).
THEOREM ArithmeticConsumes == AlgorithmsSpec => []OperandsAreConsumed
<1>1. Answered => OperandsAreConsumed
  <2> SUFFICES ASSUME Answered, request # "none" PROVE OperandsAreConsumed
    BY DEF OperandsAreConsumed
  <2> DEFINE rest == Pop(before)
             numeric(i) == i <= Len(before) /\ before[i] \notin NonNumeric \cup OutOfRange
             tooLong(i) == i <= Len(before) /\ before[i] \in OutOfRange
  <2>1. /\ before \in Seq(Value) /\ request \in ArithOps /\ result = ArithResult(request, before)
        /\ Len(before) \in Nat
    BY DEF Answered
  <2>2. /\ numeric(1) <=> Operand(before) = "OK"
        /\ tooLong(1) <=> Operand(before) = "ESCAPES"
        /\ ~(numeric(1) /\ tooLong(1)) /\ ~(numeric(2) /\ tooLong(2))
        /\ Operand(before) \in {"OK", "FAILED", "ESCAPES"}
    BY <2>1, OperandCases
  <2>3. ASSUME Operand(before) = "OK"
        PROVE  /\ numeric(2) <=> Operand(rest) = "OK"
               /\ tooLong(2) <=> Operand(rest) = "ESCAPES"
               /\ Operand(rest) \in {"OK", "FAILED", "ESCAPES"}
    <3>1. before # << >> /\ rest \in Seq(Value)
      BY <2>1, <2>3, OperandCases DEF Pop
    <3>2. Len(rest) = Len(before) - 1 /\ (rest # << >> => rest[1] = before[2])
      BY <2>1, <3>1 DEF Pop
    <3> QED
      BY <2>1, <3>1, <3>2, OperandCases
  <2> HIDE DEF rest
  <2>4. CASE Operand(before) # "OK"
    <3>1. result = [outcome |-> Operand(before), stack |-> before]
      BY <2>1, <2>4 DEF ArithResult
    <3>2. SubSeq(before, 1, Len(before)) = before
      BY <2>1
    <3> QED
      BY <2>1, <2>2, <2>4, <3>1, <3>2 DEF OperandsAreConsumed, Succeeds
  <2>5. CASE Operand(before) = "OK" /\ Operand(rest) # "OK"
    <3>1. result = [outcome |-> Operand(rest), stack |-> rest]
      BY <2>1, <2>5 DEF ArithResult, rest
    <3>2. before # << >> /\ rest = SubSeq(before, 2, Len(before)) /\ Len(rest) = Len(before) - 1
      BY <2>1, <2>5, OperandCases, RestOfStack DEF rest
    <3>3. /\ Len(before) - Len(result.stack) = 1
          /\ result.stack = SubSeq(before, 1 + (Len(before) - Len(result.stack)), Len(before))
      <4>1. result.stack = rest
        BY <3>1
      <4>2. Len(before) - Len(rest) = 1 /\ 1 + (Len(before) - Len(rest)) = 2
        <5>1. Len(before) \in Nat /\ Len(rest) = Len(before) - 1
          BY <2>1, <3>2
        <5> QED
          BY <5>1
      <4> QED
        BY <3>2, <4>1, <4>2
    <3>4. /\ ~Succeeds /\ result.outcome # "SIGFPE"
          /\ result.outcome = "ESCAPES" <=> Operand(rest) = "ESCAPES"
      BY <2>3, <2>5, <3>1 DEF Succeeds
    <3>5. numeric(1) /\ ~numeric(2) /\ ~tooLong(1) /\ (tooLong(2) <=> Operand(rest) = "ESCAPES")
      BY <2>2, <2>3, <2>5
    <3> QED
      BY <3>3, <3>4, <3>5 DEF OperandsAreConsumed
  <2>6. CASE Operand(before) = "OK" /\ Operand(rest) = "OK"
    <3>1. numeric(1) /\ numeric(2) /\ ~tooLong(1) /\ ~tooLong(2)
      BY <2>2, <2>3, <2>6
    <3>2. /\ Top(before) = before[1] /\ Top(rest) = before[2] /\ Len(before) >= 2
          /\ Pop(rest) = SubSeq(before, 3, Len(before)) /\ Len(Pop(rest)) = Len(before) - 2
          /\ Pop(rest) \in Seq(Value)
      BY <2>1, <3>1, RestOfStack DEF Top, Pop, rest
    <3>3. CASE request = "DIV" /\ (Right = 0 \/ (Left = IntMin /\ Right = -1))
      <4>1. result = [outcome |-> IF Right = 0 THEN "FAILED" ELSE "SIGFPE", stack |-> Pop(rest)]
        BY <2>1, <2>6, <3>2, <3>3 DEF ArithResult, Left, Right, rest
      <4>2. Right = 0 => Right # -1
        OBVIOUS
      <4> QED
        BY <2>1, <3>1, <3>2, <3>3, <4>1, <4>2 DEF OperandsAreConsumed, Succeeds
    <3>4. CASE ~(request = "DIV" /\ (Right = 0 \/ (Left = IntMin /\ Right = -1)))
      <4>1. PICK v : result = [outcome |-> "OK", stack |-> Push(Pop(rest), v)]
        BY <2>1, <2>6, <3>2, <3>4 DEF ArithResult, Left, Right, rest
      <4>2. Len(result.stack) = Len(before) - 1 /\ Pop(result.stack) = Pop(rest)
        <5>1. /\ Len(Push(Pop(rest), v)) = Len(Pop(rest)) + 1
              /\ Pop(Push(Pop(rest), v)) = Pop(rest)
          BY <3>2, PopOfPush
        <5> QED
          BY <2>1, <3>2, <4>1, <5>1
      <4>3. Succeeds /\ Len(before) - Len(result.stack) = 1
        BY <2>1, <4>1, <4>2 DEF Succeeds
      <4>4. Pop(result.stack) = Pop(Pop(before)) /\ result.outcome = "OK"
        BY <4>1, <4>2 DEF rest
      <4> QED
        BY <3>1, <3>4, <4>3, <4>4 DEF OperandsAreConsumed
    <3> QED
      BY <3>3, <3>4
  <2> QED
    BY <2>2, <2>3, <2>4, <2>5, <2>6
<1> QED
  BY <1>1, AlgorithmsAnswered, PTL

-----------------------------------------------------------------------------
(* The codec.                                                              *)

\* What each stage has made of the line that was read.
Converted ==
  /\ stage \in {"idle", "read", "answered", "over"}
  /\ stage = "idle" => message = Invalid
  /\ stage # "idle" => line \in Text /\ message = decode(line)
  /\ stage \in {"answered", "over"} =>
       /\ message # Invalid /\ message.type = "PUSH" /\ get_value(message) # << >>
       /\ reply = encode(Message("DATA", <<get_value(message)>>))
  /\ stage = "over" => got = decode(reply)

\* Converted is inductive.
LEMMA AlgorithmsConvert == AlgorithmsSpec => []Converted
<1>1. AlgorithmsInit => Converted
  BY DEF AlgorithmsInit, CodecInit, Converted
<1>2. Converted /\ [Calculate \/ Transfer]_<<stackVars, codecVars>> => Converted'
  <2> SUFFICES ASSUME Converted, [Calculate \/ Transfer]_<<stackVars, codecVars>>
               PROVE  Converted'
    OBVIOUS
  <2>1. CASE ReadLine
    <3>1. stage' = "read" /\ line' \in Text /\ message' = decode(line')
      BY <2>1, LinesAssumption DEF ReadLine, Text
    <3> QED
      BY <3>1 DEF Converted
  <2>2. CASE PushAndTop
    <3>1. /\ stage = "read" /\ stage' = "answered"
          /\ message.type = "PUSH" /\ get_value(message) # << >>
          /\ reply' = encode(Message("DATA", <<get_value(message)>>))
          /\ line' = line /\ message' = message
      BY <2>2 DEF PushAndTop
    <3>2. message # Invalid
      BY <3>1 DEF Invalid, Message
    <3> QED
      BY <3>1, <3>2 DEF Converted
  <2>3. CASE ReadReply
    BY <2>3 DEF ReadReply, Converted
  <2>4. CASE UNCHANGED codecVars
    BY <2>4 DEF Converted, codecVars
  <2> QED
    BY <2>1, <2>2, <2>3, <2>4 DEF Calculate, Transfer, CodecNext
<1> QED
  BY <1>1, <1>2, PTL DEF AlgorithmsSpec

\* A value that was pushed is a text, and DATA carries it.
LEMMA ReplyIsSpelled ==
  ASSUME Converted, stage \in {"answered", "over"}
  PROVE  /\ get_value(message) \in Text
         /\ reply = Spelled(Message("DATA", <<get_value(message)>>))
         /\ Length(reply) <= MaxEncodedLen /\ reply # << >>
<1> DEFINE value == get_value(message)
           text == Spelled(Message("DATA", <<value>>))
<1>1. /\ line \in Text /\ decode(line) # Invalid /\ decode(line).type = "PUSH"
      /\ message = decode(line) /\ reply = encode(Message("DATA", <<value>>))
  BY DEF Converted
<1>2. value \in Text /\ Length(text) <= Length(line)
  BY <1>1, ValueFits
<1>3. Length(line) <= MaxEncodedLen
  BY <1>1, DecodedText
<1>4. text \in Text /\ text # << >>
  <2>1. "DATA" \in TypeName /\ <<value>> \in Seq(Text)
    BY <1>2, Pieces
  <2> QED
    BY <2>1, SpelledMessage
<1> HIDE DEF value
<1>5. Length(line) \in Nat /\ Length(text) \in Nat
  BY <1>1, <1>4, LengthIsNat
<1>6. Length(text) <= MaxEncodedLen
  BY <1>2, <1>3, <1>5, CodecAssumption
<1>7. reply = text
  BY <1>1, <1>5, <1>6, CodecAssumption DEF encode
<1> QED
  BY <1>2, <1>4, <1>6, <1>7 DEF value

\* DATA FITS: the reply to TOP is never too long for encode, whatever line the
\* value came in, of whatever length (client_connection.cpp:145, 297-308).
THEOREM DataAlwaysFits == AlgorithmsSpec => []DataFits
<1>1. Converted => DataFits
  BY ReplyIsSpelled DEF DataFits
<1> QED
  BY <1>1, AlgorithmsConvert, PTL

\* MESSAGES ROUND TRIP: a decoded message is sent on as it is exactly if its
\* arguments are words and the first opens no quote, for messages of any length
\* that is allowed (message_serialization.cpp:17-181).
THEOREM PlainMessagesRoundTrip == AlgorithmsSpec => []MessagesRoundTrip
<1>1. Converted => MessagesRoundTrip
  <2> SUFFICES ASSUME Converted, message # Invalid, Length(Spelled(message)) <= MaxEncodedLen
               PROVE  MessagesRoundTrip
    BY DEF MessagesRoundTrip
  <2>1. line \in Text /\ message = decode(line)
    BY DEF Converted
  <2>2. PICK type \in TypeName, args \in Seq(Text) : message = Message(type, args)
    BY <2>1, DecodedIsMessage
  <2>3. is_valid(message)
    BY <2>1, DecodedText
  <2>4. decode(Spelled(message)) = message <=> WordsUnquoted(args)
    BY <2>2, <2>3, MessageComesBack
  <2>5. encode(message) = Spelled(message)
    <3>1. Spelled(message) \in Text
      BY <2>2, SpelledMessage
    <3>2. Length(Spelled(message)) \in Nat
      BY <3>1, LengthIsNat
    <3> QED
      BY <3>2, CodecAssumption DEF encode
  <2>6. message.args = args
    BY <2>2 DEF Message
  <2>7. WordsUnquoted(args) <=> /\ \A i \in 1 .. Len(args) : Plain(args[i])
                                /\ args # << >> => ~OpensQuote(args[1])
    BY DEF WordsUnquoted, IsWord, Plain, Quoted, OpensQuote
  <2> QED
    BY <2>4, <2>5, <2>6, <2>7 DEF MessagesRoundTrip
<1> QED
  BY <1>1, AlgorithmsConvert, PTL

\* A value that comes back is a word and opens no quote.
LEMMA OnlyWordsComeBack ==
  ASSUME NEW value \in Text, NEW pushed \in Text,
         Arguments(AfterType(Spelled(Message("PUSH", <<value>>)))) = <<pushed>>,
         Arguments(AfterType(Spelled(Message("DATA", <<pushed>>)))) = <<value>>
  PROVE  IsWord(value) /\ ~Quoted(value)
<1>1. "PUSH" \in TypeName /\ "DATA" \in TypeName
  BY Pieces
<1>2. \/ Quoted(value) /\ \A i \in 1 .. Len(pushed) : pushed[i] # Quote
      \/ /\ ~Quoted(value)
         /\ (\E i \in 1 .. Len(pushed) : pushed[i] = Quote) =>
               \E i \in 1 .. Len(value) : value[i] = Quote
  BY <1>1, OneArgument
<1>3. \/ Quoted(pushed) /\ \A i \in 1 .. Len(value) : value[i] # Quote
      \/ /\ IsWord(value)
         /\ (\E i \in 1 .. Len(value) : value[i] = Quote) =>
               \E i \in 1 .. Len(pushed) : pushed[i] = Quote
  BY <1>1, OneArgument
<1>4. \A text \in Text : Quoted(text) => \E i \in 1 .. Len(text) : text[i] = Quote
  BY DEF Quoted, Text
<1>5. /\ Quoted(value) => \E i \in 1 .. Len(value) : value[i] = Quote
      /\ Quoted(pushed) => \E i \in 1 .. Len(pushed) : pushed[i] = Quote
  BY <1>4
<1> QED
  BY <1>2, <1>3, <1>5, Zenon

\* VALUES SURVIVE: a value that is pushed by its text comes back the same
\* exactly if it is a word that opens no quote, for values of any length
\* (set_value.cpp:86, get_value.cpp:107,71).
THEOREM OnlyPlainValuesSurvive == AlgorithmsSpec => []ValuesSurvive
<1>1. Converted => ValuesSurvive
  <2> DEFINE value == SubSeq(line, 3, Len(line) - 1)
             push == Message("PUSH", <<value>>)
             pushed == Len(line) >= 3 /\ line = Spelled(push)
             data == Message("DATA", <<value>>)
             unquoted == Plain(value) /\ ~OpensQuote(value)
  <2> SUFFICES ASSUME Converted, pushed
               PROVE  /\ stage = "over" => (got.args = <<value>> <=> unquoted)
                      /\ stage = "read" /\ unquoted /\ Length(line) <= MaxEncodedLen =>
                           message = push
    BY DEF ValuesSurvive
  <2>1. "PUSH" \in TypeName /\ "DATA" \in TypeName
    BY Pieces
  <2>2. unquoted <=> IsWord(value) /\ ~Quoted(value)
    BY DEF Plain, OpensQuote, IsWord, Quoted
  <2>3. stage # "idle" => line \in Text /\ message = decode(line) /\ value \in Text
    <3>1. ASSUME line \in Text PROVE value \in Text
      BY <3>1 DEF Text
    <3> QED
      BY <3>1 DEF Converted
  <2> HIDE DEF value
  <2>4. ASSUME value \in Text
        PROVE  /\ <<value>> \in Seq(Text) /\ is_valid(push)
               /\ WordsUnquoted(<<value>>) <=> unquoted
               /\ value # << >> => is_valid(data)
    <3>1. /\ <<value>> \in Seq(Text) /\ Len(<<value>>) = 1 /\ <<value>>[1] = value
          /\ <<value>> # << >>
      BY <2>4
    <3>2. is_valid(push) /\ (value # << >> => is_valid(data))
      BY <3>1 DEF is_valid, Message
    <3>3. WordsUnquoted(<<value>>) <=> IsWord(value) /\ ~Quoted(value)
      BY <3>1 DEF WordsUnquoted
    <3> QED
      BY <2>2, <3>1, <3>2, <3>3
  <2>5. ASSUME stage # "idle", unquoted, Length(line) <= MaxEncodedLen
        PROVE  message = push
    <3>1. decode(Spelled(push)) = push <=> WordsUnquoted(<<value>>)
      BY <2>1, <2>3, <2>4, <2>5, MessageComesBack
    <3> QED
      BY <2>3, <2>4, <2>5, <3>1
  <2>6. ASSUME stage = "over"
        PROVE  got.args = <<value>> <=> unquoted
    <3> DEFINE v == get_value(message)
    <3>1. /\ v \in Text /\ v # << >> /\ reply = Spelled(Message("DATA", <<v>>))
          /\ Length(reply) <= MaxEncodedLen /\ got = decode(reply)
          /\ message # Invalid /\ message.type = "PUSH"
      BY <2>6, ReplyIsSpelled DEF Converted
    <3>2. line \in Text /\ message = decode(line) /\ value \in Text
      BY <2>3, <2>6
    <3>3. Length(line) <= MaxEncodedLen
      BY <3>1, <3>2, DecodedText
    <3>4. ASSUME unquoted PROVE got.args = <<value>>
      <4>1. message = push
        BY <2>5, <2>6, <3>3, <3>4
      <4>2. v = value
        BY <4>1 DEF get_value, FirstArg, Message
      <4>3. is_valid(data) /\ WordsUnquoted(<<value>>) /\ <<value>> \in Seq(Text)
        BY <2>4, <3>1, <3>2, <3>4, <4>2
      <4>4. reply = Spelled(data)
        BY <3>1, <4>2
      <4>5. decode(Spelled(data)) = data
        BY <2>1, <3>1, <4>3, <4>4, MessageComesBack
      <4>6. data.args = <<value>>
        BY DEF Message
      <4> QED
        BY <3>1, <4>4, <4>5, <4>6, Zenon
    <3>5. ASSUME got.args = <<value>> PROVE unquoted
      <4>1. message = Message("PUSH", Arguments(AfterType(line))) /\ is_valid(message)
        <5>1. decode(line) = IF is_valid(Message("PUSH", Arguments(AfterType(line))))
                             THEN Message("PUSH", Arguments(AfterType(line))) ELSE Invalid
          BY <2>1, <2>4, <3>2, <3>3, DecodeOfSpelled, Zenon
        <5> QED
          BY <3>1, <3>2, <5>1
      <4>2. Arguments(AfterType(line)) = <<v>>
        <5> DEFINE args == Arguments(AfterType(line))
        <5>1. AfterType(line) \in Text
          BY <2>1, <2>4, <3>2, SpelledMessage
        <5>2. args \in Seq(Text)
          BY <5>1, ArgumentsOf
        <5> HIDE DEF args
        <5>3. Len(args) = 1
          BY <4>1 DEF is_valid, Message, args
        <5>4. v = args[1]
          BY <4>1, <5>2, <5>3 DEF get_value, FirstArg, Message, args
        <5> QED
          BY <5>2, <5>3, <5>4 DEF args
      <4>3. Arguments(AfterType(reply)) = <<value>>
        <5>1. <<v>> \in Seq(Text)
          BY <3>1
        <5>2. got = IF is_valid(Message("DATA", Arguments(AfterType(reply))))
                    THEN Message("DATA", Arguments(AfterType(reply))) ELSE Invalid
          BY <2>1, <3>1, <5>1, DecodeOfSpelled, Zenon
        <5>3. got # Invalid
          <6>1. <<value>> # << >>
            OBVIOUS
          <6> QED
            BY <3>5, <6>1 DEF Invalid, Message
        <5> QED
          BY <3>5, <5>2, <5>3 DEF Message
      <4> HIDE DEF v
      <4>4. IsWord(value) /\ ~Quoted(value)
        BY <3>1, <3>2, <4>2, <4>3, OnlyWordsComeBack
      <4> QED
        BY <2>2, <4>4
    <3> QED
      BY <3>4, <3>5
  <2> QED
    BY <2>5, <2>6
<1> QED
  BY <1>1, AlgorithmsConvert, PTL

=============================================================================
