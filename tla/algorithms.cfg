SPECIFICATION SequentialSpec
CONSTANTS
  apple = apple
  huge = huge
  prefixed = prefixed
  IntMax = 7
  Word = {apple, huge, prefixed}
  NonNumeric = {apple}
  OutOfRange = {huge}
  StoiOf <- PrefixValue
  Operands <- AllOperands
  MaxOperands = 3
  Letter = {"a"}
  Mark = {"1"}
  Other = {}
  MaxEncodedLen = 10
  RequestLines <- AllLines
  other = other
  EndOfLine = EndOfLine
  EndOfFile = EndOfFile
  ReadError = ReadError
  Char <- Bytes
  MaxLen = 5
  RioBufSize = 2
  MaxOnTheWay = 4
  MaxCalls = 3
INVARIANTS
  MessagesRoundTrip
  ValuesSurvive
  DataFits
  AnswerIsCongruent
  QuotientLeavesRemainder
  OperandsAreConsumed
  LineInProgress
PROPERTIES
  ReadsTheStream
CHECK_DEADLOCK FALSE
