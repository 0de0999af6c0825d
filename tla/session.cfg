SPECIFICATION Spec
CONSTANTS
  c1 = c1
  c2 = c2
  c3 = c3
  ta = ta
  tb = tb
  ka = ka
  kb = kb
  apple = apple
  huge = huge
  prefixed = prefixed
  IntMax = 2
  Word = {apple, huge, prefixed}
  NonNumeric = {apple}
  OutOfRange = {huge}
  StoiOf <- PrefixValue
  TableName = {ta}
  Key = {ka, kb}
  Conn = {c1}
  Absent = Absent
  InitialData <- NoData
  Free = Free
  Fd = {1, 2}
  NoFd <- MinusOne
  InitialTables = {ta}
  HeapBytes = {"zero"}
  Requests = {"LOGIN", "PUSH", "PUSH_EMPTY", "POP", "TOP", "ADD", "SUB", "MUL", "DIV", "SET", "GET", "UNSUPPORTED", "BYE"}
  PushTexts <- SomeTexts
  Identifier = {ka}
  LongKey = {}
  Faults = {"eof", "malformed", "pipelined", "reset", "pipe", "nothread"}
  MaxRequests = 5
INVARIANTS
  TypeOK
