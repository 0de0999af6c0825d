SPECIFICATION ClientsSpec
CONSTANTS
  a1 = a1
  a2 = a2
  a3 = a3
  b1 = b1
  b2 = b2
  b3 = b3
  ta = ta
  tb = tb
  ka = ka
  kb = kb
  IntMax = 7
  Word = {}
  NonNumeric = {}
  OutOfRange = {}
  StoiOf <- NoText
  TableName = {ta}
  Key = {ka}
  Conn = {a1, a2, a3, b1, b2, b3}
  Absent = Absent
  InitialData <- ZeroData
  Free = Free
  Fd = {1, 2, 3, 4}
  NoFd <- MinusOne
  InitialTables = {ta}
  HeapBytes = {"zero"}
  Requests = {"CREATE", "BEGIN", "GET", "PUSH", "ADD", "SUB", "TOP", "SET", "COMMIT", "BYE"}
  PushTexts = {0, 1}
  Identifier = {ka}
  LongKey = {}
  Faults = {"eof"}
  MaxRequests = 10
  Programs <- OnlyIncrements
  Earlier <- Sequentially
SYMMETRY Alike
INVARIANTS
  CountLooksReasonable
