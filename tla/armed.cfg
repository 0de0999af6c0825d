SPECIFICATION Spec
CONSTANTS
  c1 = c1
  c2 = c2
  c3 = c3
  ta = ta
  tb = tb
  ka = ka
  kb = kb
  apple = apple
  huge = huge
  prefixed = prefixed
  IntMax = 1
  Word = {}
  NonNumeric = {}
  OutOfRange = {}
  StoiOf <- NoText
  TableName = {ta}
  Key = {ka}
  Conn = {c1, c2}
  Absent = Absent
  InitialData <- OldData
  Free = Free
  Fd = {1, 2}
  NoFd <- MinusOne
  InitialTables = {ta}
  HeapBytes = {"one"}
  Requests = {"PUSH", "SET", "GET", "BEGIN", "COMMIT", "BYE"}
  PushTexts = {0, 1}
  Identifier = {ka}
  LongKey = {}
  Faults = {}
  MaxRequests = 4
SYMMETRY Symmetric
INVARIANTS
  WritersExclude
  OnlyTransactionalReadsRace
  RecordedLocksAreHeld
  TransactionsStayHidden
PROPERTIES
  ImplementsVisibleStore
CHECK_DEADLOCK FALSE
