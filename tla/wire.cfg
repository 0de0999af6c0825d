SPECIFICATION WireSpec
CONSTANTS
  EndOfFile = EndOfFile
  ReadError = ReadError
  Letter = {"a"}
  Mark = {"1"}
  Other = {}
  MaxEncodedLen = 20
  MaxLen = 7
  RioBufSize = 3
  Programs <- AllPrograms
  Values <- StackedValues
INVARIANTS
  HandledAsSent
  ExitZeroMeansServed
PROPERTIES
  BothEnd
