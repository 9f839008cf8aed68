SPECIFICATION Spec
CONSTANTS
  Capacity = 3
  Values = {0, 1, 2}
  HeapSize = 20
  Requests = {1, 4, 12}
  UserWords = {0, 1029}
  MaxMallocs = 4
  Signums = {"SIGNULL", "SIGABRT", "SIGCHLD", "SIGINT"}
  MaxCalls = 4
  MaxDepth = 2
  LastYear = 2013
  MemSize = 5
  ByteValues = {0, 1, 5}
  ByteRange = 8
  HighBit = 16
  Bases = {2, 8, 10, 16}
  MaxLength = 9
  WidthDigits = {0, 2}
  StarWidths = {3}
  MaxFlags = 3
  Befores = {0, 3}
INVARIANTS IndicesAgree HeapSound AbortEnds DateConverted StringsAgree FormatRight
PROPERTY ImplementsFifo
CHECK_DEADLOCK FALSE
