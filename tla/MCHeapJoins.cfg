SPECIFICATION HeapSpec
CONSTANTS
  HeapSize = 20
  Requests = {1, 4, 12}
  UserWords = {0, 1029}
  MaxMallocs = 4
INVARIANT LiveStaysUsed
CHECK_DEADLOCK FALSE
