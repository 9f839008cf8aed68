SPECIFICATION Spec
CONSTANTS
  VROWS = 2
  VCOLS = 8
  Texts <- Words
  Colors <- SetRed
  Sequences <- None
  Keys <- None
  MaxCalls = 4
  MaxPrints = 1
PROPERTY MessageRestoresCursorInSequence
CHECK_DEADLOCK FALSE
