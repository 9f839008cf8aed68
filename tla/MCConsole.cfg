SPECIFICATION Spec
CONSTANTS
  VROWS = 2
  VCOLS = 8
  Texts <- Words
  Colors <- SetRed
  Sequences <- TypedLines
  Keys <- TypedKeys
  MaxCalls = 4
  MaxPrints = 1
INVARIANTS TypeOK CursorOnScreen ScreenShowsPage
PROPERTY MessageTransparent
CHECK_DEADLOCK FALSE
