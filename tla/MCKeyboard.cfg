SPECIFICATION MCSpec
CONSTANTS
  Capacity = 2
  Keys = {"LShift", "RShift", "Caps", "Back", "Tab", "Enter", "A", "F1", "Up"}
  Sudden = {"A", "Enter"}
  LineSize = 3
  Shutdown <- ShutdownLine
  MaxKeys = 4
INVARIANTS ModifiersFollowKeys LineIsTyped ScreenShowsLine
PROPERTY EnterEndsLine
CHECK_DEADLOCK FALSE
