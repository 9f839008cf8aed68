SPECIFICATION ClockSpec
CONSTANTS
  RTC_IRQ_FREQ = 2
  SECS = 2
  MINS = 2
  Positions <- TwoPlaces
  TopLine <- Top
  MaxTicks = 7
INVARIANTS NeverDeaf EveryMinuteTold DateIsTime
PROPERTIES CursorHalfRight CursorHeals
CHECK_DEADLOCK FALSE
