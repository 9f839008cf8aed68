------------------------------ MODULE Calendar ------------------------------
(***************************************************************************)
(* What rtc_time (dev/rtc.c) makes of the clock chip's registers, day by   *)
(* day: the conversion from BCD, the hour and day_of_week, with the lengths *)
(* of the months by date_leap_year of tools/date.                          *)
(***************************************************************************)
EXTENDS Integers

CONSTANT LastYear     \* bound on the walk, which begins on 1 January 2000

ASSUME LastYearAssumption == LastYear \in 2000 .. 2099

VARIABLES
  year, month, day,   \* the chip's date
  weekday             \* history: days counted from that Saturday, 0 => Sunday

calvars == <<year, month, day, weekday>>

RTC_YEAR_BASE == 2000
RTC_FLAG_PM == 128

date_leap_year(y) == y % 400 = 0 \/ (y % 100 # 0 /\ y % 4 = 0)

bcd_to_int(bcd) == (((bcd \div 16) * 10) + (bcd % 16)) % 256
int_to_bcd(n) == (((n \div 10) * 16) + (n % 10)) % 256

\* Mutant of day_of_week: January and February are not of the year before.
day_of_week_SameYear(y0, m0, d) ==
  LET a == (14 - m0) \div 12
      m == m0 + 12 * a - 2
  IN  (d + y0 + y0 \div 4 - y0 \div 100 + y0 \div 400 + (31 * m) \div 12) % 7

day_of_week(y0, m0, d) ==
  LET a == (14 - m0) \div 12
      y == y0 - a
      m == m0 + 12 * a - 2
  IN  (d + y + y \div 4 - y \div 100 + y \div 400 + (31 * m) \div 12) % 7

\* The hour, converted as the ports 0 and 2 say, which are read in the place
\* of status register B and belong to another chip.
Hour(register, port0, port2) ==
  LET hour == register - RTC_FLAG_PM
      twelve == ((IF port0 = 0 THEN bcd_to_int(hour) ELSE hour) + 12) % 256
  IN  IF port2 # 0 THEN register
      ELSE IF register < RTC_FLAG_PM THEN bcd_to_int(register)
      ELSE IF twelve = 12 THEN 0 ELSE twelve

\* The struct tm for registers r.
Convert(r, port0, port2) ==
  LET int(n) == IF port0 = 0 THEN bcd_to_int(n) ELSE n
      tm_year == int(r.year) + RTC_YEAR_BASE - 1900
      tm_mon == int(r.month) - 1
  IN  [tm_sec |-> int(r.sec), tm_min |-> int(r.min), tm_hour |-> Hour(r.hour, port0, port2),
       tm_mday |-> int(r.day), tm_mon |-> tm_mon, tm_year |-> tm_year,
       tm_wday |-> day_of_week(tm_year + 1900, tm_mon + 1, int(r.day))]

-----------------------------------------------------------------------------
CalendarInit == year = RTC_YEAR_BASE /\ month = 1 /\ day = 1 /\ weekday = 6

Days == IF month = 2 THEN IF date_leap_year(year) THEN 29 ELSE 28
        ELSE IF month \in {4, 6, 9, 11} THEN 30
        ELSE 31

Midnight ==
  /\ weekday' = (weekday + 1) % 7
  /\ \/ day < Days /\ day' = day + 1 /\ UNCHANGED <<year, month>>
     \/ day = Days /\ month < 12 /\ day' = 1 /\ month' = month + 1 /\ UNCHANGED year
     \/ day = Days /\ month = 12 /\ year < LastYear /\ day' = 1 /\ month' = 1 /\ year' = year + 1

CalendarSpec == CalendarInit /\ [][Midnight]_calvars

\* The chip's registers, in BCD or not, with hours of the day or with AM and PM.
Registered(hour, min, bcd, day24) ==
  LET put(n) == IF bcd THEN int_to_bcd(n) ELSE n
      h12 == ((hour + 11) % 12) + 1
  IN  [sec |-> put(min), min |-> put(min),
       hour |-> IF day24 THEN put(hour)
                ELSE put(h12) + (IF hour >= 12 THEN RTC_FLAG_PM ELSE 0),
       day |-> put(day), month |-> put(month), year |-> put(year - 2000)]

\* What the ports 0 and 2 have to read for rtc_time to do what the chip's mode
\* asks for: the hours of the day are taken from BCD where port 2 reads 0.
PortsFit(port0, port2, bcd, day24) ==
  /\ (port0 = 0) <=> bcd
  /\ (port2 = 0) <=> (bcd \/ ~day24)

\* rtc_time tells "the current date and time" on every day of the century, if
\* the two ports, which belong to another chip, happen to fit; of a chip that
\* counts to 12 nothing is claimed of the hours of 12 am and 12 pm, of which
\* the code makes 12 and 24 (time.h: "Hour [0,23]").
DateConverted ==
  \A hour \in 0 .. 23, min \in {0, 9, 10, 59}, bcd, day24 \in BOOLEAN, port0, port2 \in {0, 1} :
    PortsFit(port0, port2, bcd, day24) =>
      LET dt == Convert(Registered(hour, min, bcd, day24), port0, port2) IN
      /\ day24 \/ hour % 12 # 0 => dt.tm_hour = hour
      /\ dt.tm_min = min /\ dt.tm_sec = min
      /\ dt.tm_mday = day /\ dt.tm_mon = month - 1 /\ dt.tm_year = year - 1900
      /\ dt.tm_wday = weekday
=============================================================================
