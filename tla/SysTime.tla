-------------------------------- MODULE SysTime --------------------------------
(***************************************************************************)
(* The calendar of the system time (r_sys_time.c): what update_sys_time    *)
(* does to sys_time at every hundredth interrupt of its timer.  A date is  *)
(* <<day, month, year>>, a time <<sec, min, hour, date>>.                  *)
(***************************************************************************)
EXTENDS Integers

stTime == <<31, 28, 31, 30, 31, 30, 31, 31, 30, 31, 30, 31>>

MonthDays(month, year) ==
  IF stTime[month] = 28 /\ year % 4 = 0 THEN 29 ELSE stTime[month]

NextDate(day, month, year) ==
  IF day < MonthDays(month, year) THEN <<day + 1, month, year>>
  ELSE IF month < 12 THEN <<1, month + 1, year>>
  ELSE <<1, 1, year + 1>>

SecondPasses(sec, min, hour, date) ==
  IF sec < 59 THEN <<sec + 1, min, hour, date>>
  ELSE IF min < 59 THEN <<0, min + 1, hour, date>>
  ELSE IF hour < 23 THEN <<0, 0, hour + 1, date>>
  ELSE <<0, 0, 0, NextDate(date[1], date[2], date[3])>>

-----------------------------------------------------------------------------
(* The reference: days of the Gregorian calendar, and seconds of the day.  *)
Leap(y) == y % 4 = 0 /\ (y % 100 # 0 \/ y % 400 = 0)
LengthOf(month, y) ==
  IF month = 2 THEN (IF Leap(y) THEN 29 ELSE 28)
               ELSE IF month \in {4, 6, 9, 11} THEN 30 ELSE 31

DaysBeforeMonth == <<0, 31, 59, 90, 120, 151, 181, 212, 243, 273, 304, 334>>
DaysBeforeYear(y) == 365 * y + (y \div 4) - (y \div 100) + (y \div 400)
DayNumber(day, month, y) ==
  DaysBeforeYear(y - 1) + DaysBeforeMonth[month]
    + (IF month > 2 /\ Leap(y) THEN 1 ELSE 0) + day
SecondOfDay(sec, min, hour) == (hour * 60 + min) * 60 + sec
DayLength == 24 * 60 * 60

(* The years in which every fourth is a leap year.                         *)
Century == 2001 .. 2099
=============================================================================
