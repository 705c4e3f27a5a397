------------------------------ MODULE Calendar ------------------------------
(***************************************************************************)
(* Dates and times as the stack reckons with them (datetime.c): a date is   *)
(* <<year, month, day, weekday>>, a time <<hour, minute, second, hundredths>>, *)
(* a moment <<date, time>>.  Days are counted from the first of 1900.      *)
(* The loops that take off year after year and month after month are stated *)
(* by where they stop.                                                     *)
(***************************************************************************)
EXTENDS Integers, Sequences, FiniteSetsExt

CONSTANTS
  Starts,    \* the moments reckoning starts from: sequences <<year, month, day, hour, minute>>
  Steps,     \* the minutes that are added at a time
  MaxSteps,  \* bound: additions
  LastYear   \* bound: years looked at, before the one that stands for any year

VARIABLES
  start,     \* the moment reckoning started from
  moment,    \* what it has come to
  elapsed,   \* the minutes added since
  additions  \* how many times
calendarVars == <<start, moment, elapsed, additions>>

\* Mutant: every hundredth year is taken for a leap year.
leap_every_fourth(year) == year % 4 = 0

datetime_is_leap_year(year) == year % 4 = 0 /\ (year % 100 # 0 \/ year % 400 = 0)

MonthDays == <<31, 28, 31, 30, 31, 30, 31, 31, 30, 31, 30, 31>>
datetime_month_days(year, month) ==
  IF month = 2 /\ datetime_is_leap_year(year) THEN 29
  ELSE IF month \in 1..12 THEN MonthDays[month] ELSE 0

datetime_ymd_is_valid(year, month, day) ==
  year >= 1900 /\ day \in 1..datetime_month_days(year, month)
datetime_time_is_valid(time) ==
  time[1] < 24 /\ time[2] < 60 /\ time[3] < 60 /\ time[4] < 100
datetime_is_valid(at) ==
  datetime_ymd_is_valid(at[1][1], at[1][2], at[1][3]) /\ datetime_time_is_valid(at[2])

DaysBefore(year, month) ==
  LET before[m \in 1..12] ==
        IF m = 1 THEN 0 ELSE before[m - 1] + datetime_month_days(year, m - 1)
  IN  before[month]
day_of_year(year, month, day) ==
  IF datetime_ymd_is_valid(year, month, day) THEN DaysBefore(year, month) + day ELSE 0

\* The month in which the day is left when the months before it are taken off.
day_of_year_into_md(days, year) ==
  LET month == CHOOSE m \in 1..12 :
                 /\ DaysBefore(year, m) < days
                 /\ days <= DaysBefore(year, m) + datetime_month_days(year, m)
  IN  <<month, days - DaysBefore(year, month)>>

YearDays(year) == IF datetime_is_leap_year(year) THEN 366 ELSE 365
DaysOfYears[year \in 1900..(LastYear + 1)] ==
  IF year = 1900 THEN 0 ELSE DaysOfYears[year - 1] + YearDays(year - 1)
DaysBeforeYear(year) == DaysOfYears[year]
days_since_epoch(year, month, day) ==
  IF datetime_ymd_is_valid(year, month, day)
  THEN DaysBeforeYear(year) + day_of_year(year, month, day) - 1 ELSE 0

days_since_epoch_into_ymd(days) ==
  LET year  == CHOOSE y \in 1900..LastYear :
                 DaysBeforeYear(y) <= days /\ days < DaysBeforeYear(y) + YearDays(y)
      left  == days - DaysBeforeYear(year)
      month == CHOOSE m \in 1..12 :
                 /\ DaysBefore(year, m) <= left
                 /\ left < DaysBefore(year, m) + datetime_month_days(year, m)
  IN  <<year, month, left - DaysBefore(year, month) + 1>>

\* The first of 1900 was a Monday.
datetime_day_of_week(year, month, day) == (days_since_epoch(year, month, day) % 7) + 1

datetime_set_date(ymd) == Append(ymd, datetime_day_of_week(ymd[1], ymd[2], ymd[3]))
datetime_day_of_year_into_date(days, year) ==
  datetime_set_date(<<year>> \o day_of_year_into_md(days, year))
datetime_days_since_epoch_into_date(days) == datetime_set_date(days_since_epoch_into_ymd(days))
datetime_set_values(year, month, day, hour, minute, second, hundredths) ==
  <<datetime_set_date(<<year, month, day>>), <<hour, minute, second, hundredths>>>>

-----------------------------------------------------------------------------
\* The first difference that is one; a field in doubt (255) differs from nothing.
FirstDifference(one, other, doubt) ==
  LET differs == {n \in DOMAIN one : one[n] # other[n] /\ doubt[n] \notin {one[n], other[n]}}
  IN  IF differs = {} THEN 0 ELSE one[Min(differs)] - other[Min(differs)]

NoDoubt   == <<-1, -1, -1, -1>>
DateDoubt == <<2155, 255, 255>>
TimeDoubt == <<255, 255, 255, 255>>
Day(date) == SubSeq(date, 1, 3)

datetime_compare_date(date, other) == FirstDifference(Day(date), Day(other), NoDoubt)
datetime_compare_time(time, other) == FirstDifference(time, other, NoDoubt)
datetime_compare(one, other) ==
  LET date == datetime_compare_date(one[1], other[1])
  IN  IF date # 0 THEN date ELSE datetime_compare_time(one[2], other[2])

datetime_wildcard_compare_date(date, other) == FirstDifference(Day(date), Day(other), DateDoubt)
datetime_wildcard_compare_time(time, other) == FirstDifference(time, other, TimeDoubt)
datetime_wildcard_compare(one, other) ==
  LET date == datetime_wildcard_compare_date(one[1], other[1])
  IN  IF date # 0 THEN date ELSE datetime_wildcard_compare_time(one[2], other[2])

datetime_date_wildcard == <<2155, 255, 255, 255>>
datetime_time_wildcard == <<255, 255, 255, 255>>
datetime_wildcard(at) == at = <<datetime_date_wildcard, datetime_time_wildcard>>
datetime_wildcard_present(at) ==
  \/ at[1][1] = 2155 \/ at[1][2] > 12 \/ at[1][3] > 31
  \/ \E n \in 1..4 : at[2][n] = 255

-----------------------------------------------------------------------------
datetime_seconds_since_midnight(time) == time[1] * 3600 + time[2] * 60 + time[3]
datetime_minutes_since_midnight(time) == time[1] * 60 + time[2]

\* Integer division of the code truncates towards 0; the seconds are left as they were.
Truncated(n, d) == IF n < 0 THEN -((-n) \div d) ELSE n \div d
datetime_add_minutes(at, minutes) ==
  LET now  == datetime_seconds_since_midnight(at[2]) \div 60
      days == Truncated(minutes, 1440)
      rest == minutes - 1440 * days
      back == rest < 0 /\ -rest > now
      sum  == IF back THEN now + 1440 + rest ELSE now + rest
      day  == days_since_epoch(at[1][1], at[1][2], at[1][3]) + days
              + (IF back THEN -1 ELSE sum \div 1440)
      left == IF back THEN sum ELSE sum % 1440
  IN  <<datetime_days_since_epoch_into_date(day), <<left \div 60, left % 60, at[2][3], at[2][4]>>>>

ASSUME CalendarAssumption ==
  /\ LastYear \in 1900..2154
  /\ Starts \subseteq (1900..LastYear) \X (1..12) \X (1..31) \X (0..23) \X (0..59)
  /\ \A from \in Starts : datetime_ymd_is_valid(from[1], from[2], from[3])
  /\ Steps \subseteq Int

CalendarInit ==
  /\ \E from \in Starts :
       start = datetime_set_values(from[1], from[2], from[3], from[4], from[5], 30, 0)
  /\ moment = start
  /\ elapsed = 0
  /\ additions = 0

\* Bound: the days before 1900, at which the count of the code wraps, are not reckoned with.
Reckonable(minutes) ==
  1440 * days_since_epoch(start[1][1], start[1][2], start[1][3]) + elapsed + minutes
    \in 0..(1440 * DaysOfYears[LastYear])

AddMinutes(minutes) ==
  /\ additions < MaxSteps
  /\ Reckonable(minutes)
  /\ moment' = datetime_add_minutes(moment, minutes)
  /\ elapsed' = elapsed + minutes
  /\ additions' = additions + 1
  /\ UNCHANGED start

\* datetime_copy: the start is taken again.
StartAgain ==
  /\ additions # 0
  /\ moment' = start /\ elapsed' = 0 /\ additions' = 0
  /\ UNCHANGED start

CalendarNext == (\E minutes \in Steps : AddMinutes(minutes)) \/ StartAgain

CalendarSpec == CalendarInit /\ [][CalendarNext]_calendarVars

-----------------------------------------------------------------------------
\* The days of the Gregorian calendar in closed form, by years that begin with March.
ClosedDays(date) ==
  LET m == (date[2] + 9) % 12
      y == date[1] - (IF date[2] < 3 THEN 1 ELSE 0)
  IN  365 * y + (y \div 4) - (y \div 100) + (y \div 400) + ((153 * m + 2) \div 5) + date[3]
ClosedMinutes(at) == 1440 * (ClosedDays(at[1]) - ClosedDays(start[1])) + 60 * at[2][1] + at[2][2]
SignOf(n) == IF n < 0 THEN -1 ELSE IF n > 0 THEN 1 ELSE 0

(***************************************************************************)
(* Minutes added and taken away in any order, over midnights, leap days,    *)
(* ends of centuries and the start of the epoch, come to a valid date and   *)
(* time exactly that many minutes away, of the right weekday; comparing it  *)
(* with the start gives the direction, and with the time left open compares *)
(* the days alone.                                                         *)
(***************************************************************************)
ReckonedExactly ==
  /\ datetime_is_valid(moment)
  /\ ClosedMinutes(moment) = ClosedMinutes(start) + elapsed
  /\ (moment[1][4] - start[1][4] - (ClosedDays(moment[1]) - ClosedDays(start[1]))) % 7 = 0
  /\ SignOf(datetime_compare(moment, start)) = SignOf(elapsed)
  /\ datetime_wildcard_compare(moment, <<start[1], datetime_time_wildcard>>)
       = datetime_compare_date(moment[1], start[1])
  /\ ~datetime_wildcard(moment) /\ ~datetime_wildcard_present(moment)
  /\ datetime_day_of_year_into_date(day_of_year(moment[1][1], moment[1][2], moment[1][3]),
                                    moment[1][1]) = moment[1]
  /\ datetime_seconds_since_midnight(moment[2])
       = 60 * datetime_minutes_since_midnight(moment[2]) + start[2][3]
=============================================================================
