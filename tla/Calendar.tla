------------------------------ MODULE Calendar -----------------------------
(***************************************************************************)
(* c/rt/time.c: days and civil dates, broken-down time, mktime.  Seconds   *)
(* stay inside the range of an i32 here; `tz' is the Sett's offset.        *)
(***************************************************************************)
EXTENDS Integers

\* Division and remainder of C, which round towards zero.
Quot(a, b) == IF a >= 0 THEN a \div b ELSE -((-a) \div b)
Rem(a, b) == a - b * Quot(a, b)

Date(y, m, d) == [year |-> y, month |-> m, day |-> d]

EraOfYear(y) == Quot(IF y >= 0 THEN y ELSE y - 399, 400)

days_from_civil(date) ==
  LET y   == date.year - (IF date.month <= 2 THEN 1 ELSE 0)
      era == EraOfYear(y)
      yoe == y - era * 400
      mp  == date.month + (IF date.month > 2 THEN -3 ELSE 9)
      doy == (153 * mp + 2) \div 5 + date.day - 1
      doe == yoe * 365 + yoe \div 4 - yoe \div 100 + doy
  IN  era * 146097 + doe - 719468

\* The year of the era a day of it lies in.
YearOfEra(doe) == (doe - doe \div 1460 + doe \div 36524 - doe \div 146096) \div 365

civil_from_days(days) ==
  LET z   == days + 719468
      era == Quot(IF z >= 0 THEN z ELSE z - 146096, 146097)
      doe == z - era * 146097
      yoe == YearOfEra(doe)
      doy == doe - (365 * yoe + yoe \div 4 - yoe \div 100)
      mp  == (5 * doy + 2) \div 153
      m   == IF mp < 10 THEN mp + 3 ELSE mp - 9
  IN  Date(yoe + era * 400 + (IF m <= 2 THEN 1 ELSE 0), m, doy - (153 * mp + 2) \div 5 + 1)

\* Seconds into days and a second of the day.  Fault: a moment before 1970 is
\* not borrowed from the day before.
SplitSecs_noborrow(secs) == [days |-> Quot(secs, 86400), rem |-> Rem(secs, 86400)]
SplitSecs(secs) ==
  LET rem == Rem(secs, 86400)  days == Quot(secs, 86400)
  IN  IF rem < 0 THEN [days |-> days - 1, rem |-> rem + 86400]
      ELSE [days |-> days, rem |-> rem]

fill_tm(secs) ==
  LET s    == SplitSecs(secs)
      date == civil_from_days(s.days)
  IN  [date |-> date, hour |-> s.rem \div 3600, min |-> (s.rem % 3600) \div 60,
       sec |-> s.rem % 60, wday |-> Rem(Rem(s.days, 7) + 11, 7),
       yday |-> s.days - days_from_civil(Date(date.year, 1, 1))]

localtime(t, tz) == fill_tm(t + tz * 60)
mktime(tm, tz) ==
  days_from_civil(tm.date) * 86400 + tm.hour * 3600 + tm.min * 60 + tm.sec - tz * 60

-----------------------------------------------------------------------------
(* The reference: the rules of the Gregorian calendar *)

Leap(y) == y % 4 = 0 /\ (y % 100 # 0 \/ y % 400 = 0)
MonthDays(y, m) ==
  IF m = 2 THEN (IF Leap(y) THEN 29 ELSE 28) ELSE IF m \in {4, 6, 9, 11} THEN 30 ELSE 31
NextDate(d) ==
  IF d.day < MonthDays(d.year, d.month) THEN [d EXCEPT !.day = @ + 1]
  ELSE IF d.month < 12 THEN Date(d.year, d.month + 1, 1) ELSE Date(d.year + 1, 1, 1)

=============================================================================
