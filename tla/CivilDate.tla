----------------------------- MODULE CivilDate -----------------------------
(***************************************************************************)
(* The timestamps of src/src/lexicon/records.rs: format_unix_secs_iso8601  *)
(* and format_system_time_iso8601, which turn days since 1970-01-01 into a *)
(* date by the arithmetic of 400-year eras that begin on the first of      *)
(* March.  Next to it a calendar counts the days one by one.               *)
(***************************************************************************)
EXTENDS Integers

CONSTANT LastDay    \* bound on the days counted

VARIABLES day, date     \* days since 1970-01-01, and the calendar's date

dateVars == <<day, date>>

-----------------------------------------------------------------------------
(* A faulty variant of YearOfEra: the corrections are left out.            *)
YearOfEraJulian(doe) == (doe - doe \div 1460) \div 365

YearOfEra(doe) == (doe - doe \div 1460 + doe \div 36524 - doe \div 146096) \div 365

(* The date of a day of an era.                                            *)
DateOfEra(era, doe) ==
  LET yoe == YearOfEra(doe)
      doy == doe - (365 * yoe + yoe \div 4 - yoe \div 100)
      mp  == (5 * doy + 2) \div 153
      m   == IF mp < 10 THEN mp + 3 ELSE mp - 9
      y   == yoe + era * 400
  IN [y |-> IF m <= 2 THEN y + 1 ELSE y, m |-> m, d |-> doy - (153 * mp + 2) \div 5 + 1]

(* format_unix_secs_iso8601, the date and the time of day.                 *)
UnixDate(days) == LET era == (days + 719468) \div 146097
                  IN DateOfEra(era, days + 719468 - era * 146097)

TimeOfDay(secs) ==
  [h |-> secs \div 3600, m |-> (secs % 3600) \div 60, s |-> secs % 60]

(* format_system_time_iso8601, whose days are signed and never negative.   *)
SystemDate(days) ==
  LET z   == days + 719468
      era == (IF z >= 0 THEN z ELSE z - 146096) \div 146097
  IN DateOfEra(era, z - era * 146097)

-----------------------------------------------------------------------------
Leap(y) == y % 4 = 0 /\ (y % 100 # 0 \/ y % 400 = 0)

DaysIn(y, m) == CASE m = 2 -> IF Leap(y) THEN 29 ELSE 28
                  [] m \in {4, 6, 9, 11} -> 30
                  [] OTHER -> 31

DateInit == day = 0 /\ date = [y |-> 1970, m |-> 1, d |-> 1]

(* The calendar's next day.                                                *)
DayAfter(dt) ==
  IF dt.d < DaysIn(dt.y, dt.m) THEN [dt EXCEPT !.d = @ + 1]
  ELSE IF dt.m < 12 THEN [y |-> dt.y, m |-> dt.m + 1, d |-> 1]
  ELSE [y |-> dt.y + 1, m |-> 1, d |-> 1]

Tomorrow == day < LastDay /\ day' = day + 1 /\ date' = DayAfter(date)

-----------------------------------------------------------------------------
(* Both timestamps of a day are the calendar's, over leap years, the       *)
(* century that is one and the century that is not, and the end of the era *)
(* in 2000; the time of day counts up to 23:59:59.                         *)
DatesCount ==
  /\ UnixDate(day) = date /\ SystemDate(day) = date
  /\ \A s \in {0, 59, 60, 3599, 3600, 86399} :
       LET t == TimeOfDay(s) IN t.h * 3600 + t.m * 60 + t.s = s /\ t.m < 60 /\ t.s < 60
=============================================================================
