--------------------------- MODULE AttendanceRules ---------------------------
(***************************************************************************)
(* The rules of the attendance reports in                                  *)
(* reporting-api/app/repositories.py that depend on nothing but times and  *)
(* dates: when an arrival is late, when a day is overtime, and the days a  *)
(* preset of the report center covers.                                     *)
(*                                                                         *)
(* A time of day is its second, a date is a record, and Ordinal numbers    *)
(* the days as Python's date.toordinal does.                               *)
(***************************************************************************)
EXTENDS Integers

Clock(hour, minute) == 3600 * hour + 60 * minute
TimesOfDay == 0..86399

\* The shifts of the comment over _is_late_time: the arrivals that belong to
\* one, counted from the midnight the shift begins at or after, and its start.
ShiftStarts ==
    {[from |-> Clock(17, 15), until |-> Clock(23, 0), start |-> Clock(19, 30)],
     [from |-> Clock(-1, 0), until |-> Clock(3, 45), start |-> Clock(0, 0)],
     [from |-> Clock(3, 45), until |-> Clock(8, 15), start |-> Clock(7, 30)],
     [from |-> Clock(8, 15), until |-> Clock(12, 0), start |-> Clock(9, 0)],
     [from |-> Clock(12, 0), until |-> Clock(17, 15), start |-> Clock(15, 0)]}

\* What the comment promises: late is more than the grace of fifteen minutes
\* after the start of the shift the arrival belongs to, and an arrival in the
\* hour before midnight belongs to the shift that starts at midnight.
LateByShift(t) ==
    \E shift \in ShiftStarts : \E a \in {t, t - 86400} :
        /\ shift.from <= a /\ a < shift.until
        /\ a > shift.start + Clock(0, 15)

\* The Python form, with its early returns.
IsLateTime(t) ==
    IF Clock(17, 15) <= t /\ t < Clock(23, 0) THEN t > Clock(19, 45)
    ELSE IF t >= Clock(23, 0) THEN FALSE
    ELSE IF t < Clock(3, 45) THEN t > Clock(0, 15)
    ELSE IF t < Clock(8, 15) THEN t > Clock(7, 45)
    ELSE IF t < Clock(12, 0) THEN t > Clock(9, 15)
    ELSE t > Clock(15, 15)

\* The SQL form, the cases of its CASE that are true or may be.
LateSql(t) ==
    \/ t >= Clock(17, 15) /\ t < Clock(23, 0) /\ t > Clock(19, 45)
    \/ t < Clock(3, 45) /\ t > Clock(0, 15)
    \/ t >= Clock(3, 45) /\ t < Clock(8, 15) /\ t > Clock(7, 45)
    \/ t >= Clock(8, 15) /\ t < Clock(12, 0) /\ t > Clock(9, 15)
    \/ t >= Clock(12, 0) /\ t < Clock(17, 15) /\ t > Clock(15, 15)

----------------------------------------------------------------------------
(* Dates, and the windows of the presets.                                   *)

IsLeap(year) == year % 4 = 0 /\ (year % 100 # 0 \/ year % 400 = 0)

MonthDays(year, month) ==
    CASE month = 2 -> IF IsLeap(year) THEN 29 ELSE 28
      [] month \in {4, 6, 9, 11} -> 30
      [] OTHER -> 31

IsDate(d) == /\ d \in [year : Nat \ {0}, month : 1..12, day : 1..31]
             /\ d.day <= MonthDays(d.year, d.month)

DaysBeforeYear(year) ==
    365 * (year - 1) + (year - 1) \div 4 - (year - 1) \div 100 + (year - 1) \div 400

DaysBeforeMonth(year, month) ==
    LET plain == <<0, 31, 59, 90, 120, 151, 181, 212, 243, 273, 304, 334>>
    IN  plain[month] + (IF month > 2 /\ IsLeap(year) THEN 1 ELSE 0)

Ordinal(d) == DaysBeforeYear(d.year) + DaysBeforeMonth(d.year, d.month) + d.day

\* Mutant of SubtractMonths: a day the month lacks runs over into the next one.
SubtractMonthsUnclamped(value, months) ==
    LET index == 12 * value.year + value.month - 1 - months
    IN  [year |-> index \div 12, month |-> (index % 12) + 1, day |-> value.day]

\* The loop over the months before January, in one division.
SubtractMonths(value, months) ==
    LET index == 12 * value.year + value.month - 1 - months
        year == index \div 12
        month == (index % 12) + 1
        last == MonthDays(year, month)
    IN  [year |-> year, month |-> month,
         day |-> IF value.day < last THEN value.day ELSE last]

Presets == {"today", "last3d", "last7d", "thisMonth", "last3m"}

\* The first day of the window that resolve_report_center_preset_window gives;
\* the last one is today.
PresetFrom(preset, today) ==
    CASE preset = "today" -> Ordinal(today)
      [] preset = "last3d" -> Ordinal(today) - 3
      [] preset = "last7d" -> Ordinal(today) - 7
      [] preset = "thisMonth" -> Ordinal([today EXCEPT !.day = 1])
      [] preset = "last3m" -> Ordinal(SubtractMonths(today, 3))
=============================================================================
