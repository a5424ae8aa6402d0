------------------------ MODULE AttendanceRulesProofs ------------------------
(***************************************************************************)
(* Proofs about AttendanceRules: the forms of the late rule for every time *)
(* of day, and dates, months and windows for every date of the calendar.   *)
(***************************************************************************)
EXTENDS AttendanceRules, TLAPS

----------------------------------------------------------------------------
(* The late rule.                                                           *)

\* The seconds of a day.
LEMMA TimesOfDayType == \A t \in TimesOfDay : t \in Int /\ 0 <= t /\ t < 86400
<1> DEFINE last == 86399
<1>1. last \in Int /\ last < 86400
  OBVIOUS
<1>2. TimesOfDay = 0..last
  BY DEF TimesOfDay
<1> HIDE DEF last
<1>3. \A t \in 0..last : t \in Int /\ 0 <= t /\ t < 86400
  BY <1>1
<1> QED
  BY <1>2, <1>3

\* The early returns of _is_late_time and the CASE of _late_sql call the same
\* arrivals late: the seconds at which a shift's window begins included.
THEOREM LateRulesAgree ==
    \A t \in TimesOfDay : IsLateTime(t) <=> LateSql(t)
<1> SUFFICES ASSUME NEW t \in TimesOfDay
             PROVE  IsLateTime(t) <=> LateSql(t)
  OBVIOUS
<1>1. t \in Int /\ 0 <= t /\ t < 86400
  BY TimesOfDayType
<1> QED
  BY <1>1 DEF IsLateTime, LateSql, Clock

\* And those are the arrivals more than the grace after the start of their shift,
\* as the comment over _is_late_time promises: the windows of the shifts leave out
\* no time of day, and none is late for the shift after midnight before midnight.
THEOREM LateByShiftIsLate ==
    \A t \in TimesOfDay : IsLateTime(t) <=> LateByShift(t)
<1> SUFFICES ASSUME NEW t \in TimesOfDay
             PROVE  IsLateTime(t) <=> LateByShift(t)
  OBVIOUS
<1> DEFINE Within(from, until, start) ==
             \E a \in {t, t - 86400} : from <= a /\ a < until /\ a > start + Clock(0, 15)
           LateFor(shift) == Within(shift.from, shift.until, shift.start)
           night == [from |-> Clock(17, 15), until |-> Clock(23, 0), start |-> Clock(19, 30)]
           graveyard == [from |-> Clock(-1, 0), until |-> Clock(3, 45), start |-> Clock(0, 0)]
           day == [from |-> Clock(3, 45), until |-> Clock(8, 15), start |-> Clock(7, 30)]
           office == [from |-> Clock(8, 15), until |-> Clock(12, 0), start |-> Clock(9, 0)]
           swing == [from |-> Clock(12, 0), until |-> Clock(17, 15), start |-> Clock(15, 0)]
<1>0. t \in Int /\ 0 <= t /\ t < 86400
  BY TimesOfDayType
<1>1. LateByShift(t) <=> \E shift \in ShiftStarts : LateFor(shift)
  BY DEF LateByShift
<1>2. ShiftStarts = {night, graveyard, day, office, swing}
  BY DEF ShiftStarts
<1>3. /\ LateFor(night) <=> Within(Clock(17, 15), Clock(23, 0), Clock(19, 30))
      /\ LateFor(graveyard) <=> Within(Clock(-1, 0), Clock(3, 45), Clock(0, 0))
      /\ LateFor(day) <=> Within(Clock(3, 45), Clock(8, 15), Clock(7, 30))
      /\ LateFor(office) <=> Within(Clock(8, 15), Clock(12, 0), Clock(9, 0))
      /\ LateFor(swing) <=> Within(Clock(12, 0), Clock(17, 15), Clock(15, 0))
  OBVIOUS
<1>4. /\ Within(Clock(17, 15), Clock(23, 0), Clock(19, 30))
           <=> Clock(17, 15) <= t /\ t < Clock(23, 0) /\ t > Clock(19, 45)
      /\ Within(Clock(-1, 0), Clock(3, 45), Clock(0, 0)) <=> t < Clock(3, 45) /\ t > Clock(0, 15)
      /\ Within(Clock(3, 45), Clock(8, 15), Clock(7, 30))
           <=> Clock(3, 45) <= t /\ t < Clock(8, 15) /\ t > Clock(7, 45)
      /\ Within(Clock(8, 15), Clock(12, 0), Clock(9, 0))
           <=> Clock(8, 15) <= t /\ t < Clock(12, 0) /\ t > Clock(9, 15)
      /\ Within(Clock(12, 0), Clock(17, 15), Clock(15, 0))
           <=> Clock(12, 0) <= t /\ t < Clock(17, 15) /\ t > Clock(15, 15)
  BY <1>0 DEF Clock
<1>5. LateSql(t) <=> LateFor(night) \/ LateFor(graveyard) \/ LateFor(day)
                       \/ LateFor(office) \/ LateFor(swing)
  <2> HIDE DEF Within, LateFor
  <2>1. QED
    BY <1>0, <1>3, <1>4 DEF LateSql, Clock
<1>6. LateByShift(t) <=> LateFor(night) \/ LateFor(graveyard) \/ LateFor(day)
                           \/ LateFor(office) \/ LateFor(swing)
  <2> HIDE DEF LateFor, night, graveyard, day, office, swing
  <2>1. QED
    BY <1>1, <1>2, Zenon
<1>7. QED
  BY <1>5, <1>6, LateRulesAgree

----------------------------------------------------------------------------
(* Months.                                                                  *)

\* A month has between 28 and 31 days.
LEMMA MonthDaysType ==
    ASSUME NEW year \in Int, NEW month \in 1..12
    PROVE  MonthDays(year, month) \in 28..31
BY DEF MonthDays, IsLeap

\* Going back less than all the months there are gives a date: its day is clamped
\* to the length of the month arrived at.
THEOREM SubtractedMonthIsDate ==
    ASSUME NEW d, IsDate(d), NEW n \in Nat, n < 12 * d.year + d.month - 12
    PROVE  IsDate(SubtractMonths(d, n))
<1> DEFINE index == 12 * d.year + d.month - 1 - n
           year == index \div 12
           month == (index % 12) + 1
<1>1. /\ d.year \in Nat \ {0} /\ d.month \in 1..12 /\ d.day \in 1..MonthDays(d.year, d.month)
  BY DEF IsDate
<1>2. index \in Nat /\ index >= 12
  BY <1>1
<1>3. year \in Nat \ {0} /\ month \in 1..12
  BY <1>2
<1>4. MonthDays(year, month) \in 28..31 /\ MonthDays(d.year, d.month) \in 28..31
  BY <1>1, <1>3, MonthDaysType
<1>5. d.day \in Nat \ {0}
  BY <1>1, <1>4
<1> HIDE DEF index, year, month
<1>6. SubtractMonths(d, n) =
          [year |-> year, month |-> month,
           day |-> IF d.day < MonthDays(year, month) THEN d.day ELSE MonthDays(year, month)]
  BY DEF SubtractMonths, index, year, month
<1>7. QED
  BY <1>3, <1>4, <1>5, <1>6 DEF IsDate

\* The month is exactly n months earlier, across any number of years, and the day
\* never later: it stays where the month has it, and is the last one elsewhere.
THEOREM SubtractedMonthIsExact ==
    ASSUME NEW d, IsDate(d), NEW n \in Nat, n < 12 * d.year + d.month - 12
    PROVE  LET s == SubtractMonths(d, n)
           IN  /\ 12 * s.year + s.month = 12 * d.year + d.month - n
               /\ s.day <= d.day
               /\ s.day = d.day \/ s.day = MonthDays(s.year, s.month)
<1> DEFINE index == 12 * d.year + d.month - 1 - n
           year == index \div 12
           month == (index % 12) + 1
<1>1. /\ d.year \in Nat \ {0} /\ d.month \in 1..12 /\ d.day \in 1..MonthDays(d.year, d.month)
  BY DEF IsDate
<1>2. index \in Nat
  BY <1>1
<1>3. 12 * year + month = index + 1 /\ year \in Nat /\ month \in 1..12
  BY <1>2
<1>4. MonthDays(year, month) \in Int /\ d.day \in Int
  BY <1>1, <1>3, MonthDaysType
<1>5. 12 * year + month = 12 * d.year + d.month - n
  BY <1>1, <1>3
<1> HIDE DEF index, year, month
<1>6. SubtractMonths(d, n) =
          [year |-> year, month |-> month,
           day |-> IF d.day < MonthDays(year, month) THEN d.day ELSE MonthDays(year, month)]
  BY DEF SubtractMonths, index, year, month
<1>7. QED
  BY <1>4, <1>5, <1>6

----------------------------------------------------------------------------
(* The numbers of dates.                                                    *)

\* Of two dates, the earlier one.
Earlier(a, b) == \/ a.year < b.year
                 \/ a.year = b.year /\ a.month < b.month
                 \/ a.year = b.year /\ a.month = b.month /\ a.day < b.day

\* The months of a year follow one another, none beginning before the one before it
\* has ended, and the last one ends with the year; and so do the years.
LEMMA MonthsInOrder ==
    ASSUME NEW year \in Nat \ {0}, NEW month \in 1..12
    PROVE  /\ DaysBeforeMonth(year, month) \in Nat
           /\ DaysBeforeMonth(year, month) + MonthDays(year, month)
                  <= 365 + (IF IsLeap(year) THEN 1 ELSE 0)
           /\ \A later \in 1..12 :
                 month < later => DaysBeforeMonth(year, month) + MonthDays(year, month)
                                      <= DaysBeforeMonth(year, later)
<1>1. IsLeap(year) \in BOOLEAN
  BY DEF IsLeap
<1>2. \A m \in 1..12 :
          DaysBeforeMonth(year, m) =
              (CASE m = 1 -> 0 [] m = 2 -> 31 [] m = 3 -> 59 [] m = 4 -> 90 [] m = 5 -> 120
                 [] m = 6 -> 151 [] m = 7 -> 181 [] m = 8 -> 212 [] m = 9 -> 243 [] m = 10 -> 273
                 [] m = 11 -> 304 [] m = 12 -> 334)
              + (IF m > 2 /\ IsLeap(year) THEN 1 ELSE 0)
  BY DEF DaysBeforeMonth
<1> HIDE DEF IsLeap
<1> QED
  BY <1>1, <1>2 DEF MonthDays

LEMMA YearsInOrder ==
    ASSUME NEW year \in Nat \ {0}, NEW later \in Nat, year < later
    PROVE  /\ DaysBeforeYear(year) \in Nat
           /\ DaysBeforeYear(year) + 365 + (IF IsLeap(year) THEN 1 ELSE 0) <= DaysBeforeYear(later)
<1> DEFINE leaps(n) == n \div 4 - n \div 100 + n \div 400
<1>1. \A n \in Nat : /\ n \div 100 = (n \div 4) \div 25
                     /\ n \div 400 = ((n \div 4) \div 25) \div 4
  OBVIOUS
<1>2. \A n \in Nat : leaps(n) \in Nat
  BY <1>1
<1>3. \A m, n \in Nat : m <= n => leaps(m) <= leaps(n)
  BY <1>1
<1>4. leaps(year) = leaps(year - 1) + (IF IsLeap(year) THEN 1 ELSE 0)
  BY DEF IsLeap
<1>5. leaps(year) <= leaps(later - 1)
  <2>1. year \in Nat /\ later - 1 \in Nat /\ year <= later - 1
    OBVIOUS
  <2> HIDE DEF leaps
  <2> QED
    BY <1>3, <2>1
<1>6. leaps(year - 1) \in Nat /\ leaps(later - 1) \in Nat
  BY <1>2
<1>7. /\ DaysBeforeYear(year) = 365 * (year - 1) + leaps(year - 1)
      /\ DaysBeforeYear(later) = 365 * (later - 1) + leaps(later - 1)
  BY DEF DaysBeforeYear
<1> HIDE DEF leaps
<1>8. 365 * (year - 1) + 365 <= 365 * (later - 1)
  OBVIOUS
<1> QED
  BY <1>4, <1>5, <1>6, <1>7, <1>8

\* Ordinal numbers the dates in their order: the later of two dates has the higher
\* number, so a query may group and order by either.
THEOREM OrdinalOrdersDates ==
    ASSUME NEW c, IsDate(c), NEW d, IsDate(d)
    PROVE  /\ Ordinal(c) \in Nat
           /\ Ordinal(c) < Ordinal(d) <=> Earlier(c, d)
           /\ Ordinal(c) = Ordinal(d) <=> c = d
<1>1. ASSUME NEW a, IsDate(a)
      PROVE  /\ a.year \in Nat \ {0} /\ a.month \in 1..12 /\ a.day \in 1..31
             /\ MonthDays(a.year, a.month) \in 28..31 /\ a.day <= MonthDays(a.year, a.month)
             /\ DaysBeforeYear(a.year) \in Nat /\ DaysBeforeMonth(a.year, a.month) \in Nat
             /\ a = [year |-> a.year, month |-> a.month, day |-> a.day]
  <2>1. /\ a.year \in Nat \ {0} /\ a.month \in 1..12 /\ a.day \in 1..31
        /\ a.day <= MonthDays(a.year, a.month)
        /\ a = [year |-> a.year, month |-> a.month, day |-> a.day]
    BY <1>1 DEF IsDate
  <2>2. DaysBeforeYear(a.year) \in Nat
    <3>1. a.year + 1 \in Nat /\ a.year < a.year + 1
      BY <2>1
    <3> QED
      BY <2>1, <3>1, YearsInOrder
  <2> QED
    BY <2>1, <2>2, MonthsInOrder, MonthDaysType
<1>2. ASSUME NEW a, NEW b, IsDate(a), IsDate(b), Earlier(a, b)
      PROVE  Ordinal(a) < Ordinal(b)
  <2> USE DEF Ordinal
  <2>1. CASE a.year < b.year
    <3>1. DaysBeforeYear(a.year) + 365 + (IF IsLeap(a.year) THEN 1 ELSE 0)
              <= DaysBeforeYear(b.year)
      BY <1>1, <1>2, <2>1, YearsInOrder
    <3>2. DaysBeforeMonth(a.year, a.month) + MonthDays(a.year, a.month)
              <= 365 + (IF IsLeap(a.year) THEN 1 ELSE 0)
      BY <1>1, <1>2, MonthsInOrder
    <3> DEFINE leap == IF IsLeap(a.year) THEN 1 ELSE 0
    <3>3. leap \in Int
      OBVIOUS
    <3> HIDE DEF leap
    <3>4. /\ DaysBeforeYear(a.year) + 365 + leap <= DaysBeforeYear(b.year)
          /\ DaysBeforeMonth(a.year, a.month) + MonthDays(a.year, a.month) <= 365 + leap
      BY <3>1, <3>2 DEF leap
    <3> QED
      BY <1>1, <1>2, <3>3, <3>4
  <2>2. CASE a.year = b.year /\ a.month < b.month
    <3>1. DaysBeforeMonth(a.year, a.month) + MonthDays(a.year, a.month)
              <= DaysBeforeMonth(a.year, b.month)
      BY <1>1, <1>2, <2>2, MonthsInOrder
    <3> QED
      BY <1>1, <1>2, <2>2, <3>1
  <2>3. CASE a.year = b.year /\ a.month = b.month /\ a.day < b.day
    BY <1>1, <1>2, <2>3
  <2> QED
    BY <1>2, <2>1, <2>2, <2>3 DEF Earlier
<1>3. Earlier(c, d) \/ Earlier(d, c) \/ c = d
  BY <1>1 DEF Earlier
<1>4. Ordinal(c) \in Nat /\ Ordinal(d) \in Nat
  BY <1>1 DEF Ordinal
<1>5. Ordinal(c) < Ordinal(d) => ~Earlier(d, c) /\ c # d
  BY <1>2, <1>4
<1> QED
  BY <1>2, <1>3, <1>4, <1>5

\* The number of a date is a number.
LEMMA OrdinalType ==
    ASSUME NEW d, IsDate(d)
    PROVE  Ordinal(d) \in Nat
BY OrdinalOrdersDates

----------------------------------------------------------------------------
(* The windows of the presets.                                              *)

\* Going back the same number of months keeps the order of dates: the last day of a
\* month, clamped, is not after the first of the next one.
LEMMA SubtractedMonthsInOrder ==
    ASSUME NEW c, IsDate(c), NEW d, IsDate(d), ~Earlier(d, c),
           NEW n \in Nat, n < 12 * c.year + c.month - 12
    PROVE  /\ IsDate(SubtractMonths(c, n)) /\ IsDate(SubtractMonths(d, n))
           /\ ~Earlier(SubtractMonths(d, n), SubtractMonths(c, n))
<1> DEFINE s == SubtractMonths(c, n)
           t == SubtractMonths(d, n)
<1>1. /\ c.year \in Nat /\ c.month \in 1..12 /\ c.day \in 1..31
      /\ d.year \in Nat /\ d.month \in 1..12 /\ d.day \in 1..31
  BY DEF IsDate
<1>2. 12 * c.year + c.month <= 12 * d.year + d.month
  BY <1>1 DEF Earlier
<1>3. n < 12 * d.year + d.month - 12
  BY <1>1, <1>2
<1>4. /\ IsDate(s) /\ 12 * s.year + s.month = 12 * c.year + c.month - n
      /\ IsDate(t) /\ 12 * t.year + t.month = 12 * d.year + d.month - n
  BY <1>3, SubtractedMonthIsDate, SubtractedMonthIsExact
<1>5. /\ s.year \in Nat /\ s.month \in 1..12 /\ s.day \in 1..31
      /\ t.year \in Nat /\ t.month \in 1..12 /\ t.day \in 1..31
  BY <1>4 DEF IsDate
<1>6. /\ s.day = IF c.day < MonthDays(s.year, s.month) THEN c.day ELSE MonthDays(s.year, s.month)
      /\ t.day = IF d.day < MonthDays(t.year, t.month) THEN d.day ELSE MonthDays(t.year, t.month)
  BY DEF SubtractMonths
<1>7. ASSUME NEW y \in Nat, NEW m \in 1..12, NEW z \in Nat, NEW k \in 1..12
      PROVE  /\ 12 * y + m < 12 * z + k <=> y < z \/ (y = z /\ m < k)
             /\ 12 * y + m = 12 * z + k <=> y = z /\ m = k
  BY <1>7
<1> HIDE DEF s, t
<1>8. ~Earlier(t, s)
  <2>1. CASE 12 * c.year + c.month < 12 * d.year + d.month
    <3>1. 12 * s.year + s.month < 12 * t.year + t.month
      BY <1>1, <1>4, <1>5, <2>1
    <3>2. s.year < t.year \/ (s.year = t.year /\ s.month < t.month)
      BY <1>5, <1>7, <3>1
    <3> QED
      BY <1>5, <3>2 DEF Earlier
  <2>2. CASE 12 * c.year + c.month = 12 * d.year + d.month
    <3>1. c.year = d.year /\ c.month = d.month
      BY <1>1, <1>7, <2>2
    <3>2. s.year = t.year /\ s.month = t.month
      <4> DEFINE l == 12 * c.year + c.month - n
      <4>1. l \in Int /\ 12 * s.year + s.month = l /\ 12 * t.year + t.month = l
        BY <1>1, <1>4, <3>1
      <4> HIDE DEF l
      <4> QED
        BY <1>5, <1>7, <4>1
    <3>3. c.day <= d.day
      BY <1>1, <3>1 DEF Earlier
    <3>4. MonthDays(s.year, s.month) \in Int
      BY <1>5, MonthDaysType
    <3>5. s.day <= t.day
      BY <1>1, <1>6, <3>2, <3>3, <3>4
    <3> QED
      BY <1>5, <3>2, <3>5 DEF Earlier
  <2> QED
    BY <1>1, <1>2, <2>1, <2>2
<1> QED
  BY <1>4, <1>8 DEF s, t

\* A later day's window does not begin earlier, and each begins on its last day at
\* the latest: for every preset and every two days.
THEOREM PresetsMoveForward ==
    ASSUME NEW preset \in Presets, NEW c, IsDate(c), c.year > 1, NEW d, IsDate(d)
    PROVE  /\ PresetFrom(preset, c) \in Int /\ PresetFrom(preset, c) <= Ordinal(c)
           /\ Ordinal(c) <= Ordinal(d) => PresetFrom(preset, c) <= PresetFrom(preset, d)
<1> DEFINE first(day) == [day EXCEPT !.day = 1]
<1>1. Ordinal(c) \in Nat /\ Ordinal(d) \in Nat
  BY OrdinalOrdersDates
<1>2. SUFFICES ASSUME preset \in {"thisMonth", "last3m"}
               PROVE  /\ PresetFrom(preset, c) \in Int /\ PresetFrom(preset, c) <= Ordinal(c)
                      /\ Ordinal(c) <= Ordinal(d) => PresetFrom(preset, c) <= PresetFrom(preset, d)
  BY <1>1 DEF PresetFrom, Presets
<1>3. /\ c.year \in Nat /\ c.month \in 1..12 /\ c.day \in 1..31
      /\ d.year \in Nat /\ d.month \in 1..12 /\ d.day \in 1..31
  BY DEF IsDate
<1>4. Ordinal(c) <= Ordinal(d) => ~Earlier(d, c)
  BY <1>1, OrdinalOrdersDates
<1>5. ASSUME NEW a, IsDate(a), NEW b, IsDate(b), ~Earlier(b, a)
      PROVE  Ordinal(a) \in Nat /\ Ordinal(b) \in Nat /\ Ordinal(a) <= Ordinal(b)
  BY <1>5, OrdinalOrdersDates
<1>6. CASE preset = "thisMonth"
  <2>1. ASSUME NEW day, IsDate(day)
        PROVE  IsDate(first(day)) /\ ~Earlier(day, first(day))
    <3>1. /\ day \in [year : Nat \ {0}, month : 1..12, day : 1..31]
          /\ MonthDays(day.year, day.month) \in 28..31
      BY <2>1, MonthDaysType DEF IsDate
    <3>2. first(day) = [year |-> day.year, month |-> day.month, day |-> 1]
      BY <3>1
    <3> HIDE DEF first
    <3> QED
      BY <3>1, <3>2 DEF IsDate, Earlier
  <2>2. \A x \in {c, d} : /\ first(x).year = x.year /\ first(x).month = x.month
                           /\ first(x).day = 1
    BY DEF IsDate
  <2>3. PresetFrom(preset, c) = Ordinal(first(c)) /\ PresetFrom(preset, d) = Ordinal(first(d))
    BY <1>6 DEF PresetFrom
  <2> HIDE DEF first
  <2>4. ~Earlier(d, c) => ~Earlier(first(d), first(c))
    BY <1>3, <2>2 DEF Earlier
  <2> QED
    BY <1>4, <1>5, <2>1, <2>3, <2>4
<1>7. CASE preset = "last3m"
  <2>1. 3 < 12 * c.year + c.month - 12
    BY <1>3
  <2>2. PresetFrom(preset, c) = Ordinal(SubtractMonths(c, 3))
        /\ PresetFrom(preset, d) = Ordinal(SubtractMonths(d, 3))
    BY <1>7 DEF PresetFrom
  <2>3. IsDate(SubtractMonths(c, 3)) /\ ~Earlier(c, SubtractMonths(c, 3))
    <3> DEFINE s == SubtractMonths(c, 3)
    <3>1. IsDate(s) /\ 12 * s.year + s.month = 12 * c.year + c.month - 3
      BY <2>1, SubtractedMonthIsDate, SubtractedMonthIsExact
    <3>2. s.year \in Nat /\ s.month \in 1..12
      BY <3>1 DEF IsDate
    <3> HIDE DEF s
    <3>3. s.year < c.year \/ (s.year = c.year /\ s.month < c.month)
      BY <1>3, <3>1, <3>2
    <3>4. ~Earlier(c, s)
      BY <1>3, <3>2, <3>3 DEF Earlier
    <3> QED
      BY <3>1, <3>4 DEF s
  <2>4. ~Earlier(d, c) => /\ IsDate(SubtractMonths(d, 3))
                          /\ ~Earlier(SubtractMonths(d, 3), SubtractMonths(c, 3))
    BY <2>1, SubtractedMonthsInOrder
  <2> QED
    BY <1>4, <1>5, <2>2, <2>3, <2>4
<1> QED
  BY <1>2, <1>6, <1>7
==============================================================================
