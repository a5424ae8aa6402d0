---------------------------- MODULE ReportsProofs ----------------------------
(***************************************************************************)
(* Proofs about the reports, for any employees, departments, users and     *)
(* swipes.                                                                 *)
(***************************************************************************)
EXTENDS Reports, AttendanceRulesProofs, FiniteSetTheorems, SequenceTheorems, TLAPS

----------------------------------------------------------------------------
(* ORDER BY.                                                                *)

\* The keys rows are ordered by are pairs or triples.
Keys(n) == {s \in Seq(Int) : Len(s) = n}

\* Keys of one length are ordered, from left to right.
LEMMA LowerOrder ==
    ASSUME NEW n \in {2, 3}, NEW a \in Keys(n), NEW b \in Keys(n)
    PROVE  /\ ~Lower(a, a)
           /\ Lower(a, b) => ~Lower(b, a)
           /\ a = b \/ Lower(a, b) \/ Lower(b, a)
<1>1. /\ DOMAIN a = 1..n /\ DOMAIN b = 1..n
      /\ \A i \in 1..n : a[i] \in Int /\ b[i] \in Int
  BY DEF Keys
<1>2. (\A i \in 1..n : a[i] = b[i]) => a = b
  BY SeqEqual DEF Keys
<1>3. CASE n = 2
  BY <1>1, <1>2, <1>3 DEF Lower
<1>4. CASE n = 3
  BY <1>1, <1>2, <1>4 DEF Lower
<1> QED
  BY <1>3, <1>4

\* Which is transitive.
LEMMA LowerTransitive ==
    ASSUME NEW n \in {2, 3}, NEW a \in Keys(n), NEW b \in Keys(n), NEW c \in Keys(n),
           Lower(a, b), Lower(b, c)
    PROVE  Lower(a, c)
<1>1. /\ DOMAIN a = 1..n /\ DOMAIN b = 1..n
      /\ \A i \in 1..n : a[i] \in Int /\ b[i] \in Int /\ c[i] \in Int
  BY DEF Keys
<1>2. PICK i \in 1..n : a[i] < b[i] /\ \A m \in 1..i - 1 : a[m] = b[m]
  BY <1>1 DEF Lower
<1>3. PICK j \in 1..n : b[j] < c[j] /\ \A m \in 1..j - 1 : b[m] = c[m]
  BY <1>1 DEF Lower
<1>4. CASE i <= j
  <2>1. a[i] < c[i]
    BY <1>1, <1>2, <1>3, <1>4
  <2>2. \A m \in 1..i - 1 : a[m] = c[m]
    <3>1. \A m \in 1..i - 1 : m \in 1..j - 1
      BY <1>4
    <3> QED
      BY <1>2, <1>3, <3>1
  <2> QED
    BY <1>1, <2>1, <2>2 DEF Lower
<1>5. CASE j < i
  <2>1. a[j] < c[j]
    BY <1>1, <1>2, <1>3, <1>5
  <2>2. \A m \in 1..j - 1 : a[m] = c[m]
    <3>1. \A m \in 1..j - 1 : m \in 1..i - 1
      BY <1>5
    <3> QED
      BY <1>2, <1>3, <3>1
  <2> QED
    BY <1>1, <2>1, <2>2 DEF Lower
<1> QED
  BY <1>4, <1>5

\* Rows with keys of their own are each listed once, from the highest key down.
LEMMA DescendingSorts ==
    ASSUME NEW S, IsFiniteSet(S), NEW n \in {2, 3}, NEW key,
           \A x \in S : key[x] \in Keys(n),
           \A x, y \in S : key[x] = key[y] => x = y
    PROVE  /\ Descending(S, key) \in [1..Cardinality(S) -> S]
           /\ \A x \in S : \E i \in 1..Cardinality(S) : Descending(S, key)[i] = x
           /\ \A i, j \in 1..Cardinality(S) :
                 i < j => Lower(key[Descending(S, key)[j]], key[Descending(S, key)[i]])
<1> DEFINE above(x) == {y \in S : Lower(key[x], key[y])}
           place == [x \in S |-> Cardinality(above(x)) + 1]
           size == Cardinality(S)
           rows == Descending(S, key)
<1>1. size \in Nat
  BY FS_CardinalityType
<1>2. ASSUME NEW x \in S
      PROVE  IsFiniteSet(above(x)) /\ Cardinality(above(x)) \in Nat /\ Cardinality(above(x)) < size
  <2>1. x \notin above(x)
    BY LowerOrder
  <2>2. above(x) \in SUBSET (S \ {x})
    BY <2>1
  <2>3. IsFiniteSet(S \ {x}) /\ Cardinality(S \ {x}) = size - 1
    BY FS_RemoveElement
  <2> HIDE DEF above
  <2>4. IsFiniteSet(above(x)) /\ Cardinality(above(x)) <= size - 1
    BY <2>2, <2>3, FS_Subset
  <2>5. Cardinality(above(x)) \in Nat
    BY <2>4, FS_CardinalityType
  <2> QED
    BY <1>1, <2>4, <2>5
<1>3. ASSUME NEW x \in S, NEW y \in S, Lower(key[x], key[y])
      PROVE  place[y] < place[x]
  <2>1. above(y) \in SUBSET above(x)
    BY <1>3, LowerTransitive
  <2>2. y \in above(x) /\ y \notin above(y)
    BY <1>3, LowerOrder
  <2>3. /\ Cardinality(above(y)) <= Cardinality(above(x))
        /\ Cardinality(above(y)) # Cardinality(above(x))
    <3>1. IsFiniteSet(above(x))
      BY <1>2
    <3> HIDE DEF above
    <3> QED
      BY <2>1, <2>2, <3>1, FS_Subset
  <2>4. place[x] = Cardinality(above(x)) + 1 /\ place[y] = Cardinality(above(y)) + 1
    OBVIOUS
  <2>5. Cardinality(above(x)) \in Nat /\ Cardinality(above(y)) \in Nat
    BY <1>2
  <2> HIDE DEF above, place
  <2> QED
    BY <2>3, <2>4, <2>5
<1>4. place \in [S -> 1..size]
  <2>1. ASSUME NEW x \in S PROVE Cardinality(above(x)) + 1 \in 1..size
    <3>1. Cardinality(above(x)) \in Nat /\ Cardinality(above(x)) < size
      BY <1>2
    <3> HIDE DEF above, size
    <3> QED
      BY <1>1, <3>1
  <2> QED
    BY <2>1
<1>5. \A x, y \in S : x # y => place[x] # place[y]
  <2> SUFFICES ASSUME NEW x \in S, NEW y \in S, x # y
               PROVE  place[x] # place[y]
    OBVIOUS
  <2>1. Lower(key[x], key[y]) \/ Lower(key[y], key[x])
    BY LowerOrder
  <2>2. place[x] \in Int /\ place[y] \in Int
    BY <1>1, <1>4
  <2> HIDE DEF place
  <2> QED
    BY <1>3, <2>1, <2>2
<1>6. \A i \in 1..size : \E x \in S : place[x] = i
  <2>1. place \in Injection(S, 1..size)
    BY <1>4, <1>5 DEF Injection, IsInjective
  <2>2. IsFiniteSet(1..size) /\ Cardinality(1..size) = size
    BY <1>1, FS_Interval
  <2> HIDE DEF place, size
  <2>3. place \in Surjection(S, 1..size)
    BY <2>1, <2>2, FS_Injection DEF size
  <2> QED
    BY <2>3 DEF Surjection
<1>7. rows = [i \in 1..size |-> CHOOSE x \in S : place[x] = i]
  <2>1. \A i \in 1..size : \A x \in S : Cardinality(above(x)) = i - 1 <=> place[x] = i
    <3> SUFFICES ASSUME NEW i \in 1..size, NEW x \in S
                 PROVE  Cardinality(above(x)) = i - 1 <=> place[x] = i
      OBVIOUS
    <3>1. Cardinality(above(x)) \in Nat
      BY <1>2
    <3>2. place[x] = Cardinality(above(x)) + 1
      OBVIOUS
    <3> HIDE DEF above, place
    <3> QED
      BY <1>1, <3>1, <3>2
  <2> DEFINE ranked(i) == CHOOSE x \in S : Cardinality(above(x)) = i - 1
             placed(i) == CHOOSE x \in S : place[x] = i
  <2>2. rows = [i \in 1..size |-> ranked(i)]
    BY DEF Descending
  <2>3. \A i \in 1..size : ranked(i) = placed(i)
    <3> TAKE i \in 1..size
    <3>1. \A x : (x \in S /\ Cardinality(above(x)) = i - 1) <=> (x \in S /\ place[x] = i)
      BY <2>1
    <3> HIDE DEF above, place
    <3> QED
      BY <3>1
  <2>4. rows = [i \in 1..size |-> placed(i)]
    <3> HIDE DEF ranked, placed, rows
    <3> QED
      BY <2>2, <2>3
  <2> QED
    BY <2>4
<1> HIDE DEF above, place, rows, size
<1>8. \A i \in 1..size : rows[i] \in S /\ place[rows[i]] = i
  BY <1>6, <1>7
<1>9. rows \in [1..size -> S]
  BY <1>7, <1>8
<1>10. \A x \in S : place[x] \in 1..size /\ rows[place[x]] = x
  <2> TAKE x \in S
  <2>1. place[x] \in 1..size
    BY <1>4
  <2>2. rows[place[x]] \in S /\ place[rows[place[x]]] = place[x]
    BY <1>8, <2>1
  <2> QED
    BY <1>5, <2>1, <2>2
<1>11. ASSUME NEW i \in 1..size, NEW j \in 1..size, i < j
       PROVE  Lower(key[rows[j]], key[rows[i]])
  <2>1. rows[i] \in S /\ rows[j] \in S /\ place[rows[i]] = i /\ place[rows[j]] = j
    BY <1>8
  <2>2. rows[i] # rows[j] /\ ~Lower(key[rows[i]], key[rows[j]])
    BY <1>1, <1>3, <1>11, <2>1
  <2> QED
    BY <2>1, <2>2, LowerOrder
<1> QED
  BY <1>9, <1>10, <1>11 DEF rows, size

----------------------------------------------------------------------------
(* The moments of rows.                                                      *)

\* The moments of the rows, and the days they fall on.
LEMMA MomentsOfRows ==
    ASSUME NEW e \in Swipes
    PROVE  /\ Midnight(e.date) \in Nat /\ Midnight(e.date) % 86400 = 0
           /\ At(e) \in Nat /\ Midnight(e.date) <= At(e) /\ At(e) < Midnight(e.date) + 86400
           /\ e.id \in Nat /\ e.employee \in Employees /\ e.employee \in Nat
           /\ IsDate(e.date) /\ Ordinal(e.date) \in Nat
<1> DEFINE first == [year |-> 2020, month |-> 1, day |-> 1]
<1>1. IsDate(e.date) /\ e.date.year >= 2020 /\ e.time \in Int /\ 0 <= e.time /\ e.time < 86400
  <2>1. IsDate(e.date)
    BY SwipeRows
  <2>2. e.date.year >= 2020
    BY SwipeRows
  <2>3. e.time \in TimesOfDay
    BY SwipeRows
  <2> QED
    BY <2>1, <2>2, <2>3, TimesOfDayType
<1>2. IsDate(first)
  BY MonthDaysType DEF IsDate
<1>3. Ordinal(first) \in Nat /\ Ordinal(e.date) \in Nat
  <2> HIDE DEF first
  <2> QED
    BY <1>1, <1>2, OrdinalType
<1>4. ~(Ordinal(e.date) < Ordinal(first))
  <2>1. ~Earlier(e.date, first)
    BY <1>1 DEF IsDate, Earlier
  <2> QED
    BY <1>1, <1>2, <2>1, OrdinalOrdersDates
<1>5. Ordinal(e.date) - Epoch \in Nat
  BY <1>3, <1>4 DEF Epoch
<1>6. Midnight(e.date) \in Nat /\ Midnight(e.date) % 86400 = 0
  <2> DEFINE n == Ordinal(e.date) - Epoch
  <2>1. n \in Nat
    BY <1>5
  <2>2. Midnight(e.date) = 86400 * n
    BY DEF Midnight, Days
  <2> HIDE DEF n
  <2> QED
    BY <2>1, <2>2
<1>7. e.id \in Nat /\ e.employee \in Employees /\ e.employee \in Nat
  <2>1. e.id \in Nat
    BY SwipeRows
  <2>2. e.employee \in Employees
    BY SwipeRows
  <2> QED
    BY <2>1, <2>2, OrderedIds
<1> QED
  BY <1>1, <1>3, <1>6, <1>7 DEF At

----------------------------------------------------------------------------
(* The order of swipes.                                                     *)

\* The keys swipes are listed by are different for different swipes.
LEMMA SwipeKeys ==
    ASSUME NEW e \in Swipes, NEW f \in Swipes
    PROVE  /\ Moment(e) \in Keys(2)
           /\ <<-At(e), -e.id>> \in Keys(2)
           /\ Moment(e) = Moment(f) => e = f
           /\ <<-At(e), -e.id>> = <<-At(f), -f.id>> => e = f
           /\ Lower(Moment(e), Moment(f)) <=> At(e) < At(f) \/ (At(e) = At(f) /\ e.id < f.id)
<1>1. At(e) \in Nat /\ e.id \in Nat /\ At(f) \in Nat /\ f.id \in Nat
  BY MomentsOfRows
<1>2. e.id = f.id => e = f
  BY SwipeRows
<1>3. Moment(e) \in Keys(2) /\ <<-At(e), -e.id>> \in Keys(2)
  BY <1>1 DEF Keys, Moment
<1>4. Lower(Moment(e), Moment(f)) <=> At(e) < At(f) \/ (At(e) = At(f) /\ e.id < f.id)
  BY <1>1 DEF Moment, Lower
<1>5. <<At(e), e.id>> = <<At(f), f.id>> => e.id = f.id
  OBVIOUS
<1>6. <<-At(e), -e.id>> = <<-At(f), -f.id>> => -e.id = -f.id
  OBVIOUS
<1>7. -e.id = -f.id => e.id = f.id
  BY <1>1
<1> QED
  BY <1>2, <1>3, <1>4, <1>5, <1>6, <1>7 DEF Moment

\* The earlier of two swipes has the lower key.
LEMMA EarlierIsLower ==
    ASSUME NEW e \in Swipes, NEW f \in Swipes, At(e) < At(f)
    PROVE  Lower(Moment(e), Moment(f))
<1>1. Lower(Moment(e), Moment(f)) <=> At(e) < At(f) \/ (At(e) = At(f) /\ e.id < f.id)
  BY SwipeKeys
<1> QED
  BY <1>1

\* At most one swipe is the latest of its set, and one the earliest: whatever an
\* update or an item takes of a day, it is one row.
LEMMA OneLatestOneEarliest ==
    ASSUME NEW S \in SUBSET Swipes
    PROVE  /\ \A e, f \in Latest(S) : e = f
           /\ \A e, f \in Earliest(S) : e = f
<1>1. \A e, f \in S : Lower(Moment(e), Moment(f)) => ~Lower(Moment(f), Moment(e))
  <2> TAKE e \in S, f \in S
  <2> QED
    BY SwipeKeys, LowerOrder
<1> QED
  BY <1>1 DEF Latest, Earliest

\* A set of rows that is not empty has both.
LEMMA LatestAndEarliest ==
    ASSUME NEW S \in SUBSET Swipes, IsFiniteSet(S), S # {}
    PROVE  /\ \E e \in Latest(S) : e \in S /\ \A f \in S : At(f) <= At(e)
           /\ \E e \in Earliest(S) : e \in S /\ \A f \in S : At(e) <= At(f)
<1> DEFINE key == [e \in S |-> Moment(e)]
           size == Cardinality(S)
           rows == Descending(S, key)
<1>1. size \in Nat /\ size # 0
  BY FS_CardinalityType, FS_EmptySet
<1>2. (\A x \in S : key[x] \in Keys(2)) /\ (\A x, y \in S : key[x] = key[y] => x = y)
  BY SwipeKeys
<1>3. /\ rows \in [1..size -> S]
      /\ \A x \in S : \E i \in 1..size : rows[i] = x
      /\ \A i, j \in 1..size : i < j => Lower(key[rows[j]], key[rows[i]])
  <2> HIDE DEF key
  <2> QED
    BY <1>2, DescendingSorts
<1>4. \A x \in S : key[x] = Moment(x)
  OBVIOUS
<1> HIDE DEF key, rows, size
<1>5. rows[1] \in S /\ rows[size] \in S
  BY <1>1, <1>3
<1>6. ASSUME NEW f \in S, f # rows[1]
      PROVE  Lower(Moment(f), Moment(rows[1]))
  <2>1. PICK i \in 1..size : rows[i] = f
    BY <1>3
  <2>2. 1 < i
    BY <1>6, <2>1
  <2> QED
    BY <1>1, <1>3, <1>4, <1>5, <2>1, <2>2
<1>7. ASSUME NEW f \in S, f # rows[size]
      PROVE  Lower(Moment(rows[size]), Moment(f))
  <2>1. PICK i \in 1..size : rows[i] = f
    BY <1>3
  <2>2. i < size
    BY <1>1, <1>7, <2>1
  <2> QED
    BY <1>1, <1>3, <1>4, <1>5, <2>1, <2>2
<1>8. rows[1] \in Latest(S) /\ rows[size] \in Earliest(S)
  BY <1>5, <1>6, <1>7 DEF Latest, Earliest
<1>9. \A f \in S : At(f) <= At(rows[1]) /\ At(rows[size]) <= At(f)
  <2> TAKE f \in S
  <2>1. At(f) \in Nat /\ At(rows[1]) \in Nat /\ At(rows[size]) \in Nat
    BY <1>5, MomentsOfRows
  <2>2. ASSUME NEW a \in S, NEW b \in S, Lower(Moment(a), Moment(b))
        PROVE  At(a) <= At(b)
    <3>1. At(a) < At(b) \/ (At(a) = At(b) /\ a.id < b.id)
      BY <2>2, SwipeKeys
    <3>2. At(a) \in Nat /\ At(b) \in Nat
      BY MomentsOfRows
    <3> QED
      BY <3>1, <3>2
  <2>3. f = rows[1] \/ At(f) <= At(rows[1])
    BY <1>5, <1>6, <2>2
  <2>4. f = rows[size] \/ At(rows[size]) <= At(f)
    BY <1>5, <1>7, <2>2
  <2> QED
    BY <2>1, <2>3, <2>4
<1> QED
  BY <1>5, <1>8, <1>9

\* The functions of a finite set give finitely many values.
LEMMA FiniteImage ==
    ASSUME NEW S, IsFiniteSet(S), NEW f
    PROVE  IsFiniteSet({f[x] : x \in S})
<1> DEFINE T == {f[x] : x \in S}
           g == [x \in S |-> f[x]]
<1>1. g \in Surjection(S, T)
  BY DEF Surjection
<1> QED
  BY <1>1, FS_Surjection

----------------------------------------------------------------------------
(* The days of the reports.                                                 *)

\* The row of an employee and a date.
DayOf(swipes, employee, date) ==
    LET times(direction) == {At(e) : e \in Going(direction, OnDay(swipes, employee, date))}
    IN  [employee |-> employee, date |-> date,
         first |-> IF times("IN") = {} THEN NoTime ELSE Min(times("IN")),
         last |-> IF times("OUT") = {} THEN NoTime ELSE Max(times("OUT"))]

\* The grouped rows are the rows of the days there are swipes of.
LEMMA DailyIsDays ==
    ASSUME NEW S
    PROVE  Daily(S) = {DayOf(S, e.employee, e.date) : e \in S}
<1> DEFINE key(e) == <<e.employee, e.date>>
           times(direction, k) == {At(e) : e \in {x \in Going(direction, S) : key(x) = k}}
           row(k) == [employee |-> k[1], date |-> k[2],
                      first |-> IF times("IN", k) = {} THEN NoTime ELSE Min(times("IN", k)),
                      last |-> IF times("OUT", k) = {} THEN NoTime ELSE Max(times("OUT", k))]
<1>1. Daily(S) = {row(k) : k \in {key(e) : e \in S}}
  BY DEF Daily
<1>2. ASSUME NEW e \in S
      PROVE  row(key(e)) = DayOf(S, e.employee, e.date)
  <2>1. \A direction : {x \in Going(direction, S) : key(x) = key(e)}
                           = Going(direction, OnDay(S, e.employee, e.date))
    BY DEF Going, OnDay
  <2>2. key(e)[1] = e.employee /\ key(e)[2] = e.date
    OBVIOUS
  <2> QED
    BY <2>1, <2>2 DEF DayOf
<1>3. {row(k) : k \in {key(e) : e \in S}} = {row(key(e)) : e \in S}
  <2> HIDE DEF row, key
  <2> QED
    OBVIOUS
<1> HIDE DEF row, key
<1> QED
  BY <1>1, <1>2, <1>3

\* The days of finitely many rows: one for each employee and date that has a row,
\* with an entry exactly when a row of that day is one, and the like of the exit.
LEMMA DaysOfRows ==
    ASSUME NEW S \in SUBSET Swipes, IsFiniteSet(S)
    PROVE  /\ IsFiniteSet(Daily(S))
           /\ \A d \in Daily(S) :
                 /\ d.employee \in Nat /\ IsDate(d.date) /\ d.first \in Int /\ d.last \in Int
                 /\ \E e \in S : e.employee = d.employee /\ e.date = d.date
                 /\ d.last # NoTime => Going("OUT", OnDay(S, d.employee, d.date)) # {}
                 /\ d.first # NoTime <=> Going("IN", OnDay(S, d.employee, d.date)) # {}
                 /\ d = DayOf(S, d.employee, d.date)
<1> DEFINE row == [e \in S |-> DayOf(S, e.employee, e.date)]
<1>1. IsFiniteSet(Daily(S))
  <2>1. Daily(S) = {row[e] : e \in S}
    BY DailyIsDays
  <2> HIDE DEF row
  <2> QED
    BY <2>1, FiniteImage
<1>2. ASSUME NEW T \in SUBSET S, T # {}
      PROVE  Min({At(e) : e \in T}) \in Nat /\ Max({At(e) : e \in T}) \in Nat
  <2>1. IsFiniteSet(T)
    BY FS_Subset
  <2>2. PICK e \in T : \A f \in T : At(f) <= At(e)
    BY <1>2, <2>1, LatestAndEarliest
  <2>3. PICK g \in T : \A f \in T : At(g) <= At(f)
    BY <1>2, <2>1, LatestAndEarliest
  <2> DEFINE times == {At(h) : h \in T}
  <2>4. times \in SUBSET Nat
    BY MomentsOfRows
  <2>5. At(e) \in times /\ \A t \in times : At(e) >= t
    BY <2>2, <2>4
  <2>6. At(g) \in times /\ \A t \in times : At(g) <= t
    BY <2>3
  <2> HIDE DEF times
  <2>7. Max(times) \in times
    BY <2>5 DEF Max
  <2>8. Min(times) \in times
    BY <2>6 DEF Min
  <2> QED
    BY <2>4, <2>7, <2>8 DEF times
<1>3. ASSUME NEW d \in Daily(S)
      PROVE  /\ d.employee \in Nat /\ IsDate(d.date) /\ d.first \in Int /\ d.last \in Int
             /\ \E e \in S : e.employee = d.employee /\ e.date = d.date
             /\ d.last # NoTime => Going("OUT", OnDay(S, d.employee, d.date)) # {}
             /\ d.first # NoTime <=> Going("IN", OnDay(S, d.employee, d.date)) # {}
             /\ d = DayOf(S, d.employee, d.date)
  <2>1. PICK e \in S : d = DayOf(S, e.employee, e.date)
    BY DailyIsDays
  <2> DEFINE in == Going("IN", OnDay(S, e.employee, e.date))
             out == Going("OUT", OnDay(S, e.employee, e.date))
  <2>2. in \in SUBSET S /\ out \in SUBSET S
    BY DEF Going, OnDay
  <2>3. d = [employee |-> e.employee, date |-> e.date,
             first |-> IF {At(f) : f \in in} = {} THEN NoTime ELSE Min({At(f) : f \in in}),
             last |-> IF {At(f) : f \in out} = {} THEN NoTime ELSE Max({At(f) : f \in out})]
    BY <2>1 DEF DayOf
  <2> HIDE DEF in, out
  <2>4. d.employee = e.employee /\ d.date = e.date
    BY <2>3
  <2>5. e.employee \in Nat /\ IsDate(e.date)
    BY MomentsOfRows
  <2>6. IF in = {} THEN d.first = NoTime ELSE d.first \in Nat
    <3>1. {At(f) : f \in in} = {} <=> in = {}
      OBVIOUS
    <3>2. in # {} => Min({At(f) : f \in in}) \in Nat
      BY <1>2, <2>2
    <3> QED
      BY <2>3, <3>1, <3>2
  <2>7. IF out = {} THEN d.last = NoTime ELSE d.last \in Nat
    <3>1. {At(f) : f \in out} = {} <=> out = {}
      OBVIOUS
    <3>2. out # {} => Max({At(f) : f \in out}) \in Nat
      BY <1>2, <2>2
    <3> QED
      BY <2>3, <3>1, <3>2
  <2>8. /\ in = Going("IN", OnDay(S, d.employee, d.date))
        /\ out = Going("OUT", OnDay(S, d.employee, d.date))
        /\ d = DayOf(S, d.employee, d.date)
    BY <2>1, <2>4 DEF in, out
  <2>9. /\ d.first \in Int /\ d.last \in Int
        /\ (d.first # NoTime <=> in # {}) /\ (d.last # NoTime => out # {})
    BY <2>6, <2>7 DEF NoTime
  <2> QED
    BY <2>4, <2>5, <2>8, <2>9
<1> QED
  BY <1>1, <1>3

----------------------------------------------------------------------------
(* The compliance list.                                                     *)

\* A page of a list has items of the list.
LEMMA PageOfSeq ==
    ASSUME NEW T, NEW rows \in Seq(T), NEW limit \in Nat, NEW offset \in Nat
    PROVE  Page(rows, limit, offset) \in Seq(T)
<1> DEFINE last == Clamp(offset + limit, 0, Len(rows))
<1>1. Len(rows) \in Nat
  OBVIOUS
<1>2. last \in Int /\ last <= Len(rows)
  BY <1>1 DEF Clamp
<1> HIDE DEF last
<1>3. \A i \in offset + 1..last : rows[i] \in T
  BY <1>2
<1>4. SubSeq(rows, offset + 1, last) \in Seq(T)
  BY <1>2, <1>3, SubSeqProperties
<1> QED
  BY <1>4 DEF Page, last

\* Keys of one length, and no two alike, put rows in one order.
TellApart(key, S) ==
    \E n \in {2, 3} : /\ \A x \in S : key[x] \in Keys(n)
                      /\ \A x, y \in S : key[x] = key[y] => x = y

\* Sorted rows make a list, of whatever is made of each.
LEMMA RowsMakeSeq ==
    ASSUME NEW S, IsFiniteSet(S), NEW key, TellApart(key, S),
           NEW item, NEW T, \A x \in S : item[x] \in T
    PROVE  /\ [i \in DOMAIN Descending(S, key) |-> item[Descending(S, key)[i]]] \in Seq(T)
           /\ \A i \in DOMAIN Descending(S, key) : Descending(S, key)[i] \in S
<1> DEFINE rows == Descending(S, key)
           size == Cardinality(S)
<1>1. rows \in [1..size -> S]
  <2>1. PICK n \in {2, 3} : /\ \A x \in S : key[x] \in Keys(n)
                            /\ \A x, y \in S : key[x] = key[y] => x = y
    BY DEF TellApart
  <2> QED
    BY <2>1, DescendingSorts
<1>2. size \in Nat
  BY FS_CardinalityType
<1> HIDE DEF rows, size
<1>3. DOMAIN rows = 1..size
  BY <1>1
<1>4. [i \in 1..size |-> item[rows[i]]] \in [1..size -> T]
  BY <1>1
<1>5. [i \in 1..size |-> item[rows[i]]] \in Seq(T)
  BY <1>2, <1>4
<1>6. \A i \in DOMAIN rows : rows[i] \in S
  BY <1>1
<1> QED
  BY <1>3, <1>5, <1>6 DEF rows

\* The merged list has the items of the lists.
LEMMA MergedOfSeqs ==
    ASSUME NEW T, \A t \in T : t.at \in Int, NEW lists \in [1..4 -> Seq(T)]
    PROVE  Merged(lists) \in Seq(T)
<1> DEFINE of(k) == {<<lists[k][i], k, i>> : i \in DOMAIN lists[k]}
           all == UNION {of(k) : k \in DOMAIN lists}
           key == [x \in all |-> <<x[1].at, -x[2], -x[3]>>]
           first == [x \in all |-> x[1]]
<1>1. DOMAIN lists = 1..4
  OBVIOUS
<1>2. ASSUME NEW k \in 1..4
      PROVE  /\ DOMAIN lists[k] = 1..Len(lists[k]) /\ Len(lists[k]) \in Nat
             /\ \A i \in DOMAIN lists[k] : lists[k][i] \in T /\ i \in Nat
  <2>1. lists[k] \in Seq(T)
    OBVIOUS
  <2> QED
    BY <2>1
<1>3. ASSUME NEW k \in 1..4
      PROVE  IsFiniteSet(of(k))
  <2> DEFINE f == [i \in DOMAIN lists[k] |-> <<lists[k][i], k, i>>]
  <2>1. IsFiniteSet(DOMAIN lists[k])
    <3>1. DOMAIN lists[k] = 1..Len(lists[k]) /\ Len(lists[k]) \in Int
      BY <1>2
    <3> QED
      BY <3>1, FS_Interval
  <2>2. IsFiniteSet({f[i] : i \in DOMAIN lists[k]})
    <3> HIDE DEF f
    <3> QED
      BY <2>1, FiniteImage
  <2> QED
    BY <2>2
<1>4. IsFiniteSet(all)
  <2>1. all = (of(1) \union of(2)) \union (of(3) \union of(4))
    <3> HIDE DEF of
    <3> QED
      BY <1>1
  <2>2. IsFiniteSet(of(1)) /\ IsFiniteSet(of(2)) /\ IsFiniteSet(of(3)) /\ IsFiniteSet(of(4))
    BY <1>3
  <2> HIDE DEF of, all
  <2>3. IsFiniteSet(of(1) \union of(2)) /\ IsFiniteSet(of(3) \union of(4))
    BY <2>2, FS_Union
  <2> QED
    BY <2>1, <2>3, FS_Union
<1>5. \A x \in all : \E k \in 1..4, i \in Nat : x = <<lists[k][i], k, i>> /\ lists[k][i] \in T
  BY <1>1, <1>2
<1>6. \A x \in all : key[x] \in Keys(3) /\ first[x] \in T
  <2> SUFFICES ASSUME NEW x \in all
               PROVE  key[x] \in Keys(3) /\ first[x] \in T
    OBVIOUS
  <2>1. PICK k \in 1..4, i \in Nat : x = <<lists[k][i], k, i>> /\ lists[k][i] \in T
    BY <1>5
  <2>2. key[x] = <<x[1].at, -x[2], -x[3]>> /\ first[x] = x[1]
    OBVIOUS
  <2> HIDE DEF all, key, first
  <2>3. x[1] \in T /\ x[2] \in Int /\ x[3] \in Int
    BY <2>1
  <2> QED
    BY <2>2, <2>3 DEF Keys
<1>7. ASSUME NEW x \in all, NEW y \in all, key[x] = key[y]
      PROVE  x = y
  <2>1. PICK k \in 1..4, i \in Nat : x = <<lists[k][i], k, i>>
    BY <1>5
  <2>2. PICK m \in 1..4, j \in Nat : y = <<lists[m][j], m, j>>
    BY <1>5
  <2>3. key[x] = <<x[1].at, -x[2], -x[3]>> /\ key[y] = <<y[1].at, -y[2], -y[3]>>
    OBVIOUS
  <2> HIDE DEF all, key
  <2>4. -x[2] = -y[2] /\ -x[3] = -y[3]
    <3>1. \A a, b, c, p, q, r : <<a, b, c>> = <<p, q, r>> => b = q /\ c = r
      OBVIOUS
    <3>2. <<x[1].at, -x[2], -x[3]>> = <<y[1].at, -y[2], -y[3]>>
      BY <1>7, <2>3
    <3> HIDE DEF first, of
    <3> QED
      BY <3>1, <3>2
  <2>5. k = m /\ i = j
    BY <2>1, <2>2, <2>4
  <2> QED
    BY <2>1, <2>2, <2>5
<1>8. TellApart(key, all)
  <2> HIDE DEF all, key, first
  <2> QED
    BY <1>6, <1>7 DEF TellApart
<1>9. Merged(lists) = [n \in DOMAIN Descending(all, key) |-> Descending(all, key)[n][1]]
  BY DEF Merged
<1>10. [n \in DOMAIN Descending(all, key) |-> first[Descending(all, key)[n]]] \in Seq(T)
  <2> HIDE DEF all, key, first
  <2> QED
    BY <1>4, <1>6, <1>8, RowsMakeSeq
<1>11. \A n \in DOMAIN Descending(all, key) :
           first[Descending(all, key)[n]] = Descending(all, key)[n][1]
  <2>1. Descending(all, key) \in [1..Cardinality(all) -> all]
    <3> HIDE DEF all, key, first
    <3> QED
      BY <1>4, <1>6, <1>7, DescendingSorts
  <2>2. \A x \in all : first[x] = x[1]
    OBVIOUS
  <2> HIDE DEF all, key, first
  <2> QED
    BY <2>1, <2>2
<1> HIDE DEF all, key, first
<1> QED
  BY <1>9, <1>10, <1>11

\* The four kinds of item, and what each is made of.
LongDays(swipes) == Overtime(Daily(MainSwipes(swipes)), OvertimeHours)
LateEntries(swipes) == {e \in FirstEntries(swipes) : LateSql(e.time)}
OpenDays(swipes) == Unpaired(Daily(MainSwipes(swipes)))

ExitsOf(db, d) == Latest(Going("OUT", OnDay(MainSwipes(db.stored), d.employee, d.date)))

OvertimeItem(db, d) ==
    [id |-> DayId("overtime", d), at |-> d.last,
     note |-> db.remark[ChooseUnique(ExitsOf(db, d), LAMBDA e : TRUE)]]
UnpairedItem(d) ==
    [id |-> UnpairedId(d), at |-> IF d.last # NoTime THEN d.last ELSE d.first, note |-> NoNote]
DeniedItem(db, e) == [id |-> DeniedId(e), at |-> At(e), note |-> db.remark[e]]

Listed(db, swipes) ==
    {OvertimeItem(db, d) : d \in LongDays(swipes)}
    \union {LateItem(db, e) : e \in LateEntries(swipes)}
    \union {UnpairedItem(d) : d \in OpenDays(swipes)}
    \union {DeniedItem(db, e) : e \in Denied(swipes)}

\* Lists of days, ordered by date, another time and employee, have no equal keys.
LEMMA DaysMakeSeq ==
    ASSUME NEW S \in SUBSET Swipes, IsFiniteSet(S), NEW days \in SUBSET Daily(S),
           NEW key, \A d \in days : \E n \in Int : key[d] = <<Ordinal(d.date), n, d.employee>>,
           NEW item, NEW T, \A d \in days : item[d] \in T
    PROVE  /\ [i \in DOMAIN Descending(days, key) |-> item[Descending(days, key)[i]]] \in Seq(T)
           /\ \A i \in DOMAIN Descending(days, key) : Descending(days, key)[i] \in days
<1>1. IsFiniteSet(days)
  BY DaysOfRows, FS_Subset
<1>2. ASSUME NEW d \in days
      PROVE  /\ d.employee \in Nat /\ IsDate(d.date) /\ Ordinal(d.date) \in Nat
             /\ d = DayOf(S, d.employee, d.date)
  <2>1. d.employee \in Nat /\ IsDate(d.date) /\ d = DayOf(S, d.employee, d.date)
    BY DaysOfRows
  <2> QED
    BY <2>1, OrdinalType
<1>3. \A d \in days : key[d] \in Keys(3)
  <2> TAKE d \in days
  <2>1. PICK n \in Int : key[d] = <<Ordinal(d.date), n, d.employee>>
    OBVIOUS
  <2>2. Ordinal(d.date) \in Int /\ d.employee \in Int
    BY <1>2
  <2> QED
    BY <2>1, <2>2 DEF Keys
<1>4. ASSUME NEW c \in days, NEW d \in days, key[c] = key[d]
      PROVE  c = d
  <2>1. \A p, q, r, x, y, z : <<p, q, r>> = <<x, y, z>> => p = x /\ r = z
    OBVIOUS
  <2>2. PICK n \in Int : key[c] = <<Ordinal(c.date), n, c.employee>>
    OBVIOUS
  <2>3. PICK m \in Int : key[d] = <<Ordinal(d.date), m, d.employee>>
    OBVIOUS
  <2>4. Ordinal(c.date) = Ordinal(d.date) /\ c.employee = d.employee
    <3>1. <<Ordinal(c.date), n, c.employee>> = <<Ordinal(d.date), m, d.employee>>
      BY <1>4, <2>2, <2>3
    <3> QED
      BY <2>1, <3>1
  <2>5. IsDate(c.date) /\ IsDate(d.date)
    BY <1>2
  <2>6. c.date = d.date
    BY <2>4, <2>5, OrdinalOrdersDates
  <2> QED
    BY <1>2, <2>4, <2>6
<1>5. TellApart(key, days)
  BY <1>3, <1>4 DEF TellApart
<1> QED
  BY <1>1, <1>5, RowsMakeSeq

\* Lists of swipes, newest first, have none either.
LEMMA SwipesMakeSeq ==
    ASSUME NEW S \in SUBSET Swipes, IsFiniteSet(S),
           NEW item, NEW T, \A e \in S : item[e] \in T
    PROVE  /\ [i \in DOMAIN NewestFirst(S) |-> item[NewestFirst(S)[i]]] \in Seq(T)
           /\ \A i \in DOMAIN NewestFirst(S) : NewestFirst(S)[i] \in S
<1> DEFINE key == [e \in S |-> Moment(e)]
<1>1. (\A e \in S : key[e] \in Keys(2)) /\ (\A e, f \in S : key[e] = key[f] => e = f)
  BY SwipeKeys
<1>2. NewestFirst(S) = Descending(S, key)
  BY DEF NewestFirst
<1> HIDE DEF key
<1>3. TellApart(key, S)
  BY <1>1 DEF TellApart
<1>4. /\ [i \in DOMAIN Descending(S, key) |-> item[Descending(S, key)[i]]] \in Seq(T)
      /\ \A i \in DOMAIN Descending(S, key) : Descending(S, key)[i] \in S
  BY <1>3, RowsMakeSeq
<1> QED
  BY <1>2, <1>4

\* What the lists select from rows are rows.
LEMMA MainOfRows ==
    ASSUME NEW S \in SUBSET Swipes, IsFiniteSet(S)
    PROVE  /\ MainSwipes(S) \in SUBSET S /\ MainSwipes(S) \in SUBSET Swipes
           /\ IsFiniteSet(MainSwipes(S))
           /\ Denied(S) \in SUBSET Swipes /\ IsFiniteSet(Denied(S))
           /\ FirstEntries(S) \in SUBSET S /\ FirstEntries(S) \in SUBSET Swipes
           /\ LateEntries(S) \in SUBSET Swipes /\ IsFiniteSet(LateEntries(S))
<1>1. MainSwipes(S) \in SUBSET S /\ Denied(S) \in SUBSET S
  BY DEF MainSwipes, Granted, Denied
<1>2. FirstEntries(S) \in SUBSET S
  BY <1>1 DEF FirstEntries, Earliest, OnDay, Going
<1>3. LateEntries(S) \in SUBSET S
  BY <1>2 DEF LateEntries
<1>4. IsFiniteSet(MainSwipes(S)) /\ IsFiniteSet(Denied(S)) /\ IsFiniteSet(LateEntries(S))
  BY <1>1, <1>3, FS_Subset
<1> QED
  BY <1>1, <1>2, <1>3, <1>4

\* Each kind lists its items, and every item has a moment to be merged by.
LEMMA ItemsOfKinds ==
    ASSUME NEW db, NEW S \in SUBSET Swipes, IsFiniteSet(S)
    PROVE  /\ OvertimeItems(db, S) \in Seq(Listed(db, S))
           /\ LateItems(db, S) \in Seq(Listed(db, S))
           /\ UnpairedItems(S) \in Seq(Listed(db, S))
           /\ DeniedItems(db, S) \in Seq(Listed(db, S))
           /\ \A item \in Listed(db, S) : item.at \in Int
<1> DEFINE main == MainSwipes(S)
           long == LongDays(S)
           open == OpenDays(S)
           latest == LateEntries(S)
           refused == Denied(S)
<1>1. /\ main \in SUBSET Swipes /\ IsFiniteSet(main)
      /\ latest \in SUBSET Swipes /\ IsFiniteSet(latest)
      /\ refused \in SUBSET Swipes /\ IsFiniteSet(refused)
  BY MainOfRows
<1>2. long \in SUBSET Daily(main) /\ open \in SUBSET Daily(main)
  BY DEF LongDays, OpenDays, Overtime, Unpaired
<1>3. \A d \in Daily(main) : d.first \in Int /\ d.last \in Int
  BY <1>1, DaysOfRows
<1> HIDE DEF main, long, open, latest, refused
<1>4. OvertimeItems(db, S) \in Seq(Listed(db, S))
  <2> DEFINE key == [d \in long |-> <<Ordinal(d.date), Stay(d), d.employee>>]
             item == [d \in long |-> OvertimeItem(db, d)]
             rows == Descending(long, key)
  <2>1. \A d \in long : \E n \in Int : key[d] = <<Ordinal(d.date), n, d.employee>>
    <3> SUFFICES ASSUME NEW d \in long
                 PROVE  \E n \in Int : key[d] = <<Ordinal(d.date), n, d.employee>>
      OBVIOUS
    <3>1. Stay(d) \in Int
      BY <1>2, <1>3 DEF Stay
    <3> QED
      BY <3>1
  <2>2. \A d \in long : item[d] = OvertimeItem(db, d) /\ item[d] \in Listed(db, S)
    BY DEF Listed, long
  <2>3. OvertimeItems(db, S) = [i \in DOMAIN rows |-> OvertimeItem(db, rows[i])]
    BY DEF OvertimeItems, OvertimeItem, ExitsOf, LongDays, long
  <2> HIDE DEF key, item
  <2>4. /\ [i \in DOMAIN rows |-> item[rows[i]]] \in Seq(Listed(db, S))
        /\ \A i \in DOMAIN rows : rows[i] \in long
    BY <1>1, <1>2, <2>1, <2>2, DaysMakeSeq
  <2> HIDE DEF rows
  <2> QED
    BY <2>2, <2>3, <2>4
<1>5. UnpairedItems(S) \in Seq(Listed(db, S))
  <2> DEFINE at(d) == IF d.last # NoTime THEN d.last ELSE d.first
             key == [d \in open |-> <<Ordinal(d.date), at(d), d.employee>>]
             item == [d \in open |-> UnpairedItem(d)]
             rows == Descending(open, key)
  <2>1. \A d \in open : \E n \in Int : key[d] = <<Ordinal(d.date), n, d.employee>>
    <3> SUFFICES ASSUME NEW d \in open
                 PROVE  \E n \in Int : key[d] = <<Ordinal(d.date), n, d.employee>>
      OBVIOUS
    <3>1. at(d) \in Int
      BY <1>2, <1>3
    <3> HIDE DEF at
    <3> QED
      BY <3>1
  <2>2. \A d \in open : item[d] = UnpairedItem(d) /\ item[d] \in Listed(db, S)
    BY DEF Listed, open
  <2>3. UnpairedItems(S) = [i \in DOMAIN rows |-> UnpairedItem(rows[i])]
    BY DEF UnpairedItems, UnpairedItem, OpenDays, open
  <2> HIDE DEF key, item
  <2>4. /\ [i \in DOMAIN rows |-> item[rows[i]]] \in Seq(Listed(db, S))
        /\ \A i \in DOMAIN rows : rows[i] \in open
    BY <1>1, <1>2, <2>1, <2>2, DaysMakeSeq
  <2> HIDE DEF rows
  <2> QED
    BY <2>2, <2>3, <2>4
<1>6. LateItems(db, S) \in Seq(Listed(db, S))
  <2> DEFINE item == [e \in latest |-> LateItem(db, e)]
             rows == NewestFirst(latest)
  <2>1. \A e \in latest : item[e] = LateItem(db, e) /\ item[e] \in Listed(db, S)
    BY DEF Listed, latest
  <2>2. LateItems(db, S) = [i \in DOMAIN rows |-> LateItem(db, rows[i])]
    BY DEF LateItems, LateEntries, latest
  <2> HIDE DEF item
  <2>3. /\ [i \in DOMAIN rows |-> item[rows[i]]] \in Seq(Listed(db, S))
        /\ \A i \in DOMAIN rows : rows[i] \in latest
    BY <1>1, <2>1, SwipesMakeSeq
  <2> HIDE DEF rows
  <2> QED
    BY <2>1, <2>2, <2>3
<1>7. DeniedItems(db, S) \in Seq(Listed(db, S))
  <2> DEFINE item == [e \in refused |-> DeniedItem(db, e)]
             rows == NewestFirst(refused)
  <2>1. \A e \in refused : item[e] = DeniedItem(db, e) /\ item[e] \in Listed(db, S)
    BY DEF Listed, refused
  <2>2. DeniedItems(db, S) = [i \in DOMAIN rows |-> DeniedItem(db, rows[i])]
    BY DEF DeniedItems, DeniedItem, refused
  <2> HIDE DEF item
  <2>3. /\ [i \in DOMAIN rows |-> item[rows[i]]] \in Seq(Listed(db, S))
        /\ \A i \in DOMAIN rows : rows[i] \in refused
    BY <1>1, <2>1, SwipesMakeSeq
  <2> HIDE DEF rows
  <2> QED
    BY <2>1, <2>2, <2>3
<1>8. \A item \in Listed(db, S) : item.at \in Int
  <2>1. \A d \in long : OvertimeItem(db, d).at \in Int
    BY <1>2, <1>3 DEF OvertimeItem
  <2>2. \A d \in open : UnpairedItem(d).at \in Int
    BY <1>2, <1>3 DEF UnpairedItem
  <2>3. \A e \in Swipes : At(e) \in Int
    BY MomentsOfRows
  <2>4. \A e \in latest : LateItem(db, e).at \in Int
    BY <1>1, <2>3 DEF LateItem
  <2>5. \A e \in refused : DeniedItem(db, e).at \in Int
    BY <1>1, <2>3 DEF DeniedItem
  <2> QED
    BY <2>1, <2>2, <2>4, <2>5 DEF Listed, long, open, latest, refused
<1> QED
  BY <1>4, <1>5, <1>6, <1>7, <1>8

\* What the list of all kinds shows is an item of one of them.
LEMMA ListHasItems ==
    ASSUME NEW db, NEW user, NEW w, db.stored \in SUBSET Swipes, IsFiniteSet(db.stored)
    PROVE  ComplianceAnomalies(db, user, {}, "all", w, 200, 0).items
               \in Seq(Listed(db, ScopedEvents(db, user, {}, w)))
<1> DEFINE S == ScopedEvents(db, user, {}, w)
           T == Listed(db, S)
           most == Clamp(200, 1, 200)
           after == Max({0, 0})
           lists == [k \in DOMAIN Kinds |-> IF "all" \in {"all", Kinds[k]}
                                           THEN Page(Items(db, Kinds[k], S), most, after) ELSE <<>>]
<1>1. S \in SUBSET Swipes /\ IsFiniteSet(S)
  <2>1. S \in SUBSET db.stored
    BY DEF ScopedEvents
  <2> HIDE DEF S
  <2> QED
    BY <2>1, FS_Subset
<1>2. most \in Nat /\ after \in Nat
  BY DEF Clamp, Max
<1>3. ComplianceAnomalies(db, user, {}, "all", w, 200, 0).items = Page(Merged(lists), most, 0)
  BY DEF ComplianceAnomalies
<1> HIDE DEF S, most, after
<1>4. /\ OvertimeItems(db, S) \in Seq(T) /\ LateItems(db, S) \in Seq(T)
      /\ UnpairedItems(S) \in Seq(T) /\ DeniedItems(db, S) \in Seq(T)
      /\ \A item \in T : item.at \in Int
  BY <1>1, ItemsOfKinds
<1> HIDE DEF T
<1>5. DOMAIN Kinds = 1..4 /\ \A k \in 1..4 : Items(db, Kinds[k], S) \in Seq(T)
  BY <1>4 DEF Kinds, Items
<1>6. \A k \in 1..4 : Page(Items(db, Kinds[k], S), most, after) \in Seq(T)
  BY <1>2, <1>5, PageOfSeq
<1>7. lists \in [1..4 -> Seq(T)]
  <2>1. \A k \in 1..4 : lists[k] = Page(Items(db, Kinds[k], S), most, after)
    BY <1>5
  <2>2. lists = [k \in 1..4 |-> lists[k]]
    BY <1>5
  <2> HIDE DEF lists
  <2> QED
    BY <1>6, <2>1, <2>2
<1> HIDE DEF lists
<1>8. Merged(lists) \in Seq(T)
  BY <1>4, <1>7, MergedOfSeqs
<1>9. Page(Merged(lists), most, 0) \in Seq(T)
  BY <1>2, <1>8, PageOfSeq
<1> QED
  BY <1>3, <1>9 DEF S, T

----------------------------------------------------------------------------
(* The rows of items.                                                       *)

\* The item a row gives rise to, of the kinds that show a remark.
ItemOf(db, swipes, e) ==
    IF e.decision = "DENIED" THEN DeniedItem(db, e)
    ELSE IF e.direction = "IN" THEN LateItem(db, e)
    ELSE OvertimeItem(db, DayOf(MainSwipes(swipes), e.employee, e.date))

\* What a user may give a remark to, and what of it is in a window.
SeenBy(db, user) == {e \in db.stored : e.employee \in ScopedEmployees(user, {})}

\* The rows of a window are rows the user may remark on.
LEMMA WindowOfSeen ==
    ASSUME NEW db, NEW user, NEW w, db.stored \in SUBSET Swipes, IsFiniteSet(db.stored)
    PROVE  /\ ScopedEvents(db, user, {}, w)
                  = {e \in SeenBy(db, user) : w.from <= At(e) /\ At(e) <= w.to}
           /\ ScopedEvents(db, user, {}, w) \in SUBSET SeenBy(db, user)
           /\ ScopedEvents(db, user, {}, w) \in SUBSET Swipes
           /\ SeenBy(db, user) \in SUBSET db.stored /\ SeenBy(db, user) \in SUBSET Swipes
           /\ IsFiniteSet(SeenBy(db, user)) /\ IsFiniteSet(ScopedEvents(db, user, {}, w))
<1>1. /\ ScopedEvents(db, user, {}, w) = {e \in SeenBy(db, user) : w.from <= At(e) /\ At(e) <= w.to}
      /\ SeenBy(db, user) \in SUBSET db.stored
  BY DEF ScopedEvents, SeenBy
<1>2. /\ ScopedEvents(db, user, {}, w) \in SUBSET SeenBy(db, user)
      /\ ScopedEvents(db, user, {}, w) \in SUBSET db.stored
  BY <1>1
<1> QED
  BY <1>1, <1>2, FS_Subset

\* A denial's remark is that of the denied swipe.
LEMMA DeniedHasItsRow ==
    ASSUME NEW db, NEW user, NEW w, db.stored \in SUBSET Swipes, IsFiniteSet(db.stored),
           NEW e \in Denied(ScopedEvents(db, user, {}, w))
    PROVE  /\ Target(db, user, DeniedItem(db, e).id) = {e}
           /\ DeniedItem(db, e) = ItemOf(db, ScopedEvents(db, user, {}, w), e)
<1>1. e \in Denied(SeenBy(db, user)) /\ e.decision = "DENIED"
  BY WindowOfSeen DEF Denied
<1>2. \A f \in Denied(SeenBy(db, user)) : f.id = e.id => f = e
  BY <1>1, WindowOfSeen, SwipeRows DEF Denied
<1>3. Target(db, user, DeniedItem(db, e).id) = {f \in Denied(SeenBy(db, user)) : f.id = e.id}
  BY DEF Target, DeniedItem, DeniedId, SeenBy
<1> QED
  BY <1>1, <1>2, <1>3 DEF ItemOf

\* An item of a day that is late in a window is of the first entry of the day: no
\* row before the window is of the same date, for the window begins at a midnight.
LEMMA LateHasItsRow ==
    ASSUME NEW db, NEW user, NEW w, db.stored \in SUBSET Swipes, IsFiniteSet(db.stored),
           w.from \in Int, w.to \in Int, w.from % 86400 = 0,
           NEW e \in LateEntries(ScopedEvents(db, user, {}, w))
    PROVE  /\ Target(db, user, LateItem(db, e).id) = {e}
           /\ LateItem(db, e) = ItemOf(db, ScopedEvents(db, user, {}, w), e)
<1> DEFINE S == ScopedEvents(db, user, {}, w)
           entries == Going("IN", MainSwipes(S))
           day == Going("IN", OnDay(MainSwipes(SeenBy(db, user)), e.employee, e.date))
<1>1. Target(db, user, LateItem(db, e).id) = Earliest(day)
  BY DEF Target, LateItem, DayId, SeenBy
<1>2. PICK g \in entries : e \in Earliest(OnDay(entries, g.employee, g.date))
  BY DEF LateEntries, FirstEntries
<1>3. e.employee = g.employee /\ e.date = g.date /\ e \in entries
  BY <1>2 DEF Earliest, OnDay
<1>4. \A f \in OnDay(entries, e.employee, e.date) \ {e} : Lower(Moment(e), Moment(f))
  BY <1>2, <1>3 DEF Earliest
<1>5. e \in S /\ e \in SeenBy(db, user) /\ e.direction = "IN" /\ e.decision = "GRANTED" /\ IsMain(e)
  BY <1>3, WindowOfSeen DEF MainSwipes, Granted, Going
<1>6. w.from <= At(e) /\ At(e) <= w.to /\ e \in Swipes
  BY <1>5, WindowOfSeen
<1>7. e \in day
  BY <1>5 DEF Going, OnDay, MainSwipes, Granted
<1>8. ASSUME NEW f \in day \ {e}
      PROVE  Lower(Moment(e), Moment(f))
  <2>1. f \in SeenBy(db, user) /\ f.employee = e.employee /\ f.date = e.date /\ f.direction = "IN"
        /\ f.decision = "GRANTED" /\ IsMain(f) /\ f # e
    BY DEF Going, OnDay, MainSwipes, Granted
  <2>2. f \in Swipes
    BY <2>1, WindowOfSeen
  <2>3. CASE f \in S
    <3>1. f \in OnDay(entries, e.employee, e.date) \ {e}
      BY <2>1, <2>3 DEF Going, OnDay, MainSwipes, Granted
    <3> QED
      BY <1>4, <3>1
  <2>4. CASE f \notin S
    <3>1. ~(w.from <= At(f) /\ At(f) <= w.to)
      BY <2>1, <2>4, WindowOfSeen
    <3> DEFINE n == Midnight(e.date)
    <3>2. /\ n \in Nat /\ n % 86400 = 0 /\ At(e) \in Nat /\ At(e) < n + 86400
      BY <1>6, MomentsOfRows
    <3>3. At(f) \in Nat /\ n <= At(f)
      BY <2>1, <2>2, MomentsOfRows
    <3> HIDE DEF n, S
    <3>4. w.from <= n
      BY <1>6, <3>2
    <3>5. At(e) < At(f)
      BY <1>6, <3>1, <3>2, <3>3, <3>4
    <3> QED
      BY <1>6, <2>2, <3>5, EarlierIsLower
  <2> QED
    BY <2>3, <2>4
<1>9. e \in Earliest(day)
  BY <1>7, <1>8 DEF Earliest
<1>10. day \in SUBSET Swipes
  BY WindowOfSeen DEF Going, OnDay, MainSwipes, Granted
<1>11. Earliest(day) = {e}
  <2> HIDE DEF day
  <2> QED
    BY <1>9, <1>10, OneLatestOneEarliest
<1>12. LateItem(db, e) = ItemOf(db, S, e)
  BY <1>5 DEF ItemOf
<1> QED
  BY <1>1, <1>11, <1>12

\* The note of a long day is that of its last exit, whose row a remark goes to.
LEMMA OvertimeHasItsRow ==
    ASSUME NEW db, NEW user, NEW w, db.stored \in SUBSET Swipes, IsFiniteSet(db.stored),
           NEW d \in LongDays(ScopedEvents(db, user, {}, w))
    PROVE  \E e \in db.stored : /\ Target(db, user, OvertimeItem(db, d).id) = {e}
                             /\ OvertimeItem(db, d).note = db.remark[e]
                             /\ OvertimeItem(db, d) = ItemOf(db, ScopedEvents(db, user, {}, w), e)
<1> DEFINE S == ScopedEvents(db, user, {}, w)
           main == MainSwipes(S)
           day == Going("OUT", OnDay(MainSwipes(SeenBy(db, user)), d.employee, d.date))
<1>1. S \in SUBSET Swipes /\ IsFiniteSet(S) /\ S \in SUBSET SeenBy(db, user)
      /\ SeenBy(db, user) \in SUBSET db.stored /\ SeenBy(db, user) \in SUBSET Swipes
      /\ IsFiniteSet(SeenBy(db, user))
  BY WindowOfSeen
<1>2. main \in SUBSET S /\ main \in SUBSET Swipes /\ IsFiniteSet(main)
  <2> HIDE DEF S
  <2> QED
    BY <1>1, MainOfRows
<1>3. d \in Daily(main) /\ d.last # NoTime
  BY DEF LongDays, Overtime, Complete
<1>4. /\ d = DayOf(main, d.employee, d.date)
      /\ Going("OUT", OnDay(main, d.employee, d.date)) # {}
  <2> HIDE DEF main
  <2> QED
    BY <1>2, <1>3, DaysOfRows
<1>5. Going("OUT", OnDay(main, d.employee, d.date)) \subseteq day
  BY <1>1 DEF Going, OnDay, MainSwipes, Granted
<1>6. PICK g \in SeenBy(db, user) : g.employee = d.employee
  BY <1>4, <1>5 DEF Going, OnDay, MainSwipes, Granted
<1>7. Going("OUT", OnDay(MainSwipes(db.stored), d.employee, d.date)) = day
  BY <1>6 DEF Going, OnDay, MainSwipes, Granted, SeenBy
<1>8. day \in SUBSET SeenBy(db, user)
  BY DEF Going, OnDay, MainSwipes, Granted
<1>9. Target(db, user, OvertimeItem(db, d).id) = Latest(day)
  BY DEF Target, OvertimeItem, DayId, SeenBy
<1>10. day # {}
  BY <1>4, <1>5
<1>11. \A e \in day : /\ e.employee = d.employee /\ e.date = d.date
                      /\ e.direction = "OUT" /\ e.decision = "GRANTED"
  BY DEF Going, OnDay, MainSwipes, Granted
<1> HIDE DEF day, main
<1>12. IsFiniteSet(day) /\ day \in SUBSET Swipes
  BY <1>1, <1>8, FS_Subset
<1>13. PICK e \in Latest(day) : e \in day
  BY <1>10, <1>12, LatestAndEarliest
<1>14. Latest(day) = {e}
  BY <1>12, <1>13, OneLatestOneEarliest
<1>15. ExitsOf(db, d) = {e}
  BY <1>7, <1>14 DEF ExitsOf
<1>16. ChooseUnique(ExitsOf(db, d), LAMBDA x : TRUE) = e
  BY <1>15 DEF ChooseUnique
<1>17. OvertimeItem(db, d).note = db.remark[e]
  BY <1>16 DEF OvertimeItem
<1>18. e \in db.stored
  BY <1>1, <1>8, <1>13
<1>19. OvertimeItem(db, d) = ItemOf(db, S, e)
  <2>1. e.employee = d.employee /\ e.date = d.date /\ e.direction = "OUT" /\ e.decision = "GRANTED"
    BY <1>11, <1>13
  <2>2. DayOf(main, e.employee, e.date) = d
    BY <1>4, <2>1
  <2> HIDE DEF S
  <2> QED
    BY <2>1, <2>2 DEF ItemOf, main
<1> QED
  BY <1>9, <1>14, <1>17, <1>18, <1>19

\* Every item that shows a remark has one row, which the item can be told from.
LEMMA ItemHasItsRow ==
    ASSUME NEW db, NEW user, NEW w, db.stored \in SUBSET Swipes, IsFiniteSet(db.stored),
           w.from \in Int, w.to \in Int, w.from % 86400 = 0,
           NEW item \in Listed(db, ScopedEvents(db, user, {}, w)), item.id.kind # "unpaired"
    PROVE  \E e \in db.stored : /\ Target(db, user, item.id) = {e}
                             /\ item.note = db.remark[e]
                             /\ item = ItemOf(db, ScopedEvents(db, user, {}, w), e)
<1> DEFINE S == ScopedEvents(db, user, {}, w)
<1>1. S \in SUBSET db.stored /\ S \in SUBSET Swipes /\ IsFiniteSet(S)
  BY WindowOfSeen
<1> HIDE DEF S
<1>2. LateEntries(S) \in SUBSET S /\ Denied(S) \in SUBSET S
  <2>1. FirstEntries(S) \in SUBSET S
    BY <1>1, MainOfRows
  <2> QED
    BY <2>1 DEF LateEntries, Denied
<1>3. CASE \E d \in LongDays(S) : item = OvertimeItem(db, d)
  BY <1>3, OvertimeHasItsRow DEF S
<1>4. CASE \E e \in LateEntries(S) : item = LateItem(db, e)
  <2>1. PICK e \in LateEntries(S) : item = LateItem(db, e)
    BY <1>4
  <2>2. Target(db, user, item.id) = {e} /\ item = ItemOf(db, S, e)
    BY <2>1, LateHasItsRow DEF S
  <2>3. item.note = db.remark[e]
    BY <2>1 DEF LateItem
  <2> QED
    BY <1>1, <1>2, <2>2, <2>3 DEF S
<1>5. CASE \E d \in OpenDays(S) : item = UnpairedItem(d)
  BY <1>5 DEF UnpairedItem, UnpairedId
<1>6. CASE \E e \in Denied(S) : item = DeniedItem(db, e)
  <2>1. PICK e \in Denied(S) : item = DeniedItem(db, e)
    BY <1>6
  <2>2. Target(db, user, item.id) = {e} /\ item = ItemOf(db, S, e)
    BY <2>1, DeniedHasItsRow DEF S
  <2>3. item.note = db.remark[e]
    BY <2>1 DEF DeniedItem
  <2> QED
    BY <1>1, <1>2, <2>2, <2>3 DEF S
<1> QED
  BY <1>3, <1>4, <1>5, <1>6 DEF Listed, S

\* Sets that a function matches one to one have as many members.
LEMMA MatchedSets ==
    ASSUME NEW S, IsFiniteSet(S), NEW T, NEW f,
           \A x \in S : f[x] \in T,
           \A y \in T : \E x \in S : f[x] = y,
           \A x, y \in S : f[x] = f[y] => x = y
    PROVE  Cardinality(S) = Cardinality(T)
<1> DEFINE g == [x \in S |-> f[x]]
<1>1. g \in [S -> T]
  OBVIOUS
<1>2. g \in Surjection(S, T) /\ g \in Injection(S, T)
  BY <1>1 DEF Surjection, Injection, IsInjective
<1> HIDE DEF g
<1> QED
  BY <1>2, FS_Surjection

----------------------------------------------------------------------------
(* The specification.                                                       *)

\* The inductive invariant: ever finitely many rows, and a state for every employee.
ReportsInv ==
    /\ ReportsTypeOK
    /\ IsFiniteSet(stored)
    /\ DOMAIN known = Employees

\* An update writes rows that are there.
LEMMA TargetsAreStored ==
    ASSUME NEW user, NEW id \in AnomalyIds
    PROVE  Target(Tables, user, id) \in SUBSET stored
<1>1. id.kind \in {"denied", "late", "overtime", "unpaired"}
  BY DEF AnomalyIds, DeniedId, DayId, UnpairedId
<1>2. CASE id.kind = "denied"
  BY <1>2 DEF Target, Denied, Tables
<1>3. CASE id.kind = "late"
  BY <1>3 DEF Target, Tables, Earliest, Going, OnDay, MainSwipes, Granted
<1>4. CASE id.kind = "overtime"
  BY <1>4 DEF Target, Tables, Latest, Going, OnDay, MainSwipes, Granted
<1>5. CASE id.kind = "unpaired"
  BY <1>5 DEF Target, Tables, Latest, Going, OnDay, MainSwipes, Granted
<1> QED
  BY <1>1, <1>2, <1>3, <1>4, <1>5

\* There are no rows at the start.
LEMMA InitReports == Init => ReportsInv
BY FS_EmptySet DEF Init, ReportsInv, ReportsTypeOK

\* Neither a save nor a remark leaves the invariant.
LEMMA NextReports == ReportsInv /\ [Next]_tables => ReportsInv'
<1> SUFFICES ASSUME ReportsInv, [Next]_tables
             PROVE  ReportsInv'
  OBVIOUS
<1> USE DEF ReportsInv, ReportsTypeOK
<1>1. ASSUME NEW e \in Swipes, Save(e)
      PROVE  ReportsInv'
  <2> USE <1>1 DEF Save
  <2>1. e.employee \in Employees
    BY MomentsOfRows
  <2>2. IsFiniteSet(stored')
    BY FS_AddElement
  <2>3. stored' \subseteq Swipes /\ DOMAIN known' = Employees
    OBVIOUS
  <2>4. /\ remark' \in [Swipes -> Notes \union {NoNote}]
        /\ \A f \in Swipes \ stored' : remark'[f] = NoNote
    OBVIOUS
  <2>5. ASSUME NEW p \in Employees
        PROVE  \/ known'[p] = Unknown
               \/ \E f \in stored' : /\ f.employee = p
                                     /\ known'[p] = [state |-> f.state, seen |-> At(f)]
    <3>1. CASE p = e.employee
      <4>1. known'[p] = [state |-> e.state, seen |-> At(e)] /\ e \in stored'
        BY <2>1, <3>1
      <4> QED
        BY <3>1, <4>1
    <3>2. CASE p # e.employee
      <4>1. known'[p] = known[p]
        BY <2>1, <3>2
      <4> QED
        BY <4>1
    <3> QED
      BY <3>1, <3>2
  <2>6. \A p \in Employees :
           (\/ known[p] = Unknown
            \/ \E f \in stored : f.employee = p /\ known[p] = [state |-> f.state, seen |-> At(f)])'
    BY <2>5
  <2> QED
    BY <2>2, <2>3, <2>4, <2>6
<1>2. ASSUME NEW user \in Users, NEW id \in AnomalyIds, NEW note \in Notes \union {NoNote},
             UpdateRemark(user, id, note)
      PROVE  ReportsInv'
  <2>1. Target(Tables, user, id) \in SUBSET stored
    BY TargetsAreStored
  <2>2. /\ remark' = [e \in Swipes |-> IF e \in Target(Tables, user, id) THEN note ELSE remark[e]]
        /\ UNCHANGED <<stored, known>>
    BY <1>2 DEF UpdateRemark
  <2>3. remark' \in [Swipes -> Notes \union {NoNote}]
    BY <2>2
  <2>4. \A e \in Swipes \ stored' : remark'[e] = NoNote
    BY <2>1, <2>2
  <2> QED
    BY <2>2, <2>3, <2>4
<1>3. CASE UNCHANGED tables
  BY <1>3 DEF tables
<1> QED
  BY <1>1, <1>2, <1>3 DEF Next

\* So it always holds.
LEMMA ReportsInvHolds == Spec => []ReportsInv
BY InitReports, NextReports, PTL DEF Spec

\* Only rows have remarks, and what an employee is known by is one of their rows,
\* whatever swipes are saved in whatever order and whatever items are remarked on.
THEOREM ReportsTypeCorrect == Spec => []ReportsTypeOK
<1>1. ReportsInv => ReportsTypeOK
  BY DEF ReportsInv
<1> QED
  BY <1>1, ReportsInvHolds, PTL

\* The time of the requests is a moment.
LEMMA NowType == Now \in Int
<1>1. Ordinal(Today) \in Int /\ NowTime \in Int
  BY RequestsAreDated, OrdinalType, TimesOfDayType
<1>2. Epoch \in Int
  <2> DEFINE first == [year |-> 2020, month |-> 1, day |-> 1]
  <2>1. IsDate(first)
    BY MonthDaysType DEF IsDate
  <2> HIDE DEF first
  <2>2. Ordinal(first) \in Int
    BY <2>1, OrdinalType
  <2> QED
    BY <2>2 DEF Epoch, first
<1> QED
  BY <1>1, <1>2 DEF Now, Midnight, Days

\* A remark given to an item of the compliance list is the note that item shows, and
\* no two items of a list share a row: for any users, scopes and swipes, and for any
\* window that begins at a midnight, wherever it ends.
THEOREM RemarksAreShown == Spec => []RemarkShown
<1>1. ReportsInv => RemarkShown
  <2> SUFFICES ASSUME ReportsInv, NEW user \in Users,
                      NEW w \in {AllDays} \union {v \in Windows : v.from % 86400 = 0}
               PROVE  EachShowsItsOwn(user, NotedItems(user, w))
    BY DEF RemarkShown
  <2> DEFINE noted == NotedItems(user, w)
  <2>1. /\ stored \in SUBSET Swipes /\ IsFiniteSet(stored)
        /\ Tables.stored = stored /\ Tables.remark = remark
    BY DEF ReportsInv, ReportsTypeOK, Tables
  <2>2. w.from \in Int /\ w.to \in Int /\ w.from % 86400 = 0
    BY NowType, WindowsOfMoments DEF AllDays
  <2>3. /\ noted \in SUBSET Listed(Tables, ScopedEvents(Tables, user, {}, w))
        /\ \A item \in noted : item.id.kind # "unpaired"
    <3> DEFINE list == ComplianceAnomalies(Tables, user, {}, "all", w, 200, 0).items
    <3>1. list \in Seq(Listed(Tables, ScopedEvents(Tables, user, {}, w)))
      BY <2>1, ListHasItems
    <3>2. noted = {item \in Range(list) : item.id.kind # "unpaired"}
      BY DEF NotedItems
    <3> HIDE DEF list, noted
    <3> QED
      BY <3>1, <3>2 DEF Range
  <2> HIDE DEF noted
  <2> DEFINE S == ScopedEvents(Tables, user, {}, w)
             itemOf == [e \in stored |-> ItemOf(Tables, S, e)]
             rows == UNION {Target(Tables, user, item.id) : item \in noted}
  <2>5. ASSUME NEW item \in noted
        PROVE  \E e \in stored : /\ Target(Tables, user, item.id) = {e}
                                 /\ item.note = remark[e] /\ item = ItemOf(Tables, S, e)
    <3>1. item \in Listed(Tables, ScopedEvents(Tables, user, {}, w)) /\ item.id.kind # "unpaired"
      BY <2>3
    <3> QED
      BY <2>1, <2>2, <3>1, ItemHasItsRow
  <2> HIDE DEF S
  <2>6. \A item \in noted : \E e \in stored :
            Target(Tables, user, item.id) = {e} /\ item = itemOf[e]
    BY <2>5
  <2> HIDE DEF itemOf
  <2>7. \A e \in rows : /\ e \in stored /\ itemOf[e] \in noted
                         /\ Target(Tables, user, itemOf[e].id) = {e}
    BY <2>6
  <2>8. \A item \in noted : \E e \in rows : itemOf[e] = item
    BY <2>6
  <2>9. \A e, f \in rows : itemOf[e] = itemOf[f] => e = f
    BY <2>7
  <2> HIDE DEF rows
  <2>10. IsFiniteSet(rows)
    <3>1. rows \in SUBSET stored
      BY <2>7
    <3> QED
      BY <2>1, <3>1, FS_Subset
  <2>11. Cardinality(rows) = Cardinality(noted)
    BY <2>7, <2>8, <2>9, <2>10, MatchedSets
  <2>12. \A item \in noted : \E e \in Target(Tables, user, item.id) : item.note = remark[e]
    BY <2>5
  <2> QED
    BY <2>11, <2>12 DEF rows, noted, EachShowsItsOwn
<1> QED
  BY <1>1, ReportsInvHolds, PTL
=============================================================================
