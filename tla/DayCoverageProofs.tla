------------------------- MODULE DayCoverageProofs --------------------------
(* For days of any length and any resolutions that divide the hour: rows    *)
(* are filed under their own instants, and the queries that look for holes  *)
(* see them all and no others.                                              *)
EXTENDS DayCoverage, FiniteSetTheorems, WellFoundedInduction, TLAPS

-----------------------------------------------------------------------------
(* Multiples, quotients and remainders.                                     *)

LEMMA Multiples ==
  ASSUME NEW d \in Int, NEW e \in Int, NEW L \in Nat
  PROVE  /\ d * L \in Int /\ (d + 1) * L = d * L + L
         /\ d < e => d * L + L <= e * L
<1>1. d * L \in Int /\ (d + 1) * L = d * L + L
  OBVIOUS
<1>2. ASSUME d < e PROVE d * L + L <= e * L
  <2>1. PICK k \in Nat : e = d + 1 + k
    <3>1. e - d - 1 \in Nat /\ e = d + 1 + (e - d - 1)
      BY <1>2
    <3> QED
      BY <3>1
  <2>2. e * L = d * L + L + k * L
    BY <2>1
  <2>3. k * L \in Nat
    OBVIOUS
  <2>4. e * L \in Int
    OBVIOUS
  <2> QED
    BY <1>1, <2>2, <2>3, <2>4
<1> QED
  BY <1>1, <1>2

LEMMA Quotient ==
  ASSUME NEW x \in Int, NEW d \in Int, NEW L \in Nat \ {0}
  PROVE  x \div L = d <=> d * L <= x /\ x < (d + 1) * L
<1> DEFINE q == x \div L
<1>1. q \in Int /\ q * L <= x /\ x < (q + 1) * L
  OBVIOUS
<1> HIDE DEF q
<1>2. ASSUME d * L <= x, x < (d + 1) * L PROVE q = d
  <2>1. ~(q < d)
    BY <1>1, <1>2, Multiples
  <2>2. ~(d < q)
    BY <1>1, <1>2, Multiples
  <2> QED
    BY <1>1, <2>1, <2>2
<1> QED
  BY <1>1, <1>2 DEF q

LEMMA Transitions ==
  /\ Hour \in Nat \ {0} /\ DayLength \in Nat \ {0} /\ DayLength >= 3 * Hour
  /\ SpringDay \in Nat /\ AutumnDay \in Nat /\ SpringDay < AutumnDay
  BY AxisOK

(* Where a settlement day begins: an hour earlier in summer.                *)
LEMMA DayStart ==
  ASSUME NEW d \in Int
  PROVE  ToUtc(d * DayLength, 0) =
           d * DayLength - (IF SpringDay < d /\ d <= AutumnDay
                            THEN 2 * Hour ELSE Hour)
<1> DEFINE x == d * DayLength
           s == SpringDay * DayLength
           u == AutumnDay * DayLength
<1>1. /\ x \in Int /\ s \in Int /\ u \in Int
      /\ d < SpringDay => x + DayLength <= s
      /\ d = SpringDay => x = s
      /\ SpringDay < d => s + DayLength <= x
      /\ d < AutumnDay => x + DayLength <= u
      /\ d = AutumnDay => x = u
      /\ AutumnDay < d => u + DayLength <= x
  BY Transitions, Multiples
<1>2. utcoffset(x, 0) = IF s + Hour + 2 * Hour <= x /\ x < u + Hour + 2 * Hour
                        THEN 2 * Hour ELSE Hour
  BY DEF utcoffset, Spring, Autumn
<1>3. ToUtc(x, 0) = x - utcoffset(x, 0)
  BY DEF ToUtc
<1> HIDE DEF x, s, u
<1>4. s + Hour + 2 * Hour <= x <=> SpringDay < d
  BY <1>1, Transitions
<1>5. x < u + Hour + 2 * Hour <=> d <= AutumnDay
  BY <1>1, Transitions
<1> QED
  BY <1>2, <1>3, <1>4, <1>5 DEF x

(* "local midnight is never the transition": the two calls by which         *)
(* settlement_day guards its bounds raise on no day, whatever the days of   *)
(* the transitions and however long a day is (timeaxis.py).                 *)
THEOREM MidnightIsUnambiguous ==
  ASSUME NEW d \in Int
  PROVE  assert_unambiguous(d * DayLength)
<1> DEFINE x == d * DayLength
           s == SpringDay * DayLength
           u == AutumnDay * DayLength
<1>1. /\ x \in Int /\ s \in Int /\ u \in Int
      /\ SpringDay < d \/ x <= s
      /\ SpringDay < d => s + DayLength <= x
      /\ AutumnDay < d \/ x <= u
      /\ AutumnDay < d => u + DayLength <= x
  BY Transitions, Multiples
<1>2. \A fold \in {0, 1} :
        utcoffset(x, fold) = IF SpringDay < d /\ d <= AutumnDay
                             THEN 2 * Hour ELSE Hour
  <2>1. utcoffset(x, 0) = IF s + 3 * Hour <= x /\ x < u + 3 * Hour
                          THEN 2 * Hour ELSE Hour
    BY <1>1, Transitions DEF utcoffset, Spring, Autumn
  <2>2. utcoffset(x, 1) = IF s + 2 * Hour <= x /\ x < u + 2 * Hour
                          THEN 2 * Hour ELSE Hour
    BY <1>1, Transitions DEF utcoffset, Spring, Autumn
  <2> HIDE DEF x, s, u
  <2> QED
    BY <1>1, <2>1, <2>2, Transitions
<1>3. Local(ToUtc(x, 0)) = x
  <2>1. ToUtc(x, 0) = x - utcoffset(x, 0)
    BY DEF ToUtc
  <2>2. \A t \in Int : Local(t) = t + (IF s + Hour <= t /\ t < u + Hour
                                      THEN 2 * Hour ELSE Hour)
    BY DEF Local, Spring, Autumn
  <2> HIDE DEF x, s, u
  <2> QED
    BY <1>1, <1>2, <2>1, <2>2, Transitions
<1> QED
  BY <1>2, <1>3 DEF assert_unambiguous

(* The Paris date of an instant is the settlement day it lies in: the days  *)
(* tile the axis, through both transitions.                                 *)
LEMMA DayOfInstant ==
  ASSUME NEW t \in Int, NEW d \in Int
  PROVE  /\ settlement_day(d).start \in Int /\ settlement_day(d).end \in Int
         /\ LocalDay(t) \in Int
         /\ LocalDay(t) = d <=> t \in Window(d)
<1> DEFINE x == d * DayLength
           y == (d + 1) * DayLength
           s == SpringDay * DayLength
           u == AutumnDay * DayLength
<1>1. /\ x \in Int /\ s \in Int /\ u \in Int /\ y = x + DayLength
      /\ d < SpringDay => x + DayLength <= s
      /\ d = SpringDay => x = s
      /\ SpringDay < d => s + DayLength <= x
      /\ d < AutumnDay => x + DayLength <= u
      /\ d = AutumnDay => x = u
      /\ AutumnDay < d => u + DayLength <= x
      /\ s + DayLength <= u
  BY Transitions, Multiples
<1>2. Local(t) = t + (IF s + Hour <= t /\ t < u + Hour THEN 2 * Hour ELSE Hour)
  BY DEF Local, Spring, Autumn
<1>3. Local(t) \in Int
  BY <1>1, <1>2, Transitions
<1>4. LocalDay(t) = d <=> x <= Local(t) /\ Local(t) < y
  BY <1>3, Quotient, Transitions DEF LocalDay
<1>5. LocalDay(t) \in Int
  BY <1>3, Transitions DEF LocalDay
<1>6. settlement_day(d).start =
        x - (IF SpringDay < d /\ d <= AutumnDay THEN 2 * Hour ELSE Hour)
  BY DayStart DEF settlement_day
<1>7. settlement_day(d).end =
        y - (IF SpringDay < d + 1 /\ d + 1 <= AutumnDay THEN 2 * Hour ELSE Hour)
  BY DayStart DEF settlement_day
<1> HIDE DEF x, y, s, u
<1>8. settlement_day(d).start \in Int /\ settlement_day(d).end \in Int
  BY <1>1, <1>6, <1>7, Transitions
<1>9. x <= Local(t) /\ Local(t) < y <=>
        settlement_day(d).start <= t /\ t < settlement_day(d).end
  <2>1. CASE d < SpringDay
    BY <1>1, <1>2, <1>6, <1>7, <2>1, Transitions
  <2>2. CASE d = SpringDay
    BY <1>1, <1>2, <1>6, <1>7, <2>2, Transitions
  <2>3. CASE SpringDay < d /\ d < AutumnDay
    BY <1>1, <1>2, <1>6, <1>7, <2>3, Transitions
  <2>4. CASE d = AutumnDay
    BY <1>1, <1>2, <1>6, <1>7, <2>4, Transitions
  <2>5. CASE AutumnDay < d
    BY <1>1, <1>2, <1>6, <1>7, <2>5, Transitions
  <2> QED
    BY <2>1, <2>2, <2>3, <2>4, <2>5, Transitions
<1>10. t \in Window(d) <=> settlement_day(d).start <= t /\ t < settlement_day(d).end
  BY <1>8 DEF Window
<1> QED
  BY <1>4, <1>5, <1>8, <1>9, <1>10

(* A day lies within a day's length of the UTC day of its name.             *)
LEMMA DayBounds ==
  ASSUME NEW d \in Int
  PROVE  /\ (d - 1) * DayLength <= settlement_day(d).start
         /\ settlement_day(d).end <= (d + 2) * DayLength
         /\ settlement_day(d).start < settlement_day(d).end
         /\ settlement_day(d).end = settlement_day(d + 1).start
<1> DEFINE x == d * DayLength
<1>1. /\ x \in Int /\ (d - 1) * DayLength = x - DayLength
      /\ (d + 1) * DayLength = x + DayLength
      /\ (d + 2) * DayLength = x + DayLength + DayLength
  <2>1. /\ (d - 1 + 1) * DayLength = (d - 1) * DayLength + DayLength
        /\ (d + 1 + 1) * DayLength = (d + 1) * DayLength + DayLength
        /\ (d - 1) * DayLength \in Int
    BY Transitions, Multiples
  <2> QED
    BY <2>1, Transitions, Multiples
<1>2. settlement_day(d).start =
        x - (IF SpringDay < d /\ d <= AutumnDay THEN 2 * Hour ELSE Hour)
  BY DayStart DEF settlement_day
<1>3. settlement_day(d).end = (x + DayLength)
        - (IF SpringDay < d + 1 /\ d + 1 <= AutumnDay THEN 2 * Hour ELSE Hour)
  <2>1. settlement_day(d).end = (d + 1) * DayLength
          - (IF SpringDay < d + 1 /\ d + 1 <= AutumnDay THEN 2 * Hour ELSE Hour)
    BY DayStart DEF settlement_day
  <2> QED
    BY <1>1, <2>1
<1>4. settlement_day(d).end = settlement_day(d + 1).start
  BY DEF settlement_day
<1> HIDE DEF x
<1>5. (d - 1) * DayLength <= settlement_day(d).start
  BY <1>1, <1>2, Transitions
<1>6. settlement_day(d).end <= (d + 2) * DayLength
  BY <1>1, <1>3, Transitions
<1>7. settlement_day(d).start < settlement_day(d).end
  BY <1>1, <1>2, <1>3, Transitions
<1> QED
  BY <1>4, <1>5, <1>6, <1>7

LEMMA ModZero ==
  ASSUME NEW x \in Int, NEW r \in Nat \ {0}
  PROVE  x % r = 0 <=> \E k \in Int : x = k * r
<1>1. ASSUME x % r = 0 PROVE \E k \in Int : x = k * r
  <2>1. x = (x \div r) * r /\ x \div r \in Int
    BY <1>1
  <2> QED
    BY <2>1
<1>2. ASSUME NEW k \in Int, x = k * r PROVE x % r = 0
  <2>1. (k + 1) * r = k * r + r /\ k * r \in Int
    BY Multiples
  <2>2. x \div r = k
    BY <1>2, <2>1, Quotient
  <2>3. x = (x \div r) * r + (x % r) /\ (x % r) \in Int
    OBVIOUS
  <2> DEFINE m == x % r
  <2>4. x = k * r + m /\ m \in Int
    BY <2>2, <2>3
  <2> HIDE DEF m
  <2>5. m = 0
    BY <1>2, <2>1, <2>4
  <2> QED
    BY <2>5 DEF m
<1> QED
  BY <1>1, <1>2

LEMMA ModSums ==
  ASSUME NEW r \in Nat \ {0}, NEW a \in Int, NEW b \in Int,
         a % r = 0, b % r = 0
  PROVE  /\ (a + b) % r = 0 /\ (a - b) % r = 0
         /\ \A d \in Int : (d * a) % r = 0
<1>1. PICK j \in Int : a = j * r
  BY ModZero
<1>2. PICK k \in Int : b = k * r
  BY ModZero
<1>3. a + b = (j + k) * r /\ j + k \in Int
  BY <1>1, <1>2
<1>4. a - b = (j - k) * r /\ j - k \in Int
  BY <1>1, <1>2
<1>5. (a + b) % r = 0
  <2>1. a + b \in Int
    OBVIOUS
  <2> QED
    BY <1>3, <2>1, ModZero
<1>6. (a - b) % r = 0
  <2>1. a - b \in Int
    OBVIOUS
  <2> QED
    BY <1>4, <2>1, ModZero
<1>7. ASSUME NEW d \in Int
      PROVE  (d * a) % r = 0
  <2>1. d * a \in Int /\ d * j \in Int /\ d * a = (d * j) * r
    BY <1>1
  <2> QED
    BY <2>1, ModZero
<1> QED
  BY <1>5, <1>6, <1>7

-----------------------------------------------------------------------------
(* What the queries say, of any rows at instants.                           *)

Instants == \A r \in bronze : r.valid_time \in Int

LEMMA MissingIsEmpty ==
  ASSUME Instants
  PROVE  MissingMeansEmpty
<1> SUFFICES ASSUME NEW start \in Days, NEW end \in Days, NEW day \in start .. end
             PROVE  day \in missing_settlement_days(start, end) <=>
                      ~\E r \in bronze : r.valid_time \in Window(day)
  BY DEF MissingMeansEmpty, missing_settlement_days
<1>1. start \in Int /\ end \in Int /\ day \in Int
  BY DEF Days
<1>2. ASSUME NEW r \in bronze, r.valid_time \in Window(day)
      PROVE  r \in RowsBetween(start - 1, end + 2)
  <2>1. /\ settlement_day(day).start <= r.valid_time
        /\ r.valid_time < settlement_day(day).end
        /\ settlement_day(day).start \in Int /\ settlement_day(day).end \in Int
        /\ r.valid_time \in Int
    BY <1>1, <1>2, DayOfInstant DEF Window, Instants
  <2>2. /\ (day - 1) * DayLength <= settlement_day(day).start
        /\ settlement_day(day).end <= (day + 2) * DayLength
    BY <1>1, DayBounds
  <2>3. (start - 1) * DayLength <= (day - 1) * DayLength
    <3>1. start - 1 < day - 1 \/ start - 1 = day - 1
      BY <1>1
    <3>2. start - 1 \in Int /\ day - 1 \in Int
      BY <1>1
    <3> QED
      BY <3>1, <3>2, Transitions, Multiples
  <2>4. (day + 2) * DayLength <= (end + 2) * DayLength
    <3>1. day + 2 < end + 2 \/ day + 2 = end + 2
      BY <1>1
    <3>2. day + 2 \in Int /\ end + 2 \in Int
      BY <1>1
    <3> QED
      BY <3>1, <3>2, Transitions, Multiples
  <2>5. /\ (start - 1) * DayLength \in Int /\ (day - 1) * DayLength \in Int
        /\ (day + 2) * DayLength \in Int /\ (end + 2) * DayLength \in Int
    BY <1>1, Transitions
  <2>6. (start - 1) * DayLength <= r.valid_time
    BY <2>1, <2>2, <2>3, <2>5
  <2>7. r.valid_time < (end + 2) * DayLength
    BY <2>1, <2>2, <2>4, <2>5
  <2> QED
    BY <2>6, <2>7 DEF RowsBetween
<1>3. \A r \in bronze : LocalDay(r.valid_time) = day <=> r.valid_time \in Window(day)
  BY <1>1, DayOfInstant DEF Instants
<1>4. day \in missing_settlement_days(start, end) <=>
        ~\E r \in RowsBetween(start - 1, end + 2) : LocalDay(r.valid_time) = day
  BY DEF missing_settlement_days
<1>5. \A r \in RowsBetween(start - 1, end + 2) : r \in bronze
  BY DEF RowsBetween
<1> QED
  BY <1>2, <1>3, <1>4, <1>5

(* The count of a day is the length of its window exactly when every period *)
(* is there: the rows of the date are those of the window.                  *)
LEMMA GreenIsCovered ==
  ASSUME Instants
  PROVE  GreenMeansCovered
<1> SUFFICES ASSUME NEW day \in DaysHeld, \E later \in DaysHeld : day < later
             PROVE  day \notin Flagged <=>
                      /\ \A t \in Window(day) : \E r \in bronze : r.valid_time = t
                      /\ Cardinality({r.series : r \in
                           {q \in bronze : q.valid_time \in Window(day)}}) >= MinSeries
  BY DEF GreenMeansCovered
<1> DEFINE from  == settlement_day(day).start
           to    == settlement_day(day).end
           Times(rows) == {r.valid_time : r \in rows}
<1>1. day \in Int
  BY DayOfInstant DEF DaysHeld, Instants
<1>2. from \in Int /\ to \in Int /\ from < to /\ Window(day) = from .. to - 1
  BY <1>1, DayOfInstant, DayBounds DEF Window
<1>3. RowsOf(day) = {q \in bronze : q.valid_time \in Window(day)}
  BY <1>1, DayOfInstant DEF RowsOf, Instants
<1>4. IsFiniteSet(Window(day)) /\ Cardinality(Window(day)) = expected_periods(day)
  <2>1. expected_periods(day) = to - from
    BY <1>2 DEF expected_periods, period_count
  <2> HIDE DEF from, to
  <2>2. IsFiniteSet(from .. to - 1) /\ Cardinality(from .. to - 1) = to - from
    BY <1>2, FS_Interval
  <2> QED
    BY <1>2, <2>1, <2>2
<1>5. ASSUME NEW rows \in SUBSET RowsOf(day)
      PROVE  /\ PeriodsOf(rows) <= expected_periods(day)
             /\ PeriodsOf(rows) = expected_periods(day) <=> Times(rows) = Window(day)
  <2>1. Times(rows) \subseteq Window(day)
    BY <1>3
  <2>2. PeriodsOf(rows) = Cardinality(Times(rows))
    BY DEF PeriodsOf
  <2> HIDE DEF Times
  <2> QED
    BY <1>4, <2>1, <2>2, FS_Subset
<1>6. Times(RowsOf(day)) = Window(day) <=>
        \A t \in Window(day) : \E r \in bronze : r.valid_time = t
  BY <1>3
<1>7. \A s \in Series :
        PeriodsOf({r \in RowsOf(day) : r.series = s}) <= expected_periods(day)
  <2>1. \A s \in Series : {r \in RowsOf(day) : r.series = s} \in SUBSET RowsOf(day)
    OBVIOUS
  <2> QED
    BY <1>5, <2>1
<1>8. Complete(day) <=> /\ Times(RowsOf(day)) = Window(day)
                        /\ SeriesOf(RowsOf(day)) >= MinSeries
  <2>1. PeriodsOf(RowsOf(day)) = expected_periods(day) <=>
          Times(RowsOf(day)) = Window(day)
    BY <1>5
  <2> HIDE DEF Times
  <2> QED
    BY <1>7, <2>1 DEF Complete
<1>9. day \notin Flagged <=> Complete(day)
  BY DEF Flagged
<1>10. SeriesOf(RowsOf(day)) = Cardinality({r.series : r \in
         {q \in bronze : q.valid_time \in Window(day)}})
  BY <1>3 DEF SeriesOf
<1> QED
  BY <1>6, <1>8, <1>9, <1>10

-----------------------------------------------------------------------------
(* What is published lies on the grid of its series, within the axis; a row *)
(* is a published figure at its own instant.                                *)

PublishedOK ==
  \A p \in published : \E s \in Series, t \in Axis :
    t % Resolution[s] = 0 /\ p = [series |-> s, figure |-> Figure(t)]

RowsOK ==
  \A r \in bronze : \E s \in Series, t \in Axis :
    /\ [series |-> s, figure |-> Figure(t)] \in published
    /\ Figure(t).fit
    /\ r = [series |-> s, resolution |-> Resolution[s], valid_time |-> t,
            figure |-> Figure(t)]

IInv ==
  /\ now \in Int
  /\ publishes \in 0 .. MaxPublished /\ fetches \in 0 .. MaxFetches
  /\ PublishedOK /\ RowsOK

LEMMA DaysInOrder ==
  ASSUME NEW day \in Days
  PROVE  /\ settlement_day(0).start <= settlement_day(day).start
         /\ settlement_day(day).end <= settlement_day(LastDay).end
         /\ settlement_day(0).start \in Int /\ settlement_day(LastDay).end \in Int
         /\ settlement_day(day).start \in Int /\ settlement_day(day).end \in Int
         /\ Window(day) \subseteq Axis
<1>1. day \in Int /\ 0 \in Int /\ LastDay \in Int /\ 0 <= day /\ day <= LastDay
  BY CoverageOK DEF Days
<1>2. ASSUME NEW d \in Int, NEW e \in Int, d <= e
      PROVE  /\ settlement_day(d).start <= settlement_day(e).start
             /\ settlement_day(d).start \in Int /\ settlement_day(d).end \in Int
  <2>1. settlement_day(d).start \in Int /\ settlement_day(d).end \in Int
    <3>1. 0 \in Int
      OBVIOUS
    <3> QED
      BY <3>1, DayOfInstant
  <2>2. CASE d = e
    BY <2>1, <2>2
  <2>3. CASE d < e
    <3> DEFINE x == d * DayLength
               y == e * DayLength
    <3>1. x \in Int /\ y \in Int /\ x + DayLength <= y
      BY <2>3, Transitions, Multiples
    <3>2. settlement_day(d).start =
            x - (IF SpringDay < d /\ d <= AutumnDay THEN 2 * Hour ELSE Hour)
      BY DayStart DEF settlement_day
    <3>3. settlement_day(e).start =
            y - (IF SpringDay < e /\ e <= AutumnDay THEN 2 * Hour ELSE Hour)
      BY DayStart DEF settlement_day
    <3> HIDE DEF x, y
    <3> QED
      BY <2>1, <3>1, <3>2, <3>3, Transitions
  <2> QED
    BY <1>2, <2>1, <2>2, <2>3
<1>3. settlement_day(0).start <= settlement_day(day).start
  BY <1>1, <1>2
<1>4. settlement_day(day).end <= settlement_day(LastDay).end
  <2>1. settlement_day(day + 1).start <= settlement_day(LastDay + 1).start
    <3>1. day + 1 \in Int /\ LastDay + 1 \in Int /\ day + 1 <= LastDay + 1
      BY <1>1
    <3> QED
      BY <1>2, <3>1
  <2> QED
    BY <1>1, <2>1, DayBounds
<1>5. /\ settlement_day(0).start \in Int /\ settlement_day(LastDay).end \in Int
      /\ settlement_day(day).start \in Int /\ settlement_day(day).end \in Int
  BY <1>1, <1>2
<1>6. Window(day) \subseteq Axis
  BY <1>3, <1>4, <1>5 DEF Window, Axis
<1> QED
  BY <1>3, <1>4, <1>5, <1>6

(* A day begins, and ends, on the grid of every series.                     *)
LEMMA DayAligned ==
  ASSUME NEW s \in Series, NEW d \in Int
  PROVE  /\ settlement_day(d).start % Resolution[s] = 0
         /\ settlement_day(d).end % Resolution[s] = 0
<1> DEFINE r == Resolution[s]
<1>1. /\ r \in Nat \ {0} /\ r \in Int /\ Hour % r = 0 /\ DayLength % r = 0
      /\ Hour \in Int /\ DayLength \in Int /\ 2 \in Int
  BY CoverageOK, Transitions
<1> HIDE DEF r
<1>2. ASSUME NEW e \in Int
      PROVE  settlement_day(e).start % r = 0
  <2> DEFINE x == e * DayLength
  <2>1. x \in Int /\ x % r = 0
    <3>1. (e * DayLength) % r = 0
      BY <1>1, ModSums
    <3> QED
      BY <1>1, <3>1
  <2>2. (2 * Hour) % r = 0
    BY <1>1, ModSums
  <2>3. settlement_day(e).start = x - 2 * Hour \/ settlement_day(e).start = x - Hour
    BY DayStart DEF settlement_day
  <2> HIDE DEF x
  <2>4. (x - 2 * Hour) % r = 0 /\ (x - Hour) % r = 0
    <3>1. 2 * Hour \in Int
      BY <1>1
    <3> QED
      BY <1>1, <2>1, <2>2, <3>1, ModSums
  <2> QED
    BY <2>3, <2>4
<1>3. settlement_day(d).start % r = 0
  BY <1>2
<1>4. settlement_day(d + 1).start % r = 0
  BY <1>2
<1> QED
  BY <1>3, <1>4, DayBounds DEF r

LEMMA PublishStep ==
  ASSUME IInv, NEW day \in Days, NEW series \in Series, NEW part \in Parts,
         Publish(day, series, part)
  PROVE  IInv'
<1> DEFINE window == settlement_day(day)
           low    == window.start + part[1] * Hour
           high   == window.start + part[2] * Hour - 1
           times  == {t \in low .. high :
                        t < window.end /\ (t - window.start) % Resolution[series] = 0}
<1>1. /\ UNCHANGED <<now, bronze, fetches>>
      /\ publishes' = publishes + 1 /\ publishes < MaxPublished
      /\ published' = published \cup {[series |-> series, figure |-> Figure(t)] : t \in times}
  BY DEF Publish
<1>2. Resolution[series] \in Nat \ {0}
  BY CoverageOK
<1>3. ASSUME NEW t \in times
      PROVE  t \in Axis /\ t % Resolution[series] = 0
  <2>1. window.start \in Int /\ window.end \in Int /\ Window(day) \subseteq Axis
    BY DaysInOrder
  <2>2. part[1] * Hour \in Nat /\ part[2] * Hour \in Nat
    <3>1. part[1] \in Nat /\ part[2] \in Nat
      BY CoverageOK
    <3> QED
      BY <3>1, Transitions
  <2>3. t \in Int /\ window.start <= t /\ t < window.end
    BY <2>1, <2>2
  <2>4. (t - window.start) % Resolution[series] = 0
    OBVIOUS
  <2>5. window.start % Resolution[series] = 0
    BY DayAligned DEF Days
  <2>6. t \in Axis
    BY <2>1, <2>3 DEF Window
  <2> HIDE DEF window
  <2>7. (t - window.start) + window.start = t /\ t - window.start \in Int
    BY <2>1, <2>3
  <2>8. ((t - window.start) + window.start) % Resolution[series] = 0
    BY <1>2, <2>1, <2>4, <2>5, <2>7, ModSums
  <2> QED
    BY <2>6, <2>7, <2>8
<1> HIDE DEF times
<1>4. PublishedOK'
  <2> SUFFICES ASSUME NEW p \in published'
               PROVE  \E s \in Series, t \in Axis :
                        t % Resolution[s] = 0 /\ p = [series |-> s, figure |-> Figure(t)]
    BY DEF PublishedOK, Axis, Figure
  <2>1. CASE p \in published
    BY <2>1 DEF IInv, PublishedOK
  <2>2. CASE p \notin published
    BY <1>1, <1>3, <2>2
  <2> QED
    BY <2>1, <2>2
<1>5. RowsOK'
  BY <1>1 DEF IInv, RowsOK, Figure, Axis
<1>6. publishes' \in 0 .. MaxPublished
  BY <1>1, CoverageOK DEF IInv
<1> QED
  BY <1>1, <1>4, <1>5, <1>6 DEF IInv

LEMMA LeastAbove ==
  ASSUME NEW b \in Int, NEW S \in SUBSET Int, S # {}, \A x \in S : b <= x
  PROVE  \E m \in S : \A n \in S : m <= n
<1> DEFINE R == OpToRel(<, Nat)
           T == {x - b : x \in S}
<1>1. \A p \in Nat, q \in Nat : <<p, q>> \in R <=> p < q
  BY DEF OpToRel
<1>2. IsWellFoundedOn(R, Nat)
  BY NatLessThanWellFounded
<1> HIDE DEF R
<1>3. T \subseteq Nat /\ T # {}
  <2>1. PICK x \in S : TRUE
    OBVIOUS
  <2>2. x - b \in T
    BY <2>1
  <2>3. \A y \in S : y - b \in Nat
    OBVIOUS
  <2> QED
    BY <2>2, <2>3
<1>4. PICK k \in T : \A n \in T : <<n, k>> \notin R
  <2> HIDE DEF T
  <2> QED
    BY <1>2, <1>3, WFMin
<1>5. PICK m \in S : k = m - b
  BY <1>4
<1>6. ASSUME NEW n \in S
      PROVE  m <= n
  <2>1. n - b \in T /\ n - b \in Nat /\ m - b \in Nat
    BY <1>3, <1>4, <1>5
  <2>2. ~(n - b < m - b)
    BY <1>1, <1>4, <1>5, <2>1
  <2> QED
    BY <2>1, <2>2
<1> QED
  BY <1>6

(* A stretch of held periods ends at an instant of the axis.                *)
LEMMA FirstHoleIsInt ==
  ASSUME NEW s \in Series, NEW day \in Days,
         NEW from \in Held(s, settlement_day(day).start, settlement_day(day).end),
         from % Resolution[s] = 0
  PROVE  FirstHole(Held(s, settlement_day(day).start, settlement_day(day).end),
                   from, Resolution[s]) \in Int
<1> DEFINE held == Held(s, settlement_day(day).start, settlement_day(day).end)
           step == Resolution[s]
           E    == settlement_day(LastDay).end
           Holes == {t \in from .. E : t \notin held /\ (t - from) % step = 0}
<1>1. /\ E \in Int /\ from \in Int /\ from < E /\ E \notin held
  <2>1. held \subseteq settlement_day(day).start .. settlement_day(day).end - 1
    BY DEF Held
  <2> QED
    BY <2>1, DaysInOrder
<1>2. (E - from) % step = 0
  <2>1. E % step = 0 /\ step \in Nat \ {0}
    BY DayAligned, CoverageOK
  <2> QED
    BY <1>1, <2>1, ModSums
<1> HIDE DEF E, held, step
<1>3. E \in Holes
  BY <1>1, <1>2
<1>4. Holes \in SUBSET Int /\ \A t \in Holes : from <= t
  BY <1>1
<1>5. PICK t \in Holes : \A u \in Holes : t <= u
  <2> HIDE DEF Holes
  <2> QED
    BY <1>1, <1>3, <1>4, LeastAbove
<1>6. t \in Int /\ t \in from .. E
  BY <1>4, <1>5
<1>7. ASSUME NEW u \in from .. t - 1, (u - from) % step = 0
      PROVE  u \in held
  <2>1. u \in from .. E /\ ~(t <= u)
    BY <1>1, <1>6
  <2> QED
    BY <1>5, <1>7, <2>1
<1>8. \E x \in from .. E :
        /\ x \notin held /\ (x - from) % step = 0
        /\ \A u \in from .. x - 1 : (u - from) % step = 0 => u \in held
  BY <1>5, <1>6, <1>7
<1>9. FirstHole(held, from, step) \in from .. E
  BY <1>8 DEF FirstHole, E
<1> QED
  BY <1>9 DEF held, step

(* A Period the platform sends, not spoiled.                                *)
Sound(period) ==
  \E s \in Series, from \in Int, to \in Int :
    from % Resolution[s] = 0 /\ period = Period(s, from, to)

LEMMA PeriodsAreSound ==
  ASSUME PublishedOK, NEW day \in Days,
         NEW period \in WholePeriods(settlement_day(day))
                          \cup SplitPeriods(settlement_day(day))
  PROVE  Sound(period)
<1> DEFINE window == settlement_day(day)
<1>1. window.start \in Int /\ window.end \in Int
  BY DaysInOrder
<1>2. CASE period \in WholePeriods(window)
  <2>1. PICK s \in Series : period = Period(s, window.start, window.end)
    BY <1>2 DEF WholePeriods
  <2>2. window.start % Resolution[s] = 0
    BY DayAligned DEF Days
  <2> QED
    BY <1>1, <2>1, <2>2 DEF Sound
<1>3. CASE period \in SplitPeriods(window)
  <2>1. PICK s \in Series :
          \E from \in Held(s, window.start, window.end) :
            period = Period(s, from, FirstHole(Held(s, window.start, window.end),
                                               from, Resolution[s]))
    BY <1>3 DEF SplitPeriods
  <2>2. PICK from \in Held(s, window.start, window.end) :
          period = Period(s, from, FirstHole(Held(s, window.start, window.end),
                                             from, Resolution[s]))
    BY <2>1
  <2>3. from \in Int
    BY <1>1 DEF Held
  <2>4. from % Resolution[s] = 0
    <3>1. PICK p \in published : p.series = s /\ p.figure.at = from
      BY DEF Held
    <3> QED
      BY <3>1 DEF PublishedOK, Figure
  <2>5. FirstHole(Held(s, window.start, window.end), from, Resolution[s]) \in Int
    BY <2>4, FirstHoleIsInt
  <2> QED
    BY <2>2, <2>3, <2>4, <2>5 DEF Sound
<1> QED
  BY <1>2, <1>3

(* A position is an offset: the point made of a figure is read at its own   *)
(* instant.                                                                 *)
LEMMA ReadAtItsInstant ==
  ASSUME NEW from \in Int, NEW at \in Int, NEW r \in Nat \ {0},
         from % r = 0, at % r = 0, from <= at
  PROVE  /\ position_time(from, r, (at - from) \div r + 1) = at
         /\ (at - from) \div r + 1 \in Int
<1>1. (at - from) % r = 0 /\ at - from \in Int
  <2>1. (at - from) % r = 0
    BY ModSums
  <2> QED
    BY <2>1
<1>2. PICK k \in Int : at - from = k * r
  BY <1>1, ModZero
<1>3. k * r \in Int /\ (k + 1) * r = k * r + r
  BY Multiples
<1>4. (at - from) \div r = k
  BY <1>1, <1>2, <1>3, Quotient
<1>5. k + 1 \in Int /\ (k + 1) - 1 = k
  OBVIOUS
<1>6. position_time(from, r, k + 1) = from + k * r
  <2>1. position_time(from, r, k + 1) = from + ((k + 1) - 1) * r
    BY DEF position_time
  <2> QED
    BY <1>5, <2>1
<1>7. from + k * r = at
  BY <1>2, <1>3
<1> QED
  BY <1>4, <1>5, <1>6, <1>7

(* What is read of a sound Period are published figures at their instants.  *)
LEMMA SoundIsRight ==
  ASSUME PublishedOK, NEW period, Sound(period), NEW o \in Observations(period)
  PROVE  \E s \in Series, t \in Axis :
           /\ [series |-> s, figure |-> Figure(t)] \in published
           /\ o = [series |-> s, resolution |-> Resolution[s], valid_time |-> t,
                   figure |-> Figure(t)]
<1>1. PICK s \in Series, from \in Int, to \in Int :
        from % Resolution[s] = 0 /\ period = Period(s, from, to)
  BY DEF Sound
<1> DEFINE r == Resolution[s]
           position(at) == (at - from) \div r + 1
<1>2. PICK p \in published :
        /\ p.series = s /\ from <= p.figure.at /\ p.figure.at < to
        /\ o = [series |-> s, resolution |-> r,
                valid_time |-> position_time(from, r, position(p.figure.at)),
                figure |-> p.figure]
  BY <1>1 DEF Observations, Period
<1>3. PICK t \in Axis :
        t % r = 0 /\ p = [series |-> s, figure |-> Figure(t)]
  BY <1>2 DEF PublishedOK
<1>4. p.figure = Figure(t) /\ p.figure.at = t
  BY <1>3 DEF Figure
<1>5. r \in Nat \ {0} /\ t \in Int /\ from <= t
  BY <1>2, <1>3, <1>4, CoverageOK DEF Axis
<1>6. position_time(from, r, position(t)) = t
  BY <1>1, <1>3, <1>5, ReadAtItsInstant
<1> QED
  BY <1>2, <1>3, <1>4, <1>6

(* A point too many makes a Period unreadable.                              *)
LEMMA SpoiledIsUnreadable ==
  ASSUME PublishedOK, NEW period, Sound(period), NEW q \in Spoiled(period)
  PROVE  ~Readable(q)
<1>1. PICK s \in Series, from \in Int, to \in Int :
        from % Resolution[s] = 0 /\ period = Period(s, from, to)
  BY DEF Sound
<1> DEFINE count == period_count(from, to, Resolution[s])
<1>2. /\ period.start = from /\ period.end = to
      /\ period.resolution = Resolution[s]
  BY <1>1 DEF Period
<1>3. PICK n \in {p.position : p \in period.points} \cup {count + 1} :
        q = [period EXCEPT !.points = @ \cup {[position |-> n, figure |-> Stray]}]
  BY <1>2 DEF Spoiled
<1> DEFINE stray == [position |-> n, figure |-> Stray]
<1>4. /\ q.points = period.points \cup {stray} /\ stray \in q.points
      /\ q.start = from /\ q.end = to /\ q.resolution = Resolution[s]
  BY <1>1, <1>3 DEF Period
<1>5. CASE n \in {p.position : p \in period.points}
  <2>1. PICK p \in period.points : p.position = n
    BY <1>5
  <2>2. p.figure.at # Stray.at
    <3>1. \E x \in published : p.figure = x.figure
      BY <1>1 DEF Period
    <3>2. PICK t \in Axis : p.figure = Figure(t)
      BY <3>1 DEF PublishedOK
    <3>3. settlement_day(0).start \in Int /\ settlement_day(LastDay).end \in Int
      <4>1. 0 \in Days
        BY CoverageOK DEF Days
      <4> QED
        BY <4>1, DaysInOrder
    <3>4. t \in Int /\ settlement_day(0).start <= t
      BY <3>3 DEF Axis
    <3> QED
      BY <3>2, <3>3, <3>4 DEF Figure, Stray
  <2>3. p # stray /\ p \in q.points /\ p.position = stray.position
    BY <1>4, <2>1, <2>2
  <2> QED
    BY <1>4, <2>3 DEF Readable
<1>6. CASE n = count + 1
  <2>1. Resolution[s] \in Nat \ {0}
    BY CoverageOK
  <2>2. count \in Int
    BY <2>1 DEF period_count
  <2> HIDE DEF count
  <2>3. n \notin 1 .. count
    BY <1>6, <2>2
  <2>4. stray.position = n
    OBVIOUS
  <2> QED
    BY <1>4, <2>3, <2>4 DEF Readable, count
<1> QED
  BY <1>3, <1>5, <1>6

LEMMA SentIsSound ==
  ASSUME PublishedOK, NEW day \in Days, NEW document \in Sent(settlement_day(day)),
         NEW period \in document, Readable(period)
  PROVE  Sound(period)
<1> DEFINE sound == {WholePeriods(settlement_day(day)), SplitPeriods(settlement_day(day))}
<1>1. \A d \in sound : \A p \in d : Sound(p)
  BY PeriodsAreSound
<1>2. CASE document \in sound
  BY <1>1, <1>2
<1>3. CASE \E d \in sound : \E p \in d : \E q \in Spoiled(p) :
             document = (d \ {p}) \cup {q}
  <2>1. PICK d \in sound : \E p \in d : \E q \in Spoiled(p) :
          document = (d \ {p}) \cup {q}
    BY <1>3
  <2>2. PICK p \in d : \E q \in Spoiled(p) : document = (d \ {p}) \cup {q}
    BY <2>1
  <2>3. PICK q \in Spoiled(p) : document = (d \ {p}) \cup {q}
    BY <2>2
  <2>4. Sound(p)
    BY <1>1
  <2>5. period # q
    BY <2>4, SpoiledIsUnreadable
  <2>6. period \in d
    BY <2>3, <2>5
  <2> QED
    BY <1>1, <2>6
<1>4. \/ document \in sound
      \/ \E d \in sound : \E p \in d : \E q \in Spoiled(p) :
           document = (d \ {p}) \cup {q}
  BY DEF Sent
<1> QED
  BY <1>2, <1>3, <1>4

LEMMA FetchStep ==
  ASSUME IInv, NEW day \in Days, Fetch(day)
  PROVE  IInv'
<1>1. PICK document \in Sent(settlement_day(day)) :
        /\ \A period \in document : Readable(period)
        /\ bronze' = bronze \cup apply_gate(document, now).records
  BY DEF Fetch
<1>2. /\ fetches' = fetches + 1 /\ fetches < MaxFetches
      /\ UNCHANGED <<now, published, publishes>>
  BY DEF Fetch
<1>3. ASSUME NEW o \in apply_gate(document, now).records
      PROVE  \E s \in Series, t \in Axis :
               /\ [series |-> s, figure |-> Figure(t)] \in published
               /\ Figure(t).fit
               /\ o = [series |-> s, resolution |-> Resolution[s], valid_time |-> t,
                       figure |-> Figure(t)]
  <2>1. /\ \E period \in document : o \in Observations(period)
        /\ o.figure.fit
    BY DEF apply_gate, Acceptable
  <2>2. PICK period \in document : o \in Observations(period)
    BY <2>1
  <2>3. Sound(period)
    BY <1>1, SentIsSound DEF IInv
  <2>4. PICK s \in Series, t \in Axis :
          /\ [series |-> s, figure |-> Figure(t)] \in published
          /\ o = [series |-> s, resolution |-> Resolution[s], valid_time |-> t,
                  figure |-> Figure(t)]
    BY <2>2, <2>3, SoundIsRight DEF IInv
  <2> QED
    BY <2>1, <2>4
<1>4. RowsOK'
  <2> SUFFICES ASSUME NEW r \in bronze'
               PROVE  \E s \in Series, t \in Axis :
                        /\ [series |-> s, figure |-> Figure(t)] \in published'
                        /\ Figure(t).fit
                        /\ r = [series |-> s, resolution |-> Resolution[s],
                                valid_time |-> t, figure |-> Figure(t)]
    BY DEF RowsOK, Axis, Figure
  <2>1. CASE r \in bronze
    BY <1>2, <2>1 DEF IInv, RowsOK
  <2>2. CASE r \notin bronze
    BY <1>1, <1>2, <1>3, <2>2
  <2> QED
    BY <2>1, <2>2
<1>5. PublishedOK'
  BY <1>2 DEF IInv, PublishedOK, Axis, Figure
<1>6. fetches' \in 0 .. MaxFetches
  BY <1>2, CoverageOK DEF IInv
<1> QED
  BY <1>2, <1>4, <1>5, <1>6 DEF IInv

LEMMA NextInv == IInv /\ [Next]_vars => IInv'
<1> SUFFICES ASSUME IInv, [Next]_vars
             PROVE  IInv'
  OBVIOUS
<1>1. ASSUME UNCHANGED <<published, bronze, publishes>>,
             fetches' \in 0 .. MaxFetches, now' \in Int
      PROVE  IInv'
  <2>1. PublishedOK' /\ RowsOK'
    BY <1>1 DEF IInv, PublishedOK, RowsOK, Axis, Figure
  <2> QED
    BY <1>1, <2>1 DEF IInv
<1>2. CASE Tick
  BY <1>1, <1>2, CoverageOK DEF Tick, IInv
<1>3. ASSUME NEW day \in Days, NEW series \in Series, NEW part \in Parts,
             Publish(day, series, part)
      PROVE  IInv'
  BY <1>3, PublishStep
<1>4. ASSUME NEW day \in Days, Fetch(day)
      PROVE  IInv'
  BY <1>4, FetchStep
<1>5. ASSUME NEW type \in Types \cup Foreign, FetchRte(type)
      PROVE  IInv'
  <2>1. UNCHANGED <<now, published, bronze, publishes, fetches>>
    BY <1>5 DEF FetchRte
  <2> QED
    BY <1>1, <2>1 DEF IInv
<1>6. CASE Return
  BY <1>1, <1>6 DEF Return, IInv
<1>7. CASE UNCHANGED vars
  BY <1>1, <1>7 DEF vars, IInv
<1> QED
  BY <1>2, <1>3, <1>4, <1>5, <1>6, <1>7 DEF Next

LEMMA InitInv == Init => IInv
<1> SUFFICES ASSUME Init PROVE IInv
  OBVIOUS
<1>1. now \in Int
  <2>1. 0 \in Days
    BY CoverageOK DEF Days
  <2> QED
    BY <2>1, DaysInOrder DEF Init
<1> QED
  BY <1>1, CoverageOK DEF Init, IInv, PublishedOK, RowsOK

LEMMA Invariance == Spec => []IInv
  BY InitInv, NextInv, PTL DEF Spec

LEMMA AxisIsInt == \A t \in Axis : t \in Int
<1>1. 0 \in Days
  BY CoverageOK DEF Days
<1> QED
  BY <1>1, DaysInOrder DEF Axis

LEMMA RowsAtInstants == IInv => Instants
<1> SUFFICES ASSUME IInv, NEW r \in bronze
             PROVE  r.valid_time \in Int
  BY DEF Instants
<1>1. PICK s \in Series, t \in Axis :
        r = [series |-> s, resolution |-> Resolution[s], valid_time |-> t,
             figure |-> Figure(t)]
  BY DEF IInv, RowsOK
<1> QED
  BY <1>1, AxisIsInt

-----------------------------------------------------------------------------
(* Every variable stays in its domain: no row lies off the axis.            *)
THEOREM TypeCorrect == Spec => []TypeOK
<1>1. ASSUME IInv PROVE TypeOK
  <2>1. \A t \in Axis : t \in Int
    BY AxisIsInt
  <2>2. \A t \in Axis : Figure(t) \in [at : Int, fit : BOOLEAN]
    BY <2>1 DEF Figure
  <2>3. published \subseteq [series : Series, figure : [at : Int, fit : BOOLEAN]]
    BY <1>1, <2>2 DEF IInv, PublishedOK
  <2>4. \A s \in Series : Resolution[s] \in Nat \ {0}
    BY CoverageOK
  <2>5. bronze \subseteq [series : Series, resolution : Nat \ {0}, valid_time : Axis,
                          figure : [at : Int, fit : BOOLEAN]]
    <3> SUFFICES ASSUME NEW r \in bronze
                 PROVE  r \in [series : Series, resolution : Nat \ {0},
                               valid_time : Axis,
                               figure : [at : Int, fit : BOOLEAN]]
      OBVIOUS
    <3>1. PICK s \in Series, t \in Axis :
            r = [series |-> s, resolution |-> Resolution[s], valid_time |-> t,
                 figure |-> Figure(t)]
      BY <1>1 DEF IInv, RowsOK
    <3> QED
      BY <2>2, <2>4, <3>1
  <2> QED
    BY <1>1, <2>3, <2>5 DEF IInv, TypeOK
<1> QED
  BY <1>1, Invariance, PTL

(* For any resolutions that divide the hour, any transitions and any holes, *)
(* every row is a figure the platform holds, at its own instant             *)
(* (_parse_period, apply_gate).                                             *)
THEOREM RightTimeHolds == Spec => []RightTime
<1>1. ASSUME IInv, NEW row \in bronze
      PROVE  /\ row.valid_time = row.figure.at /\ row.figure.fit
             /\ [series |-> row.series, figure |-> row.figure] \in published
  <2>1. PICK s \in Series, t \in Axis :
          /\ [series |-> s, figure |-> Figure(t)] \in published
          /\ Figure(t).fit
          /\ row = [series |-> s, resolution |-> Resolution[s], valid_time |-> t,
                    figure |-> Figure(t)]
    BY <1>1 DEF IInv, RowsOK
  <2>2. row.series = s /\ row.valid_time = t /\ row.figure = Figure(t)
    BY <2>1
  <2>3. Figure(t).at = t
    BY DEF Figure
  <2> QED
    BY <2>1, <2>2, <2>3
<1>2. IInv => RightTime
  BY <1>1 DEF RightTime
<1> QED
  BY <1>2, Invariance, PTL

(* On days of any length, and either side of both transitions, a day is     *)
(* asked for exactly when bronze has no row of it (missing_settlement_days).*)
THEOREM MissingMeansEmptyHolds == Spec => []MissingMeansEmpty
  BY MissingIsEmpty, RowsAtInstants, Invariance, PTL

(* On days of any length a day passes completeness exactly when it is       *)
(* covered and has its series (completeness).                               *)
THEOREM GreenMeansCoveredHolds == Spec => []GreenMeansCovered
  BY GreenIsCovered, RowsAtInstants, Invariance, PTL
-----------------------------------------------------------------------------
(* Every period once.  The positions of an interval are its grid.           *)
LEMMA Offsets ==
  ASSUME NEW from \in Int, NEW r \in Nat \ {0}, NEW n \in Int
  PROVE  /\ position_time(from, r, n) \in Int
         /\ (position_time(from, r, n) - from) % r = 0
         /\ (position_time(from, r, n) - from) \div r + 1 = n
<1>1. (n - 1) * r \in Int /\ n - 1 \in Int /\ ((n - 1) + 1) * r = (n - 1) * r + r
  BY Multiples
<1> DEFINE x == (n - 1) * r
<1>2. position_time(from, r, n) = from + x /\ x \in Int
  BY <1>1 DEF position_time
<1>3. x % r = 0
  BY <1>1, ModZero
<1>4. x \div r = n - 1
  BY <1>1, Quotient
<1> HIDE DEF x
<1>5. position_time(from, r, n) - from = x
  BY <1>2
<1> QED
  BY <1>2, <1>3, <1>4, <1>5

LEMMA GridOfPositions ==
  ASSUME NEW from \in Int, NEW to \in Int, NEW r \in Nat \ {0},
         Divides(from, to, r)
  PROVE  /\ \A n \in 1 .. period_count(from, to, r) :
              position_time(from, r, n) \in Grid(from, to, r)
         /\ \A t \in Grid(from, to, r) :
              \E n \in 1 .. period_count(from, to, r) : position_time(from, r, n) = t
<1> DEFINE count == period_count(from, to, r)
<1>1. PICK k \in Int : to - from = k * r
  BY ModZero DEF Divides
<1>2. k * r \in Int /\ (k + 1) * r = k * r + r
  BY Multiples
<1>3. count = k
  <2>1. to - from \in Int
    OBVIOUS
  <2> QED
    BY <1>1, <1>2, <2>1, Quotient DEF period_count
<1> HIDE DEF count
<1>4. ASSUME NEW n \in 1 .. count
      PROVE  position_time(from, r, n) \in Grid(from, to, r)
  <2>1. n \in Int /\ 1 <= n /\ n <= k
    BY <1>3
  <2>2. n - 1 \in Int /\ 0 \in Int /\ n - 1 < k /\ (n - 1 = 0 \/ 0 < n - 1)
    BY <2>1
  <2>3. /\ (n - 1) * r \in Int /\ (n - 1) * r + r <= k * r
        /\ 0 < n - 1 => 0 * r + r <= (n - 1) * r
    BY <2>2, Multiples
  <2>4. 0 * r = 0
    OBVIOUS
  <2>5. 0 <= (n - 1) * r
    BY <2>2, <2>3, <2>4
  <2> DEFINE x == (n - 1) * r
  <2>6. position_time(from, r, n) = from + x
    BY DEF position_time
  <2>7. (position_time(from, r, n) - from) % r = 0
    BY <2>1, Offsets
  <2> HIDE DEF x
  <2>8. from + x \in from .. to - 1
    BY <1>1, <1>2, <2>3, <2>5 DEF x
  <2> QED
    BY <2>6, <2>7, <2>8 DEF Grid
<1>5. ASSUME NEW t \in Grid(from, to, r)
      PROVE  \E n \in 1 .. count : position_time(from, r, n) = t
  <2>1. t \in Int /\ from <= t /\ t < to /\ (t - from) % r = 0 /\ t - from \in Int
    BY DEF Grid
  <2>2. PICK j \in Int : t - from = j * r
    BY <2>1, ModZero
  <2>3. j * r \in Int /\ 0 \in Int /\ 0 * r = 0
    OBVIOUS
  <2>4. ~(j < 0)
    <3>1. j < 0 => j * r + r <= 0 * r
      BY Multiples
    <3> QED
      BY <2>1, <2>2, <2>3, <3>1
  <2>5. ~(k < j) /\ k # j
    <3>1. k < j => k * r + r <= j * r
      BY Multiples
    <3> QED
      BY <1>1, <1>2, <2>1, <2>2, <2>3, <3>1
  <2>6. j + 1 \in 1 .. count /\ (j + 1) - 1 = j
    BY <1>3, <2>4, <2>5
  <2>7. position_time(from, r, j + 1) = from + j * r
    BY <2>6 DEF position_time
  <2>8. from + j * r = t
    BY <2>1, <2>2, <2>3
  <2> QED
    BY <2>6, <2>7, <2>8
<1> QED
  BY <1>4, <1>5 DEF count

LEMMA PublishedAtInstants ==
  ASSUME PublishedOK, NEW p \in published
  PROVE  \E t \in Axis : \E u \in Series :
           t \in Int /\ p.figure.at = t /\ p.series = u /\ t % Resolution[u] = 0
<1>1. PICK u \in Series, t \in Axis :
        t % Resolution[u] = 0 /\ p = [series |-> u, figure |-> Figure(t)]
  BY DEF PublishedOK
<1>2. p.series = u /\ p.figure.at = t
  BY <1>1 DEF Figure
<1> QED
  BY <1>1, <1>2, AxisIsInt

(* The points of a Period are the published figures of its series within    *)
(* its interval, and what is read of it are those figures.                  *)
LEMMA PointsAreFigures ==
  ASSUME PublishedOK, NEW s \in Series, NEW from \in Int, NEW to \in Int,
         from % Resolution[s] = 0
  PROVE  /\ \A q \in Period(s, from, to).points :
              \E p \in published :
                /\ p.series = s /\ from <= p.figure.at /\ p.figure.at < to
                /\ position_time(from, Resolution[s], q.position) = p.figure.at
         /\ \A o \in Observations(Period(s, from, to)) :
              \E p \in published :
                /\ p.series = s /\ from <= p.figure.at /\ p.figure.at < to
                /\ (p.figure.at - from) % Resolution[s] = 0
                /\ Key(o) = Gap(s, p.figure.at)
         /\ \A p \in published :
              (p.series = s /\ from <= p.figure.at /\ p.figure.at < to) =>
                /\ (p.figure.at - from) \div Resolution[s] + 1
                     \in {q.position : q \in Period(s, from, to).points}
                /\ \E o \in Observations(Period(s, from, to)) :
                     Key(o) = Gap(s, p.figure.at)
<1> DEFINE r == Resolution[s]
           period == Period(s, from, to)
           Point(p) == [position |-> (p.figure.at - from) \div r + 1,
                        figure |-> p.figure]
           Seen(p) == [series |-> s, resolution |-> r,
                       valid_time |-> position_time(from, r, (p.figure.at - from) \div r + 1),
                       figure |-> p.figure]
           inside == {p \in published : /\ p.series = s
                                        /\ from <= p.figure.at /\ p.figure.at < to}
<1>1. r \in Nat \ {0}
  BY CoverageOK
<1>2. period.points = {Point(p) : p \in inside}
  BY DEF Period
<1>3. Observations(period) = {Seen(p) : p \in inside}
  <2> DEFINE Read(q) == [series |-> s, resolution |-> r,
                         valid_time |-> position_time(from, r, q.position),
                         figure |-> q.figure]
  <2>1. period.series = s /\ period.start = from /\ period.resolution = r
    BY DEF Period
  <2> HIDE DEF period
  <2>2. Observations(period) = {Read(q) : q \in period.points}
    BY <2>1 DEF Observations
  <2>3. \A p \in inside : Read(Point(p)) = Seen(p)
    OBVIOUS
  <2> HIDE DEF Read, Point, Seen, inside
  <2> QED
    BY <1>2, <2>2, <2>3
<1>4. ASSUME NEW p \in inside
      PROVE  /\ p.figure.at \in Int /\ (p.figure.at - from) % r = 0
             /\ position_time(from, r, (p.figure.at - from) \div r + 1) = p.figure.at
  <2>1. PICK t \in Axis : t % r = 0 /\ p.figure.at = t
    BY PublishedAtInstants
  <2>2. t \in Int
    BY AxisIsInt
  <2> HIDE DEF r
  <2>3. (t - from) % r = 0
    BY <1>1, <2>1, <2>2, ModSums DEF r
  <2>4. position_time(from, r, (t - from) \div r + 1) = t
    BY <1>1, <2>1, <2>2, ReadAtItsInstant DEF r
  <2> QED
    BY <2>1, <2>2, <2>3, <2>4
<1>5. ASSUME NEW p \in inside PROVE Key(Seen(p)) = Gap(s, p.figure.at)
  <2>1. Seen(p).series = s /\ Seen(p).valid_time = p.figure.at
    BY <1>4
  <2> HIDE DEF Seen
  <2> QED
    BY <2>1 DEF Key
<1>6. \A p \in inside : Point(p).position = (p.figure.at - from) \div r + 1
  OBVIOUS
<1> HIDE DEF Point, Seen, r, period
<1>7. ASSUME NEW q \in period.points
      PROVE  \E p \in inside : position_time(from, r, q.position) = p.figure.at
  <2>1. PICK p \in inside : q = Point(p)
    BY <1>2
  <2> QED
    BY <1>4, <1>6, <2>1
<1>8. \A o \in Observations(period) : \E p \in inside :
        (p.figure.at - from) % r = 0 /\ Key(o) = Gap(s, p.figure.at)
  BY <1>3, <1>4, <1>5
<1>9. ASSUME NEW p \in inside
      PROVE  /\ (p.figure.at - from) \div r + 1 \in {q.position : q \in period.points}
             /\ \E o \in Observations(period) : Key(o) = Gap(s, p.figure.at)
  <2>1. Point(p) \in period.points /\ Seen(p) \in Observations(period)
    BY <1>2, <1>3
  <2> QED
    BY <1>5, <1>6, <2>1
<1> QED
  BY <1>7, <1>8, <1>9 DEF r, period

(* What is given is what the platform holds of the periods asked for.       *)
LEMMA GateTakesOnce ==
  ASSUME PublishedOK, NEW document,
         \A period \in document : Sound(period) /\ Readable(period),
         NEW result, result = apply_gate(document, now),
         NEW given, given = {Gap(p.series, p.figure.at) : p \in published}
                              \cap Grids(document)
  PROVE  /\ {Key(o) : o \in result.records} \cap {Key(o) : o \in result.violations} = {}
         /\ {Key(o) : o \in result.records} \cup {Key(o) : o \in result.violations} = given
         /\ result.gaps = Grids(document) \ given
<1> DEFINE observed == UNION {Observations(period) : period \in document}
<1>1. /\ result.records = {o \in observed : Acceptable(o, now)}
      /\ result.violations = observed \ result.records
      /\ \A g : g \in result.gaps <=>
           \E period \in document : \E n \in MissingPositions(period) :
             g = Gap(period.series, position_time(period.start, period.resolution, n))
  BY DEF apply_gate
<1>2. ASSUME NEW g
      PROVE  g \in Grids(document) <=>
               \E period \in document :
                 \E t \in Grid(period.start, period.end, period.resolution) :
                   g = Gap(period.series, t)
  BY DEF Grids
<1>3. ASSUME NEW period \in document
      PROVE  \E s \in Series, from \in Int, to \in Int :
               /\ from % Resolution[s] = 0 /\ period = Period(s, from, to)
               /\ period.series = s /\ period.start = from /\ period.end = to
               /\ period.resolution = Resolution[s] /\ Resolution[s] \in Nat \ {0}
               /\ Divides(from, to, Resolution[s])
  <2>1. PICK s \in Series, from \in Int, to \in Int :
          from % Resolution[s] = 0 /\ period = Period(s, from, to)
    BY DEF Sound
  <2>2. /\ period.series = s /\ period.start = from /\ period.end = to
        /\ period.resolution = Resolution[s]
    BY <2>1 DEF Period
  <2>3. Divides(from, to, Resolution[s])
    BY <2>2 DEF Readable
  <2> QED
    BY <2>1, <2>2, <2>3, CoverageOK
<1>4. \A a, b, t, u : Gap(a, t) = Gap(b, u) => a = b /\ t = u
  BY DEF Gap
<1>5. \A o \in observed : \E period \in document : o \in Observations(period)
  OBVIOUS
<1>6. {Key(o) : o \in result.records} \cap {Key(o) : o \in result.violations} = {}
  <2> SUFFICES ASSUME NEW o1 \in observed, NEW o2 \in observed, Key(o1) = Key(o2)
               PROVE  o1 = o2
    BY <1>1
  <2>1. ASSUME NEW o \in observed
        PROVE  \E s \in Series, t \in Axis :
                 o = [series |-> s, resolution |-> Resolution[s], valid_time |-> t,
                      figure |-> Figure(t)]
    BY <1>5, SoundIsRight
  <2>2. PICK s1 \in Series, t1 \in Axis :
          o1 = [series |-> s1, resolution |-> Resolution[s1], valid_time |-> t1,
                figure |-> Figure(t1)]
    BY <2>1
  <2>3. PICK s2 \in Series, t2 \in Axis :
          o2 = [series |-> s2, resolution |-> Resolution[s2], valid_time |-> t2,
                figure |-> Figure(t2)]
    BY <2>1
  <2>4. Key(o1) = Gap(s1, t1) /\ Key(o2) = Gap(s2, t2)
    BY <2>2, <2>3 DEF Key
  <2>5. s1 = s2 /\ t1 = t2
    BY <1>4, <2>4
  <2> QED
    BY <2>2, <2>3, <2>5
<1>7. ASSUME NEW o \in observed PROVE Key(o) \in given
  <2>1. PICK period \in document : o \in Observations(period)
    BY <1>5
  <2>2. PICK s \in Series, from \in Int, to \in Int :
          /\ from % Resolution[s] = 0 /\ period = Period(s, from, to)
          /\ period.series = s /\ period.start = from /\ period.end = to
          /\ period.resolution = Resolution[s]
    BY <1>3
  <2>3. PICK p \in published :
          /\ p.series = s /\ from <= p.figure.at /\ p.figure.at < to
          /\ (p.figure.at - from) % Resolution[s] = 0
          /\ Key(o) = Gap(s, p.figure.at)
    BY <2>1, <2>2, PointsAreFigures
  <2>4. p.figure.at \in Int
    BY PublishedAtInstants
  <2>5. p.figure.at \in Grid(from, to, Resolution[s])
    BY <2>3, <2>4 DEF Grid
  <2>6. Key(o) \in Grids(document)
    BY <1>2, <2>2, <2>3, <2>5
  <2> QED
    BY <2>3, <2>6
<1>8. ASSUME NEW g \in given PROVE \E o \in observed : Key(o) = g
  <2>1. PICK p \in published : g = Gap(p.series, p.figure.at)
    OBVIOUS
  <2>2. PICK period \in document :
          \E t \in Grid(period.start, period.end, period.resolution) :
            g = Gap(period.series, t)
    BY <1>2
  <2>3. PICK s \in Series, from \in Int, to \in Int :
          /\ from % Resolution[s] = 0 /\ period = Period(s, from, to)
          /\ period.series = s /\ period.start = from /\ period.end = to
          /\ period.resolution = Resolution[s]
    BY <1>3
  <2>4. p.series = s /\ p.figure.at \in Grid(from, to, Resolution[s])
    <3>1. PICK t \in Grid(from, to, Resolution[s]) : g = Gap(s, t)
      BY <2>2, <2>3
    <3>2. Gap(p.series, p.figure.at) = Gap(s, t)
      BY <2>1, <3>1
    <3>3. p.series = s /\ p.figure.at = t
      BY <3>2 DEF Gap
    <3> QED
      BY <3>1, <3>3
  <2>5. from <= p.figure.at /\ p.figure.at < to
    BY <2>4 DEF Grid
  <2>6. \E o \in Observations(period) : Key(o) = Gap(s, p.figure.at)
    BY <2>3, <2>4, <2>5, PointsAreFigures
  <2> QED
    BY <2>1, <2>4, <2>6
<1>9. {Key(o) : o \in result.records} \cup {Key(o) : o \in result.violations} = given
  BY <1>1, <1>7, <1>8
<1> HIDE DEF observed
<1>10. ASSUME NEW g \in result.gaps PROVE g \in Grids(document) \ given
  <2>1. PICK period \in document : \E n \in MissingPositions(period) :
          g = Gap(period.series, position_time(period.start, period.resolution, n))
    BY <1>1
  <2>2. PICK n \in MissingPositions(period) :
          g = Gap(period.series, position_time(period.start, period.resolution, n))
    BY <2>1
  <2>3. PICK s \in Series, from \in Int, to \in Int :
          /\ from % Resolution[s] = 0 /\ period = Period(s, from, to)
          /\ period.series = s /\ period.start = from /\ period.end = to
          /\ period.resolution = Resolution[s] /\ Resolution[s] \in Nat \ {0}
          /\ Divides(from, to, Resolution[s])
    BY <1>3
  <2>4. /\ n \in 1 .. period_count(from, to, Resolution[s])
        /\ n \notin {q.position : q \in period.points}
    BY <2>3 DEF MissingPositions
  <2> DEFINE t == position_time(from, Resolution[s], n)
  <2>5. t \in Grid(from, to, Resolution[s])
    BY <2>3, <2>4, GridOfPositions
  <2>6. g = Gap(s, t) /\ g \in Grids(document)
    BY <1>2, <2>2, <2>3, <2>5
  <2>7. (t - from) \div Resolution[s] + 1 = n
    <3>1. n \in Int
      BY <2>4
    <3> QED
      BY <2>3, <3>1, Offsets
  <2>8. from <= t /\ t < to
    BY <2>5 DEF Grid
  <2> HIDE DEF t
  <2>9. ASSUME g \in given PROVE FALSE
    <3>1. PICK p \in published : g = Gap(p.series, p.figure.at)
      BY <2>9
    <3>2. p.series = s /\ p.figure.at = t
      <4>1. Gap(p.series, p.figure.at) = Gap(s, t)
        BY <2>6, <3>1
      <4> QED
        BY <4>1 DEF Gap
    <3>3. (p.figure.at - from) \div Resolution[s] + 1
            \in {q.position : q \in Period(s, from, to).points}
      BY <2>3, <2>8, <3>2, PointsAreFigures
    <3> QED
      BY <2>3, <2>4, <2>7, <3>2, <3>3
  <2> QED
    BY <2>6, <2>9
<1>11. ASSUME NEW g \in Grids(document), g \notin given PROVE g \in result.gaps
  <2>1. PICK period \in document :
          \E t \in Grid(period.start, period.end, period.resolution) :
            g = Gap(period.series, t)
    BY <1>2
  <2>2. PICK s \in Series, from \in Int, to \in Int :
          /\ from % Resolution[s] = 0 /\ period = Period(s, from, to)
          /\ period.series = s /\ period.start = from /\ period.end = to
          /\ period.resolution = Resolution[s] /\ Resolution[s] \in Nat \ {0}
          /\ Divides(from, to, Resolution[s])
    BY <1>3
  <2>3. PICK t \in Grid(from, to, Resolution[s]) : g = Gap(s, t)
    BY <2>1, <2>2
  <2>4. PICK n \in 1 .. period_count(from, to, Resolution[s]) :
          position_time(from, Resolution[s], n) = t
    BY <2>2, GridOfPositions
  <2>5. ASSUME n \in {q.position : q \in period.points} PROVE FALSE
    <3>0. PICK q \in Period(s, from, to).points : q.position = n
      BY <2>2, <2>5
    <3>1. PICK p \in published :
            p.series = s /\ position_time(from, Resolution[s], n) = p.figure.at
      BY <2>2, <3>0, PointsAreFigures
    <3>2. g = Gap(p.series, p.figure.at)
      BY <2>3, <2>4, <3>1
    <3> QED
      BY <1>11, <3>2
  <2>6. n \in MissingPositions(period)
    BY <2>2, <2>4, <2>5 DEF MissingPositions
  <2>7. g = Gap(period.series, position_time(period.start, period.resolution, n))
    BY <2>2, <2>3, <2>4
  <2> QED
    BY <1>1, <2>6, <2>7
<1>12. result.gaps = Grids(document) \ given
  BY <1>10, <1>11
<1> QED
  BY <1>6, <1>9, <1>12

LEMMA FetchOnce ==
  ASSUME IInv, NEW day \in Days, Fetch(day)
  PROVE  EachPeriodOnce'
<1>1. PICK document \in Sent(settlement_day(day)) :
        /\ \A period \in document : Readable(period)
        /\ last' = [expected |-> Grids(document),
                    sent |-> {Gap(p.series, p.figure.at) : p \in published}
                               \cap Grids(document),
                    result |-> apply_gate(document, now)]
  BY DEF Fetch
<1>2. \A period \in document : Sound(period) /\ Readable(period)
  BY <1>1, SentIsSound DEF IInv
<1>3. PICK result : result = apply_gate(document, now)
  OBVIOUS
<1>4. PICK given : given = {Gap(p.series, p.figure.at) : p \in published}
                             \cap Grids(document)
  OBVIOUS
<1>5. /\ {Key(o) : o \in result.records} \cap {Key(o) : o \in result.violations} = {}
      /\ {Key(o) : o \in result.records} \cup {Key(o) : o \in result.violations} = given
      /\ result.gaps = Grids(document) \ given
  BY <1>2, <1>3, <1>4, GateTakesOnce DEF IInv
<1>6. last'.result = result /\ last'.sent = given /\ last'.expected = Grids(document)
  BY <1>1, <1>3, <1>4
<1>7. last'.sent \cap last'.expected = given
  BY <1>4, <1>6
<1> QED
  BY <1>5, <1>6, <1>7 DEF EachPeriodOnce, Recorded, Violated, Key

(* An RTE entry: the whole axis is at least two hours.                      *)
LEMMA TwoHours ==
  LET from == settlement_day(0).start
      to   == settlement_day(LastDay).end
  IN  from \in Int /\ to \in Int /\ from + Hour < to
<1> DEFINE from == settlement_day(0).start
           to   == settlement_day(LastDay).end
<1>1. 0 \in Days
  BY CoverageOK DEF Days
<1>2. from \in Int /\ to \in Int /\ settlement_day(0).end <= to
  BY <1>1, DaysInOrder
<1>3. from = 0 * DayLength - Hour
  <2>1. 0 \in Int /\ ~(SpringDay < 0)
    BY Transitions
  <2> QED
    BY <2>1, DayStart DEF settlement_day
<1>4. \/ settlement_day(0).end = (0 + 1) * DayLength - 2 * Hour
      \/ settlement_day(0).end = (0 + 1) * DayLength - Hour
  <2>1. 0 + 1 \in Int
    OBVIOUS
  <2> QED
    BY <2>1, DayStart DEF settlement_day
<1> HIDE DEF from, to
<1> QED
  BY <1>2, <1>3, <1>4, Transitions DEF from, to

(* The values of an entry that is normalised are of one hour each.          *)
LEMMA SpansOf ==
  ASSUME NEW S, NEW a, NEW b, S \subseteq {a, b}, Cardinality(S) = 1
  PROVE  \E x : S = {x}
<1>1. IsFiniteSet({a}) /\ IsFiniteSet({b})
  BY FS_Singleton
<1>2. {a, b} = {a} \cup {b}
  OBVIOUS
<1>3. IsFiniteSet({a, b})
  BY <1>1, <1>2, FS_Union
<1>4. IsFiniteSet(S)
  BY <1>3, FS_Subset
<1> QED
  BY <1>4, FS_Singleton

(* What is sent of a type from a window, and what is read of it: the key of *)
(* the period at an instant, and the observation there.                     *)
SignAt(window, t) == IF t = window.start THEN "consumption" ELSE "generation"

KeyAt(type, window, t) == Gap([type |-> type, direction |-> SignAt(window, t)], t)

SeenAt(type, window, t) ==
  [series |-> [type |-> type, direction |-> SignAt(window, t)],
   resolution |-> Hour, valid_time |-> t, figure |-> Figure(t)]

(* Values of one hour each, of which the last at each start is the one of   *)
(* that instant.                                                            *)
HourLong(values, window) ==
  /\ \A v \in values : v.end - v.start = Hour
  /\ \A v \in Present([values |-> values]) :
       (v.negative <=> v.start = window.start) /\ v.figure = Figure(v.start)
  /\ \A v \in values : \E w \in Present([values |-> values]) : w.start = v.start

(* Of the hours of a window, those that were sent are records or violations *)
(* and the others gaps.                                                     *)
TellsOnce(type, window, starts, hours, result) ==
  /\ {Key(o) : o \in result.records} \cap {Key(o) : o \in result.violations} = {}
  /\ {Key(o) : o \in result.records} \cup {Key(o) : o \in result.violations}
       = {KeyAt(type, window, t) : t \in starts \cap hours}
  /\ result.gaps = {Gap([type |-> type, direction |-> "generation"], t) :
                      t \in hours \ starts}

LEMMA HourLongOnce ==
  ASSUME NEW type \in Types, NEW window, NEW values, values # {}, HourLong(values, window),
         NEW starts, starts = {v.start : v \in values},
         NEW hours, hours = Grid(window.start, window.end, Hour),
         NEW result, result = NormaliseEntry([type |-> type, start |-> window.start,
                                end |-> window.end, values |-> values], now)
  PROVE  TellsOnce(type, window, starts, hours, result)
<1> DEFINE entry == [type |-> type, start |-> window.start, end |-> window.end,
                     values |-> values]
           present == Present([values |-> values])
           Seen(t) == SeenAt(type, window, t)
           Read(v) == [series |-> [type |-> type, direction |-> DirectionOf(v)],
                       resolution |-> Hour, valid_time |-> v.start, figure |-> v.figure]
           observed == {Read(v) : v \in {w \in present : w.start \in hours}}
           taken == {o \in observed : Acceptable(o, now)}
<1>1. Spans(entry) = {Hour}
  BY DEF Spans, HourLong
<1>2. Cardinality(Spans(entry)) = 1 /\ (CHOOSE span \in Spans(entry) : TRUE) = Hour
  BY <1>1, FS_Singleton
<1>3. Present(entry) = present
  BY DEF Present
<1>4. /\ entry.type = type /\ entry.values = values
      /\ Grid(entry.start, entry.end, Hour) = hours
  OBVIOUS
<1>5. result = [records |-> taken, violations |-> observed \ taken,
                gaps |-> {Gap([type |-> type, direction |-> "generation"], t) :
                            t \in hours \ starts},
                entries |-> {}]
  <2>1. result = NormaliseEntry(entry, now)
    OBVIOUS
  <2>2. {v.start : v \in entry.values} = starts
    OBVIOUS
  <2> HIDE DEF entry, present
  <2> QED
    BY <1>2, <1>3, <1>4, <2>1, <2>2 DEF NormaliseEntry
<1>6. /\ \A v \in present : Read(v) = Seen(v.start) /\ v.start \in starts
      /\ \A t \in starts : \E v \in present : v.start = t
  <2>1. \A v \in present : v \in values /\ DirectionOf(v) = SignAt(window, v.start)
    BY DEF HourLong, Present, DirectionOf, SignAt
  <2>2. \A v \in present : v.figure = Figure(v.start)
    BY DEF HourLong
  <2>3. \A t \in starts : \E v \in present : v.start = t
    BY DEF HourLong
  <2> HIDE DEF present
  <2> QED
    BY <2>1, <2>2, <2>3 DEF SeenAt
<1>7. observed = {Seen(t) : t \in starts \cap hours}
  <2> HIDE DEF present, Read, Seen
  <2> QED
    BY <1>6
<1>8. \A t : Key(Seen(t)) = KeyAt(type, window, t)
  BY DEF Key, KeyAt, SeenAt
<1>9. \A t, u : KeyAt(type, window, t) = KeyAt(type, window, u) => t = u
  BY DEF KeyAt, Gap
<1> HIDE DEF Seen, Read, present, observed
<1>10. /\ result.records = taken /\ result.violations = observed \ taken
       /\ result.gaps = {Gap([type |-> type, direction |-> "generation"], t) :
                           t \in hours \ starts}
  BY <1>5
<1> HIDE DEF entry
<1>11. \A o1, o2 \in observed : Key(o1) = Key(o2) => o1 = o2
  BY <1>7, <1>8, <1>9
<1>12. taken \subseteq observed
  OBVIOUS
<1> HIDE DEF taken
<1>13. {Key(o) : o \in taken} \cap {Key(o) : o \in observed \ taken} = {}
  BY <1>11, <1>12
<1>14. {Key(o) : o \in taken} \cup {Key(o) : o \in observed \ taken}
         = {Key(o) : o \in observed}
  BY <1>12
<1>15. {Key(o) : o \in observed} = {KeyAt(type, window, t) : t \in starts \cap hours}
  BY <1>7, <1>8
<1> QED
  BY <1>10, <1>13, <1>14, <1>15 DEF TellsOnce

(* Two spans: the entry is refused.                                         *)
LEMMA MixedIsRefused ==
  ASSUME NEW type \in Types, NEW window, NEW values, NEW a \in values, NEW b \in values,
         a.end - a.start # b.end - b.start,
         \A v \in values : v.end - v.start \in {a.end - a.start, b.end - b.start}
  PROVE  NormaliseEntry([type |-> type, start |-> window.start,
                         end |-> window.end, values |-> values], now)
           = Refused("mixed_resolution")
<1> DEFINE entry == [type |-> type, start |-> window.start, end |-> window.end,
                     values |-> values]
<1>1. /\ a.end - a.start \in Spans(entry) /\ b.end - b.start \in Spans(entry)
      /\ Spans(entry) \subseteq {a.end - a.start, b.end - b.start}
  BY DEF Spans
<1>2. ASSUME Cardinality(Spans(entry)) = 1 PROVE FALSE
  <2>1. \E x : Spans(entry) = {x}
    BY <1>1, <1>2, SpansOf
  <2> QED
    BY <1>1, <2>1
<1>3. entry.type = type /\ entry.values = values
  OBVIOUS
<1> HIDE DEF entry
<1>4. NormaliseEntry(entry, now) = Refused("mixed_resolution")
  BY <1>2, <1>3 DEF NormaliseEntry
<1> QED
  BY <1>4 DEF entry

(* What RTE may send, but for half an hour among hours, is by the hour.     *)
LEMMA ValuesAreHourLong ==
  ASSUME NEW window, window.start \in Int, window.end \in Int,
         window.start + Hour < window.end, NEW values \in RteValues(window)
  PROVE  \/ HourLong(values, window)
         \/ \E a, b \in values :
              /\ a.end - a.start # b.end - b.start
              /\ \A v \in values : v.end - v.start \in {a.end - a.start, b.end - b.start}
<1> DEFINE from == window.start
           hours == Grid(window.start, window.end, Hour)
           Value(t, end) == [n |-> 1, start |-> t, end |-> end,
                             negative |-> t = window.start, figure |-> Figure(t)]
           Full(t) == Value(t, t + Hour)
           Half(t) == Value(t, t + IF t = window.start THEN Hour \div 2 ELSE Hour)
           Overruled == [n |-> 0, start |-> window.start, end |-> window.start + Hour,
                         negative |-> FALSE, figure |-> Figure(window.start)]
           off == window.start + Hour \div 2
<1>1. /\ Hour \in Int /\ Hour \div 2 \in Int /\ Hour \div 2 # Hour /\ Hour > 0
      /\ off \in Int
  BY Transitions
<1>2. /\ hours \subseteq Int /\ from \in hours /\ from + Hour \in hours
  <2>1. (from - from) % Hour = 0 /\ ((from + Hour) - from) % Hour = 0
    <3>1. 0 % Hour = 0 /\ Hour % Hour = 0
      <4>1. 0 = 0 * Hour /\ Hour = 1 * Hour
        BY Transitions
      <4> QED
        BY <4>1, Transitions, ModZero
    <3>2. from - from = 0 /\ (from + Hour) - from = Hour
      BY <1>1
    <3> QED
      BY <3>1, <3>2
  <2>2. from \in from .. window.end - 1 /\ from + Hour \in from .. window.end - 1
    BY <1>1
  <2>3. \A t \in from .. window.end - 1 : t \in Int
    OBVIOUS
  <2> QED
    BY <2>1, <2>2, <2>3 DEF Grid
<1>3. /\ \A t \in Int : Full(t).end - Full(t).start = Hour
      /\ \A t : Full(t).start = t /\ Full(t).n = 1 /\ Full(t).figure = Figure(t)
      /\ \A t : Full(t).negative <=> t = window.start
  <2>1. \A t : /\ Full(t).start = t /\ Full(t).n = 1 /\ Full(t).figure = Figure(t)
              /\ Full(t).end = t + Hour
    OBVIOUS
  <2>2. \A t : Full(t).negative <=> t = window.start
    OBVIOUS
  <2>3. \A t \in Int : (t + Hour) - t = Hour
    BY <1>1
  <2> HIDE DEF Full
  <2> QED
    BY <2>1, <2>2, <2>3
<1>4. /\ Overruled.n = 0 /\ Overruled.start = from
      /\ Overruled.end - Overruled.start = Hour
  BY <1>1
<1>5. \A t \in Int : /\ Half(t).end - Half(t).start
                          = IF t = window.start THEN Hour \div 2 ELSE Hour
  BY <1>1
<1> HIDE DEF hours, Full, Half, Overruled, off
<1>6. ASSUME NEW starts, starts \subseteq Int, values = {Full(t) : t \in starts}
      PROVE  HourLong(values, window)
  <2>1. \A v \in values : v \in Present([values |-> values])
    BY <1>3, <1>6 DEF Present
  <2>2. Present([values |-> values]) \subseteq values
    BY DEF Present
  <2>3. \A v \in values : v.end - v.start = Hour
    BY <1>3, <1>6
  <2>4. \A v \in values :
          (v.negative <=> v.start = window.start) /\ v.figure = Figure(v.start)
    BY <1>3, <1>6
  <2> QED
    BY <2>1, <2>2, <2>3, <2>4 DEF HourLong
<1>7. ASSUME values = {Full(t) : t \in hours} \cup {Overruled}
      PROVE  HourLong(values, window)
  <2>1. \A t \in hours : Full(t) \in Present([values |-> values])
    BY <1>2, <1>3, <1>4, <1>7 DEF Present
  <2>2. Overruled \notin Present([values |-> values])
    <3>1. Full(from) \in values /\ Overruled.start = Full(from).start
      BY <1>2, <1>3, <1>4, <1>7
    <3>2. ~(Full(from).n <= Overruled.n)
      BY <1>2, <1>3, <1>4
    <3> QED
      BY <3>1, <3>2 DEF Present
  <2>3. Present([values |-> values]) = {Full(t) : t \in hours}
    <3>1. Present([values |-> values]) \subseteq values
      BY DEF Present
    <3> QED
      BY <1>7, <2>1, <2>2, <3>1
  <2>4. \A v \in values : v.end - v.start = Hour
    BY <1>2, <1>3, <1>4, <1>7
  <2>5. \A v \in values : \E w \in Present([values |-> values]) : w.start = v.start
    <3>1. ASSUME NEW v \in values
          PROVE  \E t \in hours : v.start = t
      BY <1>2, <1>3, <1>4, <1>7
    <3>2. \A t \in hours : Full(t) \in Present([values |-> values]) /\ Full(t).start = t
      BY <1>3, <2>1
    <3> QED
      BY <3>1, <3>2
  <2>6. \A v \in Present([values |-> values]) :
          (v.negative <=> v.start = window.start) /\ v.figure = Figure(v.start)
    BY <1>2, <1>3, <2>3
  <2> QED
    BY <2>4, <2>5, <2>6 DEF HourLong
<1>8. ASSUME values = {Half(t) : t \in hours}
      PROVE  \E a, b \in values :
               /\ a.end - a.start # b.end - b.start
               /\ \A v \in values : v.end - v.start \in {a.end - a.start, b.end - b.start}
  <2>1. Half(from) \in values /\ Half(from + Hour) \in values
    BY <1>2, <1>8
  <2>2. /\ Half(from).end - Half(from).start = Hour \div 2
        /\ Half(from + Hour).end - Half(from + Hour).start = Hour
    BY <1>1, <1>5
  <2>3. \A v \in values : v.end - v.start \in {Hour \div 2, Hour}
    BY <1>2, <1>5, <1>8
  <2> QED
    BY <1>1, <2>1, <2>2, <2>3
<1>9. \/ \E absent \in {{}, {Autumn}, hours}, more \in {{}, {off}} :
           values = {Full(t) : t \in (hours \ absent) \cup more}
      \/ values = {Full(t) : t \in hours} \cup {Overruled}
      \/ values = {Half(t) : t \in hours}
  BY DEF RteValues, hours, Full, Half, Overruled, off
<1>10. ASSUME NEW absent, NEW more \in {{}, {off}}
       PROVE  (hours \ absent) \cup more \subseteq Int
  BY <1>1, <1>2
<1> QED
  BY <1>6, <1>7, <1>8, <1>9, <1>10

LEMMA RteOnce ==
  ASSUME NEW type \in Types \cup Foreign, FetchRte(type)
  PROVE  EachPeriodOnce'
<1> DEFINE window == [start |-> settlement_day(0).start,
                      end |-> settlement_day(LastDay).end]
           hours == Grid(window.start, window.end, Hour)
           At(starts, t) == Gap([type |-> type,
                                 direction |-> IF t \in starts /\ t = window.start
                                               THEN "consumption" ELSE "generation"], t)
           Result(values) == NormaliseEntry([type |-> type, start |-> window.start,
                               end |-> window.end, values |-> values], now)
<1>1. PICK values \in RteValues(window) :
        last' = [expected |-> {At({v.start : v \in values}, t) : t \in hours},
                 sent |-> {At({v.start : v \in values}, t) : t \in {v.start : v \in values}},
                 result |-> Result(values)]
  BY Zenon DEF FetchRte
<1> DEFINE starts == {v.start : v \in values}
<1>2. /\ last'.expected = {At(starts, t) : t \in hours}
      /\ last'.sent = {At(starts, t) : t \in starts}
      /\ last'.result = Result(values)
  BY <1>1
<1>3. /\ window.start \in Int /\ window.end \in Int /\ window.start + Hour < window.end
  BY TwoHours
<1> HIDE DEF window, Result
<1>4. ASSUME NEW reason, Result(values) = Refused(reason)
      PROVE  EachPeriodOnce'
  <2>1. /\ last'.result.records = {} /\ last'.result.violations = {}
        /\ last'.result.gaps = {} /\ last'.result.entries # {}
    BY <1>2, <1>4 DEF Refused
  <2> QED
    BY <2>1 DEF EachPeriodOnce, Recorded, Violated
<1>5. CASE type \notin Types
  <2>1. Result(values) = Refused("unknown_production_type")
    BY <1>5 DEF NormaliseEntry, Result
  <2> QED
    BY <1>4, <2>1
<1>6. CASE type \in Types /\ values = {}
  <2>1. Result(values) = [records |-> {}, violations |-> {}, gaps |-> {}, entries |-> {}]
    BY <1>6 DEF NormaliseEntry, Result
  <2>2. /\ last'.result.records = {} /\ last'.result.violations = {}
        /\ last'.result.gaps = {} /\ last'.sent = {}
    BY <1>2, <1>6, <2>1
  <2> QED
    BY <2>2 DEF EachPeriodOnce, Recorded, Violated
<1>7. CASE /\ type \in Types
           /\ \E a, b \in values :
                /\ a.end - a.start # b.end - b.start
                /\ \A v \in values : v.end - v.start \in {a.end - a.start, b.end - b.start}
  BY <1>4, <1>7, MixedIsRefused DEF Result
<1>8. CASE type \in Types /\ values # {} /\ HourLong(values, window)
  <2>1. PICK result : result = Result(values)
    OBVIOUS
  <2>2. TellsOnce(type, window, starts, hours, result)
    <3>1. result = NormaliseEntry([type |-> type, start |-> window.start,
                     end |-> window.end, values |-> values], now)
      BY <2>1 DEF Result
    <3>2. starts = {v.start : v \in values} /\ hours = Grid(window.start, window.end, Hour)
      OBVIOUS
    <3> HIDE DEF starts, hours, Result
    <3> QED
      BY <1>8, <3>1, <3>2, HourLongOnce
  <2>3. \A t \in starts : At(starts, t) = KeyAt(type, window, t)
    BY DEF KeyAt, SignAt
  <2>4. \A t \in hours \ starts :
          At(starts, t) = Gap([type |-> type, direction |-> "generation"], t)
    OBVIOUS
  <2>5. \A t, u : At(starts, t) = At(starts, u) => t = u
    BY DEF Gap
  <2> HIDE DEF At, starts, hours
  <2>6. last'.sent \cap last'.expected = {KeyAt(type, window, t) : t \in starts \cap hours}
    <3>1. last'.sent \cap last'.expected = {At(starts, t) : t \in starts \cap hours}
      BY <1>2, <2>5
    <3>2. {At(starts, t) : t \in starts \cap hours}
            = {KeyAt(type, window, t) : t \in starts \cap hours}
      BY <2>3
    <3> QED
      BY <3>1, <3>2
  <2>7. last'.expected \ (last'.sent \cap last'.expected)
          = {Gap([type |-> type, direction |-> "generation"], t) : t \in hours \ starts}
    <3>1. last'.expected \ (last'.sent \cap last'.expected)
            = {At(starts, t) : t \in hours \ starts}
      BY <1>2, <2>5
    <3>2. {At(starts, t) : t \in hours \ starts}
            = {Gap([type |-> type, direction |-> "generation"], t) : t \in hours \ starts}
      BY <2>4
    <3> QED
      BY <3>1, <3>2
  <2>8. last'.result = result
    BY <1>2, <2>1
  <2> QED
    BY <2>2, <2>6, <2>7, <2>8 DEF TellsOnce, EachPeriodOnce, Recorded, Violated, Key
<1>9. \/ HourLong(values, window)
      \/ \E a, b \in values :
           /\ a.end - a.start # b.end - b.start
           /\ \A v \in values : v.end - v.start \in {a.end - a.start, b.end - b.start}
  BY <1>3, ValuesAreHourLong
<1> QED
  BY <1>5, <1>6, <1>7, <1>8, <1>9

(* In what the parsers do not refuse and find values in, every period of    *)
(* the last document is a record, a violation or a gap, once, for any       *)
(* resolutions, holes and transitions, October's repeated hour, a corrected *)
(* hour and RTE's sign included; and nothing else is any of the three       *)
(* (apply_gate, parse_actual_generation).                                   *)
THEOREM EachPeriodOnceHolds == Spec => []EachPeriodOnce
<1>1. Init => EachPeriodOnce
  BY DEF Init, Nothing, EachPeriodOnce, Recorded, Violated
<1>2. IInv /\ EachPeriodOnce /\ [Next]_vars => EachPeriodOnce'
  <2> SUFFICES ASSUME IInv, EachPeriodOnce, [Next]_vars PROVE EachPeriodOnce'
    OBVIOUS
  <2>1. ASSUME NEW day \in Days, Fetch(day) PROVE EachPeriodOnce'
    BY <2>1, FetchOnce
  <2>2. ASSUME NEW type \in Types \cup Foreign, FetchRte(type) PROVE EachPeriodOnce'
    BY <2>2, RteOnce
  <2>3. CASE Return
    BY <2>3 DEF Return, Nothing, EachPeriodOnce, Recorded, Violated
  <2>4. CASE \/ Tick
             \/ \E day \in Days, series \in Series, part \in Parts :
                  Publish(day, series, part)
             \/ UNCHANGED vars
    <3>1. last' = last
      BY <2>4 DEF Tick, Publish, vars
    <3> QED
      BY <3>1 DEF EachPeriodOnce, Recorded, Violated, Key
  <2> QED
    BY <2>1, <2>2, <2>3, <2>4 DEF Next
<1> QED
  BY <1>1, <1>2, Invariance, PTL DEF Spec

=============================================================================
