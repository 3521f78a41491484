----------------------------- MODULE TimeZoneProofs ----------------------------
(* Date.cc and the conversions of UTC in TimeZone.cc follow the Gregorian  *)
(* calendar: for every clock and every date of years of four digits, what  *)
(* they compute is what the reference clock shows.                         *)
EXTENDS TimeZone, DataLemmas

--------------------------------------------------------------------------------
(* --------------------------- Julian day numbers ------------------------- *)
LEMMA QuotNat ==
    ASSUME NEW a \in Nat, NEW b \in Nat \ {0}
    PROVE  Quot(a, b) = a \div b
BY DEF Quot

(* A year counted from March, a month counted from March as 0.             *)
ShiftedYear(y, m) == y + 4800 - (IF m <= 2 THEN 1 ELSE 0)
ShiftedMonth(m) == IF m <= 2 THEN m + 9 ELSE m - 3

(* The day of the shifted year, counted from 0.                            *)
DayOfYear(m, d) == d - 1 + (153 * ShiftedMonth(m) + 2) \div 5

IsDate(y, m, d) == y \in Nat /\ m \in 1 .. 12 /\ d \in 1 .. DaysIn(y, m)

LEMMA DayOfYearBounds ==
    ASSUME NEW y, NEW m, NEW d, IsDate(y, m, d)
    PROVE  LET e == DayOfYear(m, d)
               M == ShiftedMonth(m)
           IN  /\ M \in 0 .. 11 /\ e \in 0 .. 365
               /\ (153 * M + 2) \div 5 <= e /\ e < (153 * (M + 1) + 2) \div 5
               /\ e = 365 => M = 11 /\ IsLeap(y)
BY DEF IsDate, DaysIn, DayOfYear, ShiftedMonth

LEMMA JulianDay ==
    ASSUME NEW y, NEW m, NEW d, IsDate(y, m, d)
    PROVE  LET Y == ShiftedYear(y, m) IN
           /\ Y \in Nat
           /\ getJulianDayNumber(y, m, d) =
                 DayOfYear(m, d) + 365 * Y + Y \div 4 - Y \div 100 + Y \div 400 - 32044
<1> DEFINE Y == ShiftedYear(y, m)
           M == ShiftedMonth(m)
           a == Quot(14 - m, 12)
<1>1. y \in Nat /\ m \in 1 .. 12 /\ d \in Nat
  BY DEF IsDate, DaysIn
<1>2. a = IF m <= 2 THEN 1 ELSE 0
  BY <1>1 DEF Quot
<1>3. Y \in Nat /\ M \in Nat /\ Y = y + 4800 - a /\ M = m + 12 * a - 3
  BY <1>1, <1>2 DEF ShiftedYear, ShiftedMonth
<1> HIDE DEF Y, M, a
<1>4. getJulianDayNumber(y, m, d) =
        d + Quot(153 * M + 2, 5) + Y * 365 + Quot(Y, 4) - Quot(Y, 100) + Quot(Y, 400) - 32045
  BY <1>3 DEF getJulianDayNumber, a
<1>5. Quot(153 * M + 2, 5) = (153 * M + 2) \div 5
  BY <1>3, QuotNat
<1>6. Quot(Y, 4) = Y \div 4 /\ Quot(Y, 100) = Y \div 100 /\ Quot(Y, 400) = Y \div 400
  BY <1>3 DEF Quot
<1>7. DayOfYear(m, d) = d - 1 + (153 * M + 2) \div 5
  BY DEF DayOfYear, M
<1> DEFINE p == (153 * M + 2) \div 5
           q == Y \div 4
           u == Y \div 100
           w == Y \div 400
<1>8. p \in Nat /\ q \in Nat /\ u \in Nat /\ w \in Nat
  BY <1>3
<1> HIDE DEF p, q, u, w
<1>9. /\ getJulianDayNumber(y, m, d) = d + p + Y * 365 + q - u + w - 32045
      /\ DayOfYear(m, d) = d - 1 + p
  BY <1>4, <1>5, <1>6, <1>7 DEF p, q, u, w
<1>10. getJulianDayNumber(y, m, d) = DayOfYear(m, d) + 365 * Y + q - u + w - 32044
  BY <1>1, <1>3, <1>8, <1>9
<1> QED BY <1>3, <1>10 DEF Y, q, u, w

(* A year split into centuries and the rest.                               *)
LEMMA Centuries ==
    ASSUME NEW Y \in Nat
    PROVE  LET b == Y \div 100
               r == Y - 100 * b
           IN  /\ b \in Nat /\ r \in 0 .. 99
               /\ Y \div 4 = 25 * b + r \div 4
               /\ Y \div 400 = b \div 4
OBVIOUS

(* The month follows from the day of the year.                             *)
LEMMA MonthOfDay ==
    ASSUME NEW M \in 0 .. 11, NEW e \in Nat,
           (153 * M + 2) \div 5 <= e, e < (153 * (M + 1) + 2) \div 5
    PROVE  (5 * e + 2) \div 153 = M
OBVIOUS

LEMMA DivisionBy146097 ==
    ASSUME NEW q \in Nat, NEW x \in Nat, x < 146097
    PROVE  (146097 * q + x) \div 146097 = q
OBVIOUS

LEMMA DivisionBy1461 ==
    ASSUME NEW q \in Nat, NEW x \in Nat, x < 1461
    PROVE  (1461 * q + x) \div 1461 = q
OBVIOUS

LEMMA DivisionBy4 ==
    ASSUME NEW q \in Nat, NEW x \in Nat, x < 4
    PROVE  (4 * q + x) \div 4 = q
OBVIOUS

(* The days before a century, and the day e of year r counted within it.   *)
DaysBefore(b) == 36524 * b + b \div 4
CenturyDay(r, e) == e + 365 * r + r \div 4

(* A day 365 is the last one of a leap year.                               *)
InYear(b, r, e) ==
    /\ b \in Nat /\ r \in 0 .. 99 /\ e \in 0 .. 365
    /\ e = 365 => r % 4 = 3 /\ (r = 99 => b % 4 = 3)

(* Day e falls in the month M of its year.                                 *)
InMonth(M, e) ==
    /\ M \in 0 .. 11
    /\ (153 * M + 2) \div 5 <= e /\ e < (153 * (M + 1) + 2) \div 5

YearMonthDay(y, m, d) == [year |-> y, month |-> m, day |-> d]

(* The Julian day number, and the date, of a day counted so.               *)
DayNumber(b, r, e) == (DaysBefore(b) + CenturyDay(r, e)) - 32044
DateOf(b, r, M, e) ==
    YearMonthDay(100 * b + r - 4800 + M \div 10,
                 M + 3 - 12 * (M \div 10),
                 e - (153 * M + 2) \div 5 + 1)

(* The year is found from the day of the century.                          *)
LEMMA YearOfCenturyDay ==
    ASSUME NEW b, NEW r, NEW e, InYear(b, r, e)
    PROVE  /\ CenturyDay(r, e) \in Nat
           /\ (4 * CenturyDay(r, e) + 3) \div 1461 = r
           /\ (1461 * r) \div 4 = 365 * r + r \div 4
<1> DEFINE r4 == r \div 4
           rm == r % 4
           c == CenturyDay(r, e)
           x == 4 * e + 3 - rm
<1>1. /\ r \in Nat /\ e \in 0 .. 365 /\ r4 \in Nat /\ rm \in 0 .. 3 /\ r = 4 * r4 + rm
      /\ e = 365 => rm = 3
  BY DEF InYear
<1>2. c = e + 365 * r + r4
  BY DEF CenturyDay
<1> HIDE DEF r4, rm, c
<1>3. c \in Nat /\ 4 * c + 3 = 1461 * r + x /\ x \in Nat /\ x < 1461
  BY <1>1, <1>2
<1>4. 1461 * r = 4 * (365 * r + r4) + rm /\ 365 * r + r4 \in Nat
  BY <1>1
<1> HIDE DEF x
<1>5. (1461 * r + x) \div 1461 = r
  BY <1>1, <1>3, DivisionBy1461
<1> DEFINE n == 365 * r + r4
<1> HIDE DEF n
<1>6. n \in Nat /\ 1461 * r = 4 * n + rm
  BY <1>4 DEF n
<1>7. (4 * n + rm) \div 4 = n
  BY <1>1, <1>6, DivisionBy4
<1>8. n = 365 * r + r \div 4
  BY DEF n, r4
<1> QED BY <1>3, <1>5, <1>6, <1>7, <1>8 DEF c

(* The century is found from the day.                                      *)
LEMMA CenturyOfDay ==
    ASSUME NEW b, NEW r, NEW e, InYear(b, r, e)
    PROVE  /\ DaysBefore(b) + CenturyDay(r, e) \in Nat
           /\ (4 * (DaysBefore(b) + CenturyDay(r, e)) + 3) \div 146097 = b
           /\ (b * 146097) \div 4 = DaysBefore(b)
<1> DEFINE b4 == b \div 4
           bm == b % 4
           c == CenturyDay(r, e)
           r4 == r \div 4
           n == 36524 * b + b4
           a == DaysBefore(b) + c
           x == 4 * c + 3 - bm
<1>1. b \in Nat /\ b4 \in Nat /\ bm \in 0 .. 3 /\ b = 4 * b4 + bm
  BY DEF InYear
<1>2. /\ r \in 0 .. 99 /\ e \in 0 .. 365 /\ r4 \in 0 .. 24
      /\ r = 99 => r4 = 24
      /\ (e = 365 /\ r = 99) => bm = 3
      /\ c = e + 365 * r + r4
  BY DEF InYear, CenturyDay
<1>3. n = DaysBefore(b) /\ a = n + c
  BY DEF DaysBefore
<1> HIDE DEF b4, bm, c, r4, a
<1>4. n \in Nat /\ b * 146097 = 4 * n + bm
  BY <1>1
<1>5. c \in Nat /\ c <= 36524
  BY <1>2
<1>6. c = 36524 => bm = 3
  BY <1>1, <1>2
<1>7. bm \in Int /\ 0 <= bm /\ bm <= 3
  BY <1>1
<1>8. x \in Nat /\ x < 146097
  BY <1>5, <1>6, <1>7
<1> HIDE DEF n
<1>9. a \in Nat /\ 4 * a + 3 = 146097 * b + x
  <2>1. b \in Int /\ n \in Nat /\ a = n + c /\ b * 146097 = 4 * n + bm
    BY <1>1, <1>3, <1>4
  <2>2. a \in Nat
    BY <1>5, <2>1
  <2>3. 4 * a = 4 * n + 4 * c
    BY <1>5, <2>1
  <2> DEFINE z == 146097 * b
  <2>4. z \in Int /\ z = 4 * n + bm
    BY <2>1
  <2> HIDE DEF z
  <2>5. 4 * a + 3 = z + x
    BY <1>5, <1>7, <2>1, <2>2, <2>3, <2>4
  <2> QED BY <2>2, <2>5 DEF z
<1> HIDE DEF x
<1>10. (146097 * b + x) \div 146097 = b
  BY <1>1, <1>8, DivisionBy146097
<1>11. (4 * n + bm) \div 4 = n
  BY <1>4, <1>7, DivisionBy4
<1>12. a \in Nat /\ (4 * a + 3) \div 146097 = b /\ (b * 146097) \div 4 = DaysBefore(b)
  BY <1>3, <1>4, <1>9, <1>10, <1>11
<1>13. a = DaysBefore(b) + CenturyDay(r, e)
  BY DEF a, c
<1> QED BY <1>12, <1>13, SMT

(* getYearMonthDay finds century, year and month one after the other.      *)
LEMMA FromCenturyDays ==
    ASSUME NEW b, NEW r, NEW e, NEW M, InYear(b, r, e), InMonth(M, e)
    PROVE  getYearMonthDay(DayNumber(b, r, e)) = DateOf(b, r, M, e)
<1> DEFINE n == DaysBefore(b)
           c == CenturyDay(r, e)
           a == n + c
           a1 == a - 32044 + 32044
           b1 == Quot(4 * a1 + 3, 146097)
           c1 == a1 - Quot(b1 * 146097, 4)
           d1 == Quot(4 * c1 + 3, 1461)
           e1 == c1 - Quot(1461 * d1, 4)
           m1 == Quot(5 * e1 + 2, 153)
           k == r \div 4
<1>1. a \in Nat /\ (4 * a + 3) \div 146097 = b /\ (b * 146097) \div 4 = n
  BY CenturyOfDay
<1>2. c \in Nat /\ (4 * c + 3) \div 1461 = r /\ (1461 * r) \div 4 = 365 * r + k
  BY YearOfCenturyDay
<1>3. b \in Nat /\ r \in Nat /\ e \in Nat /\ k \in Nat
  BY DEF InYear
<1>4. n \in Nat /\ c = e + 365 * r + k
  BY <1>3 DEF DaysBefore, CenturyDay
<1>5. M \in Nat /\ (5 * e + 2) \div 153 = M
  BY <1>3, MonthOfDay DEF InMonth
<1> DEFINE y2 == b1 * 100 + d1 - 4800 + Quot(m1, 10)
           m2 == m1 + 3 - 12 * Quot(m1, 10)
           d2 == e1 - Quot(153 * m1 + 2, 5) + 1
<1>6. getYearMonthDay(DayNumber(b, r, e)) = YearMonthDay(y2, m2, d2)
  <2>1. getYearMonthDay(a - 32044) = [year |-> y2, month |-> m2, day |-> d2]
    BY DEF getYearMonthDay
  <2>2. DayNumber(b, r, e) = a - 32044
    BY DEF DayNumber
  <2> HIDE DEF a, y2, m2, d2
  <2> QED BY <2>1, <2>2 DEF YearMonthDay
<1>7. a = n + c
  OBVIOUS
<1> HIDE DEF a, c, n, k
<1>8. a1 = a
  BY <1>1
<1> HIDE DEF a1
<1>9. b1 = b
  BY <1>1, <1>8 DEF Quot
<1> HIDE DEF b1
<1>10. c1 = c
  <2>1. Quot(b1 * 146097, 4) = n
    BY <1>1, <1>3, <1>9 DEF Quot
  <2> QED BY <1>2, <1>4, <1>7, <1>8, <2>1
<1> HIDE DEF c1
<1>11. d1 = r
  BY <1>2, <1>10 DEF Quot
<1> HIDE DEF d1
<1>12. e1 = e
  <2>1. Quot(1461 * d1, 4) = 365 * r + k
    BY <1>2, <1>3, <1>11 DEF Quot
  <2> QED BY <1>3, <1>4, <1>10, <2>1
<1> HIDE DEF e1
<1>13. m1 = M
  BY <1>3, <1>5, <1>12 DEF Quot
<1> HIDE DEF m1
<1>14. Quot(m1, 10) = M \div 10 /\ Quot(153 * m1 + 2, 5) = (153 * M + 2) \div 5
  BY <1>5, <1>13 DEF Quot
<1>15. /\ y2 = 100 * b + r - 4800 + M \div 10
       /\ m2 = M + 3 - 12 * (M \div 10)
       /\ d2 = e - (153 * M + 2) \div 5 + 1
  BY <1>3, <1>9, <1>11, <1>12, <1>13, <1>14
<1>16. DateOf(b, r, M, e) = YearMonthDay(y2, m2, d2)
  BY <1>15 DEF DateOf
<1> QED BY <1>6, <1>16

(* getYearMonthDay takes a date back from its Julian day number.           *)
LEMMA JulianRoundTrip ==
    ASSUME NEW y, NEW m, NEW d, IsDate(y, m, d)
    PROVE  getYearMonthDay(getJulianDayNumber(y, m, d)) = YearMonthDay(y, m, d)
<1> DEFINE Y == ShiftedYear(y, m)
           M == ShiftedMonth(m)
           e == DayOfYear(m, d)
           b == Y \div 100
           r == Y - 100 * b
           j == getJulianDayNumber(y, m, d)
<1>1. /\ M \in 0 .. 11 /\ e \in 0 .. 365
      /\ (153 * M + 2) \div 5 <= e /\ e < (153 * (M + 1) + 2) \div 5
      /\ e = 365 => M = 11 /\ IsLeap(y)
  BY DayOfYearBounds
<1>2. Y \in Nat /\ j = e + 365 * Y + Y \div 4 - Y \div 100 + Y \div 400 - 32044
  BY JulianDay
<1>3. y \in Nat /\ m \in 1 .. 12 /\ d \in Nat
  BY DEF IsDate, DaysIn
<1>4. /\ M = 11 => Y = y + 4799
      /\ y = Y - 4800 + (IF M >= 10 THEN 1 ELSE 0)
      /\ m = M + 3 - 12 * (IF M >= 10 THEN 1 ELSE 0)
      /\ d = e - (153 * M + 2) \div 5 + 1
  BY <1>3 DEF ShiftedYear, ShiftedMonth, DayOfYear
<1>5. e = 365 => (y % 4 = 0 /\ y % 100 # 0) \/ y % 400 = 0
  BY <1>1 DEF IsLeap
<1> HIDE DEF Y, M, e, j
<1>6. /\ b \in Nat /\ r \in 0 .. 99 /\ Y = 100 * b + r
      /\ Y \div 4 = 25 * b + r \div 4 /\ Y \div 400 = b \div 4
  BY <1>2, Centuries
<1>7. InYear(b, r, e)
  <2>1. e = 365 => r % 4 = 3 /\ (r = 99 => b % 4 = 3)
    BY <1>1, <1>2, <1>3, <1>4, <1>5, <1>6
  <2> QED BY <1>1, <1>6, <2>1 DEF InYear
<1>8. j = DayNumber(b, r, e)
  BY <1>1, <1>2, <1>6 DEF DaysBefore, CenturyDay, DayNumber
<1> HIDE DEF b, r
<1>9. InMonth(M, e)
  BY <1>1 DEF InMonth
<1>10. getYearMonthDay(DayNumber(b, r, e)) = DateOf(b, r, M, e)
  BY <1>7, <1>9, FromCenturyDays
<1>11. M \div 10 = IF M >= 10 THEN 1 ELSE 0
  BY <1>1
<1>12. /\ 100 * b + r - 4800 + M \div 10 = y
       /\ M + 3 - 12 * (M \div 10) = m
       /\ e - (153 * M + 2) \div 5 + 1 = d
  BY <1>1, <1>4, <1>6, <1>11
<1>13. DateOf(b, r, M, e) = YearMonthDay(y, m, d)
  BY <1>12 DEF DateOf
<1> QED BY <1>8, <1>10, <1>13 DEF j

--------------------------------------------------------------------------------
(* ------------------------- the day after a date ------------------------- *)
LEMMA FloorSteps ==
    ASSUME NEW Z \in Nat, Z >= 1
    PROVE  /\ Z \div 4 = (Z - 1) \div 4 + (IF Z % 4 = 0 THEN 1 ELSE 0)
           /\ Z \div 100 = (Z - 1) \div 100 + (IF Z % 100 = 0 THEN 1 ELSE 0)
           /\ Z \div 400 = (Z - 1) \div 400 + (IF Z % 400 = 0 THEN 1 ELSE 0)
OBVIOUS

(* The Julian day number of a date from its shifted year and its day in it. *)
YearStart(Y) == 365 * Y + Y \div 4 - Y \div 100 + Y \div 400

LEMMA DayNumberOfDate ==
    ASSUME NEW y, NEW m, NEW d, IsDate(y, m, d)
    PROVE  /\ ShiftedYear(y, m) \in Nat /\ DayOfYear(m, d) \in Nat
           /\ YearStart(ShiftedYear(y, m)) \in Int
           /\ getJulianDayNumber(y, m, d) = DayOfYear(m, d) + YearStart(ShiftedYear(y, m)) - 32044
           /\ getJulianDayNumber(y, m, d) \in Nat
<1> DEFINE Y == ShiftedYear(y, m)
           e == DayOfYear(m, d)
           j == getJulianDayNumber(y, m, d)
           q == Y \div 4
           u == Y \div 100
           w == Y \div 400
<1>1. Y \in Nat /\ j = e + 365 * Y + q - u + w - 32044
  BY JulianDay
<1>2. e \in Nat
  BY DayOfYearBounds
<1>3. Y >= 4799
  BY DEF ShiftedYear, IsDate
<1> HIDE DEF Y, e, j
<1>4. q \in Nat /\ u \in Nat /\ w \in Nat /\ u <= q
  BY <1>1
<1>5. YearStart(Y) = 365 * Y + q - u + w
  BY DEF YearStart
<1> HIDE DEF q, u, w
<1>6. YearStart(Y) \in Int /\ YearStart(Y) >= 365 * Y
  BY <1>1, <1>4, <1>5
<1>7. j = e + YearStart(Y) - 32044
  BY <1>1, <1>2, <1>4, <1>5
<1>8. j \in Nat
  BY <1>1, <1>2, <1>3, <1>6, <1>7
<1> QED BY <1>1, <1>2, <1>6, <1>7, <1>8 DEF Y, e, j

(* A leap year is a day longer.                                            *)
LEMMA YearLength ==
    ASSUME NEW y \in Nat
    PROVE  YearStart(ShiftedYear(y, 3)) =
              YearStart(ShiftedYear(y, 2)) + 365 + (IF IsLeap(y) THEN 1 ELSE 0)
<1> DEFINE Z == y + 4800
           Q(n) == IF Z % n = 0 THEN 1 ELSE 0
           a == Z \div 4        a1 == (Z - 1) \div 4
           b == Z \div 100      b1 == (Z - 1) \div 100
           c == Z \div 400      c1 == (Z - 1) \div 400
<1>1. ShiftedYear(y, 3) = Z /\ ShiftedYear(y, 2) = Z - 1 /\ Z \in Nat /\ Z >= 1
  BY DEF ShiftedYear
<1>2. a = a1 + Q(4) /\ b = b1 + Q(100) /\ c = c1 + Q(400)
  BY <1>1, FloorSteps
<1>3. Q(4) - Q(100) + Q(400) = IF IsLeap(y) THEN 1 ELSE 0
  BY DEF IsLeap
<1>4. Q(4) \in {0, 1} /\ Q(100) \in {0, 1} /\ Q(400) \in {0, 1}
  OBVIOUS
<1>5. a1 \in Int /\ b1 \in Int /\ c1 \in Int
  BY <1>1
<1>6. YearStart(Z) = 365 * Z + a - b + c /\ YearStart(Z - 1) = 365 * (Z - 1) + a1 - b1 + c1
  BY DEF YearStart
<1> DEFINE q == Q(4)
           r == Q(100)
           t == Q(400)
<1>7. /\ q \in Int /\ r \in Int /\ t \in Int /\ q - r + t = IF IsLeap(y) THEN 1 ELSE 0
      /\ a = a1 + q /\ b = b1 + r /\ c = c1 + t
  BY <1>2, <1>3, <1>4
<1> HIDE DEF Z, q, r, t, a, a1, b, b1, c, c1
<1>8. YearStart(Z) = YearStart(Z - 1) + 365 + (q - r + t)
  BY <1>1, <1>5, <1>6, <1>7
<1> QED BY <1>1, <1>7, <1>8

(* The three ways in which the reference clock passes midnight.            *)
LEMMA NextDayOfMonth ==
    ASSUME NEW y, NEW m, NEW d, IsDate(y, m, d), d < DaysIn(y, m)
    PROVE  /\ IsDate(y, m, d + 1)
           /\ getJulianDayNumber(y, m, d + 1) = getJulianDayNumber(y, m, d) + 1
<1>1. IsDate(y, m, d + 1) /\ d \in Nat
  BY DEF IsDate, DaysIn
<1>2. DayOfYear(m, d + 1) = DayOfYear(m, d) + 1
  BY <1>1 DEF DayOfYear, IsDate, ShiftedMonth
<1>3. YearStart(ShiftedYear(y, m)) \in Int /\ DayOfYear(m, d) \in Nat
  BY DayNumberOfDate
<1>4. /\ getJulianDayNumber(y, m, d) = DayOfYear(m, d) + YearStart(ShiftedYear(y, m)) - 32044
      /\ getJulianDayNumber(y, m, d + 1) =
            DayOfYear(m, d + 1) + YearStart(ShiftedYear(y, m)) - 32044
  BY <1>1, DayNumberOfDate
<1> QED BY <1>1, <1>2, <1>3, <1>4

LEMMA FirstOfMonth ==
    ASSUME NEW y, NEW m, IsDate(y, m, DaysIn(y, m)), m < 12
    PROVE  /\ IsDate(y, m + 1, 1)
           /\ getJulianDayNumber(y, m + 1, 1) = getJulianDayNumber(y, m, DaysIn(y, m)) + 1
<1> DEFINE d == DaysIn(y, m)
           s == YearStart(ShiftedYear(y, m))
           s1 == YearStart(ShiftedYear(y, m + 1))
<1>1. IsDate(y, m + 1, 1) /\ y \in Nat /\ m \in 1 .. 11
  BY DEF IsDate, DaysIn
<1>2. /\ s \in Int /\ s1 \in Int /\ DayOfYear(m, d) \in Nat /\ DayOfYear(m + 1, 1) \in Nat
      /\ getJulianDayNumber(y, m, d) = DayOfYear(m, d) + s - 32044
      /\ getJulianDayNumber(y, m + 1, 1) = DayOfYear(m + 1, 1) + s1 - 32044
  BY <1>1, DayNumberOfDate
<1>3. DayOfYear(m + 1, 1) + s1 = DayOfYear(m, d) + s + 1
  <2>1. CASE m = 2
    <3>1. DayOfYear(2, d) = 364 + (IF IsLeap(y) THEN 1 ELSE 0) /\ DayOfYear(3, 1) = 0
      BY <2>1 DEF DayOfYear, ShiftedMonth, DaysIn
    <3>2. s1 = s + 365 + (IF IsLeap(y) THEN 1 ELSE 0)
      BY <1>1, <2>1, YearLength
    <3> HIDE DEF s, s1, d
    <3> QED BY <1>2, <2>1, <3>1, <3>2
  <2>2. CASE m # 2
    <3>1. ShiftedYear(y, m + 1) = ShiftedYear(y, m)
      BY <1>1, <2>2 DEF ShiftedYear
    <3>2. DayOfYear(m + 1, 1) = DayOfYear(m, d) + 1
      BY <1>1, <2>2 DEF DayOfYear, ShiftedMonth, DaysIn
    <3>3. s1 = s
      BY <3>1
    <3> HIDE DEF s, s1, d
    <3> QED BY <1>2, <3>2, <3>3
  <2> QED BY <2>1, <2>2
<1> HIDE DEF s, s1, d
<1>4. getJulianDayNumber(y, m + 1, 1) = getJulianDayNumber(y, m, d) + 1
  BY <1>2, <1>3
<1> QED BY <1>1, <1>4 DEF d

LEMMA NewYear ==
    ASSUME NEW y, IsDate(y, 12, 31)
    PROVE  /\ IsDate(y + 1, 1, 1)
           /\ getJulianDayNumber(y + 1, 1, 1) = getJulianDayNumber(y, 12, 31) + 1
<1> DEFINE s == YearStart(ShiftedYear(y, 12))
           s1 == YearStart(ShiftedYear(y + 1, 1))
<1>1. IsDate(y + 1, 1, 1) /\ y \in Nat
  BY DEF IsDate, DaysIn
<1>2. /\ s \in Int
      /\ getJulianDayNumber(y, 12, 31) = DayOfYear(12, 31) + s - 32044
      /\ getJulianDayNumber(y + 1, 1, 1) = DayOfYear(1, 1) + s1 - 32044
  BY <1>1, DayNumberOfDate
<1>3. DayOfYear(12, 31) = 305 /\ DayOfYear(1, 1) = 306
  BY DEF DayOfYear, ShiftedMonth
<1>4. ShiftedYear(y + 1, 1) = ShiftedYear(y, 12)
  BY <1>1 DEF ShiftedYear
<1>5. s1 = s
  BY <1>4
<1> HIDE DEF s, s1
<1> QED BY <1>1, <1>2, <1>3, <1>5

--------------------------------------------------------------------------------
(* ------------------------------ arithmetic ------------------------------ *)
(* C's division rounds towards zero; a carry makes it round down.          *)
Carry(t, k) == IF Rem(t, k) < 0 THEN 1 ELSE 0

Splits(t, D, k, s) ==
    k \in Nat \ {0} /\ D \in Int /\ s \in Nat /\ s < k /\ t = D * k + s

LEMMA RoundDown ==
    ASSUME NEW k, NEW D, NEW s, NEW t, Splits(t, D, k, s)
    PROVE  Quot(t, k) - Carry(t, k) = D /\ Rem(t, k) + Carry(t, k) * k = s
<1> DEFINE p == D * k
           q == Quot(t, k)
           r == Rem(t, k)
           c == IF r < 0 THEN 1 ELSE 0
<1> SUFFICES q - c = D /\ r + c * k = s
  BY DEF Carry
<1>1. k \in Nat \ {0} /\ D \in Int /\ s \in Nat /\ s < k /\ t = D * k + s
  BY DEF Splits
<1>2. p \in Int /\ t = p + s /\ t \in Int
  BY <1>1
<1>3. q \in Int /\ r = t - k * q
  BY <1>1, <1>2 DEF Quot, Rem
<1>4. CASE D >= 0
  <2>1. p = k * D /\ t >= 0
    BY <1>1, <1>4
  <2>2. (k * D + s) \div k = D
    BY <1>1, <1>4, DivMod
  <2>3. q = D
    BY <1>1, <1>4, <2>1, <2>2 DEF Quot
  <2>4. r = s
    BY <1>1, <1>2, <1>3, <2>1, <2>3
  <2> QED BY <1>1, <1>4, <2>3, <2>4
<1>5. CASE D < 0 /\ s = 0
  <2>1. -t = k * (-D) + 0 /\ t < 0
    BY <1>1, <1>5
  <2>2. (k * (-D) + 0) \div k = -D
    BY <1>1, <1>5, DivMod
  <2>3. q = D
    BY <1>1, <1>5, <2>1, <2>2 DEF Quot
  <2>4. r = 0
    BY <1>1, <1>2, <1>3, <1>5, <2>3
  <2> QED BY <1>1, <1>5, <2>3, <2>4
<1>6. CASE D < 0 /\ s > 0
  <2> DEFINE n == -D - 1
             x == k - s
  <2>1. n \in Nat /\ x \in Nat /\ x < k
    BY <1>1, <1>6
  <2>2. k * n = -p - k
    BY <1>1, <1>6
  <2>3. -t = k * n + x /\ t < 0
    <3>1. p <= -k
      <4>1. k * (-D) >= k * 1
        BY <1>1, <1>6
      <4> QED BY <1>1, <4>1
    <3> HIDE DEF p
    <3> QED BY <1>1, <1>2, <1>6, <2>1, <2>2, <3>1
  <2>4. (k * n + x) \div k = n
    BY <1>1, <2>1, DivMod
  <2>5. q = D + 1
    BY <1>1, <1>6, <2>3, <2>4 DEF Quot
  <2>6. k * q = p + k
    BY <1>1, <2>5
  <2>7. r = s - k
    <3> HIDE DEF p
    <3> QED BY <1>1, <1>2, <1>3, <2>6
  <2>8. k \in Nat /\ D \in Int /\ s \in Nat /\ s < k
    BY <1>1
  <2> HIDE DEF p, q, r
  <2>9. c = 1
    BY <2>7, <2>8
  <2> HIDE DEF c
  <2>10. q - c = D /\ c * k = k
    BY <2>5, <2>8, <2>9
  <2>11. r + k = s
    BY <2>7, <2>8
  <2> QED BY <2>10, <2>11, Zenon
<1>7. D >= 0 \/ (D < 0 /\ s = 0) \/ (D < 0 /\ s > 0)
  BY <1>1
<1> HIDE DEF p, q, r, c
<1> QED BY <1>4, <1>5, <1>6, <1>7

--------------------------------------------------------------------------------
(* -------------------------- the reference clock ------------------------- *)
DateTimes ==
    [year : Nat, month : 1 .. 12, day : 1 .. 31, hour : 0 .. HoursPerDay - 1,
     minute : 0 .. MinutesPerHour - 1, second : 0 .. SecondsPerMinute - 1]

IsDateTime(dt) == dt \in DateTimes /\ IsDate(dt.year, dt.month, dt.day)

DayOf(dt) == getJulianDayNumber(dt.year, dt.month, dt.day)
SecondOf(dt) == dt.hour * (MinutesPerHour * SecondsPerMinute) + dt.minute * SecondsPerMinute + dt.second

(* The one that is shown later has the larger number in the first place    *)
(* where they differ.                                                      *)
DateAhead(dt, n) ==
    \/ n.year > dt.year
    \/ n.year = dt.year /\ n.month > dt.month
    \/ n.year = dt.year /\ n.month = dt.month /\ n.day > dt.day

SameDate(dt, n) == n.year = dt.year /\ n.month = dt.month /\ n.day = dt.day

TimeAhead(dt, n) ==
    \/ n.hour > dt.hour
    \/ n.hour = dt.hour /\ n.minute > dt.minute
    \/ n.hour = dt.hour /\ n.minute = dt.minute /\ n.second > dt.second

(* What a second later is to the day and to the second of the day.         *)
SameDay(dt, n) ==
    /\ ~Midnight(n) /\ DayOf(n) = DayOf(dt) /\ SecondOf(n) = SecondOf(dt) + 1
    /\ SameDate(dt, n) /\ TimeAhead(dt, n)
NextDay(dt, n) ==
    /\ Midnight(n) /\ DayOf(n) = DayOf(dt) + 1 /\ DateAhead(dt, n)
    /\ SecondOf(dt) = kSecondsPerDay - 1 /\ SecondOf(n) = 0

LEMMA Units ==
    /\ SecondsPerMinute \in 1 .. 100 /\ MinutesPerHour \in 1 .. 100 /\ HoursPerDay \in 1 .. 100
    /\ kMicroSecondsPerSecond \in Nat \ {0} /\ MinYear \in Nat \ {0} /\ MaxYear \in 1970 .. 9997
BY TimeZoneAssumption

LEMMA SecondsOfDay ==
    /\ MinutesPerHour * SecondsPerMinute \in Nat \ {0}
    /\ kSecondsPerDay \in Nat \ {0}
    /\ kSecondsPerDay = HoursPerDay * (MinutesPerHour * SecondsPerMinute)
<1> DEFINE S == SecondsPerMinute
           M == MinutesPerHour
           H == HoursPerDay
<1>1. S \in Nat \ {0} /\ M \in Nat \ {0} /\ H \in Nat \ {0}
  BY Units
<1>2. M * S \in Nat \ {0}
  BY <1>1
<1>3. H * (M * S) \in Nat \ {0}
  BY <1>1, <1>2
<1>4. H * M * S = H * (M * S)
  BY <1>1
<1> QED BY <1>2, <1>3, <1>4 DEF kSecondsPerDay

LEMMA SecondsInDay ==
    ASSUME NEW dt, IsDateTime(dt)
    PROVE  SecondOf(dt) \in Nat /\ SecondOf(dt) < kSecondsPerDay
<1> DEFINE S == SecondsPerMinute
           M == MinutesPerHour
           H == HoursPerDay
           A == M * S
           h == dt.hour
           i == dt.minute
           c == dt.second
<1>1. /\ S \in Nat \ {0} /\ M \in Nat \ {0} /\ H \in Nat \ {0}
      /\ h \in Nat /\ h <= H - 1 /\ i \in Nat /\ i <= M - 1 /\ c \in Nat /\ c <= S - 1
  BY Units DEF IsDateTime, DateTimes
<1>2. A \in Nat \ {0} /\ kSecondsPerDay = H * A
  BY SecondsOfDay
<1>3. SecondOf(dt) = h * A + i * S + c
  BY DEF SecondOf
<1>4. i * S <= (M - 1) * S /\ i * S \in Nat /\ (M - 1) * S = M * S - S
  BY <1>1
<1> DEFINE x == i * S
<1>5. x \in Nat /\ x <= A - S
  BY <1>1, <1>4
<1> HIDE DEF x, A
<1>6. h * A <= (H - 1) * A /\ h * A \in Nat /\ (H - 1) * A = H * A - A
  BY <1>1, <1>2
<1> DEFINE y == h * A
           z == H * A
<1>7. y \in Nat /\ z \in Nat /\ y <= z - A
  BY <1>1, <1>2, <1>6
<1>8. SecondOf(dt) = y + x + c /\ kSecondsPerDay = z
  BY <1>2, <1>3 DEF x
<1> HIDE DEF y, z, S, c
<1> QED BY <1>1, <1>2, <1>5, <1>7, <1>8

(* The last second of a day.                                               *)
LEMMA LastSecond ==
    ASSUME NEW dt, IsDateTime(dt), dt.second = SecondsPerMinute - 1,
           dt.minute = MinutesPerHour - 1, dt.hour = HoursPerDay - 1
    PROVE  SecondOf(dt) = kSecondsPerDay - 1
<1> DEFINE S == SecondsPerMinute
           M == MinutesPerHour
           H == HoursPerDay
           A == M * S
<1>1. S \in Nat \ {0} /\ M \in Nat \ {0} /\ H \in Nat \ {0}
  BY Units
<1>2. SecondOf(dt) = (H - 1) * A + (M - 1) * S + (S - 1)
  BY DEF SecondOf
<1>3. (M - 1) * S = A - S /\ A \in Nat
  BY <1>1
<1>4. (H - 1) * A = H * A - A /\ H * A \in Nat
  <2> HIDE DEF A
  <2> QED BY <1>1, <1>3
<1>5. kSecondsPerDay = H * A
  BY SecondsOfDay
<1> DEFINE x == (H - 1) * A
           y == (M - 1) * S
           z == H * A
<1>6. x = z - A /\ y = A - S /\ z \in Nat
  BY <1>3, <1>4
<1> HIDE DEF x, y, z, A
<1> QED BY <1>1, <1>2, <1>3, <1>5, <1>6 DEF x, y, z

(* At midnight the clock shows the next day.                               *)
LEMMA NextDate ==
    ASSUME NEW dt, IsDateTime(dt), NEW y, NEW m, NEW d,
           IsDate(y, m, d), getJulianDayNumber(y, m, d) = DayOf(dt) + 1,
           DateAhead(dt, [year |-> y, month |-> m, day |-> d]),
           NEW n, n = [year |-> y, month |-> m, day |-> d, hour |-> 0, minute |-> 0, second |-> 0],
           dt.second = SecondsPerMinute - 1, dt.minute = MinutesPerHour - 1, dt.hour = HoursPerDay - 1
    PROVE  IsDateTime(n) /\ NextDay(dt, n) /\ n.year = y /\ n.month = m /\ n.day = d
<1>1. y \in Nat /\ m \in 1 .. 12 /\ d \in 1 .. 31
  BY DEF IsDate, DaysIn
<1>2. n \in DateTimes
  <2>1. 0 \in 0 .. HoursPerDay - 1 /\ 0 \in 0 .. MinutesPerHour - 1 /\ 0 \in 0 .. SecondsPerMinute - 1
    BY Units
  <2> QED BY <1>1, <2>1 DEF DateTimes
<1>3. n.year = y /\ n.month = m /\ n.day = d /\ n.hour = 0 /\ n.minute = 0 /\ n.second = 0
  OBVIOUS
<1>4. SecondOf(n) = 0
  <2>1. SecondOf(n) = 0 * (MinutesPerHour * SecondsPerMinute) + 0 * SecondsPerMinute + 0
    BY <1>3 DEF SecondOf
  <2> DEFINE A == MinutesPerHour * SecondsPerMinute
  <2>2. A \in Nat /\ SecondsPerMinute \in Nat
    BY SecondsOfDay, Units
  <2>3. SecondOf(n) = 0 * A + 0 * SecondsPerMinute + 0
    BY <2>1
  <2> HIDE DEF A
  <2> QED BY <2>2, <2>3
<1>5. SecondOf(dt) = kSecondsPerDay - 1
  BY LastSecond
<1>6. DayOf(n) = DayOf(dt) + 1
  BY <1>3 DEF DayOf
<1>7. IsDateTime(n)
  BY <1>2, <1>3 DEF IsDateTime
<1>8. DateAhead(dt, n)
  BY <1>3 DEF DateAhead
<1> QED BY <1>3, <1>4, <1>5, <1>6, <1>7, <1>8 DEF NextDay, Midnight

DateTimeAt(y, m, d, h, i, c) ==
    [year |-> y, month |-> m, day |-> d, hour |-> h, minute |-> i, second |-> c]

LEMMA ByItsFields ==
    ASSUME NEW dt \in DateTimes
    PROVE  dt = DateTimeAt(dt.year, dt.month, dt.day, dt.hour, dt.minute, dt.second)
BY DEF DateTimes, DateTimeAt

LEMMA Zeros ==
    /\ 0 \in 0 .. HoursPerDay - 1 /\ 0 \in 0 .. MinutesPerHour - 1 /\ 0 \in 0 .. SecondsPerMinute - 1
BY Units

(* The assignments of the reference clock to a date and time.              *)
LEMMA ClearedTime ==
    ASSUME NEW dt \in DateTimes
    PROVE  [dt EXCEPT !.second = 0, !.minute = 0, !.hour = 0]
              = DateTimeAt(dt.year, dt.month, dt.day, 0, 0, 0)
<1> DEFINE t == [dt EXCEPT !.second = 0, !.minute = 0, !.hour = 0]
<1>1. t \in DateTimes
  BY Zeros DEF DateTimes
<1>2. /\ t.year = dt.year /\ t.month = dt.month /\ t.day = dt.day
      /\ t.hour = 0 /\ t.minute = 0 /\ t.second = 0
  BY DEF DateTimes
<1> HIDE DEF t
<1>3. t = DateTimeAt(dt.year, dt.month, dt.day, 0, 0, 0)
  BY <1>1, <1>2, ByItsFields
<1> QED BY <1>3 DEF t

LEMMA DayAssigned ==
    ASSUME NEW t \in DateTimes, t = DateTimeAt(t.year, t.month, t.day, 0, 0, 0),
           NEW v \in 1 .. 31,
           NEW r, r = [t EXCEPT !.day = v]
    PROVE  r = DateTimeAt(t.year, t.month, v, 0, 0, 0)
<1>1. /\ r \in DateTimes /\ r.year = t.year /\ r.month = t.month /\ r.day = v
      /\ r.hour = t.hour /\ r.minute = t.minute /\ r.second = t.second
  BY DEF DateTimes
<1>2. t.hour = 0 /\ t.minute = 0 /\ t.second = 0
  BY DEF DateTimeAt
<1>3. r = DateTimeAt(r.year, r.month, r.day, r.hour, r.minute, r.second)
  BY <1>1, ByItsFields
<1> QED BY <1>1, <1>2, <1>3

LEMMA FirstDay == 1 \in 1 .. 31
OBVIOUS

LEMMA MonthAssigned ==
    ASSUME NEW t \in DateTimes, t = DateTimeAt(t.year, t.month, t.day, 0, 0, 0),
           NEW v \in 1 .. 31, NEW w \in 1 .. 12,
           NEW r, r = [t EXCEPT !.day = v, !.month = w]
    PROVE  r = DateTimeAt(t.year, w, v, 0, 0, 0)
<1>1. /\ r \in DateTimes /\ r.year = t.year /\ r.month = w /\ r.day = v
      /\ r.hour = t.hour /\ r.minute = t.minute /\ r.second = t.second
  BY DEF DateTimes
<1>2. t.hour = 0 /\ t.minute = 0 /\ t.second = 0
  BY DEF DateTimeAt
<1>3. r = DateTimeAt(r.year, r.month, r.day, r.hour, r.minute, r.second)
  BY <1>1, ByItsFields
<1> QED BY <1>1, <1>2, <1>3

LEMMA LaterClock ==
    ASSUME NEW dt, IsDateTime(dt)
    PROVE  /\ IsDateTime(Later(dt)) /\ Later(dt).year \in dt.year .. dt.year + 1
           /\ SameDay(dt, Later(dt)) \/ NextDay(dt, Later(dt))
<1> DEFINE S == SecondsPerMinute
           M == MinutesPerHour
           H == HoursPerDay
           n == Later(dt)
<1>1. /\ S \in Nat \ {0} /\ M \in Nat \ {0} /\ H \in Nat \ {0} /\ M * S \in Nat \ {0}
      /\ dt \in DateTimes /\ IsDate(dt.year, dt.month, dt.day)
      /\ dt.hour \in 0 .. H - 1 /\ dt.minute \in 0 .. M - 1 /\ dt.second \in 0 .. S - 1
      /\ 0 \in 0 .. H - 1 /\ 0 \in 0 .. M - 1 /\ 0 \in 0 .. S - 1
  BY Units, SecondsOfDay DEF IsDateTime, DateTimes
<1>2. CASE dt.second + 1 < S
  <2>1. n = [dt EXCEPT !.second = @ + 1]
    BY <1>2 DEF Later
  <2> HIDE DEF n
  <2>2. /\ n \in DateTimes /\ n.year = dt.year /\ n.month = dt.month /\ n.day = dt.day
        /\ n.hour = dt.hour /\ n.minute = dt.minute /\ n.second = dt.second + 1
    BY <1>1, <1>2, <2>1 DEF DateTimes
  <2>3. SecondOf(n) = SecondOf(dt) + 1
    <3> DEFINE x == dt.hour * (M * S)
               y == dt.minute * S
    <3>1. x \in Int /\ y \in Int
      BY <1>1
    <3>2. SecondOf(n) = x + y + (dt.second + 1) /\ SecondOf(dt) = x + y + dt.second
      BY <2>2 DEF SecondOf
    <3> HIDE DEF x, y
    <3> QED BY <1>1, <3>1, <3>2
  <2>4. ~Midnight(n)
    BY <1>1, <2>2 DEF Midnight
  <2>5. TimeAhead(dt, n)
    BY <1>1, <2>2 DEF TimeAhead
  <2>6. IsDateTime(n) /\ SameDay(dt, n) /\ n.year = dt.year
    BY <1>1, <2>2, <2>3, <2>4, <2>5 DEF IsDateTime, SameDay, DayOf, SameDate
  <2>7. dt.year \in dt.year .. dt.year + 1
    BY <1>1 DEF DateTimes
  <2> QED BY <2>6, <2>7 DEF n
<1>3. CASE dt.second = S - 1 /\ dt.minute + 1 < M
  <2>1. n = [dt EXCEPT !.second = 0, !.minute = @ + 1]
    BY <1>1, <1>3 DEF Later
  <2>2. dt.minute + 1 \in 0 .. M - 1
    BY <1>1, <1>3
  <2> HIDE DEF n
  <2>3. /\ n \in DateTimes /\ n.year = dt.year /\ n.month = dt.month /\ n.day = dt.day
        /\ n.hour = dt.hour /\ n.minute = dt.minute + 1 /\ n.second = 0
    BY <1>1, <2>2, <2>1 DEF DateTimes
  <2>4. SecondOf(n) = SecondOf(dt) + 1
    <3> DEFINE x == dt.hour * (M * S)
               y == dt.minute * S
    <3>1. x \in Int /\ y \in Int /\ (dt.minute + 1) * S = y + S
      BY <1>1
    <3>2. SecondOf(n) = x + (dt.minute + 1) * S + 0 /\ SecondOf(dt) = x + y + (S - 1)
      BY <1>3, <2>3 DEF SecondOf
    <3> HIDE DEF x, y
    <3> QED BY <1>1, <3>1, <3>2
  <2>5. ~Midnight(n)
    BY <1>1, <2>3 DEF Midnight
  <2>6. TimeAhead(dt, n)
    BY <1>1, <2>3 DEF TimeAhead
  <2>7. IsDateTime(n) /\ SameDay(dt, n) /\ n.year = dt.year
    BY <1>1, <2>3, <2>4, <2>5, <2>6 DEF IsDateTime, SameDay, DayOf, SameDate
  <2>8. dt.year \in dt.year .. dt.year + 1
    BY <1>1 DEF DateTimes
  <2> QED BY <2>7, <2>8 DEF n
<1>4. CASE dt.second = S - 1 /\ dt.minute = M - 1 /\ dt.hour + 1 < H
  <2> DEFINE d0 == [dt EXCEPT !.second = 0, !.minute = 0, !.hour = 0]
  <2>1. n = [d0 EXCEPT !.hour = dt.hour + 1]
    <3>1. ~(dt.second + 1 < S) /\ ~(dt.minute + 1 < M)
      BY <1>1, <1>4
    <3> QED BY <1>4, <3>1 DEF Later
  <2>2. dt.hour + 1 \in 0 .. H - 1 /\ d0 = DateTimeAt(dt.year, dt.month, dt.day, 0, 0, 0)
    <3>1. d0 = DateTimeAt(dt.year, dt.month, dt.day, 0, 0, 0)
      BY <1>1, ClearedTime
    <3> HIDE DEF d0
    <3> QED BY <1>1, <1>4, <3>1
  <2> HIDE DEF n, d0
  <2>3. n = DateTimeAt(dt.year, dt.month, dt.day, dt.hour + 1, 0, 0)
    BY <2>2, <2>1 DEF DateTimeAt
  <2>4. /\ n \in DateTimes /\ n.year = dt.year /\ n.month = dt.month /\ n.day = dt.day
        /\ n.hour = dt.hour + 1 /\ n.minute = 0 /\ n.second = 0
    BY <1>1, <2>2, <2>3 DEF DateTimes, DateTimeAt
  <2>5. SecondOf(n) = SecondOf(dt) + 1
    <3> DEFINE A == M * S
               x == dt.hour * A
               y == (M - 1) * S
               z == (dt.hour + 1) * A
    <3>1. A \in Int /\ y = A - S
      BY <1>1
    <3>2. x \in Int /\ z = x + A
      <4> HIDE DEF A
      <4> QED BY <1>1, <3>1
    <3>3. SecondOf(n) = z + 0 * S + 0 /\ SecondOf(dt) = x + y + (S - 1)
      BY <1>4, <2>4 DEF SecondOf
    <3> HIDE DEF A, x, y, z
    <3> QED BY <1>1, <3>1, <3>2, <3>3
  <2>6. ~Midnight(n)
    BY <1>1, <2>4 DEF Midnight
  <2>7. TimeAhead(dt, n)
    BY <1>1, <2>4 DEF TimeAhead
  <2>8. IsDateTime(n) /\ SameDay(dt, n) /\ n.year = dt.year
    BY <1>1, <2>4, <2>5, <2>6, <2>7 DEF IsDateTime, SameDay, DayOf, SameDate
  <2>9. dt.year \in dt.year .. dt.year + 1
    BY <1>1 DEF DateTimes
  <2> QED BY <2>8, <2>9 DEF n
<1>5. CASE dt.second = S - 1 /\ dt.minute = M - 1 /\ dt.hour = H - 1
  <2> DEFINE d0 == [dt EXCEPT !.second = 0, !.minute = 0, !.hour = 0]
             To(y, m, d) == DateTimeAt(y, m, d, 0, 0, 0)
  <2>1. d0 = To(dt.year, dt.month, dt.day)
    BY <1>1, ClearedTime
  <2>2. n = IF dt.day < DaysIn(dt.year, dt.month) THEN [d0 EXCEPT !.day = @ + 1]
             ELSE IF dt.month < 12 THEN [d0 EXCEPT !.day = 1, !.month = @ + 1]
             ELSE [d0 EXCEPT !.day = 1, !.month = 1, !.year = @ + 1]
    <3>1. ~(dt.second + 1 < S) /\ ~(dt.minute + 1 < M) /\ ~(dt.hour + 1 < H)
      BY <1>1, <1>5
    <3> QED BY <3>1 DEF Later
  <2> HIDE DEF d0, n
  <2>3. /\ d0 \in DateTimes /\ d0 = DateTimeAt(d0.year, d0.month, d0.day, 0, 0, 0)
          /\ d0.year = dt.year /\ d0.month = dt.month /\ d0.day = dt.day
    BY <1>1, <2>1, Zeros DEF DateTimeAt, DateTimes
  <2>4. CASE dt.day < DaysIn(dt.year, dt.month)
    <3>1. /\ IsDate(dt.year, dt.month, dt.day + 1)
          /\ getJulianDayNumber(dt.year, dt.month, dt.day + 1) = DayOf(dt) + 1
      BY <1>1, <2>4, NextDayOfMonth DEF DayOf
    <3>2. n = To(dt.year, dt.month, dt.day + 1)
      <4>1. dt.day + 1 \in 1 .. 31
        BY <3>1 DEF IsDate, DaysIn
      <4>2. n = [d0 EXCEPT !.day = dt.day + 1]
        BY <2>2, <2>3, <2>4
      <4>3. n = To(d0.year, d0.month, dt.day + 1)
        BY <2>3, <4>1, <4>2, DayAssigned
      <4> QED BY <2>3, <4>3
    <3> HIDE DEF n
    <3>3. IsDateTime(n) /\ NextDay(dt, n) /\ n.year \in dt.year .. dt.year + 1
      <4>1. DateAhead(dt, [year |-> dt.year, month |-> dt.month, day |-> dt.day + 1])
        BY <1>1 DEF DateAhead, DateTimes
      <4>2. IsDateTime(n) /\ NextDay(dt, n) /\ n.year = dt.year
        BY <1>5, <3>1, <3>2, <4>1, NextDate DEF DateTimeAt
      <4>3. dt.year \in Int
        BY <1>1 DEF DateTimes
      <4> QED BY <4>2, <4>3
    <3> QED BY <3>3 DEF n
  <2>5. CASE dt.day = DaysIn(dt.year, dt.month) /\ dt.month < 12
    <3>1. /\ IsDate(dt.year, dt.month + 1, 1)
          /\ getJulianDayNumber(dt.year, dt.month + 1, 1) = DayOf(dt) + 1
      BY <1>1, <2>5, FirstOfMonth DEF DayOf
    <3>2. n = To(dt.year, dt.month + 1, 1)
      <4>1. ~(dt.day < DaysIn(dt.year, dt.month))
        BY <1>1, <2>5 DEF IsDate
      <4>2. dt.month + 1 \in 1 .. 12
        BY <3>1 DEF IsDate
      <4>3. n = [d0 EXCEPT !.day = 1, !.month = dt.month + 1]
        BY <2>2, <2>3, <2>5, <4>1
      <4>4. n = To(d0.year, dt.month + 1, 1)
        <5> DEFINE v == 1
                   w == dt.month + 1
        <5>1. v \in 1 .. 31
          BY FirstDay
        <5>2. w \in 1 .. 12
          BY <4>2
        <5>3. n = [d0 EXCEPT !.day = v, !.month = w]
          BY <4>3
        <5> HIDE DEF v, w
        <5>4. n = To(d0.year, w, v)
          BY <2>3, <5>1, <5>2, <5>3, MonthAssigned
        <5> QED BY <5>4 DEF v, w
      <4> QED BY <2>3, <4>4
    <3> HIDE DEF n
    <3>3. IsDateTime(n) /\ NextDay(dt, n) /\ n.year \in dt.year .. dt.year + 1
      <4>1. DateAhead(dt, [year |-> dt.year, month |-> dt.month + 1, day |-> 1])
        BY <1>1 DEF DateAhead, DateTimes
      <4>2. IsDateTime(n) /\ NextDay(dt, n) /\ n.year = dt.year
        BY <1>5, <3>1, <3>2, <4>1, NextDate DEF DateTimeAt
      <4>3. dt.year \in Int
        BY <1>1 DEF DateTimes
      <4> QED BY <4>2, <4>3
    <3> QED BY <3>3 DEF n
  <2>6. CASE dt.day = DaysIn(dt.year, dt.month) /\ dt.month = 12
    <3>1. dt.day = 31
      BY <2>6 DEF DaysIn
    <3>2. /\ IsDate(dt.year + 1, 1, 1)
          /\ getJulianDayNumber(dt.year + 1, 1, 1) = DayOf(dt) + 1
      BY <1>1, <2>6, <3>1, NewYear DEF DayOf
    <3>3. n = To(dt.year + 1, 1, 1)
      <4>1. ~(dt.day < DaysIn(dt.year, dt.month)) /\ ~(dt.month < 12)
        BY <1>1, <2>6 DEF IsDate
      <4>2. dt.year + 1 \in Nat
        BY <3>2 DEF IsDate
      <4>3. n = [d0 EXCEPT !.day = 1, !.month = 1, !.year = dt.year + 1]
        BY <2>2, <2>3, <2>6, <4>1
      <4>4. 1 \in 1 .. 31 /\ 1 \in 1 .. 12
        OBVIOUS
      <4>5. /\ n \in DateTimes /\ n.year = dt.year + 1 /\ n.month = 1 /\ n.day = 1
            /\ n.hour = d0.hour /\ n.minute = d0.minute /\ n.second = d0.second
        BY <2>3, <4>2, <4>3, <4>4 DEF DateTimes
      <4>6. d0.hour = 0 /\ d0.minute = 0 /\ d0.second = 0
        BY <2>3 DEF DateTimeAt
      <4> QED BY <4>5, <4>6, ByItsFields
    <3> HIDE DEF n
    <3>4. IsDateTime(n) /\ NextDay(dt, n) /\ n.year \in dt.year .. dt.year + 1
      <4>1. DateAhead(dt, [year |-> dt.year + 1, month |-> 1, day |-> 1])
        BY <1>1 DEF DateAhead, DateTimes
      <4>2. IsDateTime(n) /\ NextDay(dt, n) /\ n.year = dt.year + 1
        BY <1>5, <3>2, <3>3, <4>1, NextDate DEF DateTimeAt
      <4>3. dt.year \in Int
        BY <1>1 DEF DateTimes
      <4> QED BY <4>2, <4>3
    <3> QED BY <3>4 DEF n
  <2> QED BY <1>1, <2>4, <2>5, <2>6 DEF IsDate, DateTimes, DaysIn
<1> QED BY <1>1, <1>2, <1>3, <1>4, <1>5

(* Going back and then forward is nothing.                                 *)
LEMMA EarlierClock ==
    ASSUME NEW dt, IsDateTime(dt), dt.year >= 1
    PROVE  IsDateTime(Earlier(dt)) /\ Later(Earlier(dt)) = dt
<1> DEFINE S == SecondsPerMinute
           M == MinutesPerHour
           H == HoursPerDay
           e == Earlier(dt)
           n == Later(e)
           Last(h, i, c) == h \in 0 .. H - 1 /\ i \in 0 .. M - 1 /\ c \in 0 .. S - 1
<1>1. /\ S \in Nat \ {0} /\ M \in Nat \ {0} /\ H \in Nat \ {0}
      /\ dt \in DateTimes /\ IsDate(dt.year, dt.month, dt.day)
      /\ dt.year \in Nat /\ dt.month \in 1 .. 12 /\ dt.day \in 1 .. 31
      /\ Last(dt.hour, dt.minute, dt.second) /\ Last(0, 0, 0) /\ Last(H - 1, M - 1, S - 1)
  BY Units DEF IsDateTime, DateTimes
<1>2. CASE dt.second > 0
  <2>1. e = [dt EXCEPT !.second = @ - 1]
    BY <1>2 DEF Earlier
  <2>2. dt.second - 1 \in 0 .. S - 1
    BY <1>1, <1>2
  <2> HIDE DEF e
  <2>3. /\ e \in DateTimes /\ e.year = dt.year /\ e.month = dt.month /\ e.day = dt.day
        /\ e.hour = dt.hour /\ e.minute = dt.minute /\ e.second = dt.second - 1
    BY <1>1, <2>1, <2>2 DEF DateTimes
  <2>4. n = [e EXCEPT !.second = @ + 1]
    BY <1>1, <1>2, <2>3 DEF Later
  <2> HIDE DEF n
  <2>5. e.second + 1 = dt.second
    BY <1>1, <2>3
  <2>6. /\ n \in DateTimes /\ n.year = dt.year /\ n.month = dt.month /\ n.day = dt.day
        /\ n.hour = dt.hour /\ n.minute = dt.minute /\ n.second = dt.second
    BY <1>1, <2>3, <2>4, <2>5 DEF DateTimes
  <2>7. n = dt
    BY <1>1, <2>6, ByItsFields
  <2>8. IsDateTime(e)
    BY <1>1, <2>3 DEF IsDateTime
  <2> QED BY <2>7, <2>8 DEF n, e
<1>3. CASE dt.second = 0 /\ dt.minute > 0
  <2>1. e = [dt EXCEPT !.second = S - 1, !.minute = @ - 1]
    BY <1>3 DEF Earlier
  <2>2. dt.minute - 1 \in 0 .. M - 1
    BY <1>1, <1>3
  <2> HIDE DEF e
  <2>3. /\ e \in DateTimes /\ e.year = dt.year /\ e.month = dt.month /\ e.day = dt.day
        /\ e.hour = dt.hour /\ e.minute = dt.minute - 1 /\ e.second = S - 1
    BY <1>1, <2>1, <2>2 DEF DateTimes
  <2>4. n = [e EXCEPT !.second = 0, !.minute = @ + 1]
    BY <1>1, <1>3, <2>3 DEF Later
  <2> HIDE DEF n
  <2>5. e.minute + 1 = dt.minute
    BY <1>1, <2>3
  <2>6. /\ n \in DateTimes /\ n.year = dt.year /\ n.month = dt.month /\ n.day = dt.day
        /\ n.hour = dt.hour /\ n.minute = dt.minute /\ n.second = dt.second
    BY <1>1, <1>3, <2>3, <2>4, <2>5 DEF DateTimes
  <2>7. n = dt
    BY <1>1, <2>6, ByItsFields
  <2>8. IsDateTime(e)
    BY <1>1, <2>3 DEF IsDateTime
  <2> QED BY <2>7, <2>8 DEF n, e
<1>4. CASE dt.second = 0 /\ dt.minute = 0 /\ dt.hour > 0
  <2> DEFINE d0 == [dt EXCEPT !.second = S - 1, !.minute = M - 1, !.hour = H - 1]
             c0 == [e EXCEPT !.second = 0, !.minute = 0, !.hour = 0]
  <2>1. e = [d0 EXCEPT !.hour = dt.hour - 1]
    BY <1>4 DEF Earlier
  <2>2. dt.hour - 1 \in 0 .. H - 1
    BY <1>1, <1>4
  <2>3. /\ d0 \in DateTimes /\ d0.year = dt.year /\ d0.month = dt.month /\ d0.day = dt.day
        /\ d0.minute = M - 1 /\ d0.second = S - 1
    BY <1>1 DEF DateTimes
  <2> HIDE DEF e, d0
  <2>4. /\ e \in DateTimes /\ e.year = dt.year /\ e.month = dt.month /\ e.day = dt.day
        /\ e.hour = dt.hour - 1 /\ e.minute = M - 1 /\ e.second = S - 1
    BY <2>1, <2>2, <2>3 DEF DateTimes
  <2>5. ~(e.second + 1 < S) /\ ~(e.minute + 1 < M) /\ e.hour + 1 < H /\ e.hour + 1 = dt.hour
    BY <1>1, <2>4
  <2>6. n = [c0 EXCEPT !.hour = e.hour + 1]
    BY <2>5 DEF Later
  <2>7. c0 = DateTimeAt(e.year, e.month, e.day, 0, 0, 0)
    BY <2>4, ClearedTime
  <2> HIDE DEF n, c0
  <2>8. n = DateTimeAt(e.year, e.month, e.day, dt.hour, 0, 0)
    BY <2>5, <2>6, <2>7 DEF DateTimeAt
  <2>9. n = dt
    BY <1>1, <1>4, <2>4, <2>8, ByItsFields
  <2>10. IsDateTime(e)
    BY <1>1, <2>4 DEF IsDateTime
  <2> QED BY <2>9, <2>10 DEF n, e
<1>5. CASE dt.second = 0 /\ dt.minute = 0 /\ dt.hour = 0
  <2> DEFINE y == IF dt.month = 1 THEN dt.year - 1 ELSE dt.year
             mo == IF dt.month = 1 THEN 12 ELSE dt.month - 1
             d0 == [dt EXCEPT !.second = S - 1, !.minute = M - 1, !.hour = H - 1]
             c0 == [e EXCEPT !.second = 0, !.minute = 0, !.hour = 0]
             EndOfDay(t) == t.hour = H - 1 /\ t.minute = M - 1 /\ t.second = S - 1
  <2>1. e = IF dt.day > 1 THEN [d0 EXCEPT !.day = @ - 1]
            ELSE [d0 EXCEPT !.day = DaysIn(y, mo), !.month = mo, !.year = y]
    BY <1>5 DEF Earlier
  <2>2. /\ d0 \in DateTimes /\ d0.year = dt.year /\ d0.month = dt.month /\ d0.day = dt.day
        /\ EndOfDay(d0)
    BY <1>1 DEF DateTimes
  <2> HIDE DEF e, d0
  <2>3. ASSUME EndOfDay(e)
        PROVE  n = IF e.day < DaysIn(e.year, e.month) THEN [c0 EXCEPT !.day = @ + 1]
                   ELSE IF e.month < 12 THEN [c0 EXCEPT !.day = 1, !.month = @ + 1]
                   ELSE [c0 EXCEPT !.day = 1, !.month = 1, !.year = @ + 1]
    <3>1. ~(e.second + 1 < S) /\ ~(e.minute + 1 < M) /\ ~(e.hour + 1 < H)
      BY <1>1, <2>3
    <3> QED BY <3>1 DEF Later
  <2>4. ASSUME e \in DateTimes
        PROVE  c0 \in DateTimes /\ c0 = DateTimeAt(e.year, e.month, e.day, 0, 0, 0)
    <3>1. c0 = DateTimeAt(e.year, e.month, e.day, 0, 0, 0)
      BY <2>4, ClearedTime
    <3>2. c0 \in DateTimes
      BY <2>4, Zeros DEF DateTimes
    <3> QED BY <3>1, <3>2
  <2> HIDE DEF n, c0
  <2>5. ASSUME n \in DateTimes, n.year = dt.year, n.month = dt.month, n.day = dt.day,
               n.hour = 0, n.minute = 0, n.second = 0, IsDateTime(e)
        PROVE  IsDateTime(e) /\ n = dt
    BY <1>1, <1>5, <2>5, ByItsFields
  <2>6. CASE dt.day > 1
    <3>1. dt.day - 1 \in 1 .. 31
      BY <1>1, <2>6
    <3>2. /\ e \in DateTimes /\ e.year = dt.year /\ e.month = dt.month /\ e.day = dt.day - 1
          /\ EndOfDay(e)
      BY <2>1, <2>2, <2>6, <3>1 DEF DateTimes
    <3>3. IsDateTime(e) /\ e.day < DaysIn(e.year, e.month) /\ e.day + 1 = dt.day
      <4> DEFINE L == DaysIn(dt.year, dt.month)
      <4>1. L \in Int /\ dt.day \in 1 .. L
        BY <1>1 DEF IsDate, DaysIn
      <4>2. DaysIn(e.year, e.month) = L
        BY <3>2
      <4> HIDE DEF L
      <4>3. e.day \in 1 .. L /\ e.day < L /\ e.day + 1 = dt.day
        BY <1>1, <2>6, <3>2, <4>1
      <4> QED BY <1>1, <3>2, <4>2, <4>3 DEF IsDateTime, IsDate
    <3>4. /\ c0 \in DateTimes /\ c0.year = dt.year /\ c0.month = dt.month /\ c0.day = e.day
          /\ c0.hour = 0 /\ c0.minute = 0 /\ c0.second = 0
      BY <2>4, <3>2 DEF DateTimeAt
    <3>5. n = [c0 EXCEPT !.day = @ + 1]
      BY <2>3, <3>2, <3>3
    <3>6. /\ n \in DateTimes /\ n.year = dt.year /\ n.month = dt.month /\ n.day = dt.day
          /\ n.hour = 0 /\ n.minute = 0 /\ n.second = 0
      BY <1>1, <3>3, <3>4, <3>5 DEF DateTimes
    <3>7. IsDateTime(e) /\ n = dt
      BY <2>5, <3>3, <3>6
    <3> QED BY <3>7 DEF n, e
  <2>7. CASE ~(dt.day > 1)
    <3>1. dt.day = 1 /\ y \in Nat /\ mo \in 1 .. 12 /\ DaysIn(y, mo) \in 1 .. 31
      BY <1>1, <2>7 DEF DaysIn
    <3>2. e = [d0 EXCEPT !.day = DaysIn(y, mo), !.month = mo, !.year = y]
      BY <2>1, <2>7
    <3>3. mo < 12 => mo + 1 = dt.month /\ y = dt.year
      BY <1>1
    <3>4. ~(mo < 12) => dt.month = 1 /\ y + 1 = dt.year
      BY <1>1
    <3> HIDE DEF y, mo
    <3>5. /\ e \in DateTimes /\ e.year = y /\ e.month = mo /\ e.day = DaysIn(y, mo)
          /\ EndOfDay(e)
      BY <2>2, <3>1, <3>2 DEF DateTimes
    <3>6. IsDateTime(e) /\ ~(e.day < DaysIn(e.year, e.month))
      BY <3>1, <3>5 DEF IsDateTime, IsDate
    <3>7. /\ c0 \in DateTimes /\ c0.year = y /\ c0.month = mo
          /\ c0.hour = 0 /\ c0.minute = 0 /\ c0.second = 0
      BY <2>4, <3>5 DEF DateTimeAt
    <3>8. 1 \in 1 .. 31 /\ 1 \in 1 .. 12
      OBVIOUS
    <3>9. /\ n \in DateTimes /\ n.year = dt.year /\ n.month = dt.month /\ n.day = dt.day
          /\ n.hour = 0 /\ n.minute = 0 /\ n.second = 0
      <4>1. CASE mo < 12
        <5>1. n = [c0 EXCEPT !.day = 1, !.month = @ + 1]
          BY <2>3, <3>5, <3>6, <4>1
        <5> QED BY <1>1, <3>1, <3>3, <3>7, <3>8, <4>1, <5>1 DEF DateTimes
      <4>2. CASE ~(mo < 12)
        <5>1. ~(e.month < 12)
          BY <3>5, <4>2
        <5>2. n = [c0 EXCEPT !.day = 1, !.month = 1, !.year = @ + 1]
          BY <2>3, <3>5, <3>6, <5>1
        <5> QED BY <1>1, <3>1, <3>4, <3>7, <3>8, <4>2, <5>2 DEF DateTimes
      <4> QED BY <4>1, <4>2
    <3>10. IsDateTime(e) /\ n = dt
      BY <2>5, <3>6, <3>9
    <3> QED BY <3>10 DEF n, e
  <2> QED BY <2>6, <2>7
<1> QED BY <1>1, <1>2, <1>3, <1>4, <1>5

--------------------------------------------------------------------------------
(* ---------------------- what the code makes of them --------------------- *)
LEMMA Epoch == kJulianDayOf1970_01_01 = 2440588
BY DEF kJulianDayOf1970_01_01, getJulianDayNumber, Quot

LEMMA DayIsNatural ==
    ASSUME NEW dt, IsDateTime(dt)
    PROVE  DayOf(dt) \in Nat
BY DayNumberOfDate DEF IsDateTime, DayOf

(* fillHMS takes a second of the day apart.                                *)
LEMMA TimeOfDay ==
    ASSUME NEW dt, IsDateTime(dt)
    PROVE  fillHMS(SecondOf(dt)) = [second |-> dt.second, minute |-> dt.minute, hour |-> dt.hour]
<1> DEFINE S == SecondsPerMinute
           M == MinutesPerHour
           h == dt.hour
           i == dt.minute
           c == dt.second
           t == SecondOf(dt)
           q == M * h + i
<1>1. /\ S \in Nat \ {0} /\ M \in Nat \ {0}
      /\ h \in Nat /\ i \in Nat /\ i < M /\ c \in Nat /\ c < S
  BY Units DEF IsDateTime, DateTimes
<1>2. q \in Nat
  BY <1>1
<1>3. t = S * q + c
  <2>1. t = h * (M * S) + i * S + c
    BY DEF SecondOf
  <2>2. h * (M * S) + i * S = S * (M * h + i)
    BY <1>1
  <2> QED BY <1>1, <2>1, <2>2
<1> HIDE DEF t
<1>4. t \div S = q /\ t % S = c
  <2> HIDE DEF q
  <2> QED BY <1>1, <1>2, <1>3, DivMod
<1>5. q \div M = h /\ q % M = i
  BY <1>1, DivMod
<1> HIDE DEF q, h, i, c
<1>6. fillHMS(t) = [second |-> c, minute |-> i, hour |-> h]
  BY <1>4, <1>5 DEF fillHMS
<1> QED BY <1>6 DEF t, h, i, c

(* The instant of a date and time.                                         *)
Instant(dt) == (DayOf(dt) - kJulianDayOf1970_01_01) * kSecondsPerDay + SecondOf(dt)

LEMMA FromUtc ==
    ASSUME NEW dt
    PROVE  fromUtcTime(dt) = Instant(dt)
BY DEF fromUtcTime, Instant, DayOf, SecondOf, Date

(* BreakTime is the inverse of fromUtcTime.                                *)
LEMMA TimeBroken ==
    ASSUME NEW dt, IsDateTime(dt)
    PROVE  Instant(dt) \in Int /\ BreakTime(Instant(dt)) = dt
<1> DEFINE k == kSecondsPerDay
           J == kJulianDayOf1970_01_01
           D == DayOf(dt) - J
           s == SecondOf(dt)
           t == Instant(dt)
           x == Rem(t, k)
           days == Quot(t, k)
           carry == IF x < 0 THEN 1 ELSE 0
           hms == fillHMS(x + carry * k)
           ymd == getYearMonthDay(days - carry + J)
<1>1. k \in Nat \ {0} /\ D \in Int /\ J \in Int /\ DayOf(dt) = D + J
  BY SecondsOfDay, DayIsNatural, Epoch
<1>2. s \in Nat /\ s < k
  BY SecondsInDay
<1>3. t = D * k + s
  BY DEF Instant
<1>4. BreakTime(t) = [year |-> ymd.year, month |-> ymd.month, day |-> ymd.day,
                      hour |-> hms.hour, minute |-> hms.minute, second |-> hms.second]
  BY DEF BreakTime
<1>5. carry = Carry(t, k)
  BY DEF Carry
<1> HIDE DEF k, J, D, s, t
<1>6. t \in Int
  BY <1>1, <1>2, <1>3
<1>7. days - carry = D /\ x + carry * k = s
  <2>1. Quot(t, k) - Carry(t, k) = D /\ Rem(t, k) + Carry(t, k) * k = s
    <3>1. Splits(t, D, k, s)
      BY <1>1, <1>2, <1>3 DEF Splits
    <3> QED BY <3>1, RoundDown
  <2>2. days = Quot(t, k) /\ x = Rem(t, k)
    OBVIOUS
  <2> HIDE DEF x, days, carry
  <2> QED BY <1>5, <2>1, <2>2
<1> HIDE DEF x, days, carry
<1>8. hms = [second |-> dt.second, minute |-> dt.minute, hour |-> dt.hour]
  BY <1>7, TimeOfDay DEF s
<1>9. days - carry + J = DayOf(dt)
  BY <1>1, <1>7
<1>10. ymd = [year |-> dt.year, month |-> dt.month, day |-> dt.day]
  BY <1>9, JulianRoundTrip DEF IsDateTime, DayOf, YearMonthDay
<1> HIDE DEF hms, ymd
<1>11. BreakTime(t) = DateTimeAt(dt.year, dt.month, dt.day, dt.hour, dt.minute, dt.second)
  BY <1>4, <1>8, <1>10 DEF DateTimeAt
<1>12. BreakTime(t) = dt
  BY <1>11, ByItsFields DEF IsDateTime
<1> QED BY <1>6, <1>12 DEF t

--------------------------------------------------------------------------------
(* ----------------------------- the invariant ---------------------------- *)
(* The clock shows a date and time, its seconds are those fromUtcTime      *)
(* would count, and its day of the week is that of the Julian day.         *)
ClockInv ==
    /\ IsDateTime(utc) /\ utc.year \in MinYear - 1 .. MaxYear + 1
    /\ now \in Int /\ now = Instant(utc)
    /\ weekday = (DayOf(utc) + 1) % 7

LEMMA ClockStarts == Init => ClockInv
<1> SUFFICES ASSUME Init
             PROVE  ClockInv
  OBVIOUS
<1>1. utc = DateTimeAt(1970, 1, 1, 0, 0, 0) /\ now = 0 /\ weekday = 4
  BY DEF Init, DateTimeAt
<1>2. IsDateTime(utc) /\ utc.year = 1970
  <2>1. 1970 \in Nat /\ 1 \in 1 .. 12 /\ 1 \in 1 .. 31
    OBVIOUS
  <2>2. utc \in DateTimes
    BY <1>1, <2>1, Zeros DEF DateTimes, DateTimeAt
  <2> QED BY <1>1, <2>2 DEF IsDateTime, IsDate, DaysIn, DateTimeAt
<1>3. DayOf(utc) = 2440588
  BY <1>1, Epoch DEF DayOf, DateTimeAt, kJulianDayOf1970_01_01
<1>4. SecondOf(utc) = 0
  <2> DEFINE A == MinutesPerHour * SecondsPerMinute
  <2>1. A \in Int /\ SecondsPerMinute \in Int
    BY SecondsOfDay, Units
  <2>2. SecondOf(utc) = 0 * A + 0 * SecondsPerMinute + 0
    BY <1>1 DEF SecondOf, DateTimeAt
  <2> HIDE DEF A
  <2> QED BY <2>1, <2>2
<1>5. Instant(utc) = 0
  <2>1. Instant(utc) = (2440588 - 2440588) * kSecondsPerDay + 0
    BY <1>3, <1>4, Epoch DEF Instant
  <2>2. kSecondsPerDay \in Int
    BY SecondsOfDay
  <2> QED BY <2>1, <2>2
<1>6. utc.year \in MinYear - 1 .. MaxYear + 1
  BY <1>2, TimeZoneAssumption
<1> QED BY <1>1, <1>2, <1>3, <1>5, <1>6 DEF ClockInv

(* A second later the instant is one more and the weekday is that of the   *)
(* day.                                                                    *)
LEMMA SecondPasses ==
    ASSUME NEW dt, IsDateTime(dt)
    PROVE  /\ Instant(Later(dt)) = Instant(dt) + 1
           /\ Midnight(Later(dt)) => DayOf(Later(dt)) = DayOf(dt) + 1
           /\ ~Midnight(Later(dt)) => DayOf(Later(dt)) = DayOf(dt)
<1> DEFINE n == Later(dt)
           k == kSecondsPerDay
           J == kJulianDayOf1970_01_01
           D == DayOf(dt) - J
           x == D * k
<1>1. IsDateTime(n) /\ (SameDay(dt, n) \/ NextDay(dt, n))
  BY LaterClock
<1> HIDE DEF n
<1>2. k \in Nat \ {0} /\ D \in Int /\ J \in Int /\ DayOf(dt) \in Int /\ SecondOf(dt) \in Int
  BY SecondsOfDay, DayIsNatural, SecondsInDay, Epoch
<1>3. Instant(dt) = x + SecondOf(dt) /\ Instant(n) = (DayOf(n) - J) * k + SecondOf(n)
  BY DEF Instant
<1> HIDE DEF k, J
<1>4. x \in Int
  BY <1>2
<1>5. CASE SameDay(dt, n)
  <2>1. Instant(n) = x + (SecondOf(dt) + 1)
    BY <1>3, <1>5 DEF SameDay
  <2> HIDE DEF x
  <2> QED BY <1>2, <1>3, <1>4, <1>5, <2>1 DEF SameDay, n
<1>6. CASE NextDay(dt, n)
  <2>1. DayOf(n) - J = D + 1
    BY <1>2, <1>6 DEF NextDay
  <2> HIDE DEF D
  <2>2. (D + 1) * k = x + k
    BY <1>2
  <2>3. Instant(n) = x + k + 0
    BY <1>2, <1>3, <1>6, <2>1, <2>2 DEF NextDay
  <2>4. SecondOf(dt) = k - 1
    BY <1>6 DEF NextDay, k
  <2> HIDE DEF x
  <2>5. Instant(n) = Instant(dt) + 1
    BY <1>2, <1>3, <1>4, <2>3, <2>4
  <2> QED BY <1>6, <2>5 DEF NextDay, n
<1> QED BY <1>1, <1>5, <1>6

LEMMA ClockStep == ClockInv /\ [Next]_vars => ClockInv'
<1> SUFFICES ASSUME ClockInv, [Next]_vars
             PROVE  ClockInv'
  OBVIOUS
<1>1. /\ IsDateTime(utc) /\ utc.year \in Int /\ MinYear \in Nat \ {0} /\ MaxYear \in Nat
      /\ utc.year \in MinYear - 1 .. MaxYear + 1 /\ DayOf(utc) \in Nat
      /\ now \in Int /\ now = Instant(utc) /\ weekday = (DayOf(utc) + 1) % 7
  BY Units, DayIsNatural DEF ClockInv
<1>2. CASE Tick
  <2>1. utc.year \in MinYear .. MaxYear
    BY <1>2 DEF Tick, InBounds
  <2>2. utc' = Later(utc) /\ now' = now + 1
    BY <1>2 DEF Tick
  <2>3. weekday' = IF Midnight(utc') THEN (weekday + 1) % 7 ELSE weekday
    BY <1>2 DEF Tick
  <2>4. IsDateTime(utc') /\ utc'.year \in utc.year .. utc.year + 1
    BY <1>1, <2>2, LaterClock
  <2>5. Instant(utc') = Instant(utc) + 1
    BY <1>1, <2>2, SecondPasses
  <2>6. DayOf(utc') = IF Midnight(utc') THEN DayOf(utc) + 1 ELSE DayOf(utc)
    BY <1>1, <2>2, SecondPasses
  <2>7. weekday' = (DayOf(utc') + 1) % 7
    BY <1>1, <2>3, <2>6
  <2>8. utc'.year \in MinYear - 1 .. MaxYear + 1
    BY <1>1, <2>1, <2>4
  <2> QED BY <1>1, <2>2, <2>4, <2>5, <2>7, <2>8 DEF ClockInv, IsDateTime, DateTimes, IsDate, Instant, DayOf, SecondOf
<1>3. CASE TickBack
  <2>1. utc.year \in MinYear .. MaxYear
    BY <1>3 DEF TickBack, InBounds
  <2>2. utc' = Earlier(utc) /\ now' = now - 1
    BY <1>3 DEF TickBack
  <2>3. weekday' = IF Midnight(utc) THEN (weekday + 6) % 7 ELSE weekday
    BY <1>3 DEF TickBack
  <2>4. IsDateTime(utc') /\ Later(utc') = utc
    BY <1>1, <2>1, <2>2, EarlierClock
  <2>5. Instant(utc) = Instant(utc') + 1 /\ utc.year \in utc'.year .. utc'.year + 1
    BY <2>4, SecondPasses, LaterClock
  <2>6. DayOf(utc) = IF Midnight(utc) THEN DayOf(utc') + 1 ELSE DayOf(utc')
    BY <2>4, SecondPasses
  <2>7. DayOf(utc') \in Nat /\ Instant(utc') \in Int
    BY <2>4, DayIsNatural, TimeBroken
  <2>8. weekday' = (DayOf(utc') + 1) % 7
    BY <1>1, <2>3, <2>6, <2>7
  <2>9. now' = Instant(utc')
    BY <1>1, <2>2, <2>5, <2>7
  <2>10. utc'.year \in MinYear - 1 .. MaxYear + 1
    <3>1. utc'.year \in Int
      BY <2>4 DEF IsDateTime, DateTimes
    <3> QED BY <1>1, <2>1, <2>5, <3>1
  <2> QED BY <1>1, <2>2, <2>4, <2>8, <2>9, <2>10 DEF ClockInv
<1>4. CASE UNCHANGED <<now, utc, weekday>>
  BY <1>1, <1>4 DEF ClockInv
<1>5. CASE \E cut \in -1 .. Written(zone).length : loadZoneFile(Found(cut))
  BY <1>4, <1>5 DEF loadZoneFile
<1>6. CASE MakeFixed
  BY <1>4, <1>6 DEF MakeFixed
<1> QED BY <1>2, <1>3, <1>4, <1>5, <1>6 DEF Next, vars

--------------------------------------------------------------------------------
(* ------------------------ dates, times, weekdays ------------------------ *)
LEMMA DatesKept == ClockInv => DatesFollowClock
<1> SUFFICES ASSUME ClockInv
             PROVE  DatesFollowClock
  OBVIOUS
<1> DEFINE date == Date(utc.year, utc.month, utc.day)
           tm == TmOf(utc)
<1>1. /\ IsDateTime(utc) /\ now = Instant(utc) /\ weekday = (DayOf(utc) + 1) % 7
      /\ DayOf(utc) \in Nat /\ utc \in DateTimes
  BY DayIsNatural DEF ClockInv, IsDateTime
<1>2. toUtcTime(now) = utc
  BY <1>1, TimeBroken DEF toUtcTime
<1>3. fromUtcTime(utc) = now
  BY <1>1, FromUtc
<1>4. date = DayOf(utc)
  BY DEF Date, DayOf
<1>5. getYearMonthDay(date) = YearMonthDay(utc.year, utc.month, utc.day)
  BY <1>1, JulianRoundTrip DEF IsDateTime, Date
<1>6. utc.year \in Nat /\ utc.month \in 1 .. 12 /\ utc.day \in Nat
  BY <1>1 DEF DateTimes
<1>7. DateOfTm(tm) = date
  <2>1. /\ tm.tm_year + 1900 = utc.year /\ tm.tm_mon + 1 = utc.month /\ tm.tm_mday = utc.day
    BY <1>6 DEF TmOf
  <2> HIDE DEF tm
  <2> QED BY <2>1 DEF DateOfTm, Date
<1>8. DateTimeOfTm(tm) = utc
  <2>1. /\ tm.tm_year + 1900 = utc.year /\ tm.tm_mon + 1 = utc.month /\ tm.tm_mday = utc.day
        /\ tm.tm_hour = utc.hour /\ tm.tm_min = utc.minute /\ tm.tm_sec = utc.second
    BY <1>6 DEF TmOf
  <2> HIDE DEF tm
  <2>2. DateTimeOfTm(tm) = DateTimeAt(utc.year, utc.month, utc.day, utc.hour, utc.minute, utc.second)
    BY <2>1 DEF DateTimeOfTm, DateTimeAt
  <2> QED BY <1>1, <2>2, ByItsFields
<1> HIDE DEF date, tm
<1>9. weekDay(date) = weekday
  BY <1>1, <1>4 DEF weekDay, Rem, Quot
<1>10. year(date) = utc.year /\ month(date) = utc.month /\ day(date) = utc.day
  BY <1>5 DEF year, month, day, yearMonthDay, YearMonthDay
<1> QED BY <1>2, <1>3, <1>7, <1>8, <1>9, <1>10 DEF DatesFollowClock, date, tm

(* ------------------------------ timestamps ------------------------------ *)
LEMMA TimestampParts ==
    ASSUME NEW k \in Nat \ {0}, NEW t \in Nat, NEW us \in Nat, us < k
    PROVE  Quot(t * k + us, k) = t /\ Rem(t * k + us, k) = us
<1> DEFINE x == t * k + us
           p == k * t
<1>1. x \in Nat /\ x = p + us /\ p \in Nat
  OBVIOUS
<1>2. x \div k = t
  <2>1. x = k * t + us
    OBVIOUS
  <2> HIDE DEF x
  <2> QED BY <2>1, DivMod
<1> HIDE DEF x
<1>3. Quot(x, k) = t
  BY <1>1, <1>2 DEF Quot
<1>4. Rem(x, k) = x - p
  BY <1>3 DEF Rem
<1> HIDE DEF p
<1>5. Rem(x, k) = us
  BY <1>1, <1>4
<1> QED BY <1>3, <1>5 DEF x

LEMMA TimestampsKept == ClockInv => TimestampsFollowClock
<1> SUFFICES ASSUME ClockInv,
                    NEW us \in 0 .. kMicroSecondsPerSecond - 1,
                    valid(NowTimestamp([tv_sec |-> now, tv_usec |-> us]))
             PROVE  LET timestamp == NowTimestamp([tv_sec |-> now, tv_usec |-> us])
                        next == addTime(timestamp, 1)
                    IN  /\ TimestampEqual(timestamp, fromUnixTime(now, us))
                        /\ secondsSinceEpoch(timestamp) = now /\ TimestampLess(timestamp, next)
                        /\ timeDifference(next, timestamp) = 1
                        /\ secondsSinceEpoch(next) = now + 1
                        /\ toString(timestamp) = <<now, us>>
                        /\ toFormattedString(timestamp) = <<utc, us>>
  BY DEF TimestampsFollowClock
<1> DEFINE K == kMicroSecondsPerSecond
           timestamp == NowTimestamp([tv_sec |-> now, tv_usec |-> us])
           next == addTime(timestamp, 1)
<1>1. K \in Nat \ {0} /\ now \in Int /\ us \in Nat /\ us < K /\ toUtcTime(now) = utc
  BY Units, DatesKept DEF ClockInv, DatesFollowClock
<1>2. timestamp = now * K + us /\ timestamp > 0
  BY DEF NowTimestamp, valid
<1>3. now \in Nat
  <2> SUFFICES ASSUME now < 0
               PROVE  FALSE
    BY <1>1
  <2>1. (now + 1) * K <= 0 /\ (now + 1) * K = now * K + K
    BY <1>1
  <2> DEFINE p == now * K
  <2>2. p \in Int /\ p + K <= 0 /\ p + us > 0
    BY <1>1, <1>2, <2>1
  <2> HIDE DEF p
  <2> QED BY <1>1, <2>2
<1>4. next = (now + 1) * K + us /\ timestamp \in Int /\ next = timestamp + K
  <2>1. next = timestamp + 1 * K
    BY DEF addTime
  <2>2. (now + 1) * K = now * K + K /\ now * K \in Int /\ 1 * K = K
    BY <1>1
  <2> DEFINE p == now * K
             q == (now + 1) * K
  <2>3. timestamp = p + us /\ p \in Int /\ q = p + K /\ next = timestamp + K
    BY <1>2, <2>1, <2>2
  <2> HIDE DEF p, timestamp, next
  <2>4. timestamp \in Int /\ next = q + us
    BY <1>1, <2>3
  <2> QED BY <2>3, <2>4
<1> HIDE DEF timestamp, next
<1>5. Quot(timestamp, K) = now /\ Rem(timestamp, K) = us
  BY <1>1, <1>2, <1>3, TimestampParts
<1>6. Quot(next, K) = now + 1
  BY <1>1, <1>3, <1>4, TimestampParts
<1>7. Quot(next - timestamp, K) = 1
  <2>1. next - timestamp = K /\ 1 * K + 0 = K
    BY <1>1, <1>4
  <2> DEFINE one == 1
             zero == 0
  <2>2. one \in Nat /\ zero \in Nat /\ zero < K
    BY <1>1
  <2> HIDE DEF one, zero
  <2>3. Quot(one * K + zero, K) = one
    BY <1>1, <2>2, TimestampParts
  <2> QED BY <2>1, <2>3 DEF one, zero
<1>8. TimestampEqual(timestamp, fromUnixTime(now, us))
  BY <1>2 DEF TimestampEqual, fromUnixTime
<1>9. TimestampLess(timestamp, next)
  BY <1>1, <1>4 DEF TimestampLess
<1>10. /\ secondsSinceEpoch(timestamp) = now /\ secondsSinceEpoch(next) = now + 1
       /\ timeDifference(next, timestamp) = 1
  BY <1>5, <1>6, <1>7 DEF secondsSinceEpoch, timeDifference
<1>11. toString(timestamp) = <<now, us>> /\ toFormattedString(timestamp) = <<utc, us>>
  BY <1>1, <1>5 DEF toString, toFormattedString
<1> QED BY <1>8, <1>9, <1>10, <1>11 DEF timestamp, next

(* --------------------------------- texts -------------------------------- *)
LEMMA TextOfDigits ==
    ASSUME NEW w \in Nat, NEW f \in [1 .. w -> Int]
    PROVE  f \in Seq(Int) /\ Len(f) = w /\ DOMAIN f = 1 .. w
OBVIOUS

Digit(n, k) == (n \div k) % 10

(* A digit that printf fills in for a number that is too small to reach it. *)
Shown(n, k, pad) == IF n < k THEN pad ELSE Digit(n, k)

LEMMA Digits ==
    ASSUME NEW n \in Nat, n < 10000
    PROVE  /\ Digit(n, 1000) \in 0 .. 9 /\ Digit(n, 100) \in 0 .. 9
           /\ Digit(n, 10) \in 0 .. 9 /\ Digit(n, 1) \in 0 .. 9
           /\ n = 1000 * Digit(n, 1000) + 100 * Digit(n, 100) + 10 * Digit(n, 10) + Digit(n, 1)
<1> DEFINE a == n \div 1000
           b == n \div 100
           c == n \div 10
           b0 == b % 10
           c0 == c % 10
           n0 == n % 10
           w == Digit(n, 1000)   x == Digit(n, 100)   y == Digit(n, 10)   z == Digit(n, 1)
<1>1. a \in Nat /\ b \in Nat /\ c \in Nat
  OBVIOUS
<1>2. a < 10
  OBVIOUS
<1>3. n = 10 * c + n0 /\ n0 \in Int /\ 0 <= n0 /\ n0 < 10
  OBVIOUS
<1>4. c = 10 * b + c0 /\ c0 \in Int /\ 0 <= c0 /\ c0 < 10
  OBVIOUS
<1>5. b = 10 * a + b0 /\ b0 \in Int /\ 0 <= b0 /\ b0 < 10
  OBVIOUS
<1>6. w = a
  BY <1>1, <1>2 DEF Digit
<1>7. x = b0 /\ y = c0 /\ z = n0
  BY DEF Digit
<1> HIDE DEF a, b, c, b0, c0, n0, w, x, y, z
<1>8. w \in 0 .. 9 /\ x \in 0 .. 9 /\ y \in 0 .. 9 /\ z \in 0 .. 9
  BY <1>1, <1>2, <1>3, <1>4, <1>5, <1>6, <1>7
<1>9. n = 1000 * w + 100 * x + 10 * y + z
  BY <1>1, <1>3, <1>4, <1>5, <1>6, <1>7
<1> QED BY <1>8, <1>9 DEF w, x, y, z

(* A text of a number is a sequence of as many integers as it is wide.     *)
IsPair(s, a, b) == s \in Seq(Int) /\ Len(s) = 2 /\ s[1] = a /\ s[2] = b
IsQuad(s, a, b, c, d) ==
    /\ s \in Seq(Int) /\ Len(s) = 4
    /\ s[1] = a /\ s[2] = b /\ s[3] = c /\ s[4] = d

LEMMA PrintedInTwo ==
    ASSUME NEW n \in Nat, NEW pad \in Int
    PROVE  IsPair(Printed(n, 2, pad), Shown(n, 10, pad), Digit(n, 1))
<1> DEFINE d0 == Digit(n, 1)
           d1 == Shown(n, 10, pad)
           f == Printed(n, 2, pad)
<1>1. d0 \in Int /\ d1 \in Int
  BY DEF Digit, Shown
<1>2. f = [i \in 1 .. 2 |-> IF i = 1 THEN d1 ELSE d0]
  <2> SUFFICES ASSUME NEW i \in 1 .. 2
               PROVE  (IF i < 2 /\ n < 10 ^ (2 - i) THEN pad ELSE (n \div 10 ^ (2 - i)) % 10)
                         = IF i = 1 THEN d1 ELSE d0
    BY DEF Printed
  <2>1. CASE i = 1
    <3>1. 2 - i = 1
      BY <2>1
    <3> QED BY <2>1, <3>1, PowersOfTen DEF Digit, Shown
  <2>2. CASE i = 2
    <3>1. 2 - i = 0
      BY <2>2
    <3> QED BY <2>2, <3>1, PowersOfTen DEF Digit
  <2> QED BY <2>1, <2>2
<1> HIDE DEF d0, d1, f
<1>3. f \in [1 .. 2 -> Int] /\ f[1] = d1 /\ f[2] = d0
  BY <1>1, <1>2
<1>4. f \in Seq(Int) /\ Len(f) = 2
  <2>1. 2 \in Nat
    OBVIOUS
  <2> QED BY <1>3, <2>1, TextOfDigits
<1>5. IsPair(f, d1, d0)
  BY <1>3, <1>4 DEF IsPair
<1> QED BY <1>5 DEF f, d0, d1

LEMMA PrintedInFour ==
    ASSUME NEW n \in Nat, NEW pad \in Int
    PROVE  IsQuad(Printed(n, 4, pad), Shown(n, 1000, pad), Shown(n, 100, pad),
                  Shown(n, 10, pad), Digit(n, 1))
<1> DEFINE d0 == Digit(n, 1)
           d1 == Shown(n, 10, pad)
           d2 == Shown(n, 100, pad)
           d3 == Shown(n, 1000, pad)
           f == Printed(n, 4, pad)
<1>1. d0 \in Int /\ d1 \in Int /\ d2 \in Int /\ d3 \in Int
  BY DEF Digit, Shown
<1>2. f = [i \in 1 .. 4 |-> IF i = 1 THEN d3 ELSE IF i = 2 THEN d2 ELSE IF i = 3 THEN d1 ELSE d0]
  <2> SUFFICES ASSUME NEW i \in 1 .. 4
               PROVE  (IF i < 4 /\ n < 10 ^ (4 - i) THEN pad ELSE (n \div 10 ^ (4 - i)) % 10)
                         = IF i = 1 THEN d3 ELSE IF i = 2 THEN d2 ELSE IF i = 3 THEN d1 ELSE d0
    BY DEF Printed
  <2>1. CASE i = 1
    <3>1. 4 - i = 3
      BY <2>1
    <3> QED BY <2>1, <3>1, PowersOfTen DEF Digit, Shown
  <2>2. CASE i = 2
    <3>1. 4 - i = 2
      BY <2>2
    <3> QED BY <2>2, <3>1, PowersOfTen DEF Digit, Shown
  <2>3. CASE i = 3
    <3>1. 4 - i = 1
      BY <2>3
    <3> QED BY <2>3, <3>1, PowersOfTen DEF Digit, Shown
  <2>4. CASE i = 4
    <3>1. 4 - i = 0
      BY <2>4
    <3> QED BY <2>4, <3>1, PowersOfTen DEF Digit
  <2> QED BY <2>1, <2>2, <2>3, <2>4
<1> HIDE DEF d0, d1, d2, d3, f
<1>3. f \in [1 .. 4 -> Int] /\ f[1] = d3 /\ f[2] = d2 /\ f[3] = d1 /\ f[4] = d0
  BY <1>1, <1>2
<1>4. f \in Seq(Int) /\ Len(f) = 4
  <2>1. 4 \in Nat
    OBVIOUS
  <2> QED BY <1>3, <2>1, TextOfDigits
<1>5. IsQuad(f, d3, d2, d1, d0)
  BY <1>3, <1>4 DEF IsQuad
<1> QED BY <1>5 DEF f, d0, d1, d2, d3

(* Which of two texts of one width comes first.                            *)
LEMMA PairsSort ==
    ASSUME NEW s, NEW t, NEW a, NEW b, NEW a1, NEW b1,
           IsPair(s, a, b), IsPair(t, a1, b1),
           a < a1 \/ (a = a1 /\ b < b1)
    PROVE  SortsBefore(s, t)
<1>1. /\ DOMAIN s = 1 .. 2 /\ s[1] = a /\ s[2] = b /\ t[1] = a1 /\ t[2] = b1
  BY DEF IsPair
<1>2. CASE a < a1
  BY <1>1, <1>2 DEF SortsBefore
<1>3. CASE a = a1 /\ b < b1
  BY <1>1, <1>3 DEF SortsBefore
<1> QED BY <1>2, <1>3

LEMMA QuadsSort ==
    ASSUME NEW s, NEW t, NEW a, NEW b, NEW c, NEW d, NEW a1, NEW b1, NEW c1, NEW d1,
           IsQuad(s, a, b, c, d), IsQuad(t, a1, b1, c1, d1),
           \/ a < a1
           \/ a = a1 /\ b < b1
           \/ a = a1 /\ b = b1 /\ c < c1
           \/ a = a1 /\ b = b1 /\ c = c1 /\ d < d1
    PROVE  SortsBefore(s, t)
<1>1. /\ DOMAIN s = 1 .. 4 /\ s[1] = a /\ s[2] = b /\ s[3] = c /\ s[4] = d
      /\ t[1] = a1 /\ t[2] = b1 /\ t[3] = c1 /\ t[4] = d1
  BY DEF IsQuad
<1>2. CASE a < a1
  BY <1>1, <1>2 DEF SortsBefore
<1>3. CASE a = a1 /\ b < b1
  BY <1>1, <1>3 DEF SortsBefore
<1>4. CASE a = a1 /\ b = b1 /\ c < c1
  BY <1>1, <1>4 DEF SortsBefore
<1>5. CASE a = a1 /\ b = b1 /\ c = c1 /\ d < d1
  BY <1>1, <1>5 DEF SortsBefore
<1> QED BY <1>2, <1>3, <1>4, <1>5

(* Texts of one width sort as their numbers, filled with zeros or blanks.  *)
LEMMA TwoDigitsSort ==
    ASSUME NEW n \in Nat, NEW m \in Nat, n < m, m < 100
    PROVE  SortsBefore(Printed(n, 2, 0), Printed(m, 2, 0))
<1> DEFINE a == Shown(n, 10, 0)   a1 == Shown(m, 10, 0)
           b == Digit(n, 1)       b1 == Digit(m, 1)
<1>1. IsPair(Printed(n, 2, 0), a, b) /\ IsPair(Printed(m, 2, 0), a1, b1)
  BY PrintedInTwo
<1>2. a < a1 \/ (a = a1 /\ b < b1)
  BY DEF Shown, Digit
<1> HIDE DEF a, b, a1, b1
<1> QED BY <1>1, <1>2, PairsSort

LEMMA FourDigitsSort ==
    ASSUME NEW n \in Nat, NEW m \in Nat, n < m, m < 10000, NEW pad \in Int, pad <= 0
    PROVE  SortsBefore(Printed(n, 4, pad), Printed(m, 4, pad))
<1> DEFINE a == Digit(n, 1000)   a1 == Digit(m, 1000)
           b == Digit(n, 100)    b1 == Digit(m, 100)
           c == Digit(n, 10)     c1 == Digit(m, 10)
           d == Digit(n, 1)      d1 == Digit(m, 1)
           p == Shown(n, 1000, pad)   p1 == Shown(m, 1000, pad)
           q == Shown(n, 100, pad)    q1 == Shown(m, 100, pad)
           r == Shown(n, 10, pad)     r1 == Shown(m, 10, pad)
<1>1. IsQuad(Printed(n, 4, pad), p, q, r, d) /\ IsQuad(Printed(m, 4, pad), p1, q1, r1, d1)
  BY PrintedInFour
<1>2. n < 10000
  OBVIOUS
<1>3. /\ a \in 0 .. 9 /\ b \in 0 .. 9 /\ c \in 0 .. 9 /\ d \in 0 .. 9
      /\ n = 1000 * a + 100 * b + 10 * c + d
  BY <1>2, Digits
<1>4. /\ a1 \in 0 .. 9 /\ b1 \in 0 .. 9 /\ c1 \in 0 .. 9 /\ d1 \in 0 .. 9
      /\ m = 1000 * a1 + 100 * b1 + 10 * c1 + d1
  BY Digits
<1>5. /\ p = (IF n < 1000 THEN pad ELSE a) /\ p1 = (IF m < 1000 THEN pad ELSE a1)
      /\ q = (IF n < 100 THEN pad ELSE b) /\ q1 = (IF m < 100 THEN pad ELSE b1)
      /\ r = (IF n < 10 THEN pad ELSE c) /\ r1 = (IF m < 10 THEN pad ELSE c1)
  BY DEF Shown
<1> HIDE DEF a, b, c, d, a1, b1, c1, d1, p, q, r, p1, q1, r1
<1>6. \/ a < a1
      \/ a = a1 /\ b < b1
      \/ a = a1 /\ b = b1 /\ c < c1
      \/ a = a1 /\ b = b1 /\ c = c1 /\ d < d1
  BY <1>3, <1>4
<1>7. \/ p < p1
      \/ p = p1 /\ q < q1
      \/ p = p1 /\ q = q1 /\ r < r1
      \/ p = p1 /\ q = q1 /\ r = r1 /\ d < d1
  BY <1>3, <1>4, <1>5, <1>6
<1> QED BY <1>1, <1>7, QuadsSort

LEMMA JoinedPlaces ==
    ASSUME NEW s \in Seq(Int), NEW u \in Seq(Int)
    PROVE  /\ Len(s) \in Nat /\ Len(u) \in Nat /\ Len(s \o u) = Len(s) + Len(u)
           /\ DOMAIN s = 1 .. Len(s) /\ DOMAIN u = 1 .. Len(u)
           /\ DOMAIN (s \o u) = 1 .. Len(s) + Len(u)
           /\ \A i \in 1 .. Len(s) : (s \o u)[i] = s[i]
           /\ \A i \in 1 .. Len(u) : (s \o u)[Len(s) + i] = u[i]
OBVIOUS

LEMMA PlacesBehind ==
    ASSUME NEW k \in Nat, NEW n \in Nat, NEW i \in 1 .. n
    PROVE  /\ i \in Nat /\ k + i \in 1 .. k + n
           /\ \A j \in 1 .. (k + i) - 1 : j \notin 1 .. k =>
                 j - k \in 1 .. i - 1 /\ j - k \in 1 .. n /\ k + (j - k) = j
OBVIOUS

(* Text goes on behind the place that decides which of two is first.       *)
LEMMA FrontsSort ==
    ASSUME NEW s \in Seq(Int), NEW t \in Seq(Int), NEW u \in Seq(Int), NEW v \in Seq(Int),
           Len(s) = Len(t), SortsBefore(s, t)
    PROVE  SortsBefore(s \o u, t \o v)
<1> DEFINE x == s \o u
           y == t \o v
<1>1. PICK i \in DOMAIN s : s[i] < t[i] /\ \A j \in 1 .. i - 1 : s[j] = t[j]
  BY DEF SortsBefore
<1>2. /\ Len(s) \in Nat /\ Len(u) \in Nat /\ DOMAIN s = 1 .. Len(s)
      /\ DOMAIN x = 1 .. Len(s) + Len(u) /\ \A j \in 1 .. Len(s) : x[j] = s[j]
  BY JoinedPlaces
<1>3. \A j \in 1 .. Len(s) : y[j] = t[j]
  BY JoinedPlaces
<1> HIDE DEF x, y
<1>4. i \in 1 .. Len(s) /\ i \in DOMAIN x /\ \A j \in 1 .. i - 1 : j \in 1 .. Len(s)
  BY <1>2
<1>5. x[i] < y[i] /\ \A j \in 1 .. i - 1 : x[j] = y[j]
  BY <1>1, <1>2, <1>3, <1>4
<1>6. SortsBefore(x, y)
  BY <1>4, <1>5 DEF SortsBefore
<1> QED BY <1>6 DEF x, y

LEMMA BacksSort ==
    ASSUME NEW s \in Seq(Int), NEW u \in Seq(Int), NEW v \in Seq(Int),
           Len(u) = Len(v), SortsBefore(u, v)
    PROVE  SortsBefore(s \o u, s \o v)
<1> DEFINE k == Len(s)
           x == s \o u
           y == s \o v
           n == Len(u)
<1>1. PICK i \in DOMAIN u : u[i] < v[i] /\ \A j \in 1 .. i - 1 : u[j] = v[j]
  BY DEF SortsBefore
<1>2. /\ k \in Nat /\ n \in Nat /\ DOMAIN u = 1 .. n /\ DOMAIN x = 1 .. k + n
  BY JoinedPlaces
<1>3. \A j \in 1 .. k : x[j] = s[j]
  BY JoinedPlaces
<1>4. \A j \in 1 .. k : y[j] = s[j]
  BY JoinedPlaces
<1>5. \A j \in 1 .. n : x[k + j] = u[j]
  BY JoinedPlaces
<1>6. \A j \in 1 .. n : y[k + j] = v[j]
  <2>1. \A j \in 1 .. Len(v) : y[k + j] = v[j]
    BY JoinedPlaces
  <2> QED BY <2>1
<1> HIDE DEF k, x, y, n
<1>7. i \in 1 .. n /\ k \in Nat /\ n \in Nat
  BY <1>2
<1>8. /\ i \in Nat /\ k + i \in 1 .. k + n
      /\ \A j \in 1 .. (k + i) - 1 : j \notin 1 .. k =>
            j - k \in 1 .. i - 1 /\ j - k \in 1 .. n /\ k + (j - k) = j
  BY <1>7, PlacesBehind
<1>9. x[k + i] < y[k + i]
  BY <1>1, <1>5, <1>6, <1>7
<1>10. ASSUME NEW j \in 1 .. (k + i) - 1
       PROVE  x[j] = y[j]
  <2>1. CASE j \in 1 .. k
    BY <1>3, <1>4, <2>1
  <2>2. CASE j \notin 1 .. k
    <3> DEFINE h == j - k
    <3>1. h \in 1 .. i - 1 /\ h \in 1 .. n /\ k + h = j
      BY <1>8, <2>2
    <3> HIDE DEF h
    <3>2. x[k + h] = u[h] /\ y[k + h] = v[h] /\ u[h] = v[h]
      BY <1>1, <1>5, <1>6, <3>1
    <3> QED BY <3>1, <3>2
  <2> QED BY <2>1, <2>2
<1>11. SortsBefore(x, y)
  <2> DEFINE m == k + i
  <2>1. m \in DOMAIN x /\ x[m] < y[m] /\ \A j \in 1 .. m - 1 : x[j] = y[j]
    BY <1>2, <1>8, <1>9, <1>10
  <2> HIDE DEF m
  <2> QED BY <2>1 DEF SortsBefore
<1> QED BY <1>11 DEF x, y

LEMMA NoneBeforeItself ==
    ASSUME NEW s \in Seq(Int)
    PROVE  ~SortsBefore(s, s)
BY DEF SortsBefore

Text(s, w) == s \in Seq(Int) /\ Len(s) = w

LEMMA Joined ==
    ASSUME NEW k \in Nat, NEW j \in Nat, NEW s, NEW u, Text(s, k), Text(u, j)
    PROVE  Text(s \o u, k + j)
BY DEF Text

LEMMA JoinedSort ==
    ASSUME NEW k, NEW j, NEW s, NEW t, NEW u, NEW v,
           Text(s, k), Text(t, k), Text(u, j), Text(v, j),
           SortsBefore(s, t) \/ (s = t /\ SortsBefore(u, v))
    PROVE  SortsBefore(s \o u, t \o v)
BY FrontsSort, BacksSort DEF Text

LEMMA NumbersAreTexts ==
    ASSUME NEW n \in Nat, NEW pad \in Int
    PROVE  Text(Printed(n, 2, 0), 2) /\ Text(Printed(n, 4, pad), 4)
<1>1. 0 \in Int
  OBVIOUS
<1>2. IsPair(Printed(n, 2, 0), Shown(n, 10, 0), Digit(n, 1))
  BY <1>1, PrintedInTwo
<1>3. IsQuad(Printed(n, 4, pad), Shown(n, 1000, pad), Shown(n, 100, pad),
             Shown(n, 10, pad), Digit(n, 1))
  BY PrintedInFour
<1> QED BY <1>2, <1>3 DEF IsPair, IsQuad, Text

(* The date of both texts; pad fills the year.                             *)
DateText(dt, pad) ==
    Printed(dt.year, 4, pad) \o Printed(dt.month, 2, 0) \o Printed(dt.day, 2, 0)

LEMMA DateTextIsText ==
    ASSUME NEW dt \in DateTimes, NEW pad \in Int
    PROVE  Text(DateText(dt, pad), 8)
<1> DEFINE Y == Printed(dt.year, 4, pad)
           M == Printed(dt.month, 2, 0)
           D == Printed(dt.day, 2, 0)
<1>1. Text(Y, 4) /\ Text(M, 2) /\ Text(D, 2)
  BY NumbersAreTexts DEF DateTimes
<1> HIDE DEF Y, M, D
<1>2. Text(Y \o M, 6)
  BY <1>1, Joined
<1>3. Text(Y \o M \o D, 8)
  BY <1>1, <1>2, Joined
<1> QED BY <1>3 DEF DateText, Y, M, D

LEMMA DateTextsSort ==
    ASSUME NEW dt \in DateTimes, NEW n \in DateTimes, NEW pad \in Int, pad <= 0,
           n.year < 10000, DateAhead(dt, n)
    PROVE  SortsBefore(DateText(dt, pad), DateText(n, pad))
<1> DEFINE Y == Printed(dt.year, 4, pad)   Y1 == Printed(n.year, 4, pad)
           M == Printed(dt.month, 2, 0)    M1 == Printed(n.month, 2, 0)
           D == Printed(dt.day, 2, 0)      D1 == Printed(n.day, 2, 0)
<1>1. /\ dt.year \in Nat /\ n.year \in Nat
      /\ dt.month \in Nat /\ n.month \in Nat /\ n.month < 100
      /\ dt.day \in Nat /\ n.day \in Nat /\ n.day < 100
  BY DEF DateTimes
<1>2. Text(Y, 4) /\ Text(M, 2) /\ Text(D, 2) /\ Text(Y1, 4) /\ Text(M1, 2) /\ Text(D1, 2)
  BY <1>1, NumbersAreTexts
<1>3. /\ dt.year < n.year => SortsBefore(Y, Y1)
      /\ dt.month < n.month => SortsBefore(M, M1)
      /\ dt.day < n.day => SortsBefore(D, D1)
  BY <1>1, FourDigitsSort, TwoDigitsSort
<1>4. /\ dt.year = n.year => Y = Y1
      /\ dt.month = n.month => M = M1
  OBVIOUS
<1>5. \/ dt.year < n.year
      \/ dt.year = n.year /\ dt.month < n.month
      \/ dt.year = n.year /\ dt.month = n.month /\ dt.day < n.day
  BY <1>1 DEF DateAhead
<1>6. \/ SortsBefore(Y, Y1)
      \/ Y = Y1 /\ SortsBefore(M, M1)
      \/ Y = Y1 /\ M = M1 /\ SortsBefore(D, D1)
  BY <1>3, <1>4, <1>5
<1> HIDE DEF Y, M, D, Y1, M1, D1
<1> DEFINE YM == Y \o M   YM1 == Y1 \o M1
<1>7. Text(YM, 6) /\ Text(YM1, 6)
  BY <1>2, Joined
<1>8. SortsBefore(Y, Y1) \/ (Y = Y1 /\ SortsBefore(M, M1)) => SortsBefore(YM, YM1)
  BY <1>2, JoinedSort
<1>9. Y = Y1 /\ M = M1 => YM = YM1
  OBVIOUS
<1> HIDE DEF YM, YM1
<1>10. SortsBefore(YM, YM1) \/ (YM = YM1 /\ SortsBefore(D, D1))
  BY <1>6, <1>8, <1>9
<1>11. SortsBefore(YM \o D, YM1 \o D1)
  BY <1>2, <1>7, <1>10, JoinedSort
<1> QED BY <1>11 DEF DateText, YM, YM1, Y, M, D, Y1, M1, D1

LEMMA TimeTextsSort ==
    ASSUME NEW dt \in DateTimes, NEW n \in DateTimes, n.year < 10000,
           DateAhead(dt, n) \/ (SameDate(dt, n) /\ TimeAhead(dt, n))
    PROVE  SortsBefore(DateTimeToIsoString(dt), DateTimeToIsoString(n))
<1> DEFINE A == DateText(dt, 0)             A1 == DateText(n, 0)
           H == Printed(dt.hour, 2, 0)      H1 == Printed(n.hour, 2, 0)
           M == Printed(dt.minute, 2, 0)    M1 == Printed(n.minute, 2, 0)
           S == Printed(dt.second, 2, 0)    S1 == Printed(n.second, 2, 0)
<1>1. /\ dt.hour \in Nat /\ n.hour \in Nat /\ n.hour < 100
      /\ dt.minute \in Nat /\ n.minute \in Nat /\ n.minute < 100
      /\ dt.second \in Nat /\ n.second \in Nat /\ n.second < 100
  BY Units DEF DateTimes
<1>2. /\ Text(H, 2) /\ Text(M, 2) /\ Text(S, 2) /\ Text(H1, 2) /\ Text(M1, 2) /\ Text(S1, 2)
  BY <1>1, NumbersAreTexts
<1>3. Text(A, 8) /\ Text(A1, 8)
  BY DateTextIsText
<1>4. /\ dt.hour < n.hour => SortsBefore(H, H1)
      /\ dt.minute < n.minute => SortsBefore(M, M1)
      /\ dt.second < n.second => SortsBefore(S, S1)
  BY <1>1, TwoDigitsSort
<1>5. DateAhead(dt, n) => SortsBefore(A, A1)
  BY DateTextsSort
<1>6. /\ SameDate(dt, n) => A = A1
      /\ dt.hour = n.hour => H = H1
      /\ dt.minute = n.minute => M = M1
  <2>1. SameDate(dt, n) => A = A1
    BY DEF SameDate, DateText
  <2>2. dt.hour = n.hour => H = H1
    OBVIOUS
  <2>3. dt.minute = n.minute => M = M1
    OBVIOUS
  <2> QED BY <2>1, <2>2, <2>3
<1>7. TimeAhead(dt, n) =>
         \/ dt.hour < n.hour
         \/ dt.hour = n.hour /\ dt.minute < n.minute
         \/ dt.hour = n.hour /\ dt.minute = n.minute /\ dt.second < n.second
  BY <1>1 DEF TimeAhead
<1>8. \/ SortsBefore(A, A1)
      \/ A = A1 /\ SortsBefore(H, H1)
      \/ A = A1 /\ H = H1 /\ SortsBefore(M, M1)
      \/ A = A1 /\ H = H1 /\ M = M1 /\ SortsBefore(S, S1)
  <2> HIDE DEF A, H, M, S, A1, H1, M1, S1
  <2> QED BY <1>4, <1>5, <1>6, <1>7
<1> HIDE DEF A, H, M, S, A1, H1, M1, S1
<1> DEFINE AH == A \o H    AH1 == A1 \o H1
           AHM == AH \o M  AHM1 == AH1 \o M1
<1>9. Text(AH, 10) /\ Text(AH1, 10)
  BY <1>2, <1>3, Joined
<1>10. SortsBefore(A, A1) \/ (A = A1 /\ SortsBefore(H, H1)) => SortsBefore(AH, AH1)
  BY <1>2, <1>3, JoinedSort
<1>11. A = A1 /\ H = H1 => AH = AH1
  OBVIOUS
<1> HIDE DEF AH, AH1
<1>12. Text(AHM, 12) /\ Text(AHM1, 12)
  BY <1>2, <1>9, Joined
<1>13. SortsBefore(AH, AH1) \/ (AH = AH1 /\ SortsBefore(M, M1)) => SortsBefore(AHM, AHM1)
  BY <1>2, <1>9, JoinedSort
<1>14. AH = AH1 /\ M = M1 => AHM = AHM1
  OBVIOUS
<1> HIDE DEF AHM, AHM1
<1>15. SortsBefore(AHM, AHM1) \/ (AHM = AHM1 /\ SortsBefore(S, S1))
  BY <1>8, <1>10, <1>11, <1>13, <1>14
<1>16. SortsBefore(AHM \o S, AHM1 \o S1)
  BY <1>2, <1>12, <1>15, JoinedSort
<1>17. DateTimeToIsoString(dt) = AHM \o S /\ DateTimeToIsoString(n) = AHM1 \o S1
  BY DEF DateTimeToIsoString, DateText, AHM, AHM1, AH, AH1, A, H, M, S, A1, H1, M1, S1
<1> QED BY <1>16, <1>17

LEMMA TextOfDate ==
    ASSUME NEW dt, IsDateTime(dt)
    PROVE  toIsoString(DayOf(dt)) = DateText(dt, Blank)
<1>1. getYearMonthDay(DayOf(dt)) = YearMonthDay(dt.year, dt.month, dt.day)
  BY JulianRoundTrip DEF IsDateTime, DayOf
<1>2. /\ yearMonthDay(DayOf(dt)).year = dt.year /\ yearMonthDay(DayOf(dt)).month = dt.month
      /\ yearMonthDay(DayOf(dt)).day = dt.day
  BY <1>1 DEF yearMonthDay, YearMonthDay
<1> QED BY <1>2 DEF toIsoString, DateText

LEMMA TextsKept == ClockInv => TextsSortAsTimes
<1> SUFFICES ASSUME ClockInv
             PROVE  TextsSortAsTimes
  OBVIOUS
<1> DEFINE n == Later(utc)
           x == DayOf(utc)
           y == DayOf(n)
<1>1. /\ IsDateTime(utc) /\ utc.year \in MinYear - 1 .. MaxYear + 1 /\ now = Instant(utc)
      /\ utc \in DateTimes /\ x \in Nat
  BY DayIsNatural DEF ClockInv, IsDateTime
<1>2. /\ IsDateTime(n) /\ n.year \in utc.year .. utc.year + 1
      /\ SameDay(utc, n) \/ NextDay(utc, n)
  BY <1>1, LaterClock
<1>3. n \in DateTimes /\ y \in Nat
  BY <1>2, DayIsNatural DEF IsDateTime
<1>4. n.year < 10000
  <2>1. MaxYear \in 1970 .. 9997 /\ MinYear \in Nat /\ utc.year \in Nat
    BY <1>1, Units DEF DateTimes
  <2> HIDE DEF n
  <2> QED BY <1>1, <1>2, <2>1
<1>5. toUtcTime(now + 1) = n
  <2>1. BreakTime(Instant(n)) = n
    BY <1>2, TimeBroken
  <2>2. Instant(n) = now + 1
    BY <1>1, SecondPasses
  <2> QED BY <2>1, <2>2 DEF toUtcTime
<1>6. Blank \in Int /\ Blank <= 0
  BY DEF Blank
<1>7. Date(utc.year, utc.month, utc.day) = x /\ Date(n.year, n.month, n.day) = y
  BY DEF Date, DayOf
<1>8. toIsoString(x) = DateText(utc, Blank) /\ toIsoString(y) = DateText(n, Blank)
  BY <1>1, <1>2, TextOfDate
<1> HIDE DEF n, x, y
<1>9. SortsBefore(DateTimeToIsoString(utc), DateTimeToIsoString(n))
  BY <1>1, <1>2, <1>3, <1>4, TimeTextsSort DEF SameDay, NextDay
<1>10. CASE SameDay(utc, n)
  <2>1. x = y /\ ~Midnight(n)
    BY <1>10 DEF SameDay, x, y
  <2>2. toIsoString(x) \in Seq(Int)
    BY <1>1, <1>6, <1>8, DateTextIsText DEF Text
  <2>3. ~SortsBefore(toIsoString(x), toIsoString(y))
    BY <2>1, <2>2, NoneBeforeItself
  <2> QED BY <1>1, <1>5, <1>7, <1>9, <2>1, <2>3 DEF TextsSortAsTimes, DateLess, DateEqual
<1>11. CASE NextDay(utc, n)
  <2>1. y = x + 1 /\ Midnight(n) /\ DateAhead(utc, n)
    BY <1>11 DEF NextDay, x, y
  <2>2. SortsBefore(toIsoString(x), toIsoString(y))
    BY <1>1, <1>3, <1>4, <1>6, <1>8, <2>1, DateTextsSort
  <2> QED BY <1>1, <1>5, <1>7, <1>9, <2>1, <2>2 DEF TextsSortAsTimes, DateLess, DateEqual
<1> QED BY <1>2, <1>10, <1>11

--------------------------------------------------------------------------------
(* For every clock: toUtcTime and fromUtcTime are each other's inverse and *)
(* agree with the Gregorian calendar and the day of the week in every      *)
(* second, ISO texts of dates and times sort as what they stand for, and   *)
(* a valid Timestamp keeps, shows and adds seconds as the clock counts.    *)
THEOREM CalendarIsKept == Spec => []CalendarKept
<1>1. ClockInv => CalendarKept
  BY DatesKept, TextsKept, TimestampsKept DEF CalendarKept
<1> QED BY <1>1, ClockStarts, ClockStep, PTL DEF Spec

================================================================================
