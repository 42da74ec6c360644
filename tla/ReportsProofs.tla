----------------------------- MODULE ReportsProofs -----------------------------
(***************************************************************************)
(* Proofs about Reports: the calendar of getPeriodRange for all days, not  *)
(* only those TLC tries, and the figures of the dashboard for all users,   *)
(* orders and prices.                                                      *)
(***************************************************************************)
EXTENDS Reports, OrdersProofs, FiniteSetTheorems, WellFoundedInduction

-----------------------------------------------------------------------------
(* Years.                                                                  *)

\* Every non-empty set of natural numbers has a least element.
LEMMA LeastNumber ==
  ASSUME NEW S \in SUBSET Nat, S # {}
  PROVE  \E n \in S : \A m \in S : n <= m
<1> DEFINE R == {p \in Nat \X Nat : p[1] < p[2]}
<1>1. IsWellFoundedOn(R, Nat)
  BY NatLessThanWellFounded DEF OpToRel
<1>2. \A m, n \in Nat : m < n => <<m, n>> \in R
  OBVIOUS
<1> HIDE DEF R
<1>3. PICK n \in S : \A m \in S : ~ (<<m, n>> \in R)
  BY <1>1, WFMin
<1>4. ASSUME NEW m \in S PROVE n <= m
  <2>1. m \in Nat /\ n \in Nat
    OBVIOUS
  <2>2. ~ (m < n)
    BY <1>2, <1>3, <2>1
  <2> QED
    BY <2>1, <2>2
<1> QED
  BY <1>4

\* Which years the leap days are added in.
LEMMA LeapsGrow ==
  ASSUME NEW y \in Nat, y >= 1
  PROVE  /\ Leaps(y) \in Int
         /\ Leaps(y + 1) = Leaps(y) + IF IsLeap(y) THEN 1 ELSE 0
<1> DEFINE x == y - 1
<1>1. /\ x \in Nat /\ y = x + 1 /\ y - 1 = x /\ (y + 1) - 1 = x + 1
  OBVIOUS
<1> HIDE DEF x
<1>2. (x + 1) \div 4 = x \div 4 + (IF (x + 1) % 4 = 0 THEN 1 ELSE 0)
  BY <1>1
<1>3. (x + 1) \div 100 = x \div 100 + (IF (x + 1) % 100 = 0 THEN 1 ELSE 0)
  BY <1>1
<1>4. (x + 1) \div 400 = x \div 400 + (IF (x + 1) % 400 = 0 THEN 1 ELSE 0)
  BY <1>1
<1>5. /\ (x + 1) % 400 = 0 => (x + 1) % 100 = 0
      /\ (x + 1) % 100 = 0 => (x + 1) % 4 = 0
  BY <1>1
<1>6. x \div 4 \in Int /\ x \div 100 \in Int /\ x \div 400 \in Int
  BY <1>1
<1> QED
  BY <1>1, <1>2, <1>3, <1>4, <1>5, <1>6 DEF Leaps, IsLeap

LEMMA YearStartType ==
  ASSUME NEW y \in Nat, y >= 1
  PROVE  /\ YearStart(y) \in Int
         /\ YearStart(y + 1) = YearStart(y) + IF IsLeap(y) THEN 366 ELSE 365
<1>1. Leaps(2024) \in Int
  BY LeapsGrow
<1> QED
  BY <1>1, LeapsGrow DEF YearStart

LEMMA Year2024 == YearStart(2024) = 0
BY DEF YearStart, Leaps

\* Years are long: a rough bound, and their order.
LEMMA YearsApart ==
  ASSUME NEW x \in Nat, NEW y \in Nat, 1 <= x, x < y
  PROVE  YearStart(x + 1) <= YearStart(y)
<1> DEFINE a == x
           b == y - 1
<1>1. /\ a \in Nat /\ b \in Nat /\ a <= b /\ x + 1 = a + 1 /\ (x + 1) - 1 = a /\ y - 1 = b
      /\ x + 1 - 2024 = a - 2023 /\ y - 2024 = b - 2023
  OBVIOUS
<1> HIDE DEF a, b
<1>2. a \div 4 <= b \div 4 /\ a \div 400 <= b \div 400
  BY <1>1
<1>3. b \div 100 - a \div 100 <= b - a
  BY <1>1
<1>4. /\ a \div 4 \in Int /\ a \div 100 \in Int /\ a \div 400 \in Int
      /\ b \div 4 \in Int /\ b \div 100 \in Int /\ b \div 400 \in Int
  BY <1>1
<1>5. Leaps(x + 1) = a \div 4 - a \div 100 + a \div 400 /\ Leaps(y) = b \div 4 - b \div 100 + b \div 400
  BY <1>1 DEF Leaps
<1>6. Leaps(x + 1) \in Int /\ Leaps(y) \in Int /\ Leaps(2024) \in Int
        /\ Leaps(x + 1) - Leaps(y) <= b - a
  BY <1>1, <1>2, <1>3, <1>4, <1>5, LeapsGrow
<1> QED
  BY <1>1, <1>6 DEF YearStart

LEMMA YearsGoOn ==
  ASSUME NEW n \in Nat
  PROVE  n < YearStart(2024 + n + 1)
<1> DEFINE x == 2024 + n
<1>1. x \in Nat /\ x >= 2024 /\ (2024 + n + 1) - 1 = x /\ (2024 + n + 1) - 2024 = n + 1
  OBVIOUS
<1> HIDE DEF x
<1>2. x \div 4 - x \div 100 >= 486
  BY <1>1
<1>3. x \div 400 >= 5
  BY <1>1
<1>4. Leaps(2024) = 490
  BY DEF Leaps
<1>5. x \div 4 \in Int /\ x \div 100 \in Int /\ x \div 400 \in Int
  BY <1>1
<1>6. Leaps(2024 + n + 1) = x \div 4 - x \div 100 + x \div 400
  BY <1>1 DEF Leaps
<1> QED
  BY <1>1, <1>2, <1>3, <1>4, <1>5, <1>6 DEF YearStart

\* Every day is in one year.
LEMMA FullYear ==
  ASSUME NEW n \in Nat
  PROVE  /\ getFullYear(n) \in Nat /\ getFullYear(n) >= 2024
         /\ YearStart(getFullYear(n)) <= n
         /\ n < YearStart(getFullYear(n) + 1)
<1> DEFINE Later == {y \in Nat : y > 2024 /\ n < YearStart(y)}
<1>1. 2024 + n + 1 \in Later
  BY YearsGoOn
<1>2. PICK z \in Later : \A y \in Later : z <= y
  <2>1. Later \in SUBSET Nat /\ Later # {}
    BY <1>1
  <2> HIDE DEF Later
  <2> QED
    BY <2>1, LeastNumber
<1>3. z \in Nat /\ z > 2024 /\ n < YearStart(z) /\ z <= 2024 + n + 1
  BY <1>1, <1>2
<1>4. YearStart(z - 1) <= n
  <2>1. CASE z - 1 = 2024
    BY <2>1, Year2024
  <2>2. CASE z - 1 > 2024
    <3>1. z - 1 \in Nat /\ z - 1 \notin Later
      BY <1>2, <1>3
    <3>2. YearStart(z - 1) \in Int
      BY <1>3, <3>1, YearStartType
    <3> QED
      BY <2>2, <3>1, <3>2
  <2> QED
    BY <1>3, <2>1, <2>2
<1>5. z - 1 \in 2024 .. 2024 + n /\ (z - 1) + 1 = z
  BY <1>3
<1>6. \E y \in 2024 .. 2024 + n : YearStart(y) <= n /\ n < YearStart(y + 1)
  BY <1>3, <1>4, <1>5
<1>7. /\ getFullYear(n) \in 2024 .. 2024 + n
      /\ YearStart(getFullYear(n)) <= n /\ n < YearStart(getFullYear(n) + 1)
  BY <1>6 DEF getFullYear
<1> QED
  BY <1>7

LEMMA YearIsUnique ==
  ASSUME NEW n \in Nat, NEW y \in Nat, y >= 2024,
         YearStart(y) <= n, n < YearStart(y + 1)
  PROVE  getFullYear(n) = y
<1> DEFINE z == getFullYear(n)
<1>1. z \in Nat /\ z >= 2024 /\ YearStart(z) <= n /\ n < YearStart(z + 1)
  BY FullYear
<1> HIDE DEF z
<1>2. /\ YearStart(y) \in Int /\ YearStart(y + 1) \in Int
      /\ YearStart(z) \in Int /\ YearStart(z + 1) \in Int
  <2>1. y + 1 \in Nat /\ z + 1 \in Nat /\ y + 1 >= 1 /\ z + 1 >= 1 /\ y >= 1 /\ z >= 1
    BY <1>1
  <2> QED
    BY <1>1, <2>1, YearStartType
<1>3. ~ (y < z)
  BY <1>1, <1>2, YearsApart
<1>4. ~ (z < y)
  BY <1>1, <1>2, YearsApart
<1> QED
  BY <1>1, <1>3, <1>4 DEF z

-----------------------------------------------------------------------------
(* Months.                                                                 *)

\* The beginnings of the months, with the leap day from March on.
LEMMA MonthStarts ==
  ASSUME NEW y \in Nat, y >= 2024
  PROVE  LET leap == IF IsLeap(y) THEN 1 ELSE 0
         IN  /\ MonthStart(y, 0) = YearStart(y)
             /\ MonthStart(y, 1) = YearStart(y) + 31
             /\ MonthStart(y, 2) = YearStart(y) + 59 + leap
             /\ MonthStart(y, 3) = YearStart(y) + 90 + leap
             /\ MonthStart(y, 4) = YearStart(y) + 120 + leap
             /\ MonthStart(y, 5) = YearStart(y) + 151 + leap
             /\ MonthStart(y, 6) = YearStart(y) + 181 + leap
             /\ MonthStart(y, 7) = YearStart(y) + 212 + leap
             /\ MonthStart(y, 8) = YearStart(y) + 243 + leap
             /\ MonthStart(y, 9) = YearStart(y) + 273 + leap
             /\ MonthStart(y, 10) = YearStart(y) + 304 + leap
             /\ MonthStart(y, 11) = YearStart(y) + 334 + leap
<1>1. YearStart(y) \in Int
  BY YearStartType
<1> QED
  BY <1>1 DEF MonthStart, DaysBeforeMonth

\* The day after the last one of month m.
NextMonth(y, m) == DayNumber(y, m + 1, 1)

LEMMA MonthStartType ==
  ASSUME NEW y \in Nat, y >= 2024
  PROVE  \A k \in 0 .. 11 : MonthStart(y, k) \in Int
<1>1. YearStart(y) \in Int
  BY YearStartType
<1> QED
  BY <1>1 DEF MonthStart, DaysBeforeMonth

\* Day d of month k, and of the month after month m.
LEMMA DayOfMonth ==
  ASSUME NEW y \in Nat, y >= 2024, NEW k \in 0 .. 11, NEW d \in Int
  PROVE  DayNumber(y, k, d) = MonthStart(y, k) + d - 1
<1>1. k \div 12 = 0 /\ k % 12 = k /\ y + k \div 12 = y
  OBVIOUS
<1> QED
  BY <1>1 DEF DayNumber

LEMMA DecemberEnds ==
  ASSUME NEW y \in Nat, y >= 2024, NEW d \in Int
  PROVE  DayNumber(y, 12, d) = YearStart(y + 1) + d - 1
<1>1. 12 \div 12 = 1 /\ 12 % 12 = 0
  OBVIOUS
<1>2. y + 1 \in Nat /\ y + 1 >= 2024
  OBVIOUS
<1>3. MonthStart(y + 1, 0) = YearStart(y + 1)
  BY <1>2, MonthStarts
<1> QED
  BY <1>1, <1>3 DEF DayNumber

LEMMA NextMonthStarts ==
  ASSUME NEW y \in Nat, y >= 2024, NEW m \in 0 .. 11
  PROVE  /\ NextMonth(y, m) \in Int
         /\ m < 11 => NextMonth(y, m) = MonthStart(y, m + 1)
         /\ m = 11 => NextMonth(y, m) = YearStart(y + 1)
         /\ DayNumber(y, m + 1, 0) = NextMonth(y, m) - 1
<1>1. CASE m < 11
  <2>1. m + 1 \in 0 .. 11 /\ 0 \in Int /\ 1 \in Int
    BY <1>1
  <2>2. MonthStart(y, m + 1) \in Int
    BY <2>1, MonthStartType
  <2>3. /\ DayNumber(y, m + 1, 1) = MonthStart(y, m + 1) + 1 - 1
        /\ DayNumber(y, m + 1, 0) = MonthStart(y, m + 1) + 0 - 1
    BY <2>1, DayOfMonth
  <2> QED
    BY <1>1, <2>2, <2>3 DEF NextMonth
<1>2. CASE m = 11
  <2>1. y + 1 \in Nat /\ y + 1 >= 1 /\ 0 \in Int /\ 1 \in Int /\ 11 + 1 = 12
    OBVIOUS
  <2>2. YearStart(y + 1) \in Int
    BY <2>1, YearStartType
  <2>3. /\ DayNumber(y, 12, 1) = YearStart(y + 1) + 1 - 1
        /\ DayNumber(y, 12, 0) = YearStart(y + 1) + 0 - 1
    BY <2>1, DecemberEnds
  <2> QED
    BY <1>2, <2>1, <2>2, <2>3 DEF NextMonth
<1> QED
  BY <1>1, <1>2

\* The months follow one another through the year.
LEMMA MonthsInOrder ==
  ASSUME NEW y \in Nat, y >= 2024, NEW k \in 0 .. 11, NEW m \in 0 .. 11, k < m
  PROVE  NextMonth(y, k) <= MonthStart(y, m)
<1>1. YearStart(y) \in Int
  BY YearStartType
<1>2. k < 11 /\ k + 1 \in 1 .. m
  OBVIOUS
<1>3. NextMonth(y, k) = MonthStart(y, k + 1)
  BY <1>2, NextMonthStarts
<1>4. \A i, j \in 1 .. 12 : i <= j => DaysBeforeMonth[i] <= DaysBeforeMonth[j]
  <2> DEFINE days == DaysBeforeMonth
  <2>1. /\ days[1] = 0 /\ days[2] = 31 /\ days[3] = 59 /\ days[4] = 90
        /\ days[5] = 120 /\ days[6] = 151 /\ days[7] = 181 /\ days[8] = 212
        /\ days[9] = 243 /\ days[10] = 273 /\ days[11] = 304 /\ days[12] = 334
    BY DEF DaysBeforeMonth
  <2> HIDE DEF days
  <2>2. \A i \in 1 .. 11 : days[i] <= days[i + 1] /\ days[i] \in 0 .. 334
    BY <2>1
  <2> QED
    BY <2>1, <2>2 DEF days
<1>5. \A i \in 1 .. 12 : DaysBeforeMonth[i] \in Nat
  BY DEF DaysBeforeMonth
<1>6. /\ k + 2 \in 1 .. 12 /\ m + 1 \in 1 .. 12 /\ k + 2 <= m + 1
      /\ (k + 1) + 1 = k + 2 /\ (k + 1 > 1 => m > 1)
  BY <1>2
<1>7. MonthStart(y, k + 1) <= MonthStart(y, m)
  BY <1>1, <1>4, <1>5, <1>6 DEF MonthStart
<1> QED
  BY <1>3, <1>7

LEMMA MonthInYear ==
  ASSUME NEW y \in Nat, y >= 2024, NEW m \in 0 .. 11
  PROVE  YearStart(y) <= MonthStart(y, m) /\ NextMonth(y, m) <= YearStart(y + 1)
<1>1. /\ YearStart(y) \in Int /\ YearStart(y + 1) \in Int
      /\ YearStart(y + 1) = YearStart(y) + IF IsLeap(y) THEN 366 ELSE 365
  <2>1. y >= 1 /\ y + 1 \in Nat /\ y + 1 >= 1
    OBVIOUS
  <2> QED
    BY <2>1, YearStartType
<1>2. YearStart(y) <= MonthStart(y, m)
  <2>1. DaysBeforeMonth[m + 1] \in Nat
    BY DEF DaysBeforeMonth
  <2> QED
    BY <1>1, <2>1 DEF MonthStart
<1>3. CASE m = 11
  BY <1>1, <1>2, <1>3, NextMonthStarts
<1>4. CASE m < 11
  <2>1. MonthStart(y, 11) = YearStart(y) + 334 + IF IsLeap(y) THEN 1 ELSE 0
    BY MonthStarts
  <2>2. MonthStart(y, 11) <= YearStart(y + 1) /\ MonthStart(y, 11) \in Int
    BY <1>1, <2>1
  <2>3. NextMonth(y, m) <= MonthStart(y, 11) /\ NextMonth(y, m) \in Int
    BY <1>4, MonthsInOrder, NextMonthStarts
  <2> QED
    BY <1>1, <1>2, <2>2, <2>3
<1> QED
  BY <1>3, <1>4

\* Every day of a year is in one of its months.
LEMMA SomeMonth ==
  ASSUME NEW y \in Nat, y >= 2024, NEW n \in Nat,
         YearStart(y) <= n, n < YearStart(y + 1)
  PROVE  \E m \in 0 .. 11 : MonthStart(y, m) <= n /\ n < NextMonth(y, m)
<1> DEFINE Reached == {k \in 0 .. 11 : n < NextMonth(y, k)}
<1>1. 11 \in Reached /\ Reached \in SUBSET Nat
  BY NextMonthStarts
<1>2. PICK m \in Reached : \A k \in Reached : m <= k
  <2> HIDE DEF Reached
  <2> QED
    BY <1>1, LeastNumber
<1>3. m \in 0 .. 11 /\ n < NextMonth(y, m)
  OBVIOUS
<1>4. CASE m = 0
  BY <1>3, <1>4, MonthStarts
<1>5. CASE m > 0
  <2>1. m - 1 \in 0 .. 11 /\ m - 1 < 11 /\ (m - 1) + 1 = m /\ ~ (m <= m - 1)
    BY <1>3, <1>5
  <2>2. ~ (n < NextMonth(y, m - 1))
    BY <1>2, <2>1
  <2>3. NextMonth(y, m - 1) = MonthStart(y, m) /\ NextMonth(y, m - 1) \in Int
    BY <2>1, NextMonthStarts
  <2> QED
    BY <1>3, <2>2, <2>3
<1> QED
  BY <1>3, <1>4, <1>5

\* What getFullYear, getMonth and getDate return.
LEMMA DateOfDay ==
  ASSUME NEW n \in Nat
  PROVE  LET y == getFullYear(n)
             m == getMonth(n)
         IN  /\ y \in Nat /\ y >= 2024 /\ m \in 0 .. 11
             /\ YearStart(y) <= n /\ n < YearStart(y + 1)
             /\ MonthStart(y, m) <= n /\ n < NextMonth(y, m)
             /\ \A k \in Int : DayNumber(y, m, getDate(n) + k) = n + k
<1> DEFINE y == getFullYear(n)
           m == getMonth(n)
<1>1. y \in Nat /\ y >= 2024 /\ YearStart(y) <= n /\ n < YearStart(y + 1)
  BY FullYear
<1>2. m \in 0 .. 11 /\ MonthStart(y, m) <= n /\ n < NextMonth(y, m)
  <2> HIDE DEF y, m
  <2>1. \E k \in 0 .. 11 : MonthStart(y, k) <= n /\ n < NextMonth(y, k)
    BY <1>1, SomeMonth
  <2>2. m = CHOOSE k \in 0 .. 11 : MonthStart(y, k) <= n /\ n < NextMonth(y, k)
    BY DEF getMonth, NextMonth, m, y
  <2> QED
    BY <2>1, <2>2
<1>3. ASSUME NEW k \in Int PROVE DayNumber(y, m, getDate(n) + k) = n + k
  <2>1. getDate(n) = n - MonthStart(y, m) + 1
    BY DEF getDate
  <2> HIDE DEF y, m
  <2>2. MonthStart(y, m) \in Int
    BY <1>1, <1>2, MonthStartType
  <2>3. getDate(n) + k \in Int
    BY <2>1, <2>2
  <2>4. DayNumber(y, m, getDate(n) + k) = MonthStart(y, m) + (getDate(n) + k) - 1
    BY <1>1, <1>2, <2>3, DayOfMonth
  <2> QED
    BY <2>1, <2>2, <2>4
<1> QED
  BY <1>1, <1>2, <1>3

LEMMA MonthIsUnique ==
  ASSUME NEW n \in Nat, NEW y \in Nat, y >= 2024, NEW m \in 0 .. 11,
         YearStart(y) <= n, n < YearStart(y + 1),
         MonthStart(y, m) <= n, n < NextMonth(y, m)
  PROVE  getMonth(n) = m
<1> DEFINE k == getMonth(n)
<1>1. getFullYear(n) = y
  BY YearIsUnique
<1>2. k \in 0 .. 11 /\ MonthStart(y, k) <= n /\ n < NextMonth(y, k)
  BY <1>1, DateOfDay
<1> HIDE DEF k
<1>3. /\ MonthStart(y, m) \in Int /\ MonthStart(y, k) \in Int
      /\ NextMonth(y, m) \in Int /\ NextMonth(y, k) \in Int
  BY <1>2, MonthStartType, NextMonthStarts
<1>4. ~ (k < m)
  BY <1>2, <1>3, MonthsInOrder
<1>5. ~ (m < k)
  BY <1>2, <1>3, MonthsInOrder
<1> QED
  BY <1>2, <1>4, <1>5 DEF k

-----------------------------------------------------------------------------
(* Periods.                                                                *)

LEMMA DaysSinceMonday ==
  ASSUME NEW n \in Nat
  PROVE  /\ DiffToMonday(n) = n % 7
         /\ DiffToMonday(n) \in 0 .. 6
         /\ n - DiffToMonday(n) \in Nat
         /\ DiffToMonday(n + 1) = IF DiffToMonday(n) = 6 THEN 0 ELSE DiffToMonday(n) + 1
<1>1. \A k \in Nat : (((k + 1) % 7) + 6) % 7 = k % 7
  OBVIOUS
<1>2. n % 7 \in 0 .. 6 /\ n - (n % 7) \in Nat
  OBVIOUS
<1>3. (n + 1) % 7 = IF n % 7 = 6 THEN 0 ELSE (n % 7) + 1
  OBVIOUS
<1>4. n + 1 \in Nat
  OBVIOUS
<1> QED
  BY <1>1, <1>2, <1>3, <1>4 DEF DiffToMonday, getDay

\* The four kinds of periods, as intervals of days.
LEMMA PeriodRanges ==
  ASSUME NEW n \in Nat
  PROVE  LET y      == getFullYear(n)
             m      == getMonth(n)
             monday == n - DiffToMonday(n)
         IN  /\ getPeriodRange("daily", n) = n .. n
             /\ getPeriodRange("weekly", n) = monday .. monday + 6
             /\ getPeriodRange("monthly", n) = MonthStart(y, m) .. NextMonth(y, m) - 1
             /\ getPeriodRange("yearly", n) = YearStart(y) .. YearStart(y + 1) - 1
<1> DEFINE y      == getFullYear(n)
           m      == getMonth(n)
           monday == n - DiffToMonday(n)
<1>1. y \in Nat /\ y >= 2024 /\ m \in 0 .. 11
  BY DateOfDay
<1>2. monday \in Nat /\ DiffToMonday(n) \in Int
  BY DaysSinceMonday
<1>3. DayNumber(y, m, getDate(n) - DiffToMonday(n)) = monday
  <2>1. DayNumber(y, m, getDate(n) + (- DiffToMonday(n))) = n + (- DiffToMonday(n))
    BY <1>2, DateOfDay
  <2>2. getDate(n) \in Int
    <3>1. MonthStart(y, m) \in Int
      BY <1>1, MonthStartType
    <3> QED
      BY <3>1 DEF getDate
  <2>3. getDate(n) - DiffToMonday(n) = getDate(n) + (- DiffToMonday(n))
    BY <1>2, <2>2
  <2> QED
    BY <1>2, <2>1, <2>3
<1>4. DayNumber(getFullYear(monday), getMonth(monday), getDate(monday) + 6) = monday + 6
  BY <1>2, DateOfDay
<1>5. getPeriodRange("weekly", n) = monday .. monday + 6
  BY <1>3, <1>4 DEF getPeriodRange
<1>6. getPeriodRange("monthly", n) = MonthStart(y, m) .. NextMonth(y, m) - 1
  <2>1. getPeriodRange("monthly", n) = DayNumber(y, m, 1) .. DayNumber(y, m + 1, 0)
    BY DEF getPeriodRange
  <2> HIDE DEF y, m
  <2>2. MonthStart(y, m) \in Int
    BY <1>1, MonthStartType
  <2>3. DayNumber(y, m, 1) = MonthStart(y, m) + 1 - 1
    BY <1>1, DayOfMonth
  <2>4. DayNumber(y, m + 1, 0) = NextMonth(y, m) - 1
    BY <1>1, NextMonthStarts
  <2> QED
    BY <2>1, <2>2, <2>3, <2>4
<1>7. getPeriodRange("yearly", n) = YearStart(y) .. YearStart(y + 1) - 1
  <2>1. getPeriodRange("yearly", n) = DayNumber(y, 0, 1) .. DayNumber(y, 11, 31)
    BY DEF getPeriodRange
  <2> HIDE DEF y
  <2>2. /\ DayNumber(y, 0, 1) = MonthStart(y, 0) + 1 - 1
        /\ DayNumber(y, 11, 31) = MonthStart(y, 11) + 31 - 1
    BY <1>1, DayOfMonth
  <2>3. /\ MonthStart(y, 0) = YearStart(y)
        /\ MonthStart(y, 11) = YearStart(y) + 334 + IF IsLeap(y) THEN 1 ELSE 0
    BY <1>1, MonthStarts
  <2>4. /\ YearStart(y) \in Int
        /\ YearStart(y + 1) = YearStart(y) + IF IsLeap(y) THEN 366 ELSE 365
    BY <1>1, YearStartType
  <2> QED
    BY <2>1, <2>2, <2>3, <2>4
<1>8. getPeriodRange("daily", n) = n .. n
  BY DEF getPeriodRange
<1> QED
  BY <1>5, <1>6, <1>7, <1>8

LEMMA WeeklyRange ==
  ASSUME NEW n \in Nat
  PROVE  getPeriodRange("weekly", n) = (n - DiffToMonday(n)) .. (n - DiffToMonday(n)) + 6
BY PeriodRanges

LEMMA Ends ==
  ASSUME NEW a \in Int, NEW b \in Int, a <= b
  PROVE  Min(a .. b) = a /\ Max(a .. b) = b
<1>1. /\ a \in a .. b /\ \A y \in a .. b : a <= y
      /\ b \in a .. b /\ \A y \in a .. b : y <= b
  OBVIOUS
<1>2. \A x \in a .. b : (\A y \in a .. b : x <= y) => x = a
  OBVIOUS
<1>3. \A x \in a .. b : (\A y \in a .. b : y <= x) => x = b
  OBVIOUS
<1>4. Min(a .. b) = a
  BY <1>1, <1>2 DEF Min
<1>5. Max(a .. b) = b
  BY <1>1, <1>3 DEF Max
<1> QED
  BY <1>4, <1>5

\* The period of a day contains it.
LEMMA DayInPeriod ==
  ASSUME NEW n \in Nat, NEW period \in OrderPeriod
  PROVE  n \in getPeriodRange(period, n)
<1>1. CASE period = "daily"
  BY <1>1, PeriodRanges
<1>2. CASE period = "weekly"
  <2>1. DiffToMonday(n) \in 0 .. 6
    BY DaysSinceMonday
  <2>2. n \in (n - DiffToMonday(n)) .. (n - DiffToMonday(n)) + 6
    BY <2>1
  <2> QED
    BY <1>2, <2>2, WeeklyRange
<1>3. CASE period = "monthly"
  <2> DEFINE y == getFullYear(n)
             m == getMonth(n)
  <2>1. /\ y \in Nat /\ y >= 2024 /\ m \in 0 .. 11
        /\ MonthStart(y, m) <= n /\ n < NextMonth(y, m)
    BY DateOfDay
  <2>2. getPeriodRange(period, n) = MonthStart(y, m) .. NextMonth(y, m) - 1
    BY <1>3, PeriodRanges
  <2> HIDE DEF y, m
  <2>3. MonthStart(y, m) \in Int /\ NextMonth(y, m) \in Int
    BY <2>1, MonthStartType, NextMonthStarts
  <2> QED
    BY <2>1, <2>2, <2>3
<1>4. CASE period = "yearly"
  <2> DEFINE y == getFullYear(n)
  <2>1. y \in Nat /\ y >= 2024 /\ YearStart(y) <= n /\ n < YearStart(y + 1)
    BY DateOfDay
  <2>2. getPeriodRange(period, n) = YearStart(y) .. YearStart(y + 1) - 1
    BY <1>4, PeriodRanges
  <2> HIDE DEF y
  <2>3. YearStart(y) \in Int /\ YearStart(y + 1) \in Int
    BY <2>1, YearStartType
  <2> QED
    BY <2>1, <2>2, <2>3
<1> QED
  BY <1>1, <1>2, <1>3, <1>4 DEF OrderPeriod

\* Tomorrow's period is today's, or begins where today's ends.
Follows(period, day) ==
  LET today    == getPeriodRange(period, day)
      tomorrow == getPeriodRange(period, day + 1)
  IN  /\ day \in today
      /\ tomorrow = today \/ Min(tomorrow) = Max(today) + 1

LEMMA DaysFollow == ASSUME NEW n \in Nat PROVE Follows("daily", n)
<1>1. n + 1 \in Nat
  OBVIOUS
<1>2. /\ getPeriodRange("daily", n) = n .. n
      /\ getPeriodRange("daily", n + 1) = (n + 1) .. (n + 1)
  BY <1>1, PeriodRanges
<1>3. Max(n .. n) = n
  BY Ends
<1>4. Min((n + 1) .. (n + 1)) = n + 1
  BY <1>1, Ends
<1> QED
  BY <1>2, <1>3, <1>4 DEF Follows

LEMMA WeeksFollow == ASSUME NEW n \in Nat PROVE Follows("weekly", n)
<1> DEFINE today == n - DiffToMonday(n)
           tomorrow == (n + 1) - DiffToMonday(n + 1)
<1>1. n + 1 \in Nat
  OBVIOUS
<1>2. /\ getPeriodRange("weekly", n) = today .. today + 6
      /\ getPeriodRange("weekly", n + 1) = tomorrow .. tomorrow + 6
  BY <1>1, WeeklyRange
<1>3. /\ today \in Nat /\ n \in today .. today + 6
      /\ tomorrow = today \/ tomorrow = today + 7
  <2>1. /\ DiffToMonday(n) \in 0 .. 6 /\ n - DiffToMonday(n) \in Nat
        /\ DiffToMonday(n + 1) = IF DiffToMonday(n) = 6 THEN 0 ELSE DiffToMonday(n) + 1
    BY DaysSinceMonday
  <2> QED
    BY <2>1
<1> HIDE DEF today, tomorrow
<1>4. CASE tomorrow = today
  BY <1>2, <1>3, <1>4 DEF Follows
<1>5. CASE tomorrow = today + 7
  <2>1. Max(today .. today + 6) = today + 6 /\ Min(tomorrow .. tomorrow + 6) = today + 7
    BY <1>3, <1>5, Ends
  <2> QED
    BY <1>2, <1>3, <2>1 DEF Follows
<1> QED
  BY <1>3, <1>4, <1>5

LEMMA YearsFollow == ASSUME NEW n \in Nat PROVE Follows("yearly", n)
<1> DEFINE y == getFullYear(n)
           z == getFullYear(n + 1)
<1>1. n + 1 \in Nat
  OBVIOUS
<1>2. y \in Nat /\ y >= 2024 /\ YearStart(y) <= n /\ n < YearStart(y + 1)
  BY DateOfDay
<1>3. /\ getPeriodRange("yearly", n) = YearStart(y) .. YearStart(y + 1) - 1
      /\ getPeriodRange("yearly", n + 1) = YearStart(z) .. YearStart(z + 1) - 1
  BY <1>1, PeriodRanges
<1>4. y + 1 \in Nat /\ y + 1 >= 2024 /\ y >= 1 /\ y + 1 >= 1 /\ (y + 1) + 1 \in Nat
        /\ (y + 1) + 1 >= 1
  BY <1>2
<1>5. /\ YearStart(y) \in Int /\ YearStart(y + 1) \in Int /\ YearStart((y + 1) + 1) \in Int
      /\ YearStart(y + 1) < YearStart((y + 1) + 1)
  BY <1>2, <1>4, YearStartType
<1>6. n \in getPeriodRange("yearly", n)
  BY DayInPeriod DEF OrderPeriod
<1>7. CASE n + 1 < YearStart(y + 1)
  <2>1. z = y
    BY <1>1, <1>2, <1>5, <1>7, YearIsUnique
  <2> QED
    BY <1>3, <1>6, <2>1 DEF Follows
<1>8. CASE n + 1 = YearStart(y + 1)
  <2>1. z = y + 1
    BY <1>1, <1>2, <1>4, <1>5, <1>8, YearIsUnique
  <2> HIDE DEF y, z
  <2>2. YearStart(y) <= YearStart(y + 1) - 1
    BY <1>2, <1>5
  <2>3. Max(YearStart(y) .. YearStart(y + 1) - 1) = YearStart(y + 1) - 1
    BY <1>5, <2>2, Ends
  <2>4. Min(YearStart(z) .. YearStart(z + 1) - 1) = YearStart(y + 1)
    BY <1>5, <2>1, Ends
  <2> QED
    BY <1>3, <1>5, <1>6, <2>3, <2>4 DEF Follows
<1> QED
  BY <1>2, <1>5, <1>7, <1>8

LEMMA MonthsFollow == ASSUME NEW n \in Nat PROVE Follows("monthly", n)
<1> DEFINE y == getFullYear(n)
           m == getMonth(n)
           u == getFullYear(n + 1)
           k == getMonth(n + 1)
<1>1. n + 1 \in Nat
  OBVIOUS
<1>2. /\ y \in Nat /\ y >= 2024 /\ m \in 0 .. 11
      /\ YearStart(y) <= n /\ n < YearStart(y + 1)
      /\ MonthStart(y, m) <= n /\ n < NextMonth(y, m)
  BY DateOfDay
<1>3. /\ getPeriodRange("monthly", n) = MonthStart(y, m) .. NextMonth(y, m) - 1
      /\ getPeriodRange("monthly", n + 1) = MonthStart(u, k) .. NextMonth(u, k) - 1
  BY <1>1, PeriodRanges
<1>4. n \in getPeriodRange("monthly", n)
  BY DayInPeriod DEF OrderPeriod
<1>5. /\ u \in Nat /\ u >= 2024 /\ k \in 0 .. 11
      /\ YearStart(u) <= n + 1 /\ n + 1 < YearStart(u + 1)
      /\ MonthStart(u, k) <= n + 1 /\ n + 1 < NextMonth(u, k)
  BY <1>1, DateOfDay
<1>6. /\ MonthStart(y, m) \in Int /\ NextMonth(y, m) \in Int
      /\ MonthStart(u, k) \in Int /\ NextMonth(u, k) \in Int
  BY <1>2, <1>5, MonthStartType, NextMonthStarts
\* Either the month goes on, or the next one begins.
<1>7. MonthStart(u, k) = NextMonth(y, m) \/ (u = y /\ k = m)
  <2>1. /\ YearStart(u) <= MonthStart(u, k) /\ NextMonth(y, m) <= YearStart(y + 1)
        /\ YearStart(u) \in Int /\ YearStart(u + 1) \in Int
        /\ YearStart(y) \in Int /\ YearStart(y + 1) \in Int
    <3>1. y >= 1 /\ u >= 1 /\ y + 1 \in Nat /\ y + 1 >= 1 /\ u + 1 \in Nat /\ u + 1 >= 1
      BY <1>2, <1>5
    <3> HIDE DEF y, m, u, k
    <3> QED
      BY <1>2, <1>5, <3>1, YearStartType, MonthInYear
  <2>2. CASE MonthStart(u, k) <= n
    <3>1. y = u
      BY <1>2, <1>5, <1>6, <2>1, <2>2, YearIsUnique
    <3>2. m = k
      BY <1>2, <1>5, <1>6, <2>1, <2>2, <3>1, MonthIsUnique
    <3> QED
      BY <3>1, <3>2
  <2>3. CASE MonthStart(u, k) = n + 1 /\ NextMonth(y, m) > n + 1
    <3>1. n + 1 < YearStart(y + 1) /\ YearStart(y) <= n + 1 /\ MonthStart(y, m) <= n + 1
      BY <1>2, <1>6, <2>1, <2>3
    <3>2. u = y
      BY <1>1, <1>2, <3>1, YearIsUnique
    <3>3. k = m
      BY <1>1, <1>2, <2>3, <3>1, MonthIsUnique
    <3> QED
      BY <3>2, <3>3
  <2> QED
    BY <1>2, <1>5, <1>6, <2>2, <2>3
<1> HIDE DEF y, m, u, k
<1>8. CASE u = y /\ k = m
  BY <1>3, <1>4, <1>8 DEF Follows
<1>9. CASE MonthStart(u, k) = NextMonth(y, m)
  <2>1. Max(MonthStart(y, m) .. NextMonth(y, m) - 1) = NextMonth(y, m) - 1
    BY <1>2, <1>6, Ends
  <2>2. Min(MonthStart(u, k) .. NextMonth(u, k) - 1) = MonthStart(u, k)
    BY <1>5, <1>6, Ends
  <2> QED
    BY <1>3, <1>4, <1>6, <1>9, <2>1, <2>2 DEF Follows
<1> QED
  BY <1>7, <1>8, <1>9

\* For every day there will be, the reports of each kind follow one another
\* without a gap or an overlap (getPeriodRange; TLC tries four years).
THEOREM PeriodsFollowForEver ==
  \A period \in OrderPeriod, day \in Nat : Follows(period, day)
BY DaysFollow, WeeksFollow, MonthsFollow, YearsFollow DEF OrderPeriod

LEMMA FourYearsFollow == PeriodsFollow
<1>1. \A day \in 0 .. YearStart(2028) - 1 : day \in Nat
  <2>1. YearStart(2028) \in Int
    BY YearStartType
  <2> QED
    BY <2>1
<1> QED
  BY <1>1, PeriodsFollowForEver DEF PeriodsFollow, Follows

-----------------------------------------------------------------------------
(* Dates of payment.                                                       *)

\* No order is dated in the future.
DatesPast == \A o \in OrderIds : orders[o] # None => orders[o].paymentDate <= now

\* What a step does to the date and the status of an order.
LEMMA Dated ==
  ASSUME IInv, [Next]_vars, NEW o \in OrderIds, orders'[o] # None
  PROVE  \/ orders'[o].paymentDate = now /\ now' = now
         \/ /\ orders[o] # None
            /\ orders'[o].paymentDate = orders[o].paymentDate
            /\ orders'[o].paymentStatus = "COMPLETED" => orders[o].paymentStatus = "COMPLETED"
<1> DEFINE New == orders'[o].paymentDate = now /\ now' = now
           Old == /\ orders[o] # None
                  /\ orders'[o].paymentDate = orders[o].paymentDate
                  /\ orders'[o].paymentStatus = "COMPLETED" =>
                       orders[o].paymentStatus = "COMPLETED"
<1>1. orders \in [OrderIds -> Order \cup {None}]
  BY DEF IInv, TypeOK
<1>2. CASE orders'[o] = orders[o]
  BY <1>2
<1>3. ASSUME NEW r \in Requests, NEW i \in Intents, CommitOrder(r, i) PROVE New \/ Old
  <2>1. reqs[r] \in Request /\ reqs[r].target \in OrderIds
    BY <1>3 DEF CommitOrder, IInv, TypeOK, Request
  <2>2. upsertOrder(reqs[r]).paymentDate = now
    BY <2>1 DEF upsertOrder, newOrder, Request, Order
  <2>3. orders' = [orders EXCEPT ![reqs[r].target] = upsertOrder(reqs[r])] /\ now' = now
    BY <1>3 DEF CommitOrder
  <2> QED
    BY <1>1, <1>2, <2>1, <2>2, <2>3
<1>4. ASSUME NEW r \in Requests, CommitAssign(r) PROVE New \/ Old
  <2> DEFINE d == newOrder(reqs[r], "COMPLETED", [kind |-> "assigned", of |-> reqs[r].target])
  <2>1. d.paymentDate = now
    BY DEF newOrder
  <2>2. orders' = [orders EXCEPT ![reqs[r].target] = d] /\ now' = now
    BY <1>4 DEF CommitAssign
  <2>3. reqs[r].target \in OrderIds
    BY <1>4 DEF CommitAssign, IInv, TypeOK, Request
  <2> HIDE DEF d
  <2> QED
    BY <1>1, <1>2, <2>1, <2>2, <2>3
<1>5. ASSUME NEW s \in Callbacks, CommitCallback(s) PROVE New \/ Old
  <2> DEFINE status == IF Success(cbs[s].pay) THEN "COMPLETED" ELSE "FAILED"
             t == cbs[s].target
             d == updateOrderStatus(orders[t], status, cbs[s].pay)
  <2>1. /\ t \in OrderIds /\ orders[t] \in Order
        /\ orders' = [orders EXCEPT ![t] = d] /\ now' = now
    BY <1>5 DEF CommitCallback, InTx, NoWriteConflict, IInv, TypeOK, Callback
  <2>2. /\ status = "COMPLETED" => d.paymentDate = now
        /\ status = "FAILED" =>
             d.paymentDate = orders[t].paymentDate /\ d.paymentStatus = "FAILED"
    BY <2>1 DEF updateOrderStatus, Order
  <2>3. status \in {"COMPLETED", "FAILED"}
    OBVIOUS
  <2>4. orders[t] # None
    BY <2>1, OrdersAssumption
  <2> HIDE DEF status, t, d
  <2> QED
    BY <1>1, <1>2, <2>1, <2>2, <2>3, <2>4
<1>6. ASSUME markExpiredOrders PROVE New \/ Old
  <2>1. orders'[o] \in {orders[o], [orders[o] EXCEPT !.accessStatus = "EXPIRED"]}
          /\ (orders'[o] # orders[o] => orders[o] # None)
    BY <1>6 DEF markExpiredOrders
  <2> QED
    BY <1>1, <1>2, <2>1 DEF Order
<1>7. ASSUME deletePendingOrders PROVE New \/ Old
  BY <1>2, <1>7 DEF deletePendingOrders
<1> HIDE DEF New, Old
<1> QED
  BY <1>2, <1>3, <1>4, <1>5, <1>6, <1>7, Writers DEF New, Old

LEMMA TimePasses == ASSUME IInv, [Next]_vars PROVE now \in Nat /\ now' \in Nat /\ now <= now'
<1>1. now \in Nat /\ now' \in Nat
  BY NextIInv DEF IInv, TypeOK
<1>2. now' = now \/ now' = now + 1
  BY DEF Next, FinishRequest, processOrder, assignCourseToUser, CommitOrder, CommitAssign,
     AbortRequest, Pay, Decline, callbackPost, StartSettling, IgnoreDeclined,
     AnswerFromExisting, RetryNotFound, AbortCallback, LoseCallback, CommitCallback,
     updateCourse, markExpiredOrders, deletePendingOrders, Tick, vars
<1> QED
  BY <1>1, <1>2

LEMMA DatesPastKept == ASSUME IInv, DatesPast, [Next]_vars PROVE DatesPast'
<1> SUFFICES ASSUME NEW o \in OrderIds, orders'[o] # None
             PROVE  orders'[o].paymentDate <= now'
  BY DEF DatesPast
<1>1. now \in Nat /\ now' \in Nat /\ now <= now'
  BY TimePasses
<1>2. orders[o] # None => orders[o].paymentDate \in Nat
  BY DEF IInv, TypeOK, Order
<1> QED
  BY <1>1, <1>2, Dated DEF DatesPast

\* Every order is in exactly one report of each kind, on whatever day it was
\* bought, paid, failed or assigned.
THEOREM ReportsPartitionTime == Spec => []PeriodsPartitionTime
<1>1. Init => DatesPast
  BY DEF Init, DatesPast
<1>2. IInv /\ DatesPast /\ [Next]_vars => DatesPast'
  BY DatesPastKept
<1>3. ASSUME IInv, DatesPast PROVE PeriodsPartitionTime
  <2>1. ASSUME NEW period \in OrderPeriod, NEW o \in OrderIds, orders[o] # None
        PROVE  \E day \in 0 .. now : InReport(orders[o], period, day)
    <3>1. orders[o].paymentDate \in Nat /\ orders[o].paymentDate <= now /\ now \in Nat
      BY <1>3, <2>1 DEF IInv, TypeOK, Order, DatesPast
    <3>2. orders[o].paymentDate \in getPeriodRange(period, orders[o].paymentDate)
      BY <3>1, DayInPeriod
    <3>3. orders[o].paymentDate \in 0 .. now
      BY <3>1
    <3> QED
      BY <2>1, <3>2, <3>3 DEF InReport
  <2> QED
    BY <2>1, FourYearsFollow DEF PeriodsPartitionTime
<1> QED
  BY <1>1, <1>2, <1>3, Invariant, PTL DEF Spec

-----------------------------------------------------------------------------
(* Figures.                                                                *)

\* The orders that were completed are finitely many at any time: a step
\* completes one at most.
FiniteSales == IsFiniteSet(CompletedOrders)

LEMMA CompletedStay ==
  ASSUME IInv, [Next]_vars, NEW o \in CompletedOrders
  PROVE  /\ o \in CompletedOrders'
         /\ orders'[o].amount = orders[o].amount
         /\ orders'[o].userId = orders[o].userId
         /\ orders'[o].levelName = orders[o].levelName
<1>1. o \in OrderIds /\ orders[o] \in Order /\ orders[o].paymentStatus = "COMPLETED"
        /\ orders[o] # None
  BY DEF CompletedOrders, IInv, TypeOK
<1>2. orders'[o] # None
        /\ orders'[o] \in {orders[o], [orders[o] EXCEPT !.accessStatus = "EXPIRED"]}
  BY <1>1, SettledKept
<1> QED
  BY <1>1, <1>2 DEF CompletedOrders, Order

LEMMA OneMoreSale ==
  ASSUME IInv, [Next]_vars
  PROVE  \E t : CompletedOrders' \subseteq CompletedOrders \cup {t}
<1> DEFINE Claim == \E t : CompletedOrders' \subseteq CompletedOrders \cup {t}
<1>1. orders \in [OrderIds -> Order \cup {None}]
  BY DEF IInv, TypeOK
<1>2. CASE orders' = orders
  BY <1>2 DEF CompletedOrders
<1>3. ASSUME NEW t, NEW d, orders' = [orders EXCEPT ![t] = d] PROVE Claim
  <2>1. \A o \in OrderIds : o # t => orders'[o] = orders[o]
    BY <1>1, <1>3
  <2>2. CompletedOrders' \subseteq CompletedOrders \cup {t}
    BY <2>1 DEF CompletedOrders
  <2> QED
    BY <2>2
<1>4. ASSUME NEW r \in Requests, NEW i \in Intents, CommitOrder(r, i) PROVE Claim
  BY <1>3, <1>4 DEF CommitOrder
<1>5. ASSUME NEW r \in Requests, CommitAssign(r) PROVE Claim
  BY <1>3, <1>5 DEF CommitAssign
<1>6. ASSUME NEW s \in Callbacks, CommitCallback(s) PROVE Claim
  <2>1. \E d : orders' = [orders EXCEPT ![cbs[s].target] = d]
    BY <1>6 DEF CommitCallback
  <2> QED
    BY <1>3, <2>1
<1>7. ASSUME markExpiredOrders \/ deletePendingOrders PROVE Claim
  <2>1. ASSUME NEW o \in CompletedOrders' PROVE o \in CompletedOrders
    BY <1>1, <1>7, <2>1 DEF CompletedOrders, markExpiredOrders, deletePendingOrders, Order
  <2> QED
    BY <2>1
<1> HIDE DEF Claim
<1> QED
  BY <1>2, <1>4, <1>5, <1>6, <1>7, Writers DEF Claim

LEMMA SalesStayFinite == ASSUME IInv, FiniteSales, [Next]_vars PROVE FiniteSales'
<1>1. PICK t : CompletedOrders' \subseteq CompletedOrders \cup {t}
  BY OneMoreSale
<1>2. IsFiniteSet(CompletedOrders \cup {t})
  BY FS_AddElement DEF FiniteSales
<1> QED
  BY <1>1, <1>2, FS_Subset DEF FiniteSales

Hundredths == UNION {{o} \X (1 .. orders[o].amount) : o \in CompletedOrders}

Subscribers == {orders[o].userId : o \in CompletedOrders}

Sold(l) == {o \in CompletedOrders : orders[o].levelName = l}

FiguresFinite ==
  /\ IsFiniteSet(Hundredths)
  /\ IsFiniteSet(Subscribers)
  /\ \A l \in Levels : IsFiniteSet(Sold(l))

LEMMA FiguresAreFinite == ASSUME IInv, FiniteSales PROVE FiguresFinite
<1>1. IsFiniteSet(CompletedOrders)
  BY DEF FiniteSales
<1>2. IsFiniteSet(Hundredths)
  <2> DEFINE Of == [o \in CompletedOrders |-> {o} \X (1 .. orders[o].amount)]
             Parts == {Of[o] : o \in CompletedOrders}
  <2>1. Of \in Surjection(CompletedOrders, Parts)
    BY DEF Surjection
  <2>2. IsFiniteSet(Parts)
    <3> HIDE DEF Of, Parts
    <3> QED
      BY <1>1, <2>1, FS_Surjection
  <2>3. ASSUME NEW part \in Parts PROVE IsFiniteSet(part)
    <3>1. PICK o \in CompletedOrders : part = {o} \X (1 .. orders[o].amount)
      OBVIOUS
    <3>2. orders[o].amount \in Int
      BY OrdersAssumption DEF CompletedOrders, IInv, TypeOK, Order
    <3> DEFINE amount == orders[o].amount
    <3>3. IsFiniteSet(1 .. amount)
      <4> HIDE DEF amount
      <4>1. amount \in Int
        BY <3>2 DEF amount
      <4> QED
        BY <4>1, FS_Interval
    <3>4. IsFiniteSet({o})
      BY FS_Singleton
    <3>5. IsFiniteSet({o} \X (1 .. amount))
      <4> HIDE DEF amount
      <4> QED
        BY <3>3, <3>4, FS_Product
    <3> QED
      BY <3>1, <3>5
  <2>4. Hundredths = UNION Parts
    BY DEF Hundredths
  <2> HIDE DEF Parts
  <2> QED
    BY <2>2, <2>3, <2>4, FS_UNION
<1>3. IsFiniteSet(Subscribers)
  <2> DEFINE Buyer == [o \in CompletedOrders |-> orders[o].userId]
  <2>1. Buyer \in Surjection(CompletedOrders, Subscribers)
    BY DEF Surjection, Subscribers
  <2> HIDE DEF Buyer
  <2> QED
    BY <1>1, <2>1, FS_Surjection
<1>4. ASSUME NEW l \in Levels PROVE IsFiniteSet(Sold(l))
  <2>1. Sold(l) \subseteq CompletedOrders
    BY DEF Sold
  <2> QED
    BY <1>1, <2>1, FS_Subset
<1> QED
  BY <1>2, <1>3, <1>4 DEF FiguresFinite

LEMMA FiguresGrow ==
  ASSUME IInv, [Next]_vars
  PROVE  /\ Hundredths \subseteq Hundredths'
         /\ Subscribers \subseteq Subscribers'
         /\ \A l \in Levels : Sold(l) \subseteq Sold(l)'
<1>1. \A o \in CompletedOrders :
        /\ o \in CompletedOrders'
        /\ orders'[o].amount = orders[o].amount
        /\ orders'[o].userId = orders[o].userId
        /\ orders'[o].levelName = orders[o].levelName
  BY CompletedStay
<1>2. Hundredths \subseteq Hundredths'
  BY <1>1 DEF Hundredths
<1>3. Subscribers \subseteq Subscribers'
  BY <1>1 DEF Subscribers
<1>4. \A l \in Levels : Sold(l) \subseteq Sold(l)'
  BY <1>1 DEF Sold
<1> QED
  BY <1>2, <1>3, <1>4

LEMMA MoreIsMore ==
  ASSUME NEW S, NEW T, IsFiniteSet(T), S \subseteq T
  PROVE  Cardinality(T) >= Cardinality(S)
<1>1. IsFiniteSet(S) /\ Cardinality(S) <= Cardinality(T)
  BY FS_Subset
<1>2. Cardinality(S) \in Nat /\ Cardinality(T) \in Nat
  BY <1>1, FS_CardinalityType
<1> QED
  BY <1>1, <1>2

LEMMA NewSaleIsReported ==
  ASSUME IInv, [Next]_vars, NEW o \in CompletedOrders' \ CompletedOrders,
         NEW period \in OrderPeriod
  PROVE  InReport(orders'[o], period, now')
<1>1. o \in OrderIds /\ orders'[o] # None /\ orders'[o].paymentStatus = "COMPLETED"
  BY DEF CompletedOrders
<1>2. orders'[o].paymentDate = now /\ now' = now
  BY <1>1, Dated DEF CompletedOrders
<1>3. now' \in Nat
  BY TimePasses
<1> QED
  BY <1>1, <1>2, <1>3, DayInPeriod DEF InReport

\* The dashboard takes back nothing it has shown, and what it counts is in the
\* reports of the day, for all users, levels, prices and interleavings.
THEOREM DashboardFiguresStand == Spec => FiguresStand
<1>1. Init => FiniteSales
  BY FS_EmptySet DEF Init, FiniteSales, CompletedOrders
<1>2. IInv /\ FiniteSales /\ [Next]_vars => FiniteSales'
  BY SalesStayFinite
<1>3. IInv /\ FiniteSales => FiguresFinite
  BY FiguresAreFinite
<1>4. ASSUME IInv, FiguresFinite', [Next]_vars
      PROVE  [/\ calculateTotalRevenue' >= calculateTotalRevenue
              /\ countDistinctSubscribedUsers' >= countDistinctSubscribedUsers
              /\ \A l \in Levels : totalPurchases(l)' >= totalPurchases(l)
              /\ \A o \in CompletedOrders' \ CompletedOrders, period \in OrderPeriod :
                   InReport(orders'[o], period, now')]_vars
  <2>1. /\ IsFiniteSet(Hundredths') /\ IsFiniteSet(Subscribers')
        /\ \A l \in Levels : IsFiniteSet(Sold(l)')
    BY <1>4 DEF FiguresFinite
  <2>2. calculateTotalRevenue' >= calculateTotalRevenue
    <3>1. Cardinality(Hundredths') >= Cardinality(Hundredths)
      BY <1>4, <2>1, FiguresGrow, MoreIsMore
    <3> QED
      BY <3>1 DEF calculateTotalRevenue, Hundredths
  <2>3. countDistinctSubscribedUsers' >= countDistinctSubscribedUsers
    <3>1. Cardinality(Subscribers') >= Cardinality(Subscribers)
      BY <1>4, <2>1, FiguresGrow, MoreIsMore
    <3> QED
      BY <3>1 DEF countDistinctSubscribedUsers, Subscribers
  <2>4. ASSUME NEW l \in Levels PROVE totalPurchases(l)' >= totalPurchases(l)
    <3>1. Cardinality(Sold(l)') >= Cardinality(Sold(l))
      BY <1>4, <2>1, FiguresGrow, MoreIsMore
    <3> QED
      BY <3>1 DEF totalPurchases, Sold
  <2> QED
    BY <1>4, <2>2, <2>3, <2>4, NewSaleIsReported
<1> QED
  BY <1>1, <1>2, <1>3, <1>4, Invariant, PTL DEF Spec, FiguresStand

===============================================================================
