-------------------------------- MODULE Reports --------------------------------
(***************************************************************************)
(* The figures of the administrators' dashboard (DashboardService) and     *)
(* their reports of orders by day, week, month and year (PaymobService):   *)
(* reads of the orders collection that a customer's payment, an assignment *)
(* or a job may change while the figures are looked at.                    *)
(*                                                                         *)
(* Days are numbered from 1 January 2024, a Monday, in the server's time   *)
(* zone.  Months are numbered from 0, as by JavaScript.                    *)
(***************************************************************************)
EXTENDS Orders, FiniteSetsExt

OrderPeriod == {"daily", "weekly", "monthly", "yearly"}

-----------------------------------------------------------------------------
(* JavaScript's Date, as far as getPeriodRange uses it.                    *)

IsLeap(y) == y % 4 = 0 /\ (y % 100 # 0 \/ y % 400 = 0)

\* Leap years before year y.
Leaps(y) == (y - 1) \div 4 - (y - 1) \div 100 + (y - 1) \div 400

YearStart(y) == 365 * (y - 2024) + Leaps(y) - Leaps(2024)

\* Of a year that is no leap year.
DaysBeforeMonth == <<0, 31, 59, 90, 120, 151, 181, 212, 243, 273, 304, 334>>

MonthStart(y, m) ==
  YearStart(y) + DaysBeforeMonth[m + 1] + IF m > 1 /\ IsLeap(y) THEN 1 ELSE 0

\* setFullYear, setMonth and setDate take a month or a day beyond the end of
\* the year or month, or before its beginning, for one of the next or the
\* previous one.
DayNumber(y, m, d) == MonthStart(y + m \div 12, m % 12) + d - 1

getFullYear(n) ==
  CHOOSE y \in 2024 .. 2024 + n : YearStart(y) <= n /\ n < YearStart(y + 1)

getMonth(n) ==
  LET y == getFullYear(n)
  IN  CHOOSE m \in 0 .. 11 : MonthStart(y, m) <= n /\ n < DayNumber(y, m + 1, 1)

getDate(n) == n - MonthStart(getFullYear(n), getMonth(n)) + 1

\* Sunday is 0.
getDay(n) == (n + 1) % 7

-----------------------------------------------------------------------------

\* A slip, for comparison: right on all days but Sunday.
BackToMonday(n) == getDay(n) - 1

DiffToMonday(n) == (getDay(n) + 6) % 7

\* The first and the last day of the period around day n.
getPeriodRange(period, n) ==
  LET y      == getFullYear(n)
      m      == getMonth(n)
      monday == DayNumber(y, m, getDate(n) - DiffToMonday(n))
  IN  CASE period = "daily"   -> n .. n
        [] period = "weekly"  ->
             monday .. DayNumber(getFullYear(monday), getMonth(monday), getDate(monday) + 6)
        [] period = "monthly" -> DayNumber(y, m, 1) .. DayNumber(y, m + 1, 0)
        [] period = "yearly"  -> DayNumber(y, 0, 1) .. DayNumber(y, 11, 31)

\* getOrdersReport: order d is in the report of the period around a day.  Its
\* status does not matter: a pending one is reported on the day of its last
\* purchase.
InReport(d, period, day) ==
  d # None /\ d.paymentDate \in getPeriodRange(period, day)

\* A slip, for comparison: $match forgotten.
OfAnyStatus == {o \in OrderIds : orders[o] # None}

\* The $match of the aggregates: completed, by a payment or an assignment.
CompletedOrders ==
  {o \in OrderIds : orders[o] # None /\ orders[o].paymentStatus = "COMPLETED"}

\* The sum of the amounts: a pair for every hundredth of every order.
calculateTotalRevenue ==
  Cardinality(UNION {{o} \X (1 .. orders[o].amount) : o \in CompletedOrders})

countDistinctSubscribedUsers == Cardinality({orders[o].userId : o \in CompletedOrders})

\* "all" of getLevelStatistics.
totalPurchases(l) == Cardinality({o \in CompletedOrders : orders[o].levelName = l})

-----------------------------------------------------------------------------

\* What the dashboard has shown is never taken back, whatever callbacks,
\* purchases and jobs come later: revenue, subscribers and the purchases of a
\* level do not go down.  A purchase that is counted now is also in the
\* report of this day, week, month and year, however long the order was
\* pending (calculateTotalRevenue, getLevelStatistics, updateOrderStatus,
\* getOrdersReport).
FiguresStand ==
  [][/\ calculateTotalRevenue' >= calculateTotalRevenue
     /\ countDistinctSubscribedUsers' >= countDistinctSubscribedUsers
     /\ \A l \in Levels : totalPurchases(l)' >= totalPurchases(l)
     /\ \A o \in CompletedOrders' \ CompletedOrders, period \in OrderPeriod :
          InReport(orders'[o], period, now')]_vars

\* Over the four years of a leap cycle: a day is in its own period, and the
\* period of the next day is the same or follows without a gap or an overlap.
PeriodsFollow ==
  \A period \in OrderPeriod, day \in 0 .. YearStart(2028) - 1 :
    LET today    == getPeriodRange(period, day)
        tomorrow == getPeriodRange(period, day + 1)
    IN  /\ day \in today
        /\ tomorrow = today \/ Min(tomorrow) = Max(today) + 1

\* The reports of a kind follow one another without a gap or an overlap,
\* whether a period ends on a Sunday, with a month or with a leap day, and no
\* order has a payment date outside the reports up to today: every order is
\* in exactly one report of each kind (getPeriodRange, getOrdersReport).
PeriodsPartitionTime ==
  /\ PeriodsFollow
  /\ \A period \in OrderPeriod, o \in OrderIds :
       orders[o] # None =>
         \E day \in 0 .. now : InReport(orders[o], period, day)

=============================================================================
