------------------------------- MODULE Months -------------------------------
(***************************************************************************)
(* The pharmacy's calendar and the clock of an analysis                    *)
(* (packages/domain/month.go, packages/finance/analytics/clock.go).        *)
(*                                                                         *)
(* Days are consecutive numbers, months are the intervals that             *)
(* MonthLengths cuts them into, and the day of the week is the day modulo  *)
(* the length of a week: 0 is a Sunday and weeks begin on day 1 of it, a   *)
(* Monday.  The lengths are constants, so that a small instance can hold   *)
(* several short months of short weeks.                                    *)
(***************************************************************************)
EXTENDS Integers, Sequences

CONSTANTS DaysInWeek,    \* 7 in the code
          MonthLengths,  \* days of each month, in order; day 1 opens the first
          WindowWeeks    \* projectionWindowWeeks, 8 in the code

ASSUME MonthsAssumption == /\ DaysInWeek \in Nat \ {0}
                           /\ WindowWeeks \in Nat \ {0}
                           /\ MonthLengths \in Seq(Nat \ {0})
                           /\ MonthLengths # <<>>

Months   == DOMAIN MonthLengths
Weekdays == 0..(DaysInWeek - 1)

(* ParseMonth: the first and the last day, both inclusive.                 *)
FirstDay[m \in Months] ==
    IF m = 1 THEN 1 ELSE FirstDay[m - 1] + MonthLengths[m - 1]

LastDay(m)    == FirstDay[m] + MonthLengths[m] - 1
DaysOf(m)     == FirstDay[m]..LastDay(m)
MonthOf(day)  == CHOOSE m \in Months : day \in DaysOf(m)
DayOfMonth(day) == day - FirstDay[MonthOf(day)] + 1
Weekday(day)  == day % DaysInWeek

(* Broken variant of AddMonths: a day too late runs into the month after.  *)
AddMonthsOverflowing(day, n) == FirstDay[MonthOf(day) + n] + DayOfMonth(day) - 1

(* AddMonths: the same day of a later month, or that month's last.         *)
AddMonths(day, n) ==
    LET m == MonthOf(day) + n
    IN  IF DayOfMonth(day) > MonthLengths[m] THEN LastDay(m)
        ELSE FirstDay[m] + DayOfMonth(day) - 1

-----------------------------------------------------------------------------

IsRunning(m, now) == now \in DaysOf(m)

(* monthClock: what is measured ends yesterday, what is asked for starts   *)
(* today, and a month that is not today's is closed.                       *)
NewMonthClock(m, now) ==
    LET total == MonthLengths[m]
        today == now - FirstDay[m] + 1
    IN  IF IsRunning(m, now)
        THEN [inProgress |-> TRUE, through |-> today - 1, today |-> today,
              remaining |-> total - today + 1, total |-> total,
              first |-> FirstDay[m]]
        ELSE [inProgress |-> FALSE, through |-> total, today |-> 0,
              remaining |-> 0, total |-> total, first |-> FirstDay[m]]

DayAt(c, n)     == c.first + n - 1
WeekdayAt(c, n) == Weekday(DayAt(c, n))

(* The days of the month, as numbers from 1, on which something can still  *)
(* be sold.                                                                *)
DaysAhead(c) == IF c.inProgress THEN c.today..c.total ELSE {}

DayBasis(c, n) == CASE ~c.inProgress \/ n < c.today -> "realizado"
                    [] c.inProgress /\ n = c.today  -> "em_curso"
                    [] OTHER                        -> "projetado"

(* Broken variant of WindowEnd: the last day of the month.                 *)
WindowEndWhole(c) == c.first + c.total - 1

(* The trailing weeks that the averages are learned from; they end on the  *)
(* last finished day as the analysed month sees it.                        *)
WindowEnd(c) == c.first + c.through - 1
WindowStart(c) == WindowEnd(c) - (WindowWeeks * DaysInWeek - 1)

Measurable(c) == c.through > 0

(* Broken variant of ComparableThrough: every finished day.                *)
ComparableDaily(c) == c.through

(* The month-over-month window: whole weeks from the 1st, so that both     *)
(* sides hold the same days of the week; a closed month is taken whole.    *)
ComparableThrough(c) ==
    IF c.inProgress THEN c.through - (c.through % DaysInWeek) ELSE c.through

(* The last day that has arrived, today included.                          *)
Elapsed(c) == IF c.inProgress THEN c.today ELSE c.total
=============================================================================
