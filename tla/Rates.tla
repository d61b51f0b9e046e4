------------------------------- MODULE Rates -------------------------------
(***************************************************************************)
(* What a day of the week is worth, learned from the trailing weeks, and   *)
(* how this week compares with the last one                                *)
(* (packages/finance/analytics/weekday.go, trends.go, build.go).           *)
(*                                                                         *)
(* Floating-point numbers are exact fractions here; a figure is rounded    *)
(* where the code rounds it, halves away from zero.                        *)
(***************************************************************************)
EXTENDS Summaries

CONSTANT Weight    \* gaussianWeight: what a week counts for, by its age

ASSUME RatesAssumption ==
    /\ Weight \in [0..(WindowWeeks - 1) -> Nat \ {0}]
    /\ \A age \in 1..(WindowWeeks - 1) : Weight[age] <= Weight[age - 1]

(* roundToInt64 of n / d, for a positive d.                                *)
Round(n, d) == IF n >= 0 THEN (2 * n + d) \div (2 * d)
               ELSE -((d - 2 * n) \div (2 * d))

Larger(x, y)  == IF x >= y THEN x ELSE y
Smaller(x, y) == IF x <= y THEN x ELSE y

WeekStart(day) == day - ((Weekday(day) - 1) % DaysInWeek)
WeeksBefore(end, day) == (WeekStart(end) - WeekStart(day)) \div DaysInWeek

-----------------------------------------------------------------------------
(* weekdayWeekTotals and gaussianAvg: the takings of a day of the week in  *)
(* each week that had any, averaged with the weight of the week's age.     *)
RatesOf(S, basis, end) ==
    LET DateOf(e)   == BasisDate(basis, e)
        Ages(wd)    == {WeeksBefore(end, DateOf(e)) :
                           e \in {x \in S : Weekday(DateOf(x)) = wd}}
                       \cap DOMAIN Weight
        Sold(wd, a) == Total({e \in S : /\ Weekday(DateOf(e)) = wd
                                        /\ WeeksBefore(end, DateOf(e)) = a})
        avg(wd) == IF Ages(wd) = {} THEN 0
                   ELSE Round(MapThenSumSet(LAMBDA a : Sold(wd, a) * Weight[a], Ages(wd)),
                              MapThenSumSet(LAMBDA a : Weight[a], Ages(wd)))
    IN  [wd \in Weekdays |-> [avg |-> avg(wd), weeks |-> Cardinality(Ages(wd))]]

(* projectionRates: sales, by the day they were made.                      *)
ProjectionRates(ledger, from, to) ==
    RatesOf(Sales(Within(ledger, "transaction", from, to)), "transaction", to)

(* cashInRates: everything that comes in, by the day it is expected.       *)
CashInRates(ledger, from, to) ==
    RatesOf(Incomes(Within(ledger, "effective", from, to)), "effective", to)

Sample(rates) == MapThenSumSet(LAMBDA wd : rates[wd].weeks, Weekdays)

(* basisFor: how much an average knows.                                    *)
BasisFor(observations) == CASE observations = 0 -> "sem_base"
                            [] observations \in 1..(DaysInWeek - 1) -> "parcial"
                            [] OTHER -> "janela"

-----------------------------------------------------------------------------
MonthDeadBand == 2
WeekDeadBand  == 5

NoTrend == [current |-> 0, previous |-> 0, change |-> 0, direction |-> "stable"]

(* trendOver: rounded before it is judged; over nothing it is a flat 100.  *)
TrendOver(current, previous, band) ==
    LET rounded == Round((current - previous) * 100,
                         IF previous < 0 THEN -previous ELSE previous)
        change  == IF previous # 0 THEN rounded ELSE IF current > 0 THEN 100 ELSE 0
        noise   == IF previous = 0 THEN 0 ELSE band
    IN  [current |-> current, previous |-> previous, change |-> change,
         direction |-> IF change > noise THEN "up"
                       ELSE IF change < -noise THEN "down" ELSE "stable"]

(* buildWeekComparison: this week so far against the whole of the last     *)
(* one, and the pace over the finished days of both.  It reads one month's *)
(* sales, so a week that began in the month before is seen in part.        *)
BuildWeekComparison(sales, now) ==
    LET monday   == WeekStart(now)
        finished == now - monday
        Sold(from, to) == RevenueTotal({e \in sales : e.date \in from..to})
        current  == Sold(monday, now)
        previous == Sold(monday - DaysInWeek, monday - 1)
        pace     == Sold(monday, now - 1)
        before   == Sold(monday - DaysInWeek, now - DaysInWeek - 1)
    IN  [current |-> current, previous |-> previous,
         pace      |-> IF finished > 0 THEN TrendOver(pace, before, WeekDeadBand)
                       ELSE NoTrend,
         finished  |-> finished,
         days      |-> finished + 1,
         projected |-> Round(current * DaysInWeek
                             + previous * (DaysInWeek - 1 - finished), DaysInWeek)]
=============================================================================
