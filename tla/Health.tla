------------------------------- MODULE Health -------------------------------
(***************************************************************************)
(* The verdict on a month: its totals so far, the comparison with the      *)
(* month before over the same finished days, the insights with the traffic *)
(* light, and the recommendations (packages/finance/analytics/             *)
(* comparison.go, trends.go, health.go, recommendations.go).               *)
(*                                                                         *)
(* Reads are records of two sets of entries: cash, on the effective basis, *)
(* and sales, on the transaction basis.                                    *)
(***************************************************************************)
EXTENDS CashPosition

(* totalsThroughDay and revenueThroughDay, by the day of the month.        *)
Totals(cash, sales) == [revenue |-> RevenueTotal(sales),
                        income  |-> Total(Incomes(cash)),
                        expense |-> Total(Expenses(cash)),
                        balance |-> Net(cash)]
NoTotals == [revenue |-> 0, income |-> 0, expense |-> 0, balance |-> 0]

CashThrough(read, n)  == {e \in read.cash : DayOfMonth(EffectiveDate(e)) <= n}
SalesThrough(read, n) == {e \in read.sales : DayOfMonth(RevenueDate(e)) <= n}
TotalsThrough(read, n) == Totals(CashThrough(read, n), SalesThrough(read, n))

(* buildComparison: what has finished, and what can be held against the    *)
(* previous month.                                                         *)
BuildComparison(c, read, previous) ==
    LET window == ComparableThrough(c)
    IN  [clock    |-> c,
         realized |-> IF Measurable(c) THEN TotalsThrough(read, c.through) ELSE NoTotals,
         current  |-> IF window > 0 THEN TotalsThrough(read, window) ELSE NoTotals,
         previous |-> IF window > 0 THEN TotalsThrough(previous, window) ELSE NoTotals]

BuildTrends(compared) ==
    LET over(x, y) == IF ComparableThrough(compared.clock) > 0
                      THEN TrendOver(x, y, MonthDeadBand) ELSE NoTrend
    IN  [faturamento |-> over(compared.current.revenue, compared.previous.revenue),
         despesa     |-> over(compared.current.expense, compared.previous.expense),
         resultado   |-> over(compared.current.balance, compared.previous.balance)]

-----------------------------------------------------------------------------
ExpenseGrowthPct == 10
RevenueDropPct   == 10
WarningPenalty   == 15
CriticalPenalty  == 40

(* A list of the things that are said when their condition holds.          *)
When(condition, thing) == IF condition THEN <<thing>> ELSE <<>>
Insight(type, severity, value) == [type |-> type, severity |-> severity, value |-> value]

(* countDays: finished days with any movement, and those in the black.     *)
MovedDays(read, through) == {EffectiveDate(e) : e \in CashThrough(read, through)}
BlueDays(read, through) ==
    {d \in MovedDays(read, through) :
        Net({e \in CashThrough(read, through) : EffectiveDate(e) = d}) > 0}

(* The fall in sales worth a warning.                                      *)
Fell(change) == change < -RevenueDropPct

(* What the insight reads: the percentage that Trends published.           *)
FellSince(compared, trends) == Fell(trends.faturamento.change)

(* closedDayInsights.                                                      *)
ClosedDayInsights(read, compared, trends) ==
    LET realized == compared.realized
        through  == compared.clock.through
        moved    == MovedDays(read, through)
        both     == compared.previous.revenue > 0 /\ compared.current.revenue > 0
        revenue  == trends.faturamento.change
        expense  == trends.despesa.change
    IN     When(realized.balance > 0, Insight("positive", "info", 0))
        \o When(moved # {}, Insight("days", "info", Cardinality(BlueDays(read, through))))
        \o When(realized.revenue > 0,
                Insight("expense_share", "info",
                        Round(realized.expense * 100, Larger(1, realized.revenue))))
        \o When(both /\ expense > ExpenseGrowthPct /\ revenue < expense,
                Insight("expense_growth", "warning", expense))
        \o When(both /\ FellSince(compared, trends), Insight("revenue_drop", "warning", revenue))
        \o When(realized.balance < 0, Insight("low_cash_flow", "critical", 0))

(* The messages of buildHealth, in order.                                  *)
Messages(read, compared, trends, week, projection) ==
    LET paced == week.finished > 0 /\ week.pace.previous # 0
    IN     (IF Measurable(compared.clock) THEN ClosedDayInsights(read, compared, trends)
            ELSE <<Insight("month_start", "info", 0)>>)
        \o When(paced /\ week.pace.direction = "up",
                Insight("weekly_improvement", "info", week.pace.change))
        \o When(paced /\ week.pace.direction = "down",
                Insight("weekly_decline", "warning", week.pace.change))
        \o When(Pacing(projection.p) /\ projection.p.onTrack, Insight("goal_on_track", "info", 0))
        \o When(Pacing(projection.p) /\ ~projection.p.onTrack,
                Insight("goal_behind", "warning", 0))

Severities(messages) == {messages[k].severity : k \in DOMAIN messages}

(* healthScore and healthStatus.                                           *)
HealthScore(messages) ==
    LET cost(s) == CASE s = "warning" -> WarningPenalty [] s = "critical" -> CriticalPenalty
                     [] OTHER -> 0
    IN  Larger(0, 100 - SumOfRows(messages, LAMBDA x : cost(x.severity)))

HealthStatus(balance, messages) ==
    IF balance < 0 \/ "critical" \in Severities(messages) THEN "critico"
    ELSE IF "warning" \in Severities(messages) THEN "atencao" ELSE "boa"

BuildHealth(read, compared, trends, week, projection) ==
    LET messages == Messages(read, compared, trends, week, projection)
    IN  [status   |-> HealthStatus(compared.realized.balance, messages),
         score    |-> HealthScore(messages),
         messages |-> messages]

-----------------------------------------------------------------------------
ExpenseSpikePct == 15
CashRunwayDays  == 7

Recommendation(type, severity, value) ==
    [type |-> type, severity |-> severity, value |-> value]

(* projectionMessage: below half of the goal the copy stops asking for it. *)
ProjectionAdvice(projection) ==
    CASE projection.status = "success" -> "enough"
      [] projection.status = "warning" -> "sell_more"
      [] projection.status = "danger" /\ Covers(projection.p, 50) -> "accelerate"
      [] OTHER -> "out_of_reach"

(* buildRecommendations: what to do next, the projection first.            *)
BuildRecommendations(projection, trends, cash) ==
    LET spike  == trends.despesa
        slump  == trends.faturamento
        runway == cash.untilNegative
    IN     When(Pacing(projection.p),
                Recommendation(ProjectionAdvice(projection), projection.status, 0))
        \o When(spike.previous > 0 /\ spike.direction = "up" /\ spike.change > ExpenseSpikePct,
                Recommendation("expense_spike", "warning", spike.change))
        \o When(slump.previous > 0 /\ slump.direction = "down" /\ Fell(slump.change),
                Recommendation("revenue_slump", "danger", AbsInt(slump.change)))
        \o When(cash.expects /\ runway # Nobody /\ (runway # Nobody => runway <= CashRunwayDays),
                Recommendation("runway", "danger", runway))
=============================================================================
