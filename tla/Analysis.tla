------------------------------ MODULE Analysis ------------------------------
(***************************************************************************)
(* The full picture of one month, assembled from the ledger, and the three *)
(* ways it is read: the digest's lines, the agent's payload, the ask of a  *)
(* named day; and the daily snapshot with its comparison                   *)
(* (packages/finance/analytics/build.go, service.go, report.go, tool.go,   *)
(* apps/dashboard-api/internal/finance/snapshot.go).                       *)
(***************************************************************************)
EXTENDS Breakdowns

CONSTANTS MaxDigestInsights,   \* 3 in the code
          MaxToolCategories,   \* 5 in the code
          MaxDayTargets        \* 7 in the code

ASSUME AnalysisAssumption ==
    MaxToolCategories \in Nat \ {0} /\ MaxDayTargets \in Nat \ {0}

Read(ledger, m) == [cash  |-> MonthEntries(ledger, m, "effective"),
                    sales |-> MonthEntries(ledger, m, "transaction")]
NoRead == [cash |-> {}, sales |-> {}]

GoalOf(goals, m) == IF m \in DOMAIN goals THEN goals[m] ELSE NoGoal

(* What has arrived, today included, on either basis.                      *)
Arrived(read, c) == [cash  |-> CashThrough(read, Elapsed(c)),
                     sales |-> SalesThrough(read, Elapsed(c))]

(* Assemble, as far as the store: everything that Build is given.          *)
Input(ledger, goals, m, now, c) ==
    [month     |-> m,
     now       |-> now,
     clock     |-> c,
     read      |-> Read(ledger, m),
     previous  |-> IF m - 1 \in Months THEN Read(ledger, m - 1) ELSE NoRead,
     summaries |-> MultiMonthlySummary(ledger, MonthRange(m)),
     goals     |-> goals,
     rates     |-> ProjectionRates(ledger, WindowStart(c), WindowEnd(c)),
     cashRates |-> CashInRates(ledger, WindowStart(c), WindowEnd(c)),
     flow      |-> CashFlowForecast(ledger, m)]

(* Build, given what it works out first; spent is what left so far.        *)
Built(in, arrived, spent, projection, compared, trends, week, cash) ==
    LET summary == in.summaries[in.month]
    IN  [month      |-> in.month,
         clock      |-> in.clock,
         kpis       |-> [resultado |-> Net(arrived.cash), faturamento |-> summary.revenue,
                         entradas  |-> summary.cashIn, despesa |-> spent,
                         agendada  |-> summary.expense - spent],
         health     |-> BuildHealth(in.read, compared, trends, week, projection),
         trends     |-> trends,
         compared   |-> compared,
         weekdays   |-> in.rates,
         week       |-> week,
         highlights |-> Highlights(arrived),
         cashOut    |-> CashOutDays(arrived.cash),
         expenses   |-> ExpenseComposition(arrived.cash),
         revenues   |-> RevenueComposition(in.read.sales),
         goals      |-> GoalProgress(GoalOf(in.goals, in.month), in.clock,
                                     projection.p.actual, spent),
         projection |-> projection,
         history    |-> History(in.summaries, in.goals),
         cash       |-> cash,
         recommendations |-> BuildRecommendations(projection, trends, cash)]

(* Build: what has arrived, today included, is judged; what is still to    *)
(* come is projected.                                                      *)
Build(in, arrived) ==
    LET today    == {e \in in.read.sales : DayOfMonth(e.date) = in.clock.today}
        compared == BuildComparison(in.clock, in.read, in.previous)
    IN  Built(in, arrived, Total(Expenses(arrived.cash)),
              BuildProjection(in.rates, RevenueTotal(arrived.sales),
                              GoalOf(in.goals, in.month).revenue, in.clock,
                              RevenueTotal(today)),
              compared, BuildTrends(compared),
              BuildWeekComparison(in.read.sales, in.now),
              BuildCashPosition(in.flow, in.cashRates, in.now))

(* Assemble: every read of the store, then Build.                          *)
Assemble(ledger, goals, m, now) ==
    LET in == Input(ledger, goals, m, now, NewMonthClock(m, now))
    IN  Build(in, Arrived(in.read, in.clock))

-----------------------------------------------------------------------------
(* DigestLines: the verdict on what has finished and what is going wrong.  *)
DigestLines(a) ==
    LET opening == a.clock.inProgress
        bad == SelectSeq(a.health.messages, LAMBDA x :
                   x.severity # "info" /\ x.type \notin {"goal_behind", "goal_on_track"})
    IN  IF opening /\ a.clock.through = 0 THEN <<"month_start">>
        ELSE <<a.health.status>>
             \o [k \in 1..Smaller(Len(bad), MaxDigestInsights) |-> bad[k].type]
             \o When(opening /\ ComparableThrough(a.clock) = 0, "first_week")

(* AheadLines: the ask of the day and the first recommendation.            *)
AheadLines(a) ==
    IF ~a.clock.inProgress THEN <<>>
    ELSE When(a.projection.today.state = "ok", a.projection.today.source)
         \o When(a.recommendations # <<>>, Head(a.recommendations).type)

TopCategories(rows) == SubSeq(rows, 1, Smaller(Len(rows), MaxToolCategories))

Sections == {"dias_de_saida", "despesas_completas", "faturamento_completo",
             "historico", "destaques"}

(* ToolPayload: what the figures depend on is always there, a ranking that *)
(* was cut says so, and the heavy parts come when they are asked for.      *)
ToolPayload(a, sections) ==
    LET opening == a.clock.inProgress /\ ComparableThrough(a.clock) = 0
        part(s) == CASE s = "dias_de_saida" -> a.cashOut
                     [] s = "despesas_completas" -> a.expenses
                     [] s = "faturamento_completo" -> a.revenues
                     [] s = "historico" -> a.history
                     [] s = "destaques" -> <<a.highlights.bestBalance, a.highlights.worstBalance>>
    IN  [month        |-> a.month,
         kpis         |-> a.kpis,
         despesas     |-> TopCategories(a.expenses),
         despesasCut  |-> Len(a.expenses) > MaxToolCategories,
         faturamento  |-> TopCategories(a.revenues),
         faturamentoCut |-> Len(a.revenues) > MaxToolCategories,
         monthStart   |-> opening /\ a.clock.through = 0,
         firstWeek    |-> opening /\ a.clock.through > 0,
         window       |-> a.projection.p.basis \in {"janela", "parcial"},
         aceleracao   |-> AccelerationPct(a.projection.p),
         metaDeHoje   |-> a.projection.today,
         sections     |-> [s \in sections \cap Sections |-> part(s)]]

(* DigestPayload: the same, for a reader who cannot ask for a section.     *)
DigestPayload(a) == ToolPayload(a, {})

-----------------------------------------------------------------------------
(* DayTargetOn: a day against the plan that an analysis already published. *)
DayTargetOn(a, day, realized) ==
    IF MonthOf(day) # a.month THEN [NoDay EXCEPT !.state = "mes_acaba_hoje"]
    ELSE DayTarget(a.projection.plan, a.weekdays, a.clock, DayOfMonth(day), realized)

(* dayTargets: each date against the plan of its own month; a month that   *)
(* has not started has none.  Repeats are dropped before the cap.          *)
DistinctDates(dates) ==
    FoldLeft(LAMBDA seen, d : IF d \in ToSet(seen) THEN seen ELSE Append(seen, d), <<>>, dates)

DayTargetOf(ledger, goals, day, now) ==
    LET m == MonthOf(day)
    IN  IF m > MonthOf(now) THEN [NoDay EXCEPT !.state = "mes_futuro", !.basis = "projetado"]
        ELSE DayTargetOn(Assemble(ledger, goals, m, now), day,
                         SoldOn(MonthEntries(ledger, m, "transaction"), day))

GetMetaDoDia(ledger, goals, dates, now) ==
    LET asked == IF dates = <<>> THEN <<now>> ELSE DistinctDates(dates)
        shown == SubSeq(asked, 1, Smaller(Len(asked), MaxDayTargets))
    IN  [truncated |-> Len(asked) > MaxDayTargets,
         dias |-> [k \in DOMAIN shown |-> DayTargetOf(ledger, goals, shown[k], now)]]

(* What the experiment reads: sales up to the day it runs.                 *)
ExperimentSales(ledger, now) == Sales(Within(ledger, "transaction", 1, now))

-----------------------------------------------------------------------------
(* The daily snapshot keeps the headline of an analysis; GET /analysis     *)
(* compares today's with yesterday's.                                      *)
Snapshot(a) == [month |-> a.month, status |-> a.health.status,
                faturamento |-> a.kpis.faturamento, despesa |-> a.kpis.despesa,
                resultado |-> a.kpis.resultado]

HealthRank == [boa |-> 0, atencao |-> 1, critico |-> 2]

(* pctChange divides by the signed previous figure.                        *)
PctChange(previous, current) ==
    IF previous = 0 THEN 0
    ELSE IF previous > 0 THEN Round((current - previous) * 100, previous)
    ELSE Round((previous - current) * 100, -previous)

(* buildComparison of snapshot.go.                                         *)
Deltas(current, previous) ==
    LET delta(x, y) == [delta |-> x - y, pct |-> PctChange(y, x)]
    IN  [trend |-> IF HealthRank[current.status] > HealthRank[previous.status] THEN "downgraded"
                   ELSE IF HealthRank[current.status] < HealthRank[previous.status]
                   THEN "improved" ELSE "stable",
         faturamento |-> delta(current.faturamento, previous.faturamento),
         despesa     |-> delta(current.despesa, previous.despesa),
         resultado   |-> delta(current.resultado, previous.resultado)]
=============================================================================
