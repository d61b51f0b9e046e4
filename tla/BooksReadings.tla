--------------------------- MODULE BooksReadings ---------------------------
(***************************************************************************)
(* What the readers of the books may rely on.                              *)
(***************************************************************************)
EXTENDS Books

(* Every entry is valid and has an id of its own, and the two analyses are *)
(* those of the running month and of the one before.                       *)
BooksTypeOK ==
    /\ \A e \in ledger : Valid(e)
    /\ \A e, f \in ledger : e.id = f.id => e = f
    /\ now \in FirstNow..LastNow /\ changes \in 0..MaxChanges
    /\ view.month = MonthOf(now) /\ past.month = MonthOf(now) - 1

Parts(rows) == SumOfRows(rows, Amount)
Curve(a) == ToSet(a.cash.forecast)

(* Every split adds up to the figure it stands under: the kinds of sale to *)
(* the faturamento, the kinds of expense to the despesa, what is spent and *)
(* what is booked to the bills on the runway, the categories of a period   *)
(* to the runway's ins and outs, and the agent's resumo to the same        *)
(* faturamento; a ranking that does not say it was cut is complete.        *)
PartsAddUp ==
    \A a \in {view, past} :
        LET payload == DigestPayload(a)
            resumo  == ResumoMensal(ledger, a.month, GoalOf(goals, a.month))
            period  == CategorySummary(ledger, FirstDay[a.month], LastDay(a.month))
        IN  /\ Parts(a.revenues) = a.kpis.faturamento
            /\ Parts(a.expenses) = a.kpis.despesa
            /\ a.kpis.despesa + a.kpis.agendada
                   = MapThenSumSet(LAMBDA d : d.out, Curve(a))
            /\ TotalOfRows(period) = MapThenSumSet(LAMBDA d : d.in + d.out, Curve(a))
            /\ resumo.faturamento = a.kpis.faturamento
            /\ TotalOfRows(resumo.porCategoria) = resumo.faturamento
            /\ ~payload.faturamentoCut => Parts(payload.faturamento) = a.kpis.faturamento
            /\ ~payload.despesasCut => Parts(payload.despesas) = a.kpis.despesa

SoldToday == SoldOn(ledger, now)
DaysLeft  == {d \in DaysOf(MonthOf(now)) : d >= now}
AskFor(d) == DayTargetOn(view, d, SoldOn(ledger, d))

(* The asks of the days that are left close the month: none is below its   *)
(* usual day, a month that is behind reaches its goal within the rounding  *)
(* of a day's half centavo, and the planned close is what they add up to   *)
(* ("exactly what get_meta_do_dia would add up to"), or the projection     *)
(* where that is more.  The agent's tool, asked without a date, answers    *)
(* today's ask.                                                            *)
PlanClosesTheMonth ==
    LET p     == view.projection
        asked == p.p.actual - SoldToday + MapThenSumSet(LAMBDA d : AskFor(d).target, DaysLeft)
    IN  p.plan.state = "ok" =>
            /\ \A d \in DaysLeft : AskFor(d).target >= AskFor(d).historical
            /\ p.plan.behind =>
                   2 * AbsInt(asked - p.p.target) <= Cardinality(DaysLeft)
            /\ p.plannedClose = Larger(p.p.projected, asked)
            /\ 2 * p.plannedClose + Cardinality(DaysLeft) >= 2 * p.p.target
            /\ GetMetaDoDia(ledger, goals, <<>>, now).dias = <<p.today>>

(* A month that is over is told as fact: nothing is projected, asked or    *)
(* still booked, and the verdict stands on the whole of it.                *)
ClosedMonthIsWhole ==
    LET p == past.projection
        s == MonthlySummary(ledger, past.month)
    IN  /\ p.p.projected = past.kpis.faturamento /\ p.plannedClose = s.revenue
        /\ p.plan.state = "mes_fechado" /\ p.today.state = "mes_fechado"
        /\ past.kpis.agendada = 0
        /\ past.compared.realized.balance = s.balance
        /\ AheadLines(past) = <<>>
        /\ ~Pacing(p.p)

(* The summary of a month is the same whether it is asked for alone or     *)
(* read in one span with the months around it.                             *)
SummariesAgree ==
    \A m \in MonthRange(MonthOf(now)) :
        MultiMonthlySummary(ledger, MonthRange(MonthOf(now)))[m] = MonthlySummary(ledger, m)

(* One month has one set of figures, whichever way it is read.             *)
FiguresAgree == BooksTypeOK /\ PartsAddUp /\ SummariesAgree

(* What is asked of the days to come closes the month, and nothing is      *)
(* asked of a month that is over.                                          *)
PlanInv == PlanClosesTheMonth /\ ClosedMonthIsWhole

Queries == {[from |-> f, to |-> t, limit |-> n, status |-> s, category |-> Nobody] :
               f \in {Nobody, now - 6}, t \in {Nobody, now}, n \in {0, 2},
               s \in {Nobody, "pending"}}

Whole(r, asked) ==
    /\ ~r.truncated => ToSet(r.entries) = asked
    /\ r.totals => /\ r.entradas - r.expense = Net(asked)
                   /\ Len(r.entries) + r.omitted = Cardinality(asked)

(* A listing that does not say it was cut holds every entry asked for, and *)
(* the totals beside a period cover the rows that were left out.           *)
NoSilentCut == \A q \in Queries : Whole(ListingOf(ledger, q), Asked(ledger, q))

Says(messages, type) == \E k \in DOMAIN messages : messages[k].type = type

(* The warning about falling sales and the advice that goes with it come   *)
(* together, unless nothing at all was sold.                               *)
FallIsSaidTwice ==
    \A a \in {view, past} :
        a.compared.current.revenue > 0 =>
            (Says(a.health.messages, "revenue_drop")
                 <=> Says(a.recommendations, "revenue_slump"))

(* "Coberto" is never said over a curve that is under water on some day,   *)
(* nor beside an advice about a balance that runs out; and the days until  *)
(* that are counted to the first day that is.                              *)
CoveredMeansCovered ==
    LET c == view.cash
    IN  /\ c.commitments = "coberto" =>
               /\ \A d \in Curve(view) : d.balance >= 0
               /\ ~Says(view.recommendations, "runway")
        /\ c.untilNegative # Nobody =>
               \A d \in Curve(view) : d.date > now /\ d.balance < 0
                   => d.date >= now + c.untilNegative

(* The digest calls a day calm exactly when it has no bill to warn about,  *)
(* and then nothing in its look-back is owed and no list follows.          *)
CalmMeansNothingOwed ==
    LET S == LookBack(ledger, now)
        d == Digest(ledger, goals, view, now)
        warned == \E k \in DOMAIN d.alerts : d.alerts[k].kind # "goal"
    IN  /\ (d.calm = "none") <=> warned
        /\ d.calm # "none" => /\ Pending(S) = {}
                              /\ BillListMessages(S, now) = <<>>

(* The list names every bill of the day once, biggest first, under their   *)
(* total, and every message of it fits.                                    *)
EveryBillIsListed ==
    LET S        == LookBack(ledger, now)
        bills    == DueToday(S, now)
        messages == BillListMessages(S, now)
        listed   == FlattenSeq([k \in DOMAIN messages |-> messages[k].lines])
    IN  /\ [k \in DOMAIN listed |-> listed[k].bill] = [k \in DOMAIN bills |-> bills[k].id]
        /\ \A k \in DOMAIN messages : messages[k].length <= MaxWhatsAppText
        /\ messages # <<>> => messages[1].total = Total(DueOn(S, now))

(* What is cut to fit says so, and a list of bills is split, never cut.    *)
NothingIsCutSilently == NoSilentCut /\ EveryBillIsListed

(* What the report and the digest say in words is what the figures say.    *)
WordsMatchTheFigures == FallIsSaidTwice /\ CoveredMeansCovered /\ CalmMeansNothingOwed

(* A past estimate of the experiment is what its day could know: sales     *)
(* after the cutoff do not move it; and the close it calls official today  *)
(* is the one the analysis publishes.                                      *)
NoLookAhead ==
    LET sales == ExperimentSales(ledger, now)
        experiment == BuildExperiment(sales, now)
        Known(s)   == LET day == FirstDay[s.month] + s.cutoff - 1
                      IN  EstimateAt({e \in sales : e.date <= day}, s.month, day)
    IN  /\ \A s \in experiment.samples : s.estimate = Known(s)
        /\ experiment.current.official = view.projection.p.projected

(* get_analysis without a month answers for the current month, as its      *)
(* schema says ("padrão: mês atual").                                      *)
DefaultIsTheCurrentMonth == DefaultMonths = {MonthOf(now)}

-----------------------------------------------------------------------------
New == ledger' \ ledger
Registers(Kind(_)) == /\ now' = now
                      /\ Cardinality(ledger') > Cardinality(ledger)
                      /\ \A e \in New : Kind(e)

(* Selling fills the day and nothing else: the ask of the morning stands,  *)
(* and the projection moves only by what the day brings past its usual.    *)
SellingOnlyFillsTheDay ==
    [][Registers(IsRevenue) =>
          LET usual == view.weekdays[Weekday(now)].avg
          IN  /\ view'.projection.today.target = view.projection.today.target
              /\ view'.projection.p.projected - view.projection.p.projected
                     = Larger(usual, SoldToday') - Larger(usual, SoldToday)
              /\ view'.weekdays = view.weekdays]_vars

(* Money that is not a sale moves the cash and no reading of performance.  *)
LoanIsNotASale ==
    [][Registers(LAMBDA e : IsIncome(e) /\ e.origin # "venda") =>
          /\ view'.projection = view.projection
          /\ view'.week = view.week
          /\ view'.goals = view.goals
          /\ view'.revenues = view.revenues
          /\ view'.trends.faturamento = view.trends.faturamento
          /\ view'.kpis.faturamento = view.kpis.faturamento]_vars

(* A bill that is booked for a later day is a commitment: it is neither    *)
(* spent, nor a result, nor a reason for the traffic light.                *)
BookedBillsDoNotJudge ==
    [][Registers(LAMBDA e : e.type = "expense" /\ EffectiveDate(e) > now) =>
          /\ view'.kpis.despesa = view.kpis.despesa
          /\ view'.kpis.resultado = view.kpis.resultado
          /\ view'.health = view.health
          /\ view'.trends = view.trends
          /\ view'.expenses = view.expenses
          /\ view'.goals = view.goals]_vars

SameMonth == now' = now + 1 /\ MonthOf(now') = MonthOf(now)

(* While no week of the month closes, the comparison with the month before *)
(* stays what it was the day before.                                       *)
TrendsMoveByWeeks ==
    [][SameMonth /\ DayOfMonth(now) % DaysInWeek # 0 => view'.trends = view.trends]_vars

(* The snapshots of two mornings differ by the money dated on the day that *)
(* came, not by what was booked for another.                               *)
OvernightDelta ==
    [][SameMonth =>
          LET d == Deltas(Snapshot(view'), Snapshot(view))
              arrived == Within(ledger, "effective", now', now')
          IN  /\ d.faturamento.delta = 0
              /\ d.despesa.delta = Total(Expenses(arrived))
              /\ d.resultado.delta = Net(arrived)]_vars

(* Performance is judged by what was sold and by what has arrived, never   *)
(* by loans and never by what is booked for later.                         *)
OnlySalesJudge == LoanIsNotASale /\ BookedBillsDoNotJudge

(* A night changes what the day that came brings, and nothing else.        *)
NightsMoveLittle == TrendsMoveByWeeks /\ OvernightDelta
=============================================================================
