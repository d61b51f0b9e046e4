----------------------------- MODULE Projection -----------------------------
(***************************************************************************)
(* Where the month's faturamento lands and what every day still to come is *)
(* asked for (packages/finance/analytics/projection.go and                 *)
(* projection_experiment.go).                                              *)
(*                                                                         *)
(* The factor of a plan is kept as the fraction missing / usual, so an ask *)
(* is rounded once, where the code rounds it.                              *)
(***************************************************************************)
EXTENDS Rates

CONSTANTS RecentDays,       \* recentRegimeDays, 21 in the code
          BacktestMonths,   \* 3 in the code
          Cutoffs           \* backtestCutoffs: {5, 10, 15, 20} in the code

Usual(rates, c, n) == rates[WeekdayAt(c, n)].avg
UsualAhead(rates, c) == MapThenSumSet(LAMBDA n : Usual(rates, c, n), DaysAhead(c))

(* Broken variant of Expected: a day that is half over counts as whole.    *)
ExpectedTwice(rates, c, n, num, den, asOf, sold) == Round(Usual(rates, c, n) * num, den)

(* What one day is still expected to bring, at num/den of its rhythm; what *)
(* the day itself has sold already is not counted again.                   *)
Expected(rates, c, n, num, den, asOf, sold) ==
    LET whole == Round(Usual(rates, c, n) * num, den)
    IN  IF n = asOf THEN Larger(0, whole - sold) ELSE whole

(* projectedClose: what is still to come from a day of the month on.       *)
StillToCome(rates, c, num, den, asOf, sold) ==
    MapThenSumSet(LAMBDA n : Expected(rates, c, n, num, den, asOf, sold),
                  IF c.inProgress THEN asOf..c.total ELSE {})

-----------------------------------------------------------------------------
NoPlan(state) == [state |-> state, missing |-> 0, usual |-> 1, behind |-> FALSE]

(* Broken variant of NewPlan: what today has sold already is taken off the *)
(* gap, while the day is asked for in full.                                *)
NewPlanNetOfToday(rates, p, c, sold) ==
    IF ~c.inProgress THEN NoPlan("mes_fechado")
    ELSE IF p.target <= 0 THEN NoPlan("sem_meta")
    ELSE LET usual   == UsualAhead(rates, c)
             missing == Larger(0, p.target - p.actual)
         IN  IF p.basis = "sem_base" \/ usual <= 0 THEN NoPlan("sem_historico")
             ELSE [state |-> "ok", missing |-> missing, usual |-> usual,
                   behind |-> missing > usual]

(* newPlan: the gap as the day opened, over what the days left usually     *)
(* bring, and never less than what they usually bring.                     *)
NewPlan(rates, p, c, sold) ==
    IF ~c.inProgress THEN NoPlan("mes_fechado")
    ELSE IF p.target <= 0 THEN NoPlan("sem_meta")
    ELSE LET usual   == UsualAhead(rates, c)
             missing == Larger(0, p.target - (p.actual - sold))
         IN  IF p.basis = "sem_base" \/ usual <= 0 THEN NoPlan("sem_historico")
             ELSE [state |-> "ok", missing |-> missing, usual |-> usual,
                   behind |-> missing > usual]

Source(plan) == IF plan.behind THEN "plano"
                ELSE IF plan.missing = 0 THEN "meta_batida" ELSE "media"

AskOf(plan, usual) == IF plan.behind THEN Round(usual * plan.missing, plan.usual)
                      ELSE usual

(* compareToUsual: within a twentieth of the usual is on track.            *)
CompareToUsual(amount, usual) ==
    IF usual <= 0 THEN "none"
    ELSE IF 20 * (amount - usual) > usual THEN "above"
    ELSE IF 20 * (amount - usual) < -usual THEN "below"
    ELSE "on_track"

NoDay == [state |-> "mes_fechado", basis |-> "none", day |-> 0, realized |-> 0,
          historical |-> 0, target |-> 0, source |-> "none", status |-> "none"]

(* Plan.at: one day of the month against the plan, or why it has no ask.   *)
DayTarget(plan, rates, c, n, realized) ==
    LET usual == Usual(rates, c, n)
        basis == DayBasis(c, n)
        day   == [NoDay EXCEPT !.basis = basis, !.day = n, !.realized = realized]
        ask   == AskOf(plan, usual)
    IN  IF n < 1 THEN NoDay
        ELSE IF n > c.total THEN [NoDay EXCEPT !.state = "mes_acaba_hoje"]
        ELSE IF basis = "realizado"
        THEN [day EXCEPT !.state = "dia_fechado", !.historical = usual,
                         !.status = CompareToUsual(realized, usual)]
        ELSE IF plan.state # "ok" THEN [day EXCEPT !.state = plan.state]
        ELSE IF usual <= 0 THEN [day EXCEPT !.state = "dia_sem_movimento"]
        ELSE [day EXCEPT !.state = "ok", !.historical = usual, !.target = ask,
                         !.source = Source(plan), !.status = CompareToUsual(ask, usual)]

(* plannedClose: the days' own rounded asks, from what the till held this  *)
(* morning, and never below the projection.                                *)
PlannedClose(plan, rates, p, c, sold) ==
    IF plan.state # "ok" THEN p.projected
    ELSE Larger(p.projected,
                p.actual - sold + MapThenSumSet(LAMBDA n : AskOf(plan, Usual(rates, c, n)),
                                                DaysAhead(c)))

(* projectionStatus, on projected / target: 95, 80 and 50 hundredths.      *)
Covers(p, pct) == 100 * p.projected >= pct * p.target
ProjectionStatus(p) == IF p.target <= 0 THEN "none"
                       ELSE IF Covers(p, 95) THEN "success"
                       ELSE IF Covers(p, 80) THEN "warning" ELSE "danger"

Pacing(p) == p.target > 0 /\ p.daysRemaining > 0

(* AccelerationPct, in whole percents.                                     *)
AccelerationPct(p) == IF p.projected <= 0 \/ p.gap = 0 THEN 0
                      ELSE Round(p.gap * 100, p.projected)

(* The Projection of types.go.                                             *)
Projected(actual, coming, target, sample, c) ==
    [actual |-> actual, projected |-> actual + coming, remaining |-> coming,
     target |-> target, daysRemaining |-> c.remaining,
     basis |-> IF c.inProgress THEN BasisFor(sample) ELSE "mes_fechado",
     gap   |-> IF target > 0 THEN Larger(0, target - (actual + coming)) ELSE 0,
     onTrack |-> target > 0 /\ actual + coming >= target]

WithPlan(p, plan, rates, c, sold) ==
    [p |-> p, plan |-> plan, status |-> ProjectionStatus(p),
     today |-> DayTarget(plan, rates, c, c.today, sold),
     plannedClose |-> PlannedClose(plan, rates, p, c, sold)]

(* buildProjection.                                                        *)
BuildProjection(rates, actual, target, c, sold) ==
    LET p == Projected(actual, StillToCome(rates, c, 1, 1, c.today, sold),
                       target, Sample(rates), c)
    IN  WithPlan(p, NewPlan(rates, p, c, sold), rates, c, sold)

-----------------------------------------------------------------------------
(* The observed candidate: the same close at the pace of the recent days.  *)

SoldOn(sales, day)           == RevenueTotal({e \in sales : e.date = day})
SoldBetween(sales, from, to) == RevenueTotal({e \in sales : e.date \in from..to})

Factor(ok, n, num, den) == [ok |-> ok, observations |-> n, num |-> num, den |-> den]

(* The median of ratios in ascending order.                                *)
MedianOf(ratios, n) ==
    LET high == ratios[n \div 2 + 1]
        low  == ratios[n \div 2]
    IN  IF n % 2 = 1 THEN Factor(TRUE, n, high.num, high.den)
        ELSE Factor(TRUE, n, low.num * high.den + high.num * low.den, 2 * low.den * high.den)

(* recentFactor: the median of what the recent days sold over what their   *)
(* day of the week usually brings, once there is a week of them.           *)
RecentFactor(sales, rates, from, to) ==
    LET days   == {d \in Larger(from, to - RecentDays + 1)..to : rates[Weekday(d)].avg > 0}
        ratios == {[day |-> d, num |-> SoldOn(sales, d), den |-> rates[Weekday(d)].avg] : d \in days}
        less(x, y) == x.num * y.den < y.num * x.den
    IN  IF Cardinality(days) < DaysInWeek THEN Factor(FALSE, Cardinality(days), 0, 1)
        ELSE MedianOf(Sorted(ratios, LAMBDA x, y :
                                 less(x, y) \/ (~less(y, x) /\ x.day < y.day)),
                      Cardinality(days))

(* Both closes, from what had been sold by then.                           *)
Estimate(rates, recent, c, actual, sold) ==
    LET close(num, den) == actual + StillToCome(rates, c, num, den, c.today, sold)
    IN  [available |-> recent.ok, observations |-> recent.observations,
         official  |-> close(1, 1),
         experimental |-> IF recent.ok THEN close(recent.num, recent.den) ELSE 0]

(* estimateAt: the official and the experimental close, as a day knew it.  *)
EstimateOn(sales, c, day) ==
    LET rates == ProjectionRates(sales, WindowStart(c), WindowEnd(c))
    IN  Estimate(rates, RecentFactor(sales, rates, WindowStart(c), WindowEnd(c)), c,
                 SoldBetween(sales, c.first, day), SoldOn(sales, day))

EstimateAt(sales, m, day) == EstimateOn(sales, NewMonthClock(m, day), day)

AbsInt(n) == IF n < 0 THEN -n ELSE n

(* The samples of BuildProjectionExperiment: past months at their cutoffs. *)
Samples(sales, now) ==
    LET m      == MonthOf(now)
        past   == {k \in (m - BacktestMonths)..(m - 1) : k \in Months}
        dates  == {d \in past \X Cutoffs : d[2] <= MonthLengths[d[1]]}
        taken  == {[month |-> d[1], cutoff |-> d[2],
                    close |-> SoldBetween(sales, FirstDay[d[1]], LastDay(d[1])),
                    estimate |-> EstimateAt(sales, d[1], FirstDay[d[1]] + d[2] - 1)] : d \in dates}
    IN  {s \in taken : s.estimate.available}

OfficialError(s) == AbsInt(s.estimate.official - s.close)
RegimeError(s)   == AbsInt(s.estimate.experimental - s.close)

(* weekdayForecastErrors: each recent day priced from the weeks before it. *)
PricedDays(sales, now) ==
    {[day |-> d, sold |-> SoldOn(sales, d),
      usual |-> ProjectionRates(sales, d - WindowWeeks * DaysInWeek, d - 1)[Weekday(d)].avg] :
        d \in (now - RecentDays)..(now - 1)}

ErrorsByWeekday(priced) ==
    LET on(wd) == {x \in priced : Weekday(x.day) = wd}
    IN  [wd \in {Weekday(x.day) : x \in priced} |->
            [mae |-> MapThenSumSet(LAMBDA x : AbsInt(x.sold - x.usual), on(wd))
                       \div Cardinality(on(wd)),
             observations |-> Cardinality(on(wd))]]

WeekdayErrors(sales, now) == ErrorsByWeekday({x \in PricedDays(sales, now) : x.usual > 0})

Experiment(current, samples, weekdays) ==
    LET mae(Err(_)) == IF samples = {} THEN 0
                       ELSE MapThenSumSet(Err, samples) \div Cardinality(samples)
    IN  [current      |-> current,
         samples      |-> samples,
         officialMae  |-> mae(OfficialError),
         regimeMae    |-> mae(RegimeError),
         officialWins |-> Cardinality({s \in samples : OfficialError(s) < RegimeError(s)}),
         regimeWins   |-> Cardinality({s \in samples : RegimeError(s) < OfficialError(s)}),
         weekdays     |-> weekdays]

(* BuildProjectionExperiment.                                              *)
BuildExperiment(sales, now) ==
    Experiment(EstimateAt(sales, MonthOf(now), now), Samples(sales, now),
               WeekdayErrors(sales, now))
=============================================================================
