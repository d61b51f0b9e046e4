----------------------------- MODULE Breakdowns -----------------------------
(***************************************************************************)
(* What a month was made of: the split by category, the days that stand    *)
(* out, the progress towards the goals and the trailing months             *)
(* (packages/finance/analytics/composition.go, highlights.go, goals.go).   *)
(***************************************************************************)
EXTENDS Health

CONSTANTS MaxCashOutDays,   \* 5 in the code
          HistoryMonths     \* 3 in the code

(* composition: amounts and whole percents of the total, largest first.    *)
Composition(S) ==
    LET rows == FoldByCategory(S)
    IN  [k \in DOMAIN rows |->
            [category |-> rows[k].category, amount |-> rows[k].total,
             pct |-> Round(rows[k].total * 100, Total(S))]]

ExpenseComposition(S) == Composition(Expenses(S))

(* What is already faturamento, by the kind of sale.                       *)
RevenueComposition(S) == Composition(Sales(S))

-----------------------------------------------------------------------------
(* aggregateByDay: both reads are put on the day of registration.          *)
DayTotals(read) ==
    LET On(S, d) == {e \in S : e.date = d}
        days == {e.date : e \in read.cash} \cup {e.date : e \in Sales(read.sales)}
    IN  [d \in days |-> [revenue |-> RevenueTotal(On(read.sales, d)),
                         balance |-> Net(On(read.cash, d))]]

NoHighlight == [date |-> 0, amount |-> 0]

(* The best and the worst day; a tie goes to the earliest.                 *)
Best(days, Figure(_)) ==
    LET top == Max({Figure(d) : d \in days})
    IN  [date |-> Min({d \in days : Figure(d) = top}), amount |-> top]
Worst(days, Figure(_)) ==
    LET bottom == Min({Figure(d) : d \in days})
    IN  [date |-> Min({d \in days : Figure(d) = bottom}), amount |-> bottom]

(* buildHighlights.                                                        *)
Highlights(read) ==
    LET totals == DayTotals(read)
        days   == DOMAIN totals
        revenue(d) == totals[d].revenue
        balance(d) == totals[d].balance
    IN  IF days = {}
        THEN [bestIncome |-> NoHighlight, worstIncome |-> NoHighlight,
              bestBalance |-> NoHighlight, worstBalance |-> NoHighlight]
        ELSE [bestIncome  |-> Best(days, revenue), worstIncome  |-> Worst(days, revenue),
              bestBalance |-> Best(days, balance), worstBalance |-> Worst(days, balance)]

(* buildCashOutDays: the days with the heaviest outgoings, by category.    *)
CashOutDays(S) ==
    LET spent == Expenses(S)
        day(d) == [date |-> d, total |-> Total({e \in spent : e.date = d}),
                   items |-> FoldByCategory({e \in spent : e.date = d})]
        days == Sorted({day(e.date) : e \in spent},
                    LAMBDA x, y : x.total > y.total \/ (x.total = y.total /\ x.date < y.date))
    IN  SubSeq(days, 1, Smaller(Len(days), MaxCashOutDays))

-----------------------------------------------------------------------------
NoGoal == [revenue |-> 0, expense |-> 0]

Pct(actual, target) == IF target > 0 THEN Smaller(100, Round(actual * 100, target)) ELSE 0

(* goalProgress: percents are capped, amounts are not.                     *)
GoalProgress(goal, c, revenue, expense) ==
    [revenueActual |-> revenue, expenseActual |-> expense,
     revenueTarget |-> goal.revenue, expenseTarget |-> goal.expense,
     revenuePct |-> Pct(revenue, goal.revenue), expensePct |-> Pct(expense, goal.expense),
     daysRemaining |-> c.remaining, daysTotal |-> c.total]

(* MonthRange and buildHistory, over the months the calendar has.          *)
MonthRange(m) == {k \in Months : k \in (m - HistoryMonths + 1)..m}
History(summaries, goals) ==
    [m \in DOMAIN summaries |->
        [revenue |-> summaries[m].revenue, expense |-> summaries[m].expense,
         goal |-> IF m \in DOMAIN goals THEN goals[m] ELSE NoGoal]]
=============================================================================
