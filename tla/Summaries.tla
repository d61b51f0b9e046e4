----------------------------- MODULE Summaries -----------------------------
(***************************************************************************)
(* The figures that packages/finance derives from a ledger: the monthly    *)
(* summaries, the split by category, the daily cash curve and the answers  *)
(* of the agent's listing tools (summaries.go, helpers.go, tools.go).      *)
(*                                                                         *)
(* A ledger is a set of entries with distinct ids, each of a category;     *)
(* categories are numbers, in the alphabetical order of their slugs.       *)
(***************************************************************************)
EXTENDS Entries, Months, FiniteSetsExt, SequencesExt

CONSTANTS DefaultEntryLimit, MaxEntryLimit,  \* 50 and 200 in the code
          MaxRangeEntries,                   \* 500 in the code
          MaxAggregateSpan                   \* 366 days in the code

ASSUME SummariesAssumption ==
    DefaultEntryLimit \in Nat /\ MaxEntryLimit \in Nat /\ MaxRangeEntries \in Nat

Amount(e) == e.amount
Total(S)  == MapThenSumSet(Amount, S)

IsIncome(e) == e.type = "income"
Incomes(S)  == {e \in S : IsIncome(e)}
Expenses(S) == {e \in S : ~IsIncome(e)}

(* Broken variant of Sales: whatever comes in is a sale.                   *)
SalesOfAnyOrigin(S) == {e \in S : IsIncome(e)}

(* domain.IsRevenue over a read.                                           *)
Sales(S)    == {e \in S : IsRevenue(e)}
Net(S)      == Total(Incomes(S)) - Total(Expenses(S))

(* ListEntries over a period, without cursor or limit.                     *)
Within(ledger, basis, from, to) ==
    {e \in ledger : LET d == BasisDate(basis, e)
                    IN  d # Nobody /\ d \in from..to}

MonthEntries(ledger, m, basis) == Within(ledger, basis, FirstDay[m], LastDay(m))

(* A set in the order that Before, a strict total order of it, gives.      *)
Sorted(S, Before(_, _)) ==
    [k \in 1..Cardinality(S) |->
        CHOOSE x \in S : Cardinality({y \in S : Before(y, x)}) = k - 1]

RevenueTotal(S) == Total(Sales(S))
CashInTotal(S)  == Total({e \in Incomes(S) : CashDate(e) # Nobody})

-----------------------------------------------------------------------------
(* addToSummary: the fields that one date basis feeds.                     *)
Summary(sales, cash, expected) ==
    [revenue    |-> RevenueTotal(sales),
     cashIn     |-> Total(Incomes(cash)),
     cashOut    |-> Total(Expenses(cash)),
     expectedIn |-> Total(Incomes(expected)),
     expense    |-> Total(Expenses(expected)),
     balance    |-> Net(expected)]

(* monthlySummary: one read for each basis.                                *)
MonthlySummary(ledger, m) ==
    Summary(MonthEntries(ledger, m, "transaction"),
            MonthEntries(ledger, m, "payment"),
            MonthEntries(ledger, m, "effective"))

(* Broken variant of MultiMonthlySummary: one read, sorted by one date.    *)
MultiMonthlySummaryOneRead(ledger, ms) ==
    LET read == {e \in ledger : EffectiveDate(e) \in FirstDay[Min(ms)]..LastDay(Max(ms))}
    IN  [m \in ms |-> LET s == {e \in read : MonthOf(EffectiveDate(e)) = m}
                      IN  Summary(s, {e \in s : CashDate(e) # Nobody}, s)]

(* multiMonthlySummary: one read of the whole span for each basis, folded  *)
(* into the months that were asked for.                                    *)
MultiMonthlySummary(ledger, ms) ==
    LET Read(basis)    == Within(ledger, basis, FirstDay[Min(ms)], LastDay(Max(ms)))
        Share(basis, m) == {e \in Read(basis) : MonthOf(BasisDate(basis, e)) = m}
    IN  [m \in ms |-> Summary(Share("transaction", m), Share("payment", m),
                              Share("effective", m))]

-----------------------------------------------------------------------------
CategoriesOf(S) == {e.category : e \in S}

(* foldByCategory: the largest total first, ties in the order of slugs.    *)
FoldByCategory(S) ==
    LET Of(c) == {e \in S : e.category = c}
        row(c) == [category |-> c, total |-> Total(Of(c)), count |-> Cardinality(Of(c))]
    IN  Sorted({row(c) : c \in CategoriesOf(S)},
            LAMBDA x, y : \/ x.total > y.total
                          \/ x.total = y.total /\ x.category < y.category)

SumOfRows(rows, Field(_)) == FoldLeft(LAMBDA sum, r : sum + Field(r), 0, rows)
TotalOfRows(rows) == SumOfRows(rows, LAMBDA r : r.total)

(* RevenueByCategory, monthRevenueByCategory and categorySummary.          *)
RevenueByCategory(S) == FoldByCategory(Sales(S))
MonthRevenueByCategory(ledger, m) == RevenueByCategory(MonthEntries(ledger, m, "transaction"))
CategorySummary(ledger, from, to) == FoldByCategory(Within(ledger, "effective", from, to))

(* cashFlowForecast: what every day of the month has booked and the        *)
(* balance it leaves, from everything before the 1st.                      *)
CashFlowForecast(ledger, m) ==
    LET Booked(d) == Within(ledger, "effective", d, d)
        UpTo(d)   == {e \in ledger : EffectiveDate(e) <= d}
    IN  [k \in 1..MonthLengths[m] |->
            LET d == FirstDay[m] + k - 1
            IN  [date    |-> d,
                 in      |-> Total(Incomes(Booked(d))),
                 out     |-> Total(Expenses(Booked(d))),
                 balance |-> Net(UpTo(d))]]

-----------------------------------------------------------------------------
(* get_resumo_mensal: progress towards the goals, in whole percents.       *)
Progress(actual, target) == IF actual <= target THEN (actual * 100) \div target ELSE 100

ResumoMensal(ledger, m, goal) ==
    LET s == MonthlySummary(ledger, m)
    IN  [faturamento |-> s.revenue, entradas |-> s.cashIn, expense |-> s.expense,
         balance     |-> s.balance,
         porCategoria |-> IF s.revenue > 0 THEN MonthRevenueByCategory(ledger, m) ELSE <<>>,
         revenuePct  |-> IF goal.revenue > 0 THEN Progress(s.revenue, goal.revenue) ELSE Nobody,
         expensePct  |-> IF goal.expense > 0 THEN Progress(s.expense, goal.expense) ELSE Nobody]

ClampLimit(n) == IF n <= 0 THEN DefaultEntryLimit
                 ELSE IF n > MaxEntryLimit THEN MaxEntryLimit ELSE n

(* The order ListEntries returns, cut at a limit.                          *)
Latest(S, n) ==
    LET s == Sorted(S, LAMBDA x, y :
                 \/ EffectiveDate(x) > EffectiveDate(y)
                 \/ EffectiveDate(x) = EffectiveDate(y) /\ x.id > y.id)
    IN  IF n > 0 /\ Len(s) > n THEN SubSeq(s, 1, n) ELSE s

Bounded(q) == /\ q.from # Nobody /\ q.to # Nobody
              /\ q.to - q.from <= MaxAggregateSpan

(* Broken variant of QueryLimit: reads exactly a page.                     *)
QueryLimitExact(q) == IF Bounded(q) THEN 0 ELSE ClampLimit(q.limit)

(* A period is read whole; without one, one row past the limit.            *)
QueryLimit(q) == IF Bounded(q) THEN 0 ELSE ClampLimit(q.limit) + 1

Asked(ledger, q) == {e \in ledger : /\ q.from # Nobody => EffectiveDate(e) >= q.from
                                    /\ q.to # Nobody => EffectiveDate(e) <= q.to
                                    /\ q.status # Nobody => e.status = q.status
                                    /\ q.category # Nobody => e.category = q.category}

(* list_due_entries looks for what is pending unless it is told otherwise. *)
DueQuery(q) == [q EXCEPT !.status = IF @ \in Statuses THEN @ ELSE "pending",
                         !.category = Nobody]
SearchQuery(q) == [q EXCEPT !.status = Nobody]

(* listing: the rows, whether any were left out, and totals for a period.  *)
Listed(matched, all, limit, whole) ==
    LET cut == Len(matched) > limit
    IN  [entries    |-> IF cut THEN SubSeq(matched, 1, limit) ELSE matched,
         truncated  |-> cut,
         totals     |-> whole,
         omitted    |-> IF cut THEN Len(matched) - limit ELSE 0,
         expense    |-> IF whole THEN Total(Expenses(all)) ELSE Nobody,
         entradas   |-> IF whole THEN Total(Incomes(all)) ELSE Nobody,
         faturamento |-> IF whole THEN RevenueTotal(all) ELSE Nobody,
         byCategory |-> IF whole THEN FoldByCategory(all) ELSE <<>>,
         salesByCategory |-> IF whole /\ RevenueTotal(all) > 0
                             THEN RevenueByCategory(all) ELSE <<>>]

ListingOf(ledger, q) ==
    LET matched == Latest(Asked(ledger, q), QueryLimit(q))
    IN  Listed(matched, ToSet(matched),
               IF Bounded(q) THEN MaxRangeEntries ELSE ClampLimit(q.limit), Bounded(q))
=============================================================================
