---------------------------- MODULE BooksProofs ----------------------------
(***************************************************************************)
(* Theorems about what the readers of the books are told.                  *)
(***************************************************************************)
EXTENDS BooksReadings, Sums

-----------------------------------------------------------------------------
(* A total is a sum over the amounts.                                      *)
AmountsOf(S) == [e \in S |-> e.amount]
Priced(S)    == IsFiniteSet(S) /\ \A e \in S : e.amount \in Int

LEMMA TotalIsSum ==
  ASSUME NEW S, Priced(S)
  PROVE  Total(S) = SumOver(AmountsOf(S), S)
<1> DEFINE f == AmountsOf(S)
           Fold(g) == g = [s \in SUBSET S |->
                             IF s = {} THEN 0
                             ELSE Amount(CHOOSE x \in s : TRUE) + g[s \ {CHOOSE x \in s : TRUE}]]
<1>1. \A x \in S : f[x] \in Int /\ f[x] = Amount(x)
  BY DEF AmountsOf, Priced, Amount
<1>2. IsFiniteSet(S)
  BY DEF Priced
<1> HIDE DEF f
<1>3. ASSUME NEW s \in SUBSET S, NEW g
      PROVE  Adds(f, s, g) = IF s = {} THEN 0
                ELSE Amount(CHOOSE x \in s : TRUE) + g[s \ {CHOOSE x \in s : TRUE}]
  <2>1. s # {} => f[CHOOSE x \in s : TRUE] = Amount(CHOOSE x \in s : TRUE)
    BY <1>1
  <2> QED
    BY <2>1 DEF Adds, First
<1>4. ASSUME NEW g
      PROVE  Fold(g) <=> Counted(f, S, g)
  BY <1>3 DEF Counted
<1>5. PICK h : Counted(f, S, h)
  BY <1>1, <1>2, SumsExist
<1> HIDE DEF Fold
<1>6. Fold(CHOOSE g : Fold(g))
  <2>1. \E g : Fold(g)
    BY <1>4, <1>5
  <2> QED
    BY <2>1
<1>7. Counted(f, S, CHOOSE g : Fold(g))
  BY <1>4, <1>6
<1>8. (CHOOSE g : Fold(g))[S] = SumOver(f, S)
  BY <1>1, <1>2, <1>7, SumIsCounted
<1>9. Total(S) = (CHOOSE g : Fold(g))[S]
  BY DEF Total, MapThenSumSet, MapThenFoldSet, Fold
<1> QED
  BY <1>8, <1>9 DEF f

LEMMA TotalIsAnInteger ==
  ASSUME NEW S, Priced(S)
  PROVE  Total(S) \in Int
<1>1. \A e \in S : AmountsOf(S)[e] \in Int
  BY DEF Priced, AmountsOf
<1> QED
  BY <1>1, TotalIsSum, SumIsAnInteger DEF Priced

(* The total of two sets that share nothing.                               *)
LEMMA TotalOfBoth ==
  ASSUME NEW S, NEW R, Priced(S), Priced(R), S \cap R = {}
  PROVE  Priced(S \cup R) /\ Total(S \cup R) = Total(S) + Total(R)
<1> DEFINE f == AmountsOf(S \cup R)
<1>1. IsFiniteSet(S) /\ IsFiniteSet(R) /\ IsFiniteSet(S \cup R)
  BY FS_Union DEF Priced
<1>2. Priced(S \cup R)
  BY <1>1 DEF Priced
<1>3. /\ \A e \in S \cup R : f[e] \in Int
      /\ \A e \in S : AmountsOf(S)[e] = f[e]
      /\ \A e \in R : AmountsOf(R)[e] = f[e]
  BY <1>2 DEF Priced, AmountsOf
<1>4. Total(S) = SumOver(f, S)
  <2>1. SumOver(AmountsOf(S), S) = SumOver(f, S)
    BY <1>1, <1>3, SameSum
  <2> QED
    BY <2>1, TotalIsSum
<1>5. Total(R) = SumOver(f, R)
  <2>1. SumOver(AmountsOf(R), R) = SumOver(f, R)
    BY <1>1, <1>3, SameSum
  <2> QED
    BY <2>1, TotalIsSum
<1>6. Total(S \cup R) = SumOver(f, S \cup R)
  BY <1>2, TotalIsSum
<1>7. SumOver(f, S \cup R) = SumOver(f, S) + SumOver(f, R)
  BY <1>1, <1>3, SumOfBoth
<1> QED
  BY <1>2, <1>4, <1>5, <1>6, <1>7

LEMMA TotalOfOne ==
  ASSUME NEW e, e.amount \in Int
  PROVE  Priced({e}) /\ Total({e}) = e.amount
<1>1. IsFiniteSet({e})
  BY FS_Singleton
<1>2. Priced({e}) /\ \A x \in {e} : AmountsOf({e})[x] \in Int
  BY <1>1 DEF Priced, AmountsOf
<1>3. SumOver(AmountsOf({e}), {e}) = AmountsOf({e})[e] + SumOver(AmountsOf({e}), {e} \ {e})
  BY <1>1, <1>2, SumLess
<1>4. {e} \ {e} = {} /\ AmountsOf({e})[e] = e.amount
  BY DEF AmountsOf
<1>5. SumOver(AmountsOf({e}), {}) = 0
  BY SumOfNothing
<1> QED
  BY <1>2, <1>3, <1>4, <1>5, TotalIsSum

-----------------------------------------------------------------------------
(* The calendar.  Months follow one another, so a day is in at most one.   *)

LEMMA MonthsAreNumbered ==
  /\ Months = 1 .. Len(MonthLengths) /\ Len(MonthLengths) \in Nat \ {0}
  /\ \A m \in Months : MonthLengths[m] \in Nat \ {0}
BY MonthsAssumption DEF Months

FirstOf(f, m) == IF m = 1 THEN 1 ELSE f[m - 1] + MonthLengths[m - 1]
Reaches(n)    == \E f \in [Months -> Int] : \A m \in Months : m <= n => f[m] = FirstOf(f, m)

LEMMA CalendarUpTo ==
  ASSUME NEW n \in Nat
  PROVE  Reaches(n)
<1> DEFINE T == {k \in Nat : ~Reaches(k)}
<1>1. Reaches(0)
  <2>1. [m \in Months |-> 0] \in [Months -> Int]
    OBVIOUS
  <2>2. \A m \in Months : ~(m <= 0)
    BY MonthsAreNumbered
  <2> QED
    BY <2>1, <2>2 DEF Reaches
<1>2. ASSUME NEW k \in Nat, Reaches(k)
      PROVE  Reaches(k + 1)
  <2>1. PICK f \in [Months -> Int] : \A m \in Months : m <= k => f[m] = FirstOf(f, m)
    BY <1>2 DEF Reaches
  <2> DEFINE g == [m \in Months |-> IF m <= k THEN f[m] ELSE FirstOf(f, m)]
  <2>2. ASSUME NEW m \in Months
        PROVE  FirstOf(f, m) \in Int
    <3>1. m # 1 => m - 1 \in Months
      BY MonthsAreNumbered
    <3>2. m # 1 => f[m - 1] \in Int /\ MonthLengths[m - 1] \in Int
      BY <3>1, MonthsAreNumbered
    <3> QED
      BY <3>2 DEF FirstOf
  <2>3. g \in [Months -> Int]
    BY <2>2
  <2>4. ASSUME NEW m \in Months, m <= k + 1
        PROVE  g[m] = FirstOf(g, m)
    <3>1. g[m] = FirstOf(f, m)
      BY <2>1
    <3>2. m # 1 => m - 1 \in Months /\ m - 1 <= k
      BY <2>4, MonthsAreNumbered
    <3>3. m # 1 => g[m - 1] = f[m - 1]
      BY <3>2
    <3> HIDE DEF g
    <3> QED
      BY <3>1, <3>3 DEF FirstOf
  <2> HIDE DEF g
  <2> QED
    BY <2>3, <2>4 DEF Reaches
<1>3. T = {}
  <2>1. SUFFICES ASSUME T # {} PROVE FALSE
    OBVIOUS
  <2>2. PICK k \in T : \A j \in T : k <= j
    BY <2>1, LeastNatural
  <2>3. k \in Nat /\ ~Reaches(k) /\ k # 0
    BY <1>1
  <2>4. k - 1 \in Nat /\ ~(k <= k - 1) /\ (k - 1) + 1 = k
    BY <2>3
  <2>5. Reaches(k - 1)
    BY <2>2, <2>4
  <2>6. Reaches((k - 1) + 1)
    BY <2>4, <2>5, <1>2
  <2> QED
    BY <2>3, <2>4, <2>6
<1> QED
  BY <1>3

(* What the recursive definition says.                                     *)
LEMMA FirstDays ==
  /\ FirstDay \in [Months -> Int]
  /\ \A m \in Months : FirstDay[m] = FirstOf(FirstDay, m)
<1> DEFINE Q(f) == f = [m \in Months |-> IF m = 1 THEN 1 ELSE f[m - 1] + MonthLengths[m - 1]]
<1>1. \E f \in [Months -> Int] : Q(f)
  <2>1. PICK n \in Nat : \A m \in Months : m <= n
    <3>1. Len(MonthLengths) \in Nat /\ \A m \in Months : m <= Len(MonthLengths)
      BY MonthsAreNumbered
    <3> QED
      BY <3>1
  <2>2. Reaches(n)
    BY CalendarUpTo
  <2>3. PICK f \in [Months -> Int] : \A m \in Months : f[m] = FirstOf(f, m)
    BY <2>1, <2>2 DEF Reaches
  <2>4. f = [m \in Months |-> FirstOf(f, m)]
    BY <2>3
  <2> QED
    BY <2>4 DEF FirstOf
<1>2. FirstDay = CHOOSE f : Q(f)
  BY DEF FirstDay
<1> HIDE DEF Q
<1>3. Q(FirstDay)
  BY <1>1, <1>2
<1>4. \A m \in Months : FirstDay[m] = FirstOf(FirstDay, m)
  BY <1>3 DEF Q, FirstOf
<1>5. DOMAIN FirstDay = Months /\ FirstDay = [m \in Months |-> FirstDay[m]]
  BY <1>3 DEF Q
<1>6. ASSUME NEW m \in Months
      PROVE  FirstDay[m] \in Int
  <2> DEFINE T == {k \in Months : FirstDay[k] \notin Int}
  <2>1. SUFFICES ASSUME FirstDay[m] \notin Int PROVE FALSE
    OBVIOUS
  <2>2. T \in SUBSET Nat /\ T # {}
    BY <2>1, MonthsAreNumbered
  <2>3. PICK k \in T : \A j \in T : k <= j
    BY <2>2, LeastNatural
  <2>4. k \in Months /\ FirstDay[k] \notin Int
    OBVIOUS
  <2>5. k # 1
    BY <1>4, <2>4 DEF FirstOf
  <2>6. k - 1 \in Months /\ ~(k <= k - 1)
    BY <2>4, <2>5, MonthsAreNumbered
  <2>7. FirstDay[k - 1] \in Int
    BY <2>3, <2>6
  <2>8. MonthLengths[k - 1] \in Int
    BY <2>6, MonthsAreNumbered
  <2>9. FirstDay[k] = FirstDay[k - 1] + MonthLengths[k - 1]
    BY <1>4, <2>4, <2>5 DEF FirstOf
  <2> QED
    BY <2>4, <2>7, <2>8, <2>9
<1> QED
  BY <1>4, <1>5, <1>6

LEMMA NextMonth ==
  ASSUME NEW m \in Months
  PROVE  /\ FirstDay[m] \in Int /\ LastDay(m) \in Int /\ FirstDay[m] <= LastDay(m)
         /\ m = 1 => FirstDay[m] = 1
         /\ m # 1 => m - 1 \in Months /\ FirstDay[m] = LastDay(m - 1) + 1
<1>1. FirstDay[m] \in Int /\ FirstDay[m] = FirstOf(FirstDay, m)
  BY FirstDays
<1>2. MonthLengths[m] \in Nat \ {0}
  BY MonthsAreNumbered
<1>3. m # 1 => m - 1 \in Months
  BY MonthsAreNumbered
<1>4. m # 1 => FirstDay[m - 1] \in Int /\ MonthLengths[m - 1] \in Nat
  BY <1>3, FirstDays, MonthsAreNumbered
<1> QED
  BY <1>1, <1>2, <1>3, <1>4 DEF FirstOf, LastDay

(* An earlier month ends before a later one begins.                        *)
LEMMA MonthsFollow ==
  ASSUME NEW j \in Months, NEW k \in Months, j < k
  PROVE  LastDay(j) < FirstDay[k]
<1> DEFINE T == {i \in Months : j < i /\ ~(LastDay(j) < FirstDay[i])}
<1>1. SUFFICES ASSUME ~(LastDay(j) < FirstDay[k]) PROVE FALSE
  OBVIOUS
<1>2. T \in SUBSET Nat /\ T # {}
  BY <1>1, MonthsAreNumbered
<1>3. PICK i \in T : \A h \in T : i <= h
  BY <1>2, LeastNatural
<1>4. i \in Months /\ j < i /\ ~(LastDay(j) < FirstDay[i])
  OBVIOUS
<1>5. i \in Nat /\ j \in Nat /\ i # 1 /\ ~(i <= i - 1)
  BY <1>4, MonthsAreNumbered
<1>6. i - 1 \in Months /\ FirstDay[i] = LastDay(i - 1) + 1
  BY <1>4, <1>5, NextMonth
<1>7. LastDay(i - 1) \in Int /\ FirstDay[i - 1] \in Int /\ FirstDay[i - 1] <= LastDay(i - 1)
      /\ LastDay(j) \in Int
  BY <1>6, NextMonth
<1>8. CASE i - 1 = j
  BY <1>4, <1>6, <1>7, <1>8
<1>9. CASE i - 1 # j
  <2>1. j < i - 1
    BY <1>4, <1>5, <1>9
  <2>2. i - 1 \notin T
    BY <1>3, <1>5
  <2>3. LastDay(j) < FirstDay[i - 1]
    BY <1>6, <2>1, <2>2
  <2> QED
    BY <1>4, <1>6, <1>7, <2>3
<1> QED
  BY <1>8, <1>9

LEMMA MonthIs ==
  ASSUME NEW m \in Months, NEW day \in DaysOf(m)
  PROVE  MonthOf(day) = m
<1>1. ASSUME NEW k \in Months, day \in DaysOf(k), k # m
      PROVE  FALSE
  <2>1. k \in Nat /\ m \in Nat
    BY MonthsAreNumbered
  <2>2. k < m \/ m < k
    BY <1>1, <2>1
  <2>3. LastDay(k) < FirstDay[m] \/ LastDay(m) < FirstDay[k]
    BY <2>2, MonthsFollow
  <2>4. /\ FirstDay[k] \in Int /\ LastDay(k) \in Int
        /\ FirstDay[m] \in Int /\ LastDay(m) \in Int
    BY NextMonth
  <2> QED
    BY <1>1, <2>3, <2>4 DEF DaysOf
<1> QED
  BY <1>1 DEF MonthOf

LEMMA MonthsBeginAtOne ==
  ASSUME NEW m \in Months
  PROVE  FirstDay[m] >= 1
<1>1. 1 \in Months /\ m \in Nat /\ m >= 1
  BY MonthsAreNumbered
<1>2. FirstDay[1] = 1 /\ FirstDay[m] \in Int /\ LastDay(1) \in Int /\ 1 <= LastDay(1)
  BY <1>1, NextMonth
<1>3. CASE m = 1
  BY <1>2, <1>3
<1>4. CASE m # 1
  <2>1. LastDay(1) < FirstDay[m]
    BY <1>1, <1>4, MonthsFollow
  <2> QED
    BY <1>2, <2>1
<1> QED
  BY <1>3, <1>4

-----------------------------------------------------------------------------
(* What a new entry cannot move.  Whatever reads sales only is blind to an *)
(* entry that is no sale, whatever reads expenses only to an income.       *)

LEMMA ProjectionRatesSeeSales ==
  ASSUME NEW L, NEW K, Sales(K) = Sales(L), NEW from, NEW to
  PROVE  ProjectionRates(K, from, to) = ProjectionRates(L, from, to)
<1>1. Sales(Within(K, "transaction", from, to)) = Sales(Within(L, "transaction", from, to))
  BY DEF Sales, Within
<1> QED
  BY <1>1 DEF ProjectionRates

LEMMA MonthSalesSeeSales ==
  ASSUME NEW L, NEW K, Sales(K) = Sales(L), NEW m, NEW basis
  PROVE  Sales(MonthEntries(K, m, basis)) = Sales(MonthEntries(L, m, basis))
BY DEF Sales, MonthEntries, Within

LEMMA WeekSeesSales ==
  ASSUME NEW S, NEW R, Sales(S) = Sales(R), NEW day
  PROVE  BuildWeekComparison(S, day) = BuildWeekComparison(R, day)
<1>1. ASSUME NEW from, NEW to
      PROVE  RevenueTotal({e \in S : e.date \in from..to}) = RevenueTotal({e \in R : e.date \in from..to})
  <2>1. Sales({e \in S : e.date \in from..to}) = Sales({e \in R : e.date \in from..to})
    BY DEF Sales
  <2> QED
    BY <2>1 DEF RevenueTotal
<1> QED
  BY <1>1 DEF BuildWeekComparison

(* The month's turnover, as the summaries have it.                         *)
LEMMA TurnoverOfTheMonth ==
  ASSUME NEW L, NEW K, Sales(K) = Sales(L), NEW ms, NEW m \in ms
  PROVE  MultiMonthlySummary(K, ms)[m].revenue = MultiMonthlySummary(L, ms)[m].revenue
<1> DEFINE Share(S) == {e \in Within(S, "transaction", FirstDay[Min(ms)], LastDay(Max(ms))) :
                           MonthOf(BasisDate("transaction", e)) = m}
<1>1. Sales(Share(K)) = Sales(Share(L))
  BY DEF Sales, Within
<1>2. MultiMonthlySummary(K, ms)[m].revenue = RevenueTotal(Share(K))
  BY DEF MultiMonthlySummary, Summary
<1>3. MultiMonthlySummary(L, ms)[m].revenue = RevenueTotal(Share(L))
  BY DEF MultiMonthlySummary, Summary
<1> QED
  BY <1>1, <1>2, <1>3 DEF RevenueTotal

(* The parts of an analysis.                                               *)
Spent(L, m, day) ==
    Total(Expenses(Arrived(Read(L, m), NewMonthClock(m, day)).cash))

ActualSales(L, m, day) ==
    RevenueTotal(Arrived(Read(L, m), NewMonthClock(m, day)).sales)

SalesOfToday(L, m, day) ==
    RevenueTotal({e \in Read(L, m).sales : DayOfMonth(e.date) = NewMonthClock(m, day).today})

RatesAt(L, c) == ProjectionRates(L, WindowStart(c), WindowEnd(c))

ProjectionOf(L, g, m, day) ==
    BuildProjection(RatesAt(L, NewMonthClock(m, day)), ActualSales(L, m, day),
                    GoalOf(g, m).revenue, NewMonthClock(m, day), SalesOfToday(L, m, day))

Previous(L, m) == IF m - 1 \in Months THEN Read(L, m - 1) ELSE NoRead
Compared(L, m, day) == BuildComparison(NewMonthClock(m, day), Read(L, m), Previous(L, m))

LEMMA PartsOfAnAnalysis ==
  ASSUME NEW L, NEW g, NEW m, NEW day
  PROVE  LET a == Assemble(L, g, m, day)
             c == NewMonthClock(m, day)
             arrived == Arrived(Read(L, m), c)
         IN  /\ a.month = m
             /\ a.projection = ProjectionOf(L, g, m, day)
             /\ a.week = BuildWeekComparison(Read(L, m).sales, day)
             /\ a.weekdays = RatesAt(L, c)
             /\ a.compared = Compared(L, m, day)
             /\ a.trends = BuildTrends(Compared(L, m, day))
             /\ a.revenues = RevenueComposition(Read(L, m).sales)
             /\ a.expenses = ExpenseComposition(arrived.cash)
             /\ a.goals = GoalProgress(GoalOf(g, m), c, a.projection.p.actual, Spent(L, m, day))
             /\ a.kpis.faturamento = MultiMonthlySummary(L, MonthRange(m))[m].revenue
             /\ a.kpis.despesa = Spent(L, m, day)
             /\ a.kpis.resultado = Net(arrived.cash)
             /\ a.health = BuildHealth(Read(L, m), a.compared, a.trends, a.week, a.projection)
BY DEF Assemble, Input, Build, Built, Spent, ActualSales, SalesOfToday, RatesAt, ProjectionOf,
       Previous, Compared

-----------------------------------------------------------------------------
(* The books.  An analysis is always the one of the ledger as it is.       *)
BooksInv ==
    /\ ledger \subseteq Entry /\ IsFiniteSet(ledger)
    /\ now \in FirstNow..LastNow
    /\ view = Assemble(ledger, goals, MonthOf(now), now)
    /\ past = Assemble(ledger, goals, MonthOf(now) - 1, now)

LEMMA ThisMonth ==
  ASSUME NEW day \in FirstNow..LastNow
  PROVE  /\ day \in Int /\ day >= 1 /\ day \in Days
         /\ MonthOf(day) \in Months /\ day \in DaysOf(MonthOf(day))
         /\ MonthOf(day) \in MonthRange(MonthOf(day))
<1>1. day \in Days /\ \E m \in Months : day \in DaysOf(m)
  BY BooksAssumption
<1>2. MonthOf(day) \in Months /\ day \in DaysOf(MonthOf(day))
  BY <1>1 DEF MonthOf
<1>3. MonthOf(day) \in MonthRange(MonthOf(day))
  BY <1>2, MonthsAreNumbered, BooksAssumption DEF MonthRange
<1> QED
  BY <1>1, <1>2, <1>3, BooksAssumption

LEMMA NormalizedIsAnEntry ==
  ASSUME NEW e \in Entry
  PROVE  /\ Normalize(e) \in Entry
         /\ Normalize(e).date = e.date /\ Normalize(e).amount = e.amount
<1> DEFINE pay    == IF e.status = "pending" THEN Nobody
                     ELSE IF e.status = "paid" /\ e.pay = Nobody THEN e.date ELSE e.pay
           method == IF e.status = "pending" THEN Nobody ELSE e.method
           origin == IF e.type = "expense" THEN Nobody ELSE e.origin
           n      == [e EXCEPT !.pay = pay, !.method = method, !.origin = origin]
<1>1. Normalize(e) = n
  BY DEF Normalize
<1>2. pay \in Days \cup {Nobody} /\ method \in Methods \cup {Nobody} /\ origin \in Origins \cup {Nobody}
  BY DEF Entry
<1> HIDE DEF pay, method, origin
<1>3. n \in Entry
  BY <1>2 DEF Entry
<1>4. n.date = e.date /\ n.amount = e.amount
  BY DEF Entry
<1> HIDE DEF n
<1> QED
  BY <1>1, <1>3, <1>4

LEMMA RegisteredIsAnEntry ==
  ASSUME NEW item \in Menu, NEW day \in FirstNow..LastNow, NEW id \in Nat
  PROVE  /\ Registered(item, day, id) \in Entry
         /\ Registered(item, day, id).date = day
         /\ Registered(item, day, id).amount = item.amount
<1>1. item \in Items /\ day \in Days /\ day + item.delay \in Days
  BY BooksAssumption
<1> DEFINE u == IF item.delay = 0 THEN Nobody ELSE day + item.delay
           s == IF item.delay = 0 THEN "paid" ELSE "pending"
           d == [id |-> id, type |-> item.type, origin |-> item.origin,
                 amount |-> item.amount, category |-> item.category, date |-> day,
                 due |-> u, status |-> s, pay |-> Nobody, method |-> Nobody]
<1>2. Registered(item, day, id) = Normalize(d)
  BY DEF Registered
<1>3. u \in Days \cup {Nobody} /\ s \in Statuses
  BY <1>1 DEF Statuses
<1> HIDE DEF u, s
<1>4. d \in Entry
  BY <1>1, <1>3 DEF Entry, Items
<1>5. d.date = day /\ d.amount = item.amount
  OBVIOUS
<1> HIDE DEF d
<1> QED
  BY <1>2, <1>4, <1>5, NormalizedIsAnEntry

LEMMA SettledIsAnEntry ==
  ASSUME NEW e \in Entry, NEW day \in Days
  PROVE  [e EXCEPT !.status = "paid", !.pay = day] \in Entry
BY DEF Entry, Statuses

LEMMA BooksStart == BooksInit => BooksInv
BY BooksAssumption DEF BooksInit, BooksInv

LEMMA BooksStep == BooksInv /\ [BooksNext]_vars => BooksInv'
<1> SUFFICES ASSUME BooksInv, [BooksNext]_vars PROVE BooksInv'
  OBVIOUS
<1>1. CASE UNCHANGED vars
  BY <1>1 DEF BooksInv, vars
<1>2. ASSUME BooksNext PROVE BooksInv'
  <2>1. /\ view' = Assemble(ledger', goals', MonthOf(now'), now')
        /\ past' = Assemble(ledger', goals', MonthOf(now') - 1, now')
    BY <1>2 DEF BooksNext, Assembled
  <2>2. ASSUME NEW item \in Menu, Register(item)
        PROVE  ledger' \subseteq Entry /\ IsFiniteSet(ledger') /\ now' \in FirstNow..LastNow
    <3>1. Cardinality(ledger) + 1 \in Nat
      BY FS_CardinalityType DEF BooksInv
    <3>2. Registered(item, now, Cardinality(ledger) + 1) \in Entry
      BY <3>1, RegisteredIsAnEntry DEF BooksInv
    <3> QED
      BY <2>2, <3>2, FS_AddElement DEF Register, BooksInv
  <2>3. ASSUME NEW e \in ledger, Settle(e)
        PROVE  ledger' \subseteq Entry /\ IsFiniteSet(ledger') /\ now' \in FirstNow..LastNow
    <3>1. e \in Entry /\ now \in Days
      BY ThisMonth DEF BooksInv
    <3> DEFINE x == [e EXCEPT !.status = "paid", !.pay = now]
    <3>2. x \in Entry
      BY <3>1, SettledIsAnEntry
    <3>3. ledger' = (ledger \ {e}) \cup {x} /\ now' = now
      BY <2>3 DEF Settle
    <3> HIDE DEF x
    <3>4. IsFiniteSet((ledger \ {e}) \cup {x})
      BY FS_RemoveElement, FS_AddElement DEF BooksInv
    <3> QED
      BY <3>2, <3>3, <3>4 DEF BooksInv
  <2>4. ASSUME NextDay
        PROVE  ledger' \subseteq Entry /\ IsFiniteSet(ledger') /\ now' \in FirstNow..LastNow
    BY <2>4, BooksAssumption DEF NextDay, BooksInv
  <2> QED
    BY <1>2, <2>1, <2>2, <2>3, <2>4 DEF BooksNext, BooksInv
<1> QED
  BY <1>1, <1>2

LEMMA BooksAreKept == BooksSpec => []BooksInv
<1> QED
  BY BooksStart, BooksStep, PTL DEF BooksSpec

(* The only step that leaves the ledger larger enters one entry.           *)
LEMMA OnlyRegisteringAdds ==
  ASSUME BooksInv, [BooksNext]_vars, now' = now, Cardinality(ledger') > Cardinality(ledger)
  PROVE  \E r \in Entry \ ledger : /\ ledger' = ledger \cup {r} /\ New = {r}
                                   /\ r.date = now /\ goals' = goals
<1>1. BooksNext
  <2>1. CASE UNCHANGED vars
    <3>1. Cardinality(ledger) \in Nat /\ ledger' = ledger
      BY <2>1, FS_CardinalityType DEF BooksInv, vars
    <3> QED
      BY <3>1
  <2> QED
    BY <2>1
<1>2. ~NextDay
  <2>1. now \in Int
    BY ThisMonth DEF BooksInv
  <2> QED
    BY <2>1 DEF NextDay
<1>3. ASSUME NEW e \in ledger, Settle(e)
      PROVE  FALSE
  <2> DEFINE x == [e EXCEPT !.status = "paid", !.pay = now]
  <2>1. ledger' = (ledger \ {e}) \cup {x}
    BY <1>3 DEF Settle
  <2> HIDE DEF x
  <2>2. IsFiniteSet(ledger)
    BY DEF BooksInv
  <2>3. /\ IsFiniteSet(ledger \ {e}) /\ Cardinality(ledger \ {e}) \in Nat
        /\ Cardinality(ledger) = Cardinality(ledger \ {e}) + 1
    BY <2>2, OneLess
  <2>4. Cardinality((ledger \ {e}) \cup {x}) <= Cardinality(ledger \ {e}) + 1
    BY <2>3, FS_AddElement
  <2>5. ledger' = ledger \/ Cardinality(ledger') \in Nat
    BY <2>1, <2>3, FS_AddElement, FS_CardinalityType
  <2> QED
    BY <2>1, <2>3, <2>4, <2>5
<1>4. PICK item \in Menu : Register(item)
  BY <1>1, <1>2, <1>3 DEF BooksNext
<1> DEFINE r == Registered(item, now, Cardinality(ledger) + 1)
<1>5. r \in Entry /\ r.date = now
  <2>1. Cardinality(ledger) + 1 \in Nat
    BY FS_CardinalityType DEF BooksInv
  <2> QED
    BY <2>1, RegisteredIsAnEntry DEF BooksInv
<1>6. ledger' = ledger \cup {r} /\ goals' = goals
  BY <1>4 DEF Register
<1> HIDE DEF r
<1>7. r \notin ledger
  <2>1. SUFFICES ASSUME r \in ledger PROVE FALSE
    OBVIOUS
  <2>2. ledger' = ledger
    BY <1>6, <2>1
  <2>3. Cardinality(ledger) \in Nat
    BY FS_CardinalityType DEF BooksInv
  <2> QED
    BY <2>2, <2>3
<1>8. New = {r}
  BY <1>6, <1>7 DEF New
<1> QED
  BY <1>5, <1>6, <1>7, <1>8

-----------------------------------------------------------------------------
(* An entry that is no sale.                                               *)

LEMMA ActualSeesSales ==
  ASSUME NEW L, NEW K, Sales(K) = Sales(L), NEW m, NEW day, NEW n
  PROVE  /\ RevenueTotal(SalesThrough(Read(K, m), n)) = RevenueTotal(SalesThrough(Read(L, m), n))
         /\ ActualSales(K, m, day) = ActualSales(L, m, day)
         /\ SalesOfToday(K, m, day) = SalesOfToday(L, m, day)
<1>1. Sales(Read(K, m).sales) = Sales(Read(L, m).sales)
  BY MonthSalesSeeSales DEF Read
<1>2. ASSUME NEW k
      PROVE  RevenueTotal(SalesThrough(Read(K, m), k)) = RevenueTotal(SalesThrough(Read(L, m), k))
  <2>1. Sales(SalesThrough(Read(K, m), k)) = Sales(SalesThrough(Read(L, m), k))
    BY <1>1 DEF Sales, SalesThrough
  <2> QED
    BY <2>1 DEF RevenueTotal
<1>3. ActualSales(K, m, day) = ActualSales(L, m, day)
  BY <1>2 DEF ActualSales, Arrived
<1>4. SalesOfToday(K, m, day) = SalesOfToday(L, m, day)
  <2> DEFINE t == NewMonthClock(m, day).today
             On(S) == {e \in S : DayOfMonth(e.date) = t}
  <2>1. Sales(On(Read(K, m).sales)) = Sales(On(Read(L, m).sales))
    BY <1>1 DEF Sales
  <2> QED
    BY <2>1 DEF SalesOfToday, RevenueTotal
<1> QED
  BY <1>2, <1>3, <1>4

LEMMA ProjectionSeesSales ==
  ASSUME NEW L, NEW K, Sales(K) = Sales(L), NEW g, NEW m, NEW day
  PROVE  ProjectionOf(K, g, m, day) = ProjectionOf(L, g, m, day)
BY ActualSeesSales, ProjectionRatesSeeSales DEF ProjectionOf, RatesAt

LEMMA RevenuesSeeSales ==
  ASSUME NEW L, NEW K, Sales(K) = Sales(L), NEW m, NEW day
  PROVE  /\ RevenueComposition(Read(K, m).sales) = RevenueComposition(Read(L, m).sales)
         /\ BuildWeekComparison(Read(K, m).sales, day) = BuildWeekComparison(Read(L, m).sales, day)
<1>1. Sales(Read(K, m).sales) = Sales(Read(L, m).sales)
  BY MonthSalesSeeSales DEF Read
<1> QED
  BY <1>1, WeekSeesSales DEF RevenueComposition

LEMMA TrendSeesSales ==
  ASSUME NEW L, NEW K, Sales(K) = Sales(L), NEW m, NEW day
  PROVE  BuildTrends(Compared(K, m, day)).faturamento = BuildTrends(Compared(L, m, day)).faturamento
<1> DEFINE c == NewMonthClock(m, day)
           w == ComparableThrough(c)
<1>1. TotalsThrough(Read(K, m), w).revenue = TotalsThrough(Read(L, m), w).revenue
  BY ActualSeesSales DEF TotalsThrough, Totals
<1>2. TotalsThrough(Previous(K, m), w).revenue = TotalsThrough(Previous(L, m), w).revenue
  BY ActualSeesSales DEF TotalsThrough, Totals, Previous
<1>3. Compared(K, m, day).clock = c /\ Compared(L, m, day).clock = c
  BY DEF Compared, BuildComparison
<1>4. /\ Compared(K, m, day).current.revenue = Compared(L, m, day).current.revenue
      /\ Compared(K, m, day).previous.revenue = Compared(L, m, day).previous.revenue
  BY <1>1, <1>2 DEF Compared, BuildComparison
<1> QED
  BY <1>3, <1>4 DEF BuildTrends

(* What a loan brings is no expense either.                                *)
LEMMA LoanLeavesTheRest ==
  ASSUME NEW L, NEW r, IsIncome(r), r.origin # "venda", NEW K, K = L \cup {r}, NEW m, NEW day
  PROVE  /\ Sales(K) = Sales(L)
         /\ Spent(K, m, day) = Spent(L, m, day)
<1>1. Sales(K) = Sales(L)
  BY DEF Sales, IsRevenue
<1>2. Expenses(K) = Expenses(L)
  BY DEF Expenses
<1> DEFINE n == Elapsed(NewMonthClock(m, day))
<1>3. Expenses(CashThrough(Read(K, m), n)) = Expenses(CashThrough(Read(L, m), n))
  BY <1>2 DEF Expenses, CashThrough, Read, MonthEntries, Within
<1> QED
  BY <1>1, <1>3 DEF Spent, Arrived

LEMMA LoanMeans ==
  ASSUME BooksInv, BooksInv', [BooksNext]_vars,
         Registers(LAMBDA e : IsIncome(e) /\ e.origin # "venda")
  PROVE  /\ view'.projection = view.projection
         /\ view'.week = view.week
         /\ view'.goals = view.goals
         /\ view'.revenues = view.revenues
         /\ view'.trends.faturamento = view.trends.faturamento
         /\ view'.kpis.faturamento = view.kpis.faturamento
<1>1. now' = now /\ Cardinality(ledger') > Cardinality(ledger)
      /\ \A e \in New : IsIncome(e) /\ e.origin # "venda"
  BY DEF Registers
<1>2. PICK r \in Entry \ ledger : ledger' = ledger \cup {r} /\ New = {r} /\ goals' = goals
  BY <1>1, OnlyRegisteringAdds
<1>3. IsIncome(r) /\ r.origin # "venda"
  BY <1>1, <1>2
<1> DEFINE m == MonthOf(now)
<1>4. /\ view = Assemble(ledger, goals, m, now)
      /\ view' = Assemble(ledger', goals, m, now)
      /\ m \in MonthRange(m)
  BY <1>1, <1>2, ThisMonth DEF BooksInv
<1> HIDE DEF m
<1>5. /\ Sales(ledger') = Sales(ledger)
      /\ Spent(ledger', m, now) = Spent(ledger, m, now)
  BY <1>2, <1>3, LoanLeavesTheRest
<1>6. view'.projection = view.projection
  BY <1>4, <1>5, PartsOfAnAnalysis, ProjectionSeesSales
<1>7. view'.week = view.week /\ view'.revenues = view.revenues
  BY <1>4, <1>5, PartsOfAnAnalysis, RevenuesSeeSales
<1>8. view'.goals = view.goals
  <2>1. /\ view'.goals = GoalProgress(GoalOf(goals, m), NewMonthClock(m, now),
                                      view'.projection.p.actual, Spent(ledger', m, now))
        /\ view.goals = GoalProgress(GoalOf(goals, m), NewMonthClock(m, now),
                                     view.projection.p.actual, Spent(ledger, m, now))
    BY <1>4, PartsOfAnAnalysis
  <2> QED
    BY <1>5, <1>6, <2>1
<1>9. view'.trends.faturamento = view.trends.faturamento
  BY <1>4, <1>5, PartsOfAnAnalysis, TrendSeesSales
<1>10. view'.kpis.faturamento = view.kpis.faturamento
  BY <1>4, <1>5, PartsOfAnAnalysis, TurnoverOfTheMonth
<1> QED
  BY <1>6, <1>7, <1>8, <1>9, <1>10

(* A bill that is booked for a later day.                                  *)

LEMMA ClockOf ==
  ASSUME NEW m \in Months, NEW day \in DaysOf(m)
  PROVE  LET c == NewMonthClock(m, day)
             first == FirstDay[m]
         IN  /\ c.inProgress /\ c.first = first /\ first \in Int /\ first >= 1 /\ first <= day
             /\ c.today = day - first + 1 /\ c.through = day - first
             /\ c.total = MonthLengths[m] /\ c.today <= c.total
             /\ Elapsed(c) = c.today
             /\ WindowEnd(c) = day - 1
<1> DEFINE c == NewMonthClock(m, day)
<1>2. FirstDay[m] \in Int /\ FirstDay[m] >= 1 /\ LastDay(m) \in Int
  BY NextMonth, MonthsBeginAtOne
<1>1. day \in Int /\ day \in DaysOf(m)
  BY <1>2 DEF DaysOf
<1>3. FirstDay[m] <= day /\ day <= LastDay(m)
  BY <1>1, <1>2 DEF DaysOf
<1>4. MonthLengths[m] \in Int
  BY <1>1, MonthsAreNumbered
<1>5. LastDay(m) = FirstDay[m] + MonthLengths[m] - 1
  BY DEF LastDay
<1>6. /\ c.inProgress = TRUE /\ c.first = FirstDay[m] /\ c.today = day - FirstDay[m] + 1
      /\ c.through = day - FirstDay[m] + 1 - 1 /\ c.total = MonthLengths[m]
  <2> DEFINE today == day - FirstDay[m] + 1
             total == MonthLengths[m]
  <2>1. c = [inProgress |-> TRUE, through |-> today - 1, today |-> today,
             remaining |-> total - today + 1, total |-> total, first |-> FirstDay[m]]
    BY <1>1 DEF NewMonthClock, IsRunning
  <2> HIDE DEF c, today, total
  <2>2. c.inProgress = TRUE /\ c.first = FirstDay[m] /\ c.today = today /\ c.total = total
    BY <2>1
  <2>3. c.through = today - 1
    BY <2>1
  <2>4. c.today = day - FirstDay[m] + 1 /\ c.total = MonthLengths[m]
    BY <2>2 DEF today, total
  <2>5. c.through = day - FirstDay[m] + 1 - 1
    BY <1>1, <1>2, <2>3 DEF today
  <2> QED
    BY <2>2, <2>4, <2>5
<1> HIDE DEF c
<1>7. Elapsed(c) = c.today /\ WindowEnd(c) = c.first + c.through - 1
  BY <1>6 DEF Elapsed, WindowEnd
<1>8. c.through = day - FirstDay[m] /\ c.today <= c.total /\ WindowEnd(c) = day - 1
  BY <1>1, <1>2, <1>3, <1>4, <1>5, <1>6, <1>7
<1> QED
  BY <1>2, <1>3, <1>6, <1>7, <1>8 DEF c

LEMMA ClockOfToday ==
  ASSUME NEW day \in FirstNow..LastNow
  PROVE  LET c == NewMonthClock(MonthOf(day), day)
             first == FirstDay[MonthOf(day)]
         IN  /\ c.inProgress /\ c.first = first /\ first \in Int /\ first >= 1 /\ first <= day
             /\ c.today = day - first + 1 /\ c.through = day - first
             /\ c.total = MonthLengths[MonthOf(day)] /\ c.today <= c.total
             /\ Elapsed(c) = c.today
             /\ WindowEnd(c) = day - 1
BY ThisMonth, ClockOf

(* What is read of a month by one of its days.                             *)
LEMMA ReadOfTheMonth ==
  ASSUME NEW L, NEW m \in Months, NEW n \in Int
  PROVE  /\ CashThrough(Read(L, m), n) =
              {e \in L : LET d == EffectiveDate(e)
                         IN  d # Nobody /\ d \in DaysOf(m) /\ d <= FirstDay[m] + n - 1}
         /\ SalesThrough(Read(L, m), n) =
              {e \in L : e.date # Nobody /\ e.date \in DaysOf(m) /\ e.date <= FirstDay[m] + n - 1}
<1>1. FirstDay[m] \in Int /\ LastDay(m) \in Int
  BY NextMonth
<1>2. ASSUME NEW d \in FirstDay[m]..LastDay(m)
      PROVE  DayOfMonth(d) <= n <=> d <= FirstDay[m] + n - 1
  <2>1. MonthOf(d) = m
    BY MonthIs DEF DaysOf
  <2> QED
    BY <1>1, <2>1 DEF DayOfMonth
<1>3. /\ Read(L, m).cash = {e \in L : LET d == EffectiveDate(e)
                                      IN  d # Nobody /\ d \in FirstDay[m]..LastDay(m)}
      /\ Read(L, m).sales = {e \in L : e.date # Nobody /\ e.date \in FirstDay[m]..LastDay(m)}
  BY DEF Read, MonthEntries, Within, BasisDate, RevenueDate
<1> QED
  BY <1>2, <1>3 DEF CashThrough, SalesThrough, DaysOf, RevenueDate

LEMMA BookedIsAhead ==
  ASSUME NEW L, NEW day \in FirstNow..LastNow, NEW r, EffectiveDate(r) > day,
         NEW K, K = L \cup {r}, NEW m \in Months, m <= MonthOf(day),
         NEW n \in Int, n <= Elapsed(NewMonthClock(MonthOf(day), day)) \/ m < MonthOf(day)
  PROVE  CashThrough(Read(K, m), n) = CashThrough(Read(L, m), n)
<1> DEFINE today == MonthOf(day)
<1>1. today \in Months /\ day \in Int /\ FirstDay[today] \in Int /\ FirstDay[today] <= day
      /\ Elapsed(NewMonthClock(today, day)) = day - FirstDay[today] + 1
  BY ThisMonth, ClockOfToday
<1>2. FirstDay[m] \in Int /\ LastDay(m) \in Int
  BY NextMonth
<1>3. m < today => LastDay(m) < FirstDay[today]
  BY <1>1, MonthsFollow
<1>4. m \in Nat /\ today \in Nat
  BY <1>1, MonthsAreNumbered
<1>5. m < today \/ (m = today /\ n <= day - FirstDay[today] + 1)
  BY <1>1, <1>4
<1> HIDE DEF today
<1>6. ASSUME NEW d \in DaysOf(m), d <= FirstDay[m] + n - 1
      PROVE  d <= day
  BY <1>1, <1>2, <1>3, <1>5, <1>6 DEF DaysOf
<1>7. ASSUME EffectiveDate(r) \in DaysOf(m), EffectiveDate(r) <= FirstDay[m] + n - 1
      PROVE  FALSE
  <2>1. EffectiveDate(r) <= day
    BY <1>6, <1>7
  <2>2. EffectiveDate(r) \in Int
    BY <1>2, <1>7 DEF DaysOf
  <2> QED
    BY <1>1, <2>1, <2>2
<1> DEFINE Seen(e) == LET d == EffectiveDate(e)
                      IN  d # Nobody /\ d \in DaysOf(m) /\ d <= FirstDay[m] + n - 1
<1>8. ~Seen(r)
  BY <1>7
<1>9. CashThrough(Read(K, m), n) = {e \in K : Seen(e)} /\ CashThrough(Read(L, m), n) = {e \in L : Seen(e)}
  BY ReadOfTheMonth
<1> HIDE DEF Seen
<1> QED
  BY <1>8, <1>9

(* The health of a month looks at what moved on its finished days.         *)
LEMMA HealthSeesWhatMoved ==
  ASSUME NEW p, NEW q, NEW compared, NEW trends, NEW week, NEW projection,
         CashThrough(p, compared.clock.through) = CashThrough(q, compared.clock.through)
  PROVE  BuildHealth(p, compared, trends, week, projection)
           = BuildHealth(q, compared, trends, week, projection)
<1> DEFINE n == compared.clock.through
<1>1. MovedDays(p, n) = MovedDays(q, n) /\ BlueDays(p, n) = BlueDays(q, n)
  BY DEF MovedDays, BlueDays
<1>2. ClosedDayInsights(p, compared, trends) = ClosedDayInsights(q, compared, trends)
  BY <1>1 DEF ClosedDayInsights
<1> QED
  BY <1>2 DEF BuildHealth, Messages

LEMMA FinishedDays ==
  ASSUME NEW day \in FirstNow..LastNow
  PROVE  LET c == NewMonthClock(MonthOf(day), day)
         IN  /\ c.through \in Int /\ c.through >= 0 /\ c.through <= Elapsed(c)
             /\ Elapsed(c) \in Int
             /\ ComparableThrough(c) \in Int /\ ComparableThrough(c) <= Elapsed(c)
<1> DEFINE c == NewMonthClock(MonthOf(day), day)
           first == FirstDay[MonthOf(day)]
<1>1. /\ c.inProgress /\ first \in Int /\ first <= day /\ day \in Int
      /\ c.today = day - first + 1 /\ c.through = day - first /\ Elapsed(c) = c.today
  BY ClockOfToday, ThisMonth
<1> HIDE DEF c, first
<1>2. c.through \in Int /\ c.through >= 0 /\ Elapsed(c) = c.through + 1
  BY <1>1
<1>3. c.through % DaysInWeek \in Int /\ c.through % DaysInWeek >= 0
  BY <1>2, MonthsAssumption
<1>4. ComparableThrough(c) = c.through - (c.through % DaysInWeek)
  BY <1>1 DEF ComparableThrough
<1> QED
  BY <1>2, <1>3, <1>4 DEF c

LEMMA BookedBillMeans ==
  ASSUME BooksInv, BooksInv', [BooksNext]_vars,
         Registers(LAMBDA e : e.type = "expense" /\ EffectiveDate(e) > now)
  PROVE  /\ view'.kpis.despesa = view.kpis.despesa
         /\ view'.kpis.resultado = view.kpis.resultado
         /\ view'.health = view.health
         /\ view'.trends = view.trends
         /\ view'.expenses = view.expenses
         /\ view'.goals = view.goals
<1>1. now' = now /\ Cardinality(ledger') > Cardinality(ledger)
      /\ \A e \in New : e.type = "expense" /\ EffectiveDate(e) > now
  BY DEF Registers
<1>2. PICK r \in Entry \ ledger : ledger' = ledger \cup {r} /\ New = {r} /\ goals' = goals
  BY <1>1, OnlyRegisteringAdds
<1>3. r.type = "expense" /\ EffectiveDate(r) > now
  BY <1>1, <1>2
<1> DEFINE m == MonthOf(now)
           c == NewMonthClock(m, now)
           L == ledger
           K == ledger'
<1>4. /\ view = Assemble(L, goals, m, now)
      /\ view' = Assemble(K, goals, m, now)
  BY <1>1, <1>2 DEF BooksInv
<1>5. m \in Months /\ now \in FirstNow..LastNow
  BY ThisMonth DEF BooksInv
<1>6. Sales(K) = Sales(L)
  BY <1>2, <1>3 DEF Sales, IsRevenue
<1>7. /\ c.through \in Int /\ c.through <= Elapsed(c) /\ Elapsed(c) \in Int
      /\ ComparableThrough(c) \in Int /\ ComparableThrough(c) <= Elapsed(c)
  BY <1>5, FinishedDays
<1>8. K = L \cup {r} /\ EffectiveDate(r) > now
  BY <1>2, <1>3
<1>9. /\ CashThrough(Read(K, m), Elapsed(c)) = CashThrough(Read(L, m), Elapsed(c))
      /\ CashThrough(Read(K, m), c.through) = CashThrough(Read(L, m), c.through)
      /\ CashThrough(Read(K, m), ComparableThrough(c)) = CashThrough(Read(L, m), ComparableThrough(c))
  <2>1. m <= m /\ Elapsed(c) <= Elapsed(c)
    BY <1>5, <1>7, MonthsAreNumbered
  <2> QED
    BY <1>5, <1>7, <1>8, <2>1, BookedIsAhead
<1>10. CashThrough(Previous(K, m), ComparableThrough(c)) = CashThrough(Previous(L, m), ComparableThrough(c))
  <2>1. CASE m - 1 \in Months
    <3>1. m - 1 <= m /\ m - 1 < m
      BY <1>5, MonthsAreNumbered
    <3> DEFINE j == m - 1
    <3> HIDE DEF j
    <3>2. j \in Months /\ j <= m /\ j < m
      BY <2>1, <3>1 DEF j
    <3>3. CashThrough(Read(K, j), ComparableThrough(c)) = CashThrough(Read(L, j), ComparableThrough(c))
      BY <1>5, <1>7, <1>8, <3>2, BookedIsAhead
    <3> QED
      BY <2>1, <3>3 DEF Previous, j
  <2>2. CASE m - 1 \notin Months
    BY <2>2 DEF Previous
  <2> QED
    BY <2>1, <2>2
<1> HIDE DEF m, c, K, L
<1>11. ASSUME NEW n
       PROVE  /\ RevenueTotal(SalesThrough(Read(K, m), n)) = RevenueTotal(SalesThrough(Read(L, m), n))
              /\ RevenueTotal(SalesThrough(Previous(K, m), n)) = RevenueTotal(SalesThrough(Previous(L, m), n))
  BY <1>6, ActualSeesSales DEF Previous
<1>12. Compared(K, m, now) = Compared(L, m, now)
  <2>1. /\ TotalsThrough(Read(K, m), c.through) = TotalsThrough(Read(L, m), c.through)
        /\ TotalsThrough(Read(K, m), ComparableThrough(c)) = TotalsThrough(Read(L, m), ComparableThrough(c))
        /\ TotalsThrough(Previous(K, m), ComparableThrough(c)) = TotalsThrough(Previous(L, m), ComparableThrough(c))
    BY <1>9, <1>10, <1>11 DEF TotalsThrough, Totals
  <2> QED
    BY <2>1 DEF Compared, BuildComparison, c
<1>13. Spent(K, m, now) = Spent(L, m, now)
  BY <1>9 DEF Spent, Arrived, c
<1>14. view'.kpis.despesa = view.kpis.despesa
  BY <1>4, <1>13, PartsOfAnAnalysis
<1>15. view'.kpis.resultado = view.kpis.resultado /\ view'.expenses = view.expenses
  <2>1. /\ view'.kpis.resultado = Net(Arrived(Read(K, m), c).cash)
        /\ view.kpis.resultado = Net(Arrived(Read(L, m), c).cash)
        /\ view'.expenses = ExpenseComposition(Arrived(Read(K, m), c).cash)
        /\ view.expenses = ExpenseComposition(Arrived(Read(L, m), c).cash)
    BY <1>4, PartsOfAnAnalysis DEF c
  <2>2. Arrived(Read(K, m), c).cash = Arrived(Read(L, m), c).cash
    BY <1>9 DEF Arrived
  <2> QED
    BY <2>1, <2>2
<1>16. view'.trends = view.trends /\ view'.compared = view.compared
       /\ view.compared = Compared(L, m, now)
  BY <1>4, <1>12, PartsOfAnAnalysis
<1>17. view'.projection = view.projection
  BY <1>4, <1>6, PartsOfAnAnalysis, ProjectionSeesSales
<1>18. view'.week = view.week
  BY <1>4, <1>6, PartsOfAnAnalysis, RevenuesSeeSales
<1>19. view'.goals = view.goals
  <2>1. /\ view'.goals = GoalProgress(GoalOf(goals, m), NewMonthClock(m, now),
                                      view'.projection.p.actual, Spent(K, m, now))
        /\ view.goals = GoalProgress(GoalOf(goals, m), NewMonthClock(m, now),
                                     view.projection.p.actual, Spent(L, m, now))
    BY <1>4, PartsOfAnAnalysis
  <2> QED
    BY <1>13, <1>17, <2>1
<1>20. view'.health = view.health
  <2>1. /\ view'.health = BuildHealth(Read(K, m), view'.compared, view'.trends, view'.week, view'.projection)
        /\ view.health = BuildHealth(Read(L, m), view.compared, view.trends, view.week, view.projection)
    BY <1>4, PartsOfAnAnalysis
  <2>2. view.compared.clock = c
    BY <1>16 DEF Compared, BuildComparison, c
  <2>3. CashThrough(Read(K, m), view.compared.clock.through) = CashThrough(Read(L, m), view.compared.clock.through)
    BY <1>9, <2>2
  <2>4. BuildHealth(Read(K, m), view.compared, view.trends, view.week, view.projection)
          = BuildHealth(Read(L, m), view.compared, view.trends, view.week, view.projection)
    BY <2>3, HealthSeesWhatMoved
  <2> QED
    BY <1>16, <1>17, <1>18, <2>1, <2>4
<1> QED
  BY <1>14, <1>15, <1>16, <1>19, <1>20

(* Performance is judged by what was sold and by what has arrived.  For    *)
(* any ledger, calendar, goals and menu: money that comes in and is no     *)
(* sale moves neither the projection nor the plan, the week, the goals,    *)
(* the turnover and its trend; a bill that is booked for a later day moves *)
(* neither what is spent, nor the result, nor the traffic light, nor any   *)
(* trend (Build, buildProjection, buildComparison, buildHealth).           *)
THEOREM OnlySalesAreJudged == BooksSpec => OnlySalesJudge
<1> DEFINE Loan == Registers(LAMBDA e : IsIncome(e) /\ e.origin # "venda") =>
                     /\ view'.projection = view.projection
                     /\ view'.week = view.week
                     /\ view'.goals = view.goals
                     /\ view'.revenues = view.revenues
                     /\ view'.trends.faturamento = view.trends.faturamento
                     /\ view'.kpis.faturamento = view.kpis.faturamento
           Bill == Registers(LAMBDA e : e.type = "expense" /\ EffectiveDate(e) > now) =>
                     /\ view'.kpis.despesa = view.kpis.despesa
                     /\ view'.kpis.resultado = view.kpis.resultado
                     /\ view'.health = view.health
                     /\ view'.trends = view.trends
                     /\ view'.expenses = view.expenses
                     /\ view'.goals = view.goals
<1>1. BooksInv /\ BooksInv' /\ [BooksNext]_vars => Loan
  BY LoanMeans
<1>2. BooksInv /\ BooksInv' /\ [BooksNext]_vars => Bill
  BY BookedBillMeans
<1> QED
  BY <1>1, <1>2, BooksAreKept, PTL DEF OnlySalesJudge, LoanIsNotASale, BookedBillsDoNotJudge, BooksSpec

-----------------------------------------------------------------------------
(* A night.                                                                *)

LEMMA WeekGoesOn ==
  ASSUME NEW n \in Nat, NEW w \in Nat \ {0}, (n + 1) % w # 0
  PROVE  (n + 1) - ((n + 1) % w) = n - (n % w)
<1>1. n % w \in 0..(w - 1) /\ n = w * (n \div w) + (n % w) /\ n \div w \in Int
  OBVIOUS
<1>2. (n + 1) % w \in 0..(w - 1) /\ n + 1 = w * ((n + 1) \div w) + ((n + 1) % w)
      /\ (n + 1) \div w \in Int
  OBVIOUS
<1> DEFINE a == n \div w
           b == (n + 1) \div w
           r == n % w
           s == (n + 1) % w
<1> HIDE DEF a, b, r, s
<1>3. /\ a \in Int /\ b \in Int /\ r \in 0..(w - 1) /\ s \in 0..(w - 1) /\ s # 0
      /\ n = w * a + r /\ n + 1 = w * b + s
  BY <1>1, <1>2 DEF a, b, r, s
<1>4. w * (b - a) = r + 1 - s
  BY <1>3
<1>5. r + 1 - s < w /\ r + 1 - s > -w
  BY <1>3
<1>6. b - a < 1
  BY <1>3, <1>4, <1>5
<1>7. b - a > -1
  BY <1>3, <1>4, <1>5
<1>8. a = b
  BY <1>3, <1>6, <1>7
<1> QED
  BY <1>3, <1>8 DEF r, s

(* The only step that ends a day.                                          *)
LEMMA OnlyTheNightEndsADay ==
  ASSUME BooksInv, BooksInv', [BooksNext]_vars, SameMonth
  PROVE  LET m == MonthOf(now)
             c == NewMonthClock(m, now)
             d == NewMonthClock(m, now + 1)
         IN  /\ ledger' = ledger /\ goals' = goals /\ now' = now + 1
             /\ now \in FirstNow..LastNow /\ now + 1 \in FirstNow..LastNow
             /\ MonthOf(now + 1) = m
             /\ view = Assemble(ledger, goals, m, now)
             /\ view' = Assemble(ledger, goals, m, now + 1)
<1>1. now' = now + 1 /\ MonthOf(now') = MonthOf(now) /\ now \in Int
  BY ThisMonth DEF SameMonth, BooksInv
<1>2. NextDay
  <2>1. now' # now
    BY <1>1
  <2>2. BooksNext
    BY <2>1 DEF vars
  <2>3. \A item : ~Register(item)
    BY <2>1 DEF Register
  <2>4. \A e : ~Settle(e)
    BY <2>1 DEF Settle
  <2> QED
    BY <2>2, <2>3, <2>4 DEF BooksNext
<1> QED
  BY <1>1, <1>2 DEF NextDay, BooksInv

LEMMA NightMovesTrends ==
  ASSUME BooksInv, BooksInv', [BooksNext]_vars, SameMonth, DayOfMonth(now) % DaysInWeek # 0
  PROVE  view'.trends = view.trends
<1> DEFINE m == MonthOf(now)
           c == NewMonthClock(m, now)
           d == NewMonthClock(m, now + 1)
<1>1. /\ now \in FirstNow..LastNow /\ now + 1 \in FirstNow..LastNow /\ MonthOf(now + 1) = m
      /\ view = Assemble(ledger, goals, m, now)
      /\ view' = Assemble(ledger, goals, m, now + 1)
  BY OnlyTheNightEndsADay
<1>2. /\ c.inProgress /\ c.through = now - FirstDay[m]
      /\ FirstDay[m] \in Int /\ FirstDay[m] <= now /\ now \in Int
  BY <1>1, ClockOfToday, ThisMonth
<1>3. d.inProgress /\ d.through = now + 1 - FirstDay[m]
  BY <1>1, ClockOfToday
<1>4. DayOfMonth(now) = now - FirstDay[m] + 1
  BY DEF DayOfMonth
<1> HIDE DEF m, c, d
<1>5. c.through \in Nat /\ d.through = c.through + 1 /\ DayOfMonth(now) = c.through + 1
  BY <1>2, <1>3, <1>4
<1>6. ComparableThrough(d) = ComparableThrough(c)
  <2> DEFINE n == c.through
  <2>1. n \in Nat /\ d.through = n + 1 /\ (n + 1) % DaysInWeek # 0
    BY <1>5
  <2>2. ComparableThrough(c) = n - (n % DaysInWeek)
    BY <1>2 DEF ComparableThrough
  <2>3. ComparableThrough(d) = (n + 1) - ((n + 1) % DaysInWeek)
    BY <1>3, <2>1 DEF ComparableThrough
  <2> HIDE DEF n
  <2> QED
    BY <2>1, <2>2, <2>3, WeekGoesOn, MonthsAssumption
<1>7. LET x == BuildComparison(c, Read(ledger, m), Previous(ledger, m))
          y == BuildComparison(d, Read(ledger, m), Previous(ledger, m))
      IN  x.clock = c /\ y.clock = d /\ x.current = y.current /\ x.previous = y.previous
  BY <1>6 DEF BuildComparison
<1>8. BuildTrends(Compared(ledger, m, now + 1)) = BuildTrends(Compared(ledger, m, now))
  BY <1>6, <1>7 DEF Compared, BuildTrends, c, d
<1> QED
  BY <1>1, <1>8, PartsOfAnAnalysis DEF m

LEMMA PricedPart ==
  ASSUME NEW L, L \subseteq Entry, IsFiniteSet(L), NEW S, S \subseteq L
  PROVE  Priced(S)
<1>1. IsFiniteSet(S)
  BY FS_Subset
<1>2. \A e \in S : e.amount \in Int
  BY DEF Entry
<1> QED
  BY <1>1, <1>2 DEF Priced

(* What arrived until today, and what arrived on the day that came.        *)
LEMMA NightBringsOneDay ==
  ASSUME NEW L, L \subseteq Entry, IsFiniteSet(L),
         NEW day \in FirstNow..LastNow, day + 1 \in FirstNow..LastNow,
         MonthOf(day + 1) = MonthOf(day)
  PROVE  LET m == MonthOf(day)
             before == Arrived(Read(L, m), NewMonthClock(m, day)).cash
             after  == Arrived(Read(L, m), NewMonthClock(m, day + 1)).cash
             came   == Within(L, "effective", day + 1, day + 1)
         IN  /\ Priced(before) /\ Priced(came)
             /\ after = before \cup came /\ before \cap came = {}
<1> DEFINE m == MonthOf(day)
           first == FirstDay[m]
           before == Arrived(Read(L, m), NewMonthClock(m, day)).cash
           after  == Arrived(Read(L, m), NewMonthClock(m, day + 1)).cash
           came   == Within(L, "effective", day + 1, day + 1)
           Upto(d) == {e \in L : EffectiveDate(e) # Nobody /\ EffectiveDate(e) \in DaysOf(m)
                                 /\ EffectiveDate(e) <= d}
<1>1. /\ m \in Months /\ day \in Int /\ first \in Int /\ LastDay(m) \in Int
      /\ day \in DaysOf(m) /\ day + 1 \in DaysOf(m)
  BY ThisMonth, NextMonth
<1>2. Elapsed(NewMonthClock(m, day)) = day - first + 1
  BY ClockOfToday
<1>3. Elapsed(NewMonthClock(m, day + 1)) = day + 1 - first + 1
  BY ClockOfToday
<1>4. before = Upto(day)
  <2>1. first + (day - first + 1) - 1 = day /\ day - first + 1 \in Int
    BY <1>1
  <2> QED
    BY <1>1, <1>2, <2>1, ReadOfTheMonth DEF Arrived
<1>5. after = Upto(day + 1)
  <2>1. first + (day + 1 - first + 1) - 1 = day + 1 /\ day + 1 - first + 1 \in Int
    BY <1>1
  <2> QED
    BY <1>1, <1>3, <2>1, ReadOfTheMonth DEF Arrived
<1>6. came = {e \in L : EffectiveDate(e) # Nobody /\ EffectiveDate(e) \in (day + 1)..(day + 1)}
  BY DEF Within, BasisDate
<1>7. \A d : d \in (day + 1)..(day + 1) <=> d = day + 1
  BY <1>1
<1>8. \A d \in DaysOf(m) : d <= day + 1 <=> (d <= day \/ d = day + 1)
  BY <1>1 DEF DaysOf
<1>9. ~(day + 1 <= day)
  BY <1>1
<1> HIDE DEF m, first, before, after, came
<1> HIDE DEF Upto
<1>10. after = before \cup came
  <2>1. ASSUME NEW e \in L
        PROVE  e \in Upto(day + 1) <=> (e \in Upto(day) \/ e \in came)
    <3> DEFINE date == EffectiveDate(e)
    <3>1. e \in Upto(day + 1)
            <=> (date # Nobody /\ date \in DaysOf(m) /\ date <= day + 1)
      BY <2>1 DEF Upto
    <3>2. e \in Upto(day) <=> (date # Nobody /\ date \in DaysOf(m) /\ date <= day)
      BY <2>1 DEF Upto
    <3>3. e \in came <=> (date # Nobody /\ date = day + 1)
      BY <1>6, <1>7, <2>1
    <3>4. date \in DaysOf(m) => (date <= day + 1 <=> (date <= day \/ date = day + 1))
      BY <1>8
    <3>5. date = day + 1 => date \in DaysOf(m)
      BY <1>1
    <3> HIDE DEF date
    <3> QED
      BY <3>1, <3>2, <3>3, <3>4, <3>5
  <2>2. Upto(day + 1) \subseteq L /\ Upto(day) \subseteq L /\ came \subseteq L
    BY <1>6 DEF Upto
  <2> QED
    BY <1>4, <1>5, <2>1, <2>2
<1> USE DEF Upto
<1>11. before \cap came = {}
  BY <1>4, <1>6, <1>7, <1>9
<1>12. Priced(before) /\ Priced(came)
  BY <1>4, <1>6, PricedPart
<1> QED
  BY <1>10, <1>11, <1>12 DEF m, before, after, came

LEMMA ShareOf ==
  ASSUME NEW S, NEW R, Priced(S), Priced(R), S \cap R = {}
  PROVE  /\ Total(Expenses(S)) \in Int /\ Total(Expenses(R)) \in Int
         /\ Net(S) \in Int /\ Net(R) \in Int
         /\ Total(Expenses(S \cup R)) = Total(Expenses(S)) + Total(Expenses(R))
         /\ Net(S \cup R) = Net(S) + Net(R)
<1>1. /\ Priced(Expenses(S)) /\ Priced(Expenses(R)) /\ Priced(Incomes(S)) /\ Priced(Incomes(R))
  BY FS_Subset DEF Priced, Expenses, Incomes
<1>2. /\ Expenses(S \cup R) = Expenses(S) \cup Expenses(R) /\ Expenses(S) \cap Expenses(R) = {}
      /\ Incomes(S \cup R) = Incomes(S) \cup Incomes(R) /\ Incomes(S) \cap Incomes(R) = {}
  BY DEF Expenses, Incomes
<1> DEFINE a == Total(Expenses(S))
           b == Total(Expenses(R))
           u == Total(Incomes(S))
           v == Total(Incomes(R))
<1>3. a \in Int /\ b \in Int /\ u \in Int /\ v \in Int
  BY <1>1, TotalIsAnInteger
<1>4. Total(Expenses(S \cup R)) = a + b /\ Total(Incomes(S \cup R)) = u + v
  BY <1>1, <1>2, TotalOfBoth
<1>5. Net(S) = u - a /\ Net(R) = v - b
      /\ Net(S \cup R) = Total(Incomes(S \cup R)) - Total(Expenses(S \cup R))
  BY DEF Net
<1> HIDE DEF a, b, u, v
<1>6. Net(S \cup R) = Net(S) + Net(R) /\ Net(S) \in Int /\ Net(R) \in Int
  BY <1>3, <1>4, <1>5
<1> QED
  BY <1>3, <1>4, <1>6 DEF a, b

LEMMA TurnoverIsAnInteger ==
  ASSUME NEW L, L \subseteq Entry, IsFiniteSet(L), NEW ms, NEW m \in ms
  PROVE  MultiMonthlySummary(L, ms)[m].revenue \in Int
<1> DEFINE Share == {e \in Within(L, "transaction", FirstDay[Min(ms)], LastDay(Max(ms))) :
                        MonthOf(BasisDate("transaction", e)) = m}
<1>1. Sales(Share) \subseteq L
  BY DEF Sales, Within
<1>2. Priced(Sales(Share))
  BY <1>1, PricedPart
<1>3. MultiMonthlySummary(L, ms)[m].revenue = Total(Sales(Share))
  BY DEF MultiMonthlySummary, Summary, RevenueTotal
<1> QED
  BY <1>2, <1>3, TotalIsAnInteger

LEMMA NightMovesFigures ==
  ASSUME BooksInv, BooksInv', [BooksNext]_vars, SameMonth
  PROVE  LET d == Deltas(Snapshot(view'), Snapshot(view))
             arrived == Within(ledger, "effective", now', now')
         IN  /\ d.faturamento.delta = 0
             /\ d.despesa.delta = Total(Expenses(arrived))
             /\ d.resultado.delta = Net(arrived)
<1> DEFINE m == MonthOf(now)
           L == ledger
           before == Arrived(Read(L, m), NewMonthClock(m, now)).cash
           after  == Arrived(Read(L, m), NewMonthClock(m, now + 1)).cash
           came   == Within(L, "effective", now + 1, now + 1)
<1>1. /\ now \in FirstNow..LastNow /\ now + 1 \in FirstNow..LastNow /\ MonthOf(now + 1) = m
      /\ view = Assemble(L, goals, m, now) /\ view' = Assemble(L, goals, m, now + 1)
      /\ now' = now + 1
  BY OnlyTheNightEndsADay
<1>2. L \subseteq Entry /\ IsFiniteSet(L) /\ m \in MonthRange(m)
  BY <1>1, ThisMonth DEF BooksInv
<1>3. /\ Priced(before) /\ Priced(came)
      /\ after = before \cup came /\ before \cap came = {}
  BY <1>1, <1>2, NightBringsOneDay
<1>4. /\ view.kpis.faturamento = MultiMonthlySummary(L, MonthRange(m))[m].revenue
      /\ view'.kpis.faturamento = MultiMonthlySummary(L, MonthRange(m))[m].revenue
      /\ view.kpis.despesa = Total(Expenses(before)) /\ view'.kpis.despesa = Total(Expenses(after))
      /\ view.kpis.resultado = Net(before) /\ view'.kpis.resultado = Net(after)
  BY <1>1, PartsOfAnAnalysis DEF Spent
<1>5. view.kpis.faturamento \in Int
  BY <1>2, <1>4, TurnoverIsAnInteger
<1> HIDE DEF m, L, before, after, came
<1>6. /\ Total(Expenses(before)) \in Int /\ Total(Expenses(came)) \in Int
      /\ Net(before) \in Int /\ Net(came) \in Int
      /\ Total(Expenses(after)) = Total(Expenses(before)) + Total(Expenses(came))
      /\ Net(after) = Net(before) + Net(came)
  BY <1>3, ShareOf
<1>7. /\ view'.kpis.faturamento - view.kpis.faturamento = 0
      /\ view'.kpis.despesa - view.kpis.despesa = Total(Expenses(came))
      /\ view'.kpis.resultado - view.kpis.resultado = Net(came)
  BY <1>4, <1>5, <1>6
<1>8. LET d == Deltas(Snapshot(view'), Snapshot(view))
      IN  /\ d.faturamento.delta = view'.kpis.faturamento - view.kpis.faturamento
          /\ d.despesa.delta = view'.kpis.despesa - view.kpis.despesa
          /\ d.resultado.delta = view'.kpis.resultado - view.kpis.resultado
  BY DEF Deltas, Snapshot
<1>9. came = Within(ledger, "effective", now', now')
  BY <1>1 DEF came, L
<1> QED
  BY <1>7, <1>8, <1>9

(* A night changes what the day that came brings, and nothing else.  For   *)
(* any ledger and calendar: while no week of the month closes, the         *)
(* comparison with the month before stands still, and the snapshots of two *)
(* mornings differ by the money dated on the day that came                 *)
(* (comparableThrough, buildTrends, buildComparison of snapshot.go).       *)
THEOREM NightsChangeOneDay == BooksSpec => NightsMoveLittle
<1> DEFINE Trends == SameMonth /\ DayOfMonth(now) % DaysInWeek # 0 => view'.trends = view.trends
           Figures == SameMonth =>
             LET d == Deltas(Snapshot(view'), Snapshot(view))
                 arrived == Within(ledger, "effective", now', now')
             IN  /\ d.faturamento.delta = 0
                 /\ d.despesa.delta = Total(Expenses(arrived))
                 /\ d.resultado.delta = Net(arrived)
<1>1. BooksInv /\ BooksInv' /\ [BooksNext]_vars => Trends
  BY NightMovesTrends
<1>2. BooksInv /\ BooksInv' /\ [BooksNext]_vars => Figures
  BY NightMovesFigures
<1> QED
  BY <1>1, <1>2, BooksAreKept, PTL DEF NightsMoveLittle, TrendsMoveByWeeks, OvernightDelta, BooksSpec

-----------------------------------------------------------------------------
(* What an estimate of the experiment looks at.                            *)

UpTo(S, day) == {e \in S : e.date <= day}

(* The ratios of the recent days, and the factor they give.                *)
RecentDaysOf(rates, from, to) ==
    {d \in Larger(from, to - RecentDays + 1)..to : rates[Weekday(d)].avg > 0}
Ratios(S, rates, from, to) ==
    {[day |-> d, num |-> SoldOn(S, d), den |-> rates[Weekday(d)].avg] : d \in RecentDaysOf(rates, from, to)}
FactorOf(ratios, n) ==
    LET less(x, y) == x.num * y.den < y.num * x.den
    IN  IF n < DaysInWeek THEN Factor(FALSE, n, 0, 1)
        ELSE MedianOf(Sorted(ratios, LAMBDA x, y :
                                 less(x, y) \/ (~less(y, x) /\ x.day < y.day)), n)

LEMMA RecentFactorIs ==
  ASSUME NEW S, NEW rates, NEW from, NEW to
  PROVE  RecentFactor(S, rates, from, to)
           = FactorOf(Ratios(S, rates, from, to), Cardinality(RecentDaysOf(rates, from, to)))
BY DEF RecentFactor, FactorOf, Ratios, RecentDaysOf

LEMMA RecentFactorSees ==
  ASSUME NEW S, NEW R, NEW rates, NEW from, NEW to,
         \A d \in RecentDaysOf(rates, from, to) : SoldOn(S, d) = SoldOn(R, d)
  PROVE  RecentFactor(S, rates, from, to) = RecentFactor(R, rates, from, to)
<1>1. Ratios(S, rates, from, to) = Ratios(R, rates, from, to)
  BY DEF Ratios
<1> QED
  BY <1>1, RecentFactorIs

LEMMA EntriesAreDated ==
  ASSUME NEW e \in Entry
  PROVE  e.date \in Int /\ e.date >= 1 /\ e.date # Nobody /\ e.amount \in Int
<1>1. e.date \in Days /\ e.amount \in Nat \ {0}
  BY DEF Entry
<1>0. e.date # Nobody
  BY <1>1, EntriesAssumption
<1>2. Days \subseteq Nat \ {0}
  BY BooksAssumption
<1>3. e.date \in Nat \ {0}
  BY <1>1, <1>2
<1> QED
  BY <1>0, <1>1, <1>3

Dated(S) == \A e \in S : e.date \in Int /\ e.date # Nobody

(* The sales between two days are read from any set that has those days.   *)
LEMMA RatesReadTheWindow ==
  ASSUME NEW S, NEW R, NEW from, NEW to,
         \A e : e.date # Nobody /\ e.date \in from..to => (e \in S <=> e \in R)
  PROVE  ProjectionRates(S, from, to) = ProjectionRates(R, from, to)
<1>1. Within(S, "transaction", from, to) = Within(R, "transaction", from, to)
  BY DEF Within, BasisDate, RevenueDate
<1> QED
  BY <1>1 DEF ProjectionRates

LEMMA EstimateKnowsItsDay ==
  ASSUME NEW S, Dated(S), NEW m \in Months, NEW day \in DaysOf(m)
  PROVE  EstimateAt(UpTo(S, day), m, day) = EstimateAt(S, m, day)
<1> DEFINE c    == NewMonthClock(m, day)
           from == WindowStart(c)
           to   == WindowEnd(c)
           K    == UpTo(S, day)
<1>1. /\ day \in Int /\ c.first \in Int /\ to = day - 1
      /\ WindowWeeks * DaysInWeek \in Int
  <2>1. FirstDay[m] \in Int /\ LastDay(m) \in Int
    BY NextMonth
  <2>2. day \in Int
    BY <2>1 DEF DaysOf
  <2>3. WindowWeeks * DaysInWeek \in Int
    BY MonthsAssumption
  <2> QED
    BY <2>2, <2>3, ClockOf
<1>2. from \in Int /\ to \in Int
  <2>1. from = day - 1 - (WindowWeeks * DaysInWeek - 1)
    BY <1>1 DEF WindowStart
  <2> QED
    BY <1>1, <2>1
<1>3. \A e : e \in K <=> (e \in S /\ e.date <= day)
  BY DEF UpTo
<1> HIDE DEF c, from, to, K
<1>4. ProjectionRates(K, from, to) = ProjectionRates(S, from, to)
  <2>1. ASSUME NEW e, e.date \in from..to
        PROVE  e.date <= day
    BY <1>1, <1>2, <2>1
  <2> QED
    BY <1>3, <2>1, RatesReadTheWindow
<1>5. ASSUME NEW d \in Int, d <= day
      PROVE  SoldOn(K, d) = SoldOn(S, d)
  <2>1. {e \in K : e.date = d} = {e \in S : e.date = d}
    BY <1>3, <1>5
  <2> QED
    BY <2>1 DEF SoldOn
<1>6. SoldBetween(K, c.first, day) = SoldBetween(S, c.first, day)
  <2>1. ASSUME NEW e, e.date \in c.first..day
        PROVE  e.date <= day
    BY <1>1, <2>1
  <2>2. {e \in K : e.date \in c.first..day} = {e \in S : e.date \in c.first..day}
    BY <1>3, <2>1
  <2> QED
    BY <2>2 DEF SoldBetween
<1>7. ASSUME NEW rates
      PROVE  RecentFactor(K, rates, from, to) = RecentFactor(S, rates, from, to)
  <2>1. ASSUME NEW d \in RecentDaysOf(rates, from, to)
        PROVE  d \in Int /\ d <= day
    <3>1. d \in Larger(from, to - RecentDays + 1)..to
      BY DEF RecentDaysOf
    <3> QED
      BY <1>1, <1>2, <3>1
  <2> QED
    BY <1>5, <2>1, RecentFactorSees
<1>8. SoldOn(K, day) = SoldOn(S, day)
  BY <1>1, <1>5
<1>9. /\ EstimateAt(K, m, day)
           = Estimate(ProjectionRates(K, from, to),
                      RecentFactor(K, ProjectionRates(K, from, to), from, to), c,
                      SoldBetween(K, c.first, day), SoldOn(K, day))
      /\ EstimateAt(S, m, day)
           = Estimate(ProjectionRates(S, from, to),
                      RecentFactor(S, ProjectionRates(S, from, to), from, to), c,
                      SoldBetween(S, c.first, day), SoldOn(S, day))
  BY DEF EstimateAt, EstimateOn, c, from, to
<1> QED
  BY <1>4, <1>6, <1>7, <1>8, <1>9 DEF K

LEMMA SamplesKnowTheirDay ==
  ASSUME NEW S, Dated(S), NEW day, NEW s \in Samples(S, day)
  PROVE  LET cutoff == FirstDay[s.month] + s.cutoff - 1
         IN  s.estimate = EstimateAt(UpTo(S, cutoff), s.month, cutoff)
<1>1. PICK d : /\ d \in {k \in (MonthOf(day) - BacktestMonths)..(MonthOf(day) - 1) : k \in Months}
                          \X Cutoffs
               /\ d[2] <= MonthLengths[d[1]]
               /\ s = [month |-> d[1], cutoff |-> d[2],
                       close |-> SoldBetween(S, FirstDay[d[1]], LastDay(d[1])),
                       estimate |-> EstimateAt(S, d[1], FirstDay[d[1]] + d[2] - 1)]
  BY DEF Samples
<1>2. d[1] \in Months /\ d[2] \in Cutoffs
  BY <1>1
<1>3. /\ s.month = d[1] /\ s.cutoff = d[2]
      /\ s.estimate = EstimateAt(S, d[1], FirstDay[d[1]] + d[2] - 1)
  BY <1>1
<1> DEFINE m == d[1]
           n == d[2]
<1>4. m \in Months /\ n \in Nat \ {0} /\ n <= MonthLengths[m]
  BY <1>1, <1>2, BooksAssumption
<1> HIDE DEF m, n
<1>5. FirstDay[m] \in Int /\ LastDay(m) \in Int /\ MonthLengths[m] \in Int
  BY <1>4, NextMonth, MonthsAreNumbered
<1>6. FirstDay[m] + n - 1 \in DaysOf(m)
  BY <1>4, <1>5 DEF DaysOf, LastDay
<1>7. EstimateAt(UpTo(S, FirstDay[m] + n - 1), m, FirstDay[m] + n - 1)
        = EstimateAt(S, m, FirstDay[m] + n - 1)
  BY <1>4, <1>6, EstimateKnowsItsDay
<1> QED
  BY <1>3, <1>7 DEF m, n

(* The close the experiment calls official today.                          *)
LEMMA OfficialIsPublished ==
  ASSUME BooksInv
  PROVE  EstimateAt(ExperimentSales(ledger, now), MonthOf(now), now).official
           = view.projection.p.projected
<1> DEFINE m == MonthOf(now)
           c == NewMonthClock(m, now)
           first == FirstDay[m]
           sales == ExperimentSales(ledger, now)
           from == WindowStart(c)
           to   == WindowEnd(c)
           rates == ProjectionRates(sales, from, to)
<1>1. /\ now \in FirstNow..LastNow /\ ledger \subseteq Entry
      /\ view = Assemble(ledger, goals, m, now)
  BY DEF BooksInv
<1>2. /\ now \in Int /\ m \in Months /\ now \in DaysOf(m)
      /\ first \in Int /\ LastDay(m) \in Int /\ first >= 1
  BY <1>1, ThisMonth, NextMonth, MonthsBeginAtOne
<1>3. /\ c.first = first /\ c.today = now - first + 1 /\ Elapsed(c) = c.today
      /\ to = now - 1
  BY <1>1, ClockOfToday
<1>4. from \in Int /\ to \in Int
  <2>1. WindowWeeks * DaysInWeek \in Int
    BY MonthsAssumption
  <2>2. from = to - (WindowWeeks * DaysInWeek - 1)
    BY DEF WindowStart
  <2> QED
    BY <1>2, <1>3, <2>1, <2>2
<1>5. \A e : e \in sales <=> (e \in ledger /\ IsRevenue(e) /\ e.date # Nobody /\ e.date \in 1..now)
  BY DEF ExperimentSales, Sales, Within, BasisDate, RevenueDate
<1>6. \A e \in ledger : e.date \in Int /\ e.date >= 1
  BY <1>1, EntriesAreDated
<1> DEFINE known == {e \in ledger : IsRevenue(e) /\ e.date # Nobody /\ e.date <= now}
<1>7. Sales(sales) = known /\ sales = known
  <2>1. ASSUME NEW e \in ledger
        PROVE  e.date \in 1..now <=> e.date <= now
    BY <1>2, <1>6
  <2> QED
    BY <1>5, <2>1 DEF Sales
<1> HIDE DEF m, c, first, sales, from, to, known
<1>8. rates = RatesAt(ledger, c)
  <2>1. Sales(Within(sales, "transaction", from, to)) = Sales(Within(ledger, "transaction", from, to))
    <3>1. ASSUME NEW e, e.date \in from..to
          PROVE  e.date <= now
      BY <1>2, <1>3, <1>4, <3>1
    <3> QED
      BY <1>7, <3>1 DEF Sales, Within, BasisDate, RevenueDate, known
  <2> QED
    BY <2>1 DEF ProjectionRates, RatesAt, from, to
<1>9. SoldBetween(sales, c.first, now) = ActualSales(ledger, m, now)
  <2> DEFINE month == {e \in ledger : e.date # Nobody /\ e.date \in DaysOf(m)
                                       /\ e.date <= first + c.today - 1}
  <2>1. Arrived(Read(ledger, m), c).sales = month
    <3>1. c.today \in Int
      BY <1>2, <1>3
    <3> QED
      BY <1>2, <1>3, <3>1, ReadOfTheMonth DEF Arrived, first
  <2>2. first + c.today - 1 = now
    BY <1>2, <1>3
  <2>3. ASSUME NEW e \in ledger
        PROVE  (e.date <= now /\ e.date \in first..now) <=> (e.date \in DaysOf(m) /\ e.date <= now)
    <3>1. e.date \in Int /\ DaysOf(m) = first..LastDay(m) /\ now <= LastDay(m)
      BY <1>2, <1>6 DEF DaysOf, first
    <3> QED
      BY <1>2, <3>1
  <2>4. Sales({e \in sales : e.date \in first..now}) = Sales(month)
    BY <1>7, <2>2, <2>3 DEF Sales, known
  <2> QED
    BY <1>3, <2>1, <2>4 DEF SoldBetween, ActualSales, RevenueTotal, c
<1>10. SoldOn(sales, now) = SalesOfToday(ledger, m, now)
  <2>1. Read(ledger, m).sales = {e \in ledger : e.date # Nobody /\ e.date \in DaysOf(m)}
    BY DEF Read, MonthEntries, Within, BasisDate, RevenueDate, DaysOf
  <2>2. ASSUME NEW e \in ledger, e.date \in DaysOf(m)
        PROVE  DayOfMonth(e.date) = c.today <=> e.date = now
    <3>1. MonthOf(e.date) = m
      BY <1>2, <2>2, MonthIs
    <3> QED
      BY <1>2, <1>3, <1>6, <3>1 DEF DayOfMonth, first
  <2>3. Sales({e \in sales : e.date = now})
          = Sales({e \in Read(ledger, m).sales : DayOfMonth(e.date) = c.today})
    <3>1. ASSUME NEW e \in ledger
          PROVE  (e.date <= now /\ e.date = now)
                   <=> (e.date \in DaysOf(m) /\ DayOfMonth(e.date) = c.today)
      BY <1>2, <2>2
    <3> QED
      BY <1>7, <2>1, <3>1 DEF Sales, known
  <2> QED
    BY <2>3 DEF SoldOn, SalesOfToday, RevenueTotal, c
<1>11. EstimateAt(sales, m, now).official
         = SoldBetween(sales, c.first, now) + StillToCome(rates, c, 1, 1, c.today, SoldOn(sales, now))
  BY DEF EstimateAt, EstimateOn, Estimate, c, from, to
<1>12. view.projection.p.projected
         = ActualSales(ledger, m, now)
             + StillToCome(RatesAt(ledger, c), c, 1, 1, c.today, SalesOfToday(ledger, m, now))
  <2>1. view.projection = ProjectionOf(ledger, goals, m, now)
    BY <1>1, PartsOfAnAnalysis
  <2> QED
    BY <2>1 DEF ProjectionOf, BuildProjection, WithPlan, Projected, c
<1> QED
  BY <1>8, <1>9, <1>10, <1>11, <1>12 DEF m, sales

LEMMA NothingAheadIsRead ==
  ASSUME BooksInv
  PROVE  NoLookAhead
<1> DEFINE sales == ExperimentSales(ledger, now)
<1>1. Dated(sales)
  <2>1. ledger \subseteq Entry
    BY DEF BooksInv
  <2>2. \A e \in sales : e \in ledger /\ e.date # Nobody
    BY DEF ExperimentSales, Sales, Within, BasisDate, RevenueDate
  <2> QED
    BY <2>1, <2>2, EntriesAreDated DEF Dated
<1>2. /\ BuildExperiment(sales, now).samples = Samples(sales, now)
      /\ BuildExperiment(sales, now).current = EstimateAt(sales, MonthOf(now), now)
  BY DEF BuildExperiment, Experiment
<1>3. \A s \in Samples(sales, now) :
         LET day == FirstDay[s.month] + s.cutoff - 1
         IN  s.estimate = EstimateAt({e \in sales : e.date <= day}, s.month, day)
  BY <1>1, SamplesKnowTheirDay DEF UpTo
<1>4. EstimateAt(sales, MonthOf(now), now).official = view.projection.p.projected
  BY OfficialIsPublished
<1> HIDE DEF sales
<1>5. LET experiment == BuildExperiment(sales, now)
          Known(s)   == LET day == FirstDay[s.month] + s.cutoff - 1
                        IN  EstimateAt({e \in sales : e.date <= day}, s.month, day)
      IN  /\ \A s \in experiment.samples : s.estimate = Known(s)
          /\ experiment.current.official = view.projection.p.projected
  BY <1>2, <1>3, <1>4
<1> QED
  BY <1>5 DEF NoLookAhead, sales

(* The experiment never looks ahead, for any ledger and calendar: what it  *)
(* says a past day would have estimated is what the sales until that day   *)
(* give, and the close it calls official is the published one              *)
(* (estimateAt, BuildProjectionExperiment of projection_experiment.go).    *)
THEOREM EstimatesKnowTheirDay == BooksSpec => []NoLookAhead
<1>1. BooksInv => NoLookAhead
  BY NothingAheadIsRead
<1> QED
  BY <1>1, BooksAreKept, PTL

-----------------------------------------------------------------------------
(* A sale.  What the days to come are asked for is settled in the morning. *)

LEMMA RoundIsAnInteger ==
  ASSUME NEW n \in Int, NEW d \in Nat \ {0}
  PROVE  Round(n, d) \in Int
<1>1. 2 * d \in Nat \ {0} /\ 2 * n + d \in Int /\ d - 2 * n \in Int
  OBVIOUS
<1>2. \A x \in Int : x \div (2 * d) \in Int
  BY <1>1
<1>3. (2 * n + d) \div (2 * d) \in Int /\ (d - 2 * n) \div (2 * d) \in Int
  BY <1>1, <1>2
<1> DEFINE a == (2 * n + d) \div (2 * d)
           b == (d - 2 * n) \div (2 * d)
<1>4. Round(n, d) = IF n >= 0 THEN a ELSE -b
  BY DEF Round
<1> HIDE DEF a, b
<1>5. a \in Int /\ b \in Int
  BY <1>3 DEF a, b
<1> QED
  BY <1>4, <1>5

LEMMA RoundOfOne ==
  ASSUME NEW n \in Int
  PROVE  Round(n * 1, 1) = n
<1>1. n >= 0 => (2 * n + 1) \div 2 = n
  OBVIOUS
<1>2. n < 0 => (1 - 2 * n) \div 2 = -n
  OBVIOUS
<1>3. Round(n, 1) = n
  <2>1. 2 * 1 = 2
    OBVIOUS
  <2> QED
    BY <1>1, <1>2, <2>1 DEF Round
<1>4. n * 1 = n
  OBVIOUS
<1> QED
  BY <1>3, <1>4

(* What a weekday is worth: the averages are integers.                     *)
AgesOf(S, basis, end, wd) ==
    {WeeksBefore(end, BasisDate(basis, e)) : e \in {x \in S : Weekday(BasisDate(basis, x)) = wd}}
    \cap DOMAIN Weight
SoldAt(S, basis, end, wd, a) ==
    Total({e \in S : /\ Weekday(BasisDate(basis, e)) = wd
                     /\ WeeksBefore(end, BasisDate(basis, e)) = a})
Weighted(S, basis, end, wd) ==
    MapThenSumSet(LAMBDA a : SoldAt(S, basis, end, wd, a) * Weight[a], AgesOf(S, basis, end, wd))
WeightOf(ages) == MapThenSumSet(LAMBDA a : Weight[a], ages)

LEMMA AverageIs ==
  ASSUME NEW S, NEW basis, NEW end, NEW wd \in Weekdays
  PROVE  RatesOf(S, basis, end)[wd].avg
           = IF AgesOf(S, basis, end, wd) = {} THEN 0
             ELSE Round(Weighted(S, basis, end, wd), WeightOf(AgesOf(S, basis, end, wd)))
BY DEF RatesOf, AgesOf, SoldAt, Weighted, WeightOf

LEMMA WeightIsPositive ==
  ASSUME NEW ages, ages \subseteq DOMAIN Weight, ages # {}
  PROVE  WeightOf(ages) \in Nat \ {0}
<1> DEFINE f == [a \in ages |-> Weight[a]]
           Fold(g) == g = [s \in SUBSET ages |->
                             IF s = {} THEN 0
                             ELSE Weight[CHOOSE x \in s : TRUE] + g[s \ {CHOOSE x \in s : TRUE}]]
<1>1. \A x \in ages : f[x] \in Nat \ {0} /\ f[x] = Weight[x]
  BY RatesAssumption
<1>2. IsFiniteSet(ages)
  <2>1. WindowWeeks \in Nat \ {0} /\ DOMAIN Weight = 0..(WindowWeeks - 1)
    BY RatesAssumption, MonthsAssumption
  <2>2. IsFiniteSet(0..(WindowWeeks - 1))
    BY <2>1, FS_Interval
  <2> QED
    BY <2>1, <2>2, FS_Subset
<1>3. \A x \in ages : f[x] \in Int
  BY <1>1
<1> HIDE DEF f
<1>4. ASSUME NEW s \in SUBSET ages, NEW g
      PROVE  Adds(f, s, g) = IF s = {} THEN 0
                ELSE Weight[CHOOSE x \in s : TRUE] + g[s \ {CHOOSE x \in s : TRUE}]
  <2>1. s # {} => f[CHOOSE x \in s : TRUE] = Weight[CHOOSE x \in s : TRUE]
    BY <1>1
  <2> QED
    BY <2>1 DEF Adds, First
<1>5. ASSUME NEW g
      PROVE  Fold(g) <=> Counted(f, ages, g)
  BY <1>4 DEF Counted
<1>6. PICK h : Counted(f, ages, h)
  BY <1>2, <1>3, SumsExist
<1> HIDE DEF Fold
<1>7. Fold(CHOOSE g : Fold(g))
  <2>1. \E g : Fold(g)
    BY <1>5, <1>6
  <2> QED
    BY <2>1
<1>8. (CHOOSE g : Fold(g))[ages] = SumOver(f, ages)
  BY <1>2, <1>3, <1>5, <1>7, SumIsCounted
<1>9. WeightOf(ages) = (CHOOSE g : Fold(g))[ages]
  BY DEF WeightOf, MapThenSumSet, MapThenFoldSet, Fold
<1>10. SumOver(f, ages) \in Int /\ SumOver(f, ages) > 0
  BY <1>1, <1>2, PositiveSum
<1> QED
  BY <1>8, <1>9, <1>10

LEMMA WeightedIsAnInteger ==
  ASSUME NEW L, L \subseteq Entry, IsFiniteSet(L), NEW S, S \subseteq L,
         NEW basis, NEW end, NEW wd
  PROVE  Weighted(S, basis, end, wd) \in Int
<1> DEFINE A == AgesOf(S, basis, end, wd)
           F(a) == SoldAt(S, basis, end, wd, a) * Weight[a]
           f == [a \in A |-> F(a)]
           Fold(g) == g = [s \in SUBSET A |->
                             IF s = {} THEN 0
                             ELSE F(CHOOSE x \in s : TRUE) + g[s \ {CHOOSE x \in s : TRUE}]]
<1>1. ASSUME NEW a \in A
      PROVE  F(a) \in Int
  <2>1. Weight[a] \in Int
    BY RatesAssumption DEF AgesOf
  <2>2. SoldAt(S, basis, end, wd, a) \in Int
    <3> DEFINE R == {e \in S : /\ Weekday(BasisDate(basis, e)) = wd
                               /\ WeeksBefore(end, BasisDate(basis, e)) = a}
    <3>1. R \subseteq L
      OBVIOUS
    <3>2. SoldAt(S, basis, end, wd, a) = Total(R)
      BY DEF SoldAt
    <3> HIDE DEF R
    <3> QED
      BY <3>1, <3>2, PricedPart, TotalIsAnInteger
  <2> QED
    BY <2>1, <2>2
<1>2. IsFiniteSet(A)
  <2>1. WindowWeeks \in Nat \ {0} /\ DOMAIN Weight = 0..(WindowWeeks - 1)
    BY RatesAssumption, MonthsAssumption
  <2>2. IsFiniteSet(0..(WindowWeeks - 1))
    BY <2>1, FS_Interval
  <2>3. A \subseteq 0..(WindowWeeks - 1)
    BY <2>1 DEF AgesOf
  <2> QED
    BY <2>2, <2>3, FS_Subset
<1> HIDE DEF A
<1>3. \A x \in A : f[x] \in Int /\ f[x] = F(x)
  BY <1>1
<1> HIDE DEF f, F
<1>4. ASSUME NEW s \in SUBSET A, NEW g
      PROVE  Adds(f, s, g) = IF s = {} THEN 0
                ELSE F(CHOOSE x \in s : TRUE) + g[s \ {CHOOSE x \in s : TRUE}]
  <2>1. s # {} => f[CHOOSE x \in s : TRUE] = F(CHOOSE x \in s : TRUE)
    BY <1>3
  <2> QED
    BY <2>1 DEF Adds, First
<1>5. ASSUME NEW g
      PROVE  Fold(g) <=> Counted(f, A, g)
  BY <1>4 DEF Counted
<1>6. PICK h : Counted(f, A, h)
  BY <1>2, <1>3, SumsExist
<1> HIDE DEF Fold
<1>7. Fold(CHOOSE g : Fold(g))
  <2>1. \E g : Fold(g)
    BY <1>5, <1>6
  <2> QED
    BY <2>1
<1>8. (CHOOSE g : Fold(g))[A] = SumOver(f, A)
  BY <1>2, <1>3, <1>5, <1>7, SumIsCounted
<1>9. Weighted(S, basis, end, wd) = (CHOOSE g : Fold(g))[A]
  BY DEF Weighted, MapThenSumSet, MapThenFoldSet, Fold, F, A
<1> QED
  BY <1>2, <1>3, <1>8, <1>9, SumIsAnInteger

LEMMA AverageIsAnInteger ==
  ASSUME NEW L, L \subseteq Entry, IsFiniteSet(L), NEW S, S \subseteq L,
         NEW basis, NEW end, NEW wd \in Weekdays
  PROVE  RatesOf(S, basis, end)[wd].avg \in Int
<1> DEFINE ages == AgesOf(S, basis, end, wd)
<1>1. ages \subseteq DOMAIN Weight
  BY DEF AgesOf
<1>2. Weighted(S, basis, end, wd) \in Int
  BY WeightedIsAnInteger
<1>3. RatesOf(S, basis, end)[wd].avg
        = IF ages = {} THEN 0 ELSE Round(Weighted(S, basis, end, wd), WeightOf(ages))
  BY AverageIs
<1> HIDE DEF ages
<1>4. ages # {} => WeightOf(ages) \in Nat \ {0}
  BY <1>1, WeightIsPositive
<1> QED
  BY <1>2, <1>3, <1>4, RoundIsAnInteger

WholeRates(rates) == \A wd \in Weekdays : rates[wd].avg \in Int

LEMMA RatesAreWhole ==
  ASSUME NEW L, L \subseteq Entry, IsFiniteSet(L), NEW from, NEW to
  PROVE  WholeRates(ProjectionRates(L, from, to)) /\ WholeRates(CashInRates(L, from, to))
<1>1. /\ Sales(Within(L, "transaction", from, to)) \subseteq L
      /\ Incomes(Within(L, "effective", from, to)) \subseteq L
  BY DEF Sales, Incomes, Within
<1> QED
  BY <1>1, AverageIsAnInteger DEF WholeRates, ProjectionRates, CashInRates

LEMMA WeekdayIsOne ==
  ASSUME NEW day \in Int
  PROVE  Weekday(day) \in Weekdays
<1>1. DaysInWeek \in Nat \ {0}
  BY MonthsAssumption
<1>2. day % DaysInWeek \in 0..(DaysInWeek - 1)
  BY <1>1
<1> QED
  BY <1>2 DEF Weekday, Weekdays

LEMMA UsualIsAnInteger ==
  ASSUME NEW rates, WholeRates(rates), NEW c, c.first \in Int, NEW n \in Int
  PROVE  Usual(rates, c, n) \in Int
<1>1. DayAt(c, n) \in Int
  BY DEF DayAt
<1>2. WeekdayAt(c, n) \in Weekdays
  BY <1>1, WeekdayIsOne DEF WeekdayAt
<1> QED
  BY <1>2 DEF Usual, WholeRates

(* What is still to come: what is left of today, and the days after it.    *)
DaysAfter(c, today) == (today..c.total) \ {today}
AfterToday(rates, c, today) ==
    SumOver([n \in DaysAfter(c, today) |-> Usual(rates, c, n)], DaysAfter(c, today))

LEMMA StillToComeIs ==
  ASSUME NEW rates, WholeRates(rates), NEW c, c.inProgress, c.first \in Int, c.total \in Int,
         NEW today \in Int, today <= c.total, NEW sold \in Int
  PROVE  /\ StillToCome(rates, c, 1, 1, today, sold)
              = Larger(0, Usual(rates, c, today) - sold) + AfterToday(rates, c, today)
         /\ AfterToday(rates, c, today) \in Int
<1> DEFINE A == today..c.total
           B == DaysAfter(c, today)
           F(n) == Expected(rates, c, n, 1, 1, today, sold)
           f == [n \in A |-> F(n)]
           e == [n \in B |-> Usual(rates, c, n)]
           Fold(g) == g = [s \in SUBSET A |->
                             IF s = {} THEN 0
                             ELSE F(CHOOSE x \in s : TRUE) + g[s \ {CHOOSE x \in s : TRUE}]]
<1>1. IsFiniteSet(A) /\ today \in A /\ IsFiniteSet(B) /\ B = A \ {today}
  <2>1. IsFiniteSet(A) /\ today \in A
    BY FS_Interval
  <2> QED
    BY <2>1, FS_Subset DEF DaysAfter
<1>2. ASSUME NEW n \in A
      PROVE  /\ Usual(rates, c, n) \in Int
             /\ n = today => F(n) = Larger(0, Usual(rates, c, n) - sold)
             /\ n # today => F(n) = Usual(rates, c, n)
  <2>1. Usual(rates, c, n) \in Int
    BY UsualIsAnInteger
  <2>2. Round(Usual(rates, c, n) * 1, 1) = Usual(rates, c, n)
    BY <2>1, RoundOfOne
  <2> QED
    BY <2>1, <2>2 DEF Expected
<1>3. ASSUME NEW n \in A
      PROVE  F(n) \in Int
  <2> DEFINE u == Usual(rates, c, n)
  <2>1. u \in Int /\ (n = today => F(n) = Larger(0, u - sold)) /\ (n # today => F(n) = u)
    BY <1>2
  <2> HIDE DEF u, F
  <2>2. Larger(0, u - sold) \in Int
    BY <2>1 DEF Larger
  <2> QED
    BY <2>1, <2>2
<1> HIDE DEF A, B, F
<1>4. \A x \in A : f[x] \in Int /\ f[x] = F(x)
  BY <1>3
<1>5. \A x \in B : e[x] = f[x] /\ f[x] \in Int /\ e[x] \in Int
  BY <1>1, <1>2, <1>3
<1>6. f[today] = Larger(0, Usual(rates, c, today) - sold)
  BY <1>1, <1>2
<1> HIDE DEF f, e
<1>7. ASSUME NEW s \in SUBSET A, NEW g
      PROVE  Adds(f, s, g) = IF s = {} THEN 0
                ELSE F(CHOOSE x \in s : TRUE) + g[s \ {CHOOSE x \in s : TRUE}]
  <2>1. s # {} => f[CHOOSE x \in s : TRUE] = F(CHOOSE x \in s : TRUE)
    BY <1>4
  <2> QED
    BY <2>1 DEF Adds, First
<1>8. ASSUME NEW g
      PROVE  Fold(g) <=> Counted(f, A, g)
  BY <1>7 DEF Counted
<1>9. PICK h : Counted(f, A, h)
  BY <1>1, <1>4, SumsExist
<1> HIDE DEF Fold
<1>10. Fold(CHOOSE g : Fold(g))
  <2>1. \E g : Fold(g)
    BY <1>8, <1>9
  <2> QED
    BY <2>1
<1>11. (CHOOSE g : Fold(g))[A] = SumOver(f, A)
  BY <1>1, <1>4, <1>8, <1>10, SumIsCounted
<1>12. StillToCome(rates, c, 1, 1, today, sold) = (CHOOSE g : Fold(g))[A]
  BY DEF StillToCome, MapThenSumSet, MapThenFoldSet, Fold, F, A
<1>13. SumOver(f, A) = f[today] + SumOver(f, B)
  BY <1>1, <1>4, SumLess
<1>14. SumOver(e, B) = SumOver(f, B) /\ SumOver(e, B) \in Int
  BY <1>1, <1>5, SameSum, SumIsAnInteger
<1>15. AfterToday(rates, c, today) = SumOver(e, B)
  BY DEF AfterToday, e, B
<1> QED
  BY <1>6, <1>11, <1>12, <1>13, <1>14, <1>15

(* The plan and the ask of a day are settled in the morning.               *)
TargetOf(plan, rates, c, n) ==
    IF \/ n < 1 \/ n > c.total \/ DayBasis(c, n) = "realizado" \/ plan.state # "ok"
       \/ Usual(rates, c, n) <= 0
    THEN 0 ELSE AskOf(plan, Usual(rates, c, n))

LEMMA TargetIs ==
  ASSUME NEW plan, NEW rates, NEW c, NEW n, NEW realized
  PROVE  DayTarget(plan, rates, c, n, realized).target = TargetOf(plan, rates, c, n)
BY DEF DayTarget, TargetOf, NoDay

LEMMA PlanIsOfTheMorning ==
  ASSUME NEW rates, NEW p, NEW q, NEW c, NEW sold, NEW more,
         p.target = q.target, p.basis = q.basis, p.actual - sold = q.actual - more
  PROVE  NewPlan(rates, p, c, sold) = NewPlan(rates, q, c, more)
BY DEF NewPlan

LEMMA SaleMovesTheDay ==
  ASSUME NEW rates, WholeRates(rates), NEW c, c.inProgress, c.first \in Int, c.total \in Int,
         NEW target, c.today \in Int, c.today <= c.total, NEW x \in Int,
         NEW actual \in Int, NEW sold \in Int
  PROVE  LET before == BuildProjection(rates, actual, target, c, sold)
             after  == BuildProjection(rates, actual + x, target, c, sold + x)
             usual  == Usual(rates, c, c.today)
         IN  /\ after.today.target = before.today.target
             /\ after.p.projected - before.p.projected
                  = Larger(usual, sold + x) - Larger(usual, sold)
<1> DEFINE today == c.today
           usual == Usual(rates, c, today)
           rest == AfterToday(rates, c, today)
           come == StillToCome(rates, c, 1, 1, today, sold)
           comes == StillToCome(rates, c, 1, 1, today, sold + x)
           p == Projected(actual, come, target, Sample(rates), c)
           q == Projected(actual + x, comes, target, Sample(rates), c)
           before == BuildProjection(rates, actual, target, c, sold)
           after  == BuildProjection(rates, actual + x, target, c, sold + x)
<1>1. usual \in Int /\ sold + x \in Int
  BY UsualIsAnInteger
<1>2. come = Larger(0, usual - sold) + rest /\ rest \in Int
  BY StillToComeIs
<1>3. comes = Larger(0, usual - (sold + x)) + rest
  BY <1>1, StillToComeIs
<1>4. /\ before = WithPlan(p, NewPlan(rates, p, c, sold), rates, c, sold)
      /\ after = WithPlan(q, NewPlan(rates, q, c, sold + x), rates, c, sold + x)
  BY DEF BuildProjection
<1>5. /\ p.target = target /\ q.target = target /\ p.basis = q.basis
      /\ p.actual = actual /\ q.actual = actual + x
      /\ p.projected = actual + come /\ q.projected = actual + x + comes
  BY DEF Projected
<1> HIDE DEF p, q, come, comes, before, after
<1>6. before.p = p /\ after.p = q
      /\ before.today.target = TargetOf(NewPlan(rates, p, c, sold), rates, c, today)
      /\ after.today.target = TargetOf(NewPlan(rates, q, c, sold + x), rates, c, today)
  BY <1>4, TargetIs DEF WithPlan
<1>7. NewPlan(rates, p, c, sold) = NewPlan(rates, q, c, sold + x)
  <2>1. p.actual - sold = q.actual - (sold + x)
    BY <1>5
  <2> QED
    BY <1>5, <2>1, PlanIsOfTheMorning
<1> HIDE DEF usual, rest
<1>8. q.projected - p.projected = Larger(usual, sold + x) - Larger(usual, sold)
  <2>1. Larger(0, usual - sold) = Larger(usual, sold) - sold
    BY <1>1 DEF Larger
  <2>2. Larger(0, usual - (sold + x)) = Larger(usual, sold + x) - (sold + x)
    BY <1>1 DEF Larger
  <2> DEFINE a == Larger(usual, sold)
             b == Larger(usual, sold + x)
  <2>3. a \in Int /\ b \in Int
    BY <1>1 DEF Larger
  <2> HIDE DEF a, b
  <2>4. come = a - sold + rest /\ comes = b - (sold + x) + rest
    BY <1>2, <1>3, <2>1, <2>2 DEF a, b
  <2>5. q.projected - p.projected = b - a
    BY <1>2, <1>5, <2>3, <2>4
  <2> QED
    BY <2>5 DEF a, b
<1> QED
  BY <1>6, <1>7, <1>8 DEF usual, before, after

LEMMA SaleAdds ==
  ASSUME NEW L, L \subseteq Entry, IsFiniteSet(L), NEW S, S \subseteq L,
         NEW r \in Entry, r \notin S, IsRevenue(r)
  PROVE  /\ RevenueTotal(S) \in Int
         /\ RevenueTotal(S \cup {r}) = RevenueTotal(S) + r.amount
<1>1. Priced(Sales(S))
  BY PricedPart DEF Sales
<1>2. Sales(S \cup {r}) = Sales(S) \cup {r} /\ Sales(S) \cap {r} = {}
  BY DEF Sales
<1>3. r.amount \in Int
  BY EntriesAreDated
<1>4. Priced({r}) /\ Total({r}) = r.amount
  BY <1>3, TotalOfOne
<1>5. Total(Sales(S) \cup {r}) = Total(Sales(S)) + r.amount
  BY <1>1, <1>2, <1>4, TotalOfBoth
<1> QED
  BY <1>1, <1>2, <1>5, TotalIsAnInteger DEF RevenueTotal

LEMMA TodayOfTheMonth ==
  ASSUME NEW L, L \subseteq Entry, NEW day \in FirstNow..LastNow
  PROVE  LET m == MonthOf(day)
         IN  /\ {e \in Read(L, m).sales : DayOfMonth(e.date) = NewMonthClock(m, day).today}
                  = {e \in L : e.date # Nobody /\ e.date = day}
             /\ Arrived(Read(L, m), NewMonthClock(m, day)).sales
                  = {e \in L : e.date # Nobody /\ e.date \in DaysOf(m) /\ e.date <= day}
<1> DEFINE m == MonthOf(day)
           c == NewMonthClock(m, day)
           first == FirstDay[m]
<1>1. day \in Int /\ m \in Months /\ day \in DaysOf(m) /\ first \in Int
  BY ThisMonth, NextMonth
<1>2. c.today = day - first + 1 /\ Elapsed(c) = c.today
  BY ClockOfToday
<1>3. Read(L, m).sales = {e \in L : e.date # Nobody /\ e.date \in DaysOf(m)}
  BY DEF Read, MonthEntries, Within, BasisDate, RevenueDate, DaysOf
<1>4. ASSUME NEW e \in L, e.date \in DaysOf(m)
      PROVE  DayOfMonth(e.date) = c.today <=> e.date = day
  <2>1. MonthOf(e.date) = m /\ e.date \in Int
    BY <1>1, <1>4, MonthIs, EntriesAreDated
  <2> QED
    BY <1>1, <1>2, <2>1 DEF DayOfMonth
<1>5. {e \in Read(L, m).sales : DayOfMonth(e.date) = c.today}
        = {e \in L : e.date # Nobody /\ e.date = day}
  <2> HIDE DEF m, c
  <2> QED
    BY <1>1, <1>3, <1>4
<1>6. Arrived(Read(L, m), c).sales
        = {e \in L : e.date # Nobody /\ e.date \in DaysOf(m) /\ e.date <= day}
  <2>1. c.today \in Int /\ first + c.today - 1 = day
    BY <1>1, <1>2
  <2> QED
    BY <1>1, <1>2, <2>1, ReadOfTheMonth DEF Arrived
<1> QED
  BY <1>5, <1>6

LEMMA SaleMeans ==
  ASSUME BooksInv, BooksInv', [BooksNext]_vars, Registers(IsRevenue)
  PROVE  LET usual == view.weekdays[Weekday(now)].avg
         IN  /\ view'.projection.today.target = view.projection.today.target
             /\ view'.projection.p.projected - view.projection.p.projected
                    = Larger(usual, SoldToday') - Larger(usual, SoldToday)
             /\ view'.weekdays = view.weekdays
<1>1. now' = now /\ Cardinality(ledger') > Cardinality(ledger)
      /\ \A e \in New : IsRevenue(e)
  BY DEF Registers
<1>2. PICK r \in Entry \ ledger : /\ ledger' = ledger \cup {r} /\ New = {r}
                                  /\ r.date = now /\ goals' = goals
  BY <1>1, OnlyRegisteringAdds
<1>3. IsRevenue(r) /\ r.amount \in Int /\ r.date # Nobody
  <2>1. r \in Entry
    BY <1>2
  <2>2. r.date # Nobody /\ r.amount \in Int
    BY <2>1, EntriesAreDated
  <2> QED
    BY <1>1, <1>2, <2>2
<1> DEFINE m == MonthOf(now)
           c == NewMonthClock(m, now)
           L == ledger
           from == WindowStart(c)
           to == WindowEnd(c)
           rates == RatesAt(L, c)
           target == GoalOf(goals, m).revenue
           actual == ActualSales(L, m, now)
           sold == SoldOn(L, now)
           x == r.amount
<1>4. /\ now \in FirstNow..LastNow /\ L \subseteq Entry /\ IsFiniteSet(L)
      /\ view = Assemble(L, goals, m, now)
      /\ view' = Assemble(L \cup {r}, goals, m, now)
  BY <1>1, <1>2 DEF BooksInv
<1>5. /\ now \in Int /\ m \in Months /\ now \in DaysOf(m)
      /\ c.inProgress /\ c.first \in Int /\ c.today \in Int /\ c.total \in Int
      /\ c.today <= c.total /\ to = now - 1
      /\ c.today = now - c.first + 1
  <2>1. now \in Int /\ m \in Months /\ now \in DaysOf(m) /\ FirstDay[m] \in Int
        /\ MonthLengths[m] \in Int
    BY <1>4, ThisMonth, NextMonth, MonthsAreNumbered
  <2>2. /\ c.inProgress /\ c.first = FirstDay[m] /\ c.total = MonthLengths[m]
        /\ c.today = now - FirstDay[m] + 1 /\ c.today <= c.total /\ to = now - 1
    BY <1>4, ClockOfToday
  <2>3. c.today \in Int
    BY <2>1, <2>2
  <2> HIDE DEF m, c, to
  <2> QED
    BY <2>1, <2>2, <2>3
<1>6. from \in Int
  <2>1. WindowWeeks * DaysInWeek \in Int
    BY MonthsAssumption
  <2>2. from = to - (WindowWeeks * DaysInWeek - 1)
    BY DEF WindowStart
  <2> HIDE DEF c, from, to
  <2> QED
    BY <1>5, <2>1, <2>2
<1> HIDE DEF m, c, L, from, to
<1>7. WholeRates(rates)
  BY <1>4, RatesAreWhole DEF RatesAt
<1>8. RatesAt(L \cup {r}, c) = rates
  <2>1. ASSUME NEW e, e.date \in from..to
        PROVE  e \in L <=> e \in L \cup {r}
    <3>1. ~(now \in from..to)
      BY <1>5, <1>6
    <3> QED
      BY <1>2, <2>1, <3>1
  <2> QED
    BY <2>1, RatesReadTheWindow DEF RatesAt, from, to
<1> DEFINE Month(S) == {e \in S : e.date # Nobody /\ e.date \in DaysOf(m) /\ e.date <= now}
           Today(S) == {e \in S : e.date # Nobody /\ e.date = now}
<1>9. ASSUME NEW S, S \subseteq Entry
      PROVE  /\ ActualSales(S, m, now) = RevenueTotal(Month(S))
             /\ SalesOfToday(S, m, now) = RevenueTotal(Today(S))
             /\ SoldOn(S, now) = RevenueTotal(Today(S))
  <2>1. {e \in S : e.date = now} = Today(S)
    <3>1. \A e \in S : e.date # Nobody
      BY <1>9, EntriesAreDated
    <3> QED
      BY <3>1
  <2>2. /\ {e \in Read(S, m).sales : DayOfMonth(e.date) = NewMonthClock(m, now).today} = Today(S)
        /\ Arrived(Read(S, m), NewMonthClock(m, now)).sales = Month(S)
    BY <1>4, <1>9, TodayOfTheMonth DEF m
  <2> HIDE DEF Month, Today
  <2>3. ActualSales(S, m, now) = RevenueTotal(Month(S))
    BY <2>2 DEF ActualSales
  <2>4. SalesOfToday(S, m, now) = RevenueTotal(Today(S))
    BY <2>2 DEF SalesOfToday
  <2>5. SoldOn(S, now) = RevenueTotal(Today(S))
    BY <2>1 DEF SoldOn
  <2> QED
    BY <2>3, <2>4, <2>5
<1>10. /\ Month(L \cup {r}) = Month(L) \cup {r} /\ Today(L \cup {r}) = Today(L) \cup {r}
       /\ r \notin Month(L) /\ r \notin Today(L)
       /\ Month(L) \subseteq L /\ Today(L) \subseteq L
  <2>1. now <= now
    BY <1>5
  <2>2. r \notin L
    BY <1>2 DEF L
  <2> QED
    BY <1>2, <1>3, <1>5, <2>1, <2>2
<1>11. L \cup {r} \subseteq Entry
  BY <1>4
<1> HIDE DEF Month, Today
<1>12. /\ actual \in Int /\ ActualSales(L \cup {r}, m, now) = actual + x
  <2>1. /\ RevenueTotal(Month(L)) \in Int
        /\ RevenueTotal(Month(L) \cup {r}) = RevenueTotal(Month(L)) + r.amount
    BY <1>2, <1>3, <1>4, <1>10, SaleAdds
  <2>2. actual = RevenueTotal(Month(L))
    BY <1>4, <1>9
  <2>3. ActualSales(L \cup {r}, m, now) = RevenueTotal(Month(L) \cup {r})
    BY <1>9, <1>10, <1>11
  <2> QED
    BY <2>1, <2>2, <2>3
<1>13. /\ sold \in Int /\ SoldOn(L \cup {r}, now) = sold + x
       /\ SalesOfToday(L, m, now) = sold /\ SalesOfToday(L \cup {r}, m, now) = sold + x
  <2>1. /\ RevenueTotal(Today(L)) \in Int
        /\ RevenueTotal(Today(L) \cup {r}) = RevenueTotal(Today(L)) + r.amount
    BY <1>2, <1>3, <1>4, <1>10, SaleAdds
  <2>2. sold = RevenueTotal(Today(L)) /\ SalesOfToday(L, m, now) = RevenueTotal(Today(L))
    BY <1>4, <1>9
  <2>3. /\ SoldOn(L \cup {r}, now) = RevenueTotal(Today(L) \cup {r})
        /\ SalesOfToday(L \cup {r}, m, now) = RevenueTotal(Today(L) \cup {r})
    BY <1>9, <1>10, <1>11
  <2> QED
    BY <2>1, <2>2, <2>3
<1>14. /\ view.weekdays = rates /\ view'.weekdays = rates
       /\ view.projection = BuildProjection(rates, actual, target, c, sold)
       /\ view'.projection = BuildProjection(rates, actual + x, target, c, sold + x)
  BY <1>4, <1>8, <1>12, <1>13, PartsOfAnAnalysis DEF ProjectionOf, c
<1>15. SoldToday = sold /\ SoldToday' = sold + x
  <2>1. SoldToday = sold
    BY DEF SoldToday, L
  <2>2. SoldToday' = SoldOn(ledger', now')
    BY DEF SoldToday
  <2>3. SoldOn(ledger', now') = SoldOn(L \cup {r}, now)
    BY <1>1, <1>2 DEF L
  <2> QED
    BY <1>13, <2>1, <2>2, <2>3
<1>16. Usual(rates, c, c.today) = view.weekdays[Weekday(now)].avg
  <2>1. c.first + c.today - 1 = now
    BY <1>5
  <2> QED
    BY <1>14, <2>1 DEF Usual, WeekdayAt, DayAt
<1> HIDE DEF rates, target, actual, sold, x
<1>17. LET before == BuildProjection(rates, actual, target, c, sold)
           after  == BuildProjection(rates, actual + x, target, c, sold + x)
           usual  == Usual(rates, c, c.today)
       IN  /\ after.today.target = before.today.target
           /\ after.p.projected - before.p.projected
                = Larger(usual, sold + x) - Larger(usual, sold)
  BY <1>3, <1>5, <1>7, <1>12, <1>13, SaleMovesTheDay DEF x
<1> QED
  BY <1>14, <1>15, <1>16, <1>17

(* Selling fills the day and nothing else.  For any ledger and calendar:   *)
(* registering a sale leaves the ask of the morning and the averages as    *)
(* they were, and moves the close only by what the day has brought past    *)
(* its usual (newPlan, Plan.at, projectedClose of projection.go).          *)
THEOREM SellingFillsTheDay == BooksSpec => SellingOnlyFillsTheDay
<1> DEFINE Kept == Registers(IsRevenue) =>
                     LET usual == view.weekdays[Weekday(now)].avg
                     IN  /\ view'.projection.today.target = view.projection.today.target
                         /\ view'.projection.p.projected - view.projection.p.projected
                                = Larger(usual, SoldToday') - Larger(usual, SoldToday)
                         /\ view'.weekdays = view.weekdays
<1>1. BooksInv /\ BooksInv' /\ [BooksNext]_vars => Kept
  BY SaleMeans
<1> HIDE DEF Kept
<1>2. BooksInv /\ BooksInv' /\ [BooksNext]_vars => [Kept]_vars
  BY <1>1
<1>3. BooksSpec => [][Kept]_vars
  BY <1>2, BooksAreKept, PTL DEF BooksSpec
<1> QED
  BY <1>3 DEF SellingOnlyFillsTheDay, Kept

-----------------------------------------------------------------------------
(* What is said: lists that are put together from things said on a         *)
(* condition.                                                              *)

IsList(s) == \E T : s \in Seq(T)
Elements(s) == {s[k] : k \in DOMAIN s}

LEMMA ElementsOfBoth ==
  ASSUME NEW s, NEW t, IsList(s), IsList(t)
  PROVE  IsList(s \o t) /\ Elements(s \o t) = Elements(s) \cup Elements(t)
<1>1. PICK A : s \in Seq(A)
  BY DEF IsList
<1>2. PICK B : t \in Seq(B)
  BY DEF IsList
<1> DEFINE T == A \cup B
<1>3. s \in Seq(T) /\ t \in Seq(T)
  BY <1>1, <1>2
<1> HIDE DEF T
<1>4. s \o t \in Seq(T) /\ Len(s \o t) = Len(s) + Len(t)
      /\ DOMAIN s = 1..Len(s) /\ DOMAIN t = 1..Len(t) /\ DOMAIN (s \o t) = 1..Len(s \o t)
      /\ Len(s) \in Nat /\ Len(t) \in Nat
  BY <1>3
<1>5. \A k \in 1..(Len(s) + Len(t)) : (s \o t)[k] = IF k <= Len(s) THEN s[k] ELSE t[k - Len(s)]
  BY <1>3
<1>6. Elements(s \o t) \subseteq Elements(s) \cup Elements(t)
  <2>1. ASSUME NEW k \in 1..(Len(s) + Len(t))
        PROVE  (s \o t)[k] \in Elements(s) \cup Elements(t)
    <3>1. CASE k <= Len(s)
      BY <1>4, <1>5, <3>1 DEF Elements
    <3>2. CASE ~(k <= Len(s))
      <4>1. k - Len(s) \in 1..Len(t)
        BY <1>4, <3>2
      <4> QED
        BY <1>4, <1>5, <3>2, <4>1 DEF Elements
    <3> QED
      BY <3>1, <3>2
  <2> QED
    BY <1>4, <2>1 DEF Elements
<1>7. Elements(s) \subseteq Elements(s \o t)
  <2>1. ASSUME NEW k \in 1..Len(s)
        PROVE  s[k] \in Elements(s \o t)
    <3>1. k \in 1..(Len(s) + Len(t)) /\ k <= Len(s)
      BY <1>4
    <3> QED
      BY <1>4, <1>5, <3>1 DEF Elements
  <2> QED
    BY <1>4, <2>1 DEF Elements
<1>8. Elements(t) \subseteq Elements(s \o t)
  <2>1. ASSUME NEW k \in 1..Len(t)
        PROVE  t[k] \in Elements(s \o t)
    <3>1. /\ k + Len(s) \in 1..(Len(s) + Len(t)) /\ ~(k + Len(s) <= Len(s))
          /\ (k + Len(s)) - Len(s) = k
      BY <1>4
    <3> QED
      BY <1>4, <1>5, <3>1 DEF Elements
  <2> QED
    BY <1>4, <2>1 DEF Elements
<1> QED
  BY <1>4, <1>6, <1>7, <1>8 DEF IsList

LEMMA SaysNothing ==
  ASSUME NEW type
  PROVE  IsList(<<>>) /\ Elements(<<>>) = {} /\ ~Says(<<>>, type)
<1>1. <<>> \in Seq({}) /\ DOMAIN <<>> = {}
  OBVIOUS
<1> QED
  BY <1>1 DEF IsList, Elements, Says

LEMMA SaysOne ==
  ASSUME NEW x, NEW type
  PROVE  IsList(<<x>>) /\ Elements(<<x>>) = {x} /\ (Says(<<x>>, type) <=> x.type = type)
<1>1. <<x>> \in Seq({x}) /\ DOMAIN <<x>> = {1} /\ <<x>>[1] = x
  OBVIOUS
<1>2. IsList(<<x>>)
  BY <1>1 DEF IsList
<1>3. Elements(<<x>>) = {x}
  BY <1>1 DEF Elements
<1>4. Says(<<x>>, type) <=> x.type = type
  BY <1>1 DEF Says
<1> QED
  BY <1>2, <1>3, <1>4

LEMMA SaysEither ==
  ASSUME NEW s, NEW t, IsList(s), IsList(t), NEW type
  PROVE  IsList(s \o t) /\ (Says(s \o t, type) <=> Says(s, type) \/ Says(t, type))
<1>1. IsList(s \o t) /\ Elements(s \o t) = Elements(s) \cup Elements(t)
  BY ElementsOfBoth
<1>2. \A u : Says(u, type) <=> \E x \in Elements(u) : x.type = type
  BY DEF Says, Elements
<1> HIDE DEF Says
<1> QED
  BY <1>1, <1>2

(* The insight is said exactly when the figures are there and fell.        *)
LEMMA DropIsSaid ==
  ASSUME NEW read, NEW compared, NEW trends, NEW week, NEW projection
  PROVE  Says(BuildHealth(read, compared, trends, week, projection).messages, "revenue_drop")
           <=> /\ Measurable(compared.clock)
               /\ compared.previous.revenue > 0 /\ compared.current.revenue > 0
               /\ FellSince(compared, trends)
<1> DEFINE ty == "revenue_drop"
           realized == compared.realized
           through  == compared.clock.through
           moved    == MovedDays(read, through)
           both     == compared.previous.revenue > 0 /\ compared.current.revenue > 0
           revenue  == trends.faturamento.change
           expense  == trends.despesa.change
           paced == week.finished > 0 /\ week.pace.previous # 0
           a1 == When(realized.balance > 0, Insight("positive", "info", 0))
           a2 == When(moved # {}, Insight("days", "info", Cardinality(BlueDays(read, through))))
           a3 == When(realized.revenue > 0,
                      Insight("expense_share", "info",
                              Round(realized.expense * 100, Larger(1, realized.revenue))))
           a4 == When(both /\ expense > ExpenseGrowthPct /\ revenue < expense,
                      Insight("expense_growth", "warning", expense))
           a5 == When(both /\ FellSince(compared, trends), Insight("revenue_drop", "warning", revenue))
           a6 == When(realized.balance < 0, Insight("low_cash_flow", "critical", 0))
           closed == ClosedDayInsights(read, compared, trends)
           b1 == IF Measurable(compared.clock) THEN closed
                 ELSE <<Insight("month_start", "info", 0)>>
           b2 == When(paced /\ week.pace.direction = "up",
                      Insight("weekly_improvement", "info", week.pace.change))
           b3 == When(paced /\ week.pace.direction = "down",
                      Insight("weekly_decline", "warning", week.pace.change))
           b4 == When(Pacing(projection.p) /\ projection.p.onTrack, Insight("goal_on_track", "info", 0))
           b5 == When(Pacing(projection.p) /\ ~projection.p.onTrack,
                      Insight("goal_behind", "warning", 0))
<1>1. closed = a1 \o a2 \o a3 \o a4 \o a5 \o a6
  BY DEF ClosedDayInsights
<1>2. BuildHealth(read, compared, trends, week, projection).messages = b1 \o b2 \o b3 \o b4 \o b5
  BY DEF BuildHealth, Messages
<1>a1. IsList(a1) /\ ~Says(a1, ty)
  BY SaysNothing, SaysOne DEF When, Insight
<1>a2. IsList(a2) /\ ~Says(a2, ty)
  BY SaysNothing, SaysOne DEF When, Insight
<1>a3. IsList(a3) /\ ~Says(a3, ty)
  BY SaysNothing, SaysOne DEF When, Insight
<1>a4. IsList(a4) /\ ~Says(a4, ty)
  BY SaysNothing, SaysOne DEF When, Insight
<1>a5. IsList(a5) /\ (Says(a5, ty) <=> both /\ FellSince(compared, trends))
  BY SaysNothing, SaysOne DEF When, Insight
<1>a6. IsList(a6) /\ ~Says(a6, ty)
  BY SaysNothing, SaysOne DEF When, Insight
<1>b2. IsList(b2) /\ ~Says(b2, ty)
  BY SaysNothing, SaysOne DEF When, Insight
<1>b3. IsList(b3) /\ ~Says(b3, ty)
  BY SaysNothing, SaysOne DEF When, Insight
<1>b4. IsList(b4) /\ ~Says(b4, ty)
  BY SaysNothing, SaysOne DEF When, Insight
<1>b5. IsList(b5) /\ ~Says(b5, ty)
  BY SaysNothing, SaysOne DEF When, Insight
<1> HIDE DEF a1, a2, a3, a4, a5, a6, b2, b3, b4, b5, closed
<1>3. IsList(closed) /\ (Says(closed, ty) <=> both /\ FellSince(compared, trends))
  <2>1. IsList(a1 \o a2) /\ ~Says(a1 \o a2, ty)
    BY <1>a1, <1>a2, SaysEither
  <2>2. IsList(a1 \o a2 \o a3) /\ ~Says(a1 \o a2 \o a3, ty)
    BY <2>1, <1>a3, SaysEither
  <2>3. IsList(a1 \o a2 \o a3 \o a4) /\ ~Says(a1 \o a2 \o a3 \o a4, ty)
    BY <2>2, <1>a4, SaysEither
  <2>4. /\ IsList(a1 \o a2 \o a3 \o a4 \o a5)
        /\ Says(a1 \o a2 \o a3 \o a4 \o a5, ty) <=> both /\ FellSince(compared, trends)
    BY <2>3, <1>a5, SaysEither
  <2> QED
    BY <1>1, <2>4, <1>a6, SaysEither
<1>4. /\ IsList(b1)
      /\ Says(b1, ty) <=> Measurable(compared.clock) /\ both /\ FellSince(compared, trends)
  <2>1. CASE Measurable(compared.clock)
    BY <1>3, <2>1
  <2>2. CASE ~Measurable(compared.clock)
    <3>1. b1 = <<Insight("month_start", "info", 0)>>
      BY <2>2
    <3>2. IsList(b1) /\ ~Says(b1, ty)
      BY <3>1, SaysOne DEF Insight
    <3> QED
      BY <2>2, <3>2
  <2> QED
    BY <2>1, <2>2
<1> HIDE DEF b1
<1>5. IsList(b1 \o b2) /\ (Says(b1 \o b2, ty) <=> Says(b1, ty))
  BY <1>4, <1>b2, SaysEither
<1>6. IsList(b1 \o b2 \o b3) /\ (Says(b1 \o b2 \o b3, ty) <=> Says(b1, ty))
  BY <1>5, <1>b3, SaysEither
<1>7. IsList(b1 \o b2 \o b3 \o b4) /\ (Says(b1 \o b2 \o b3 \o b4, ty) <=> Says(b1, ty))
  BY <1>6, <1>b4, SaysEither
<1>8. Says(b1 \o b2 \o b3 \o b4 \o b5, ty) <=> Says(b1, ty)
  BY <1>7, <1>b5, SaysEither
<1> QED
  BY <1>2, <1>4, <1>8

LEMMA AdviceIsSaid ==
  ASSUME NEW projection, NEW trends, NEW cash
  PROVE  LET advice == BuildRecommendations(projection, trends, cash)
             slump  == trends.faturamento
         IN  /\ Says(advice, "revenue_slump")
                  <=> slump.previous > 0 /\ slump.direction = "down" /\ Fell(slump.change)
             /\ Says(advice, "runway") => cash.untilNegative # Nobody
<1> DEFINE spike == trends.despesa
           slump == trends.faturamento
           runway == cash.untilNegative
           a1 == When(Pacing(projection.p),
                      Recommendation(ProjectionAdvice(projection), projection.status, 0))
           a2 == When(spike.previous > 0 /\ spike.direction = "up" /\ spike.change > ExpenseSpikePct,
                      Recommendation("expense_spike", "warning", spike.change))
           a3 == When(slump.previous > 0 /\ slump.direction = "down" /\ Fell(slump.change),
                      Recommendation("revenue_slump", "danger", AbsInt(slump.change)))
           a4 == When(cash.expects /\ runway # Nobody /\ (runway # Nobody => runway <= CashRunwayDays),
                      Recommendation("runway", "danger", runway))
<1>1. BuildRecommendations(projection, trends, cash) = a1 \o a2 \o a3 \o a4
  BY DEF BuildRecommendations
<1>2. ASSUME NEW type \in {"revenue_slump", "runway"}
      PROVE  /\ IsList(a1) /\ ~Says(a1, type)
             /\ IsList(a2) /\ ~Says(a2, type)
  <2>1. ProjectionAdvice(projection) # type
    BY DEF ProjectionAdvice
  <2> QED
    BY <2>1, SaysNothing, SaysOne DEF When, Recommendation
<1>3. /\ IsList(a3)
      /\ Says(a3, "revenue_slump")
           <=> slump.previous > 0 /\ slump.direction = "down" /\ Fell(slump.change)
      /\ ~Says(a3, "runway")
  BY SaysNothing, SaysOne DEF When, Recommendation
<1>4. /\ IsList(a4) /\ ~Says(a4, "revenue_slump")
      /\ Says(a4, "runway") => runway # Nobody
  BY SaysNothing, SaysOne DEF When, Recommendation
<1> HIDE DEF a1, a2, a3, a4
<1>5. ASSUME NEW type \in {"revenue_slump", "runway"}
      PROVE  Says(a1 \o a2 \o a3 \o a4, type) <=> Says(a3, type) \/ Says(a4, type)
  <2>1. IsList(a1 \o a2) /\ ~Says(a1 \o a2, type)
    BY <1>2, SaysEither
  <2>2. IsList(a1 \o a2 \o a3) /\ (Says(a1 \o a2 \o a3, type) <=> Says(a3, type))
    BY <1>3, <2>1, SaysEither
  <2> QED
    BY <1>4, <2>2, SaysEither
<1> QED
  BY <1>1, <1>3, <1>4, <1>5

LEMMA MonthBefore ==
  ASSUME NEW day \in FirstNow..LastNow
  PROVE  MonthOf(day) - 1 \in Months
<1>1. PICK m \in Months \ {1} : day \in DaysOf(m)
  BY BooksAssumption
<1>2. MonthOf(day) = m
  BY <1>1, MonthIs
<1> QED
  BY <1>1, <1>2, MonthsAreNumbered

LEMMA ComparableIsMeasurable ==
  ASSUME NEW m \in Months, NEW day \in Int,
         ComparableThrough(NewMonthClock(m, day)) > 0
  PROVE  Measurable(NewMonthClock(m, day))
<1> DEFINE c == NewMonthClock(m, day)
<1>1. FirstDay[m] \in Int /\ LastDay(m) \in Int
  BY NextMonth
<1>2. CASE ~IsRunning(m, day)
  <2>1. ~c.inProgress
    BY <1>2 DEF NewMonthClock
  <2> QED
    BY <2>1 DEF ComparableThrough, Measurable
<1>3. CASE IsRunning(m, day)
  <2>1. c.inProgress /\ c.through = day - FirstDay[m]
    <3>1. day \in DaysOf(m)
      BY <1>3 DEF IsRunning
    <3> QED
      BY <3>1, ClockOf
  <2>2. FirstDay[m] <= day
    BY <1>1, <1>3 DEF IsRunning, DaysOf
  <2> DEFINE n == c.through
  <2>3. ComparableThrough(c) = n - (n % DaysInWeek)
    BY <2>1 DEF ComparableThrough
  <2>4. n \in Nat
    BY <1>1, <2>1, <2>2
  <2> HIDE DEF n, c
  <2>5. n % DaysInWeek \in Nat
    BY <2>4, MonthsAssumption
  <2>6. n > 0
    BY <2>3, <2>4, <2>5 DEF c
  <2> QED
    BY <2>6 DEF Measurable, n, c
<1> QED
  BY <1>2, <1>3

LEMMA TurnoverThrough ==
  ASSUME NEW L, L \subseteq Entry, IsFiniteSet(L), NEW m, NEW n
  PROVE  /\ TotalsThrough(Read(L, m), n).revenue \in Int
         /\ TotalsThrough(Previous(L, m), n).revenue \in Int
<1>1. ASSUME NEW read, read.sales \subseteq L
      PROVE  TotalsThrough(read, n).revenue \in Int
  <2>1. Sales(SalesThrough(read, n)) \subseteq L
    BY <1>1 DEF Sales, SalesThrough
  <2>2. Total(Sales(SalesThrough(read, n))) \in Int
    BY <2>1, PricedPart, TotalIsAnInteger
  <2>3. TotalsThrough(read, n).revenue = Total(Sales(SalesThrough(read, n)))
    BY DEF TotalsThrough, Totals, RevenueTotal
  <2> QED
    BY <2>2, <2>3
<1>2. \A k : Read(L, k).sales \subseteq L
  BY DEF Read, MonthEntries, Within
<1>3. Previous(L, m).sales \subseteq L
  BY <1>2 DEF Previous, NoRead
<1> QED
  BY <1>1, <1>2, <1>3

(* A fall from something to something, over finished days: both say so.    *)
LEMMA FallOfAMonth ==
  ASSUME NEW L, L \subseteq Entry, IsFiniteSet(L), NEW g, NEW m \in Months, NEW day \in Int
  PROVE  LET a == Assemble(L, g, m, day)
         IN  a.compared.current.revenue > 0 =>
               (Says(a.health.messages, "revenue_drop")
                  <=> Says(a.recommendations, "revenue_slump"))
<1> DEFINE a == Assemble(L, g, m, day)
           c == NewMonthClock(m, day)
           w == ComparableThrough(c)
           x == a.compared.current.revenue
           y == a.compared.previous.revenue
           slump == a.trends.faturamento
<1>1. /\ a.compared = Compared(L, m, day) /\ a.trends = BuildTrends(a.compared)
      /\ a.health = BuildHealth(Read(L, m), a.compared, a.trends, a.week, a.projection)
      /\ a.recommendations = BuildRecommendations(a.projection, a.trends, a.cash)
  <2>1. a.recommendations = BuildRecommendations(a.projection, a.trends, a.cash)
    BY DEF Assemble, Build, Built
  <2> QED
    BY <2>1, PartsOfAnAnalysis
<1>2. /\ a.compared.clock = c
      /\ x = IF w > 0 THEN TotalsThrough(Read(L, m), w).revenue ELSE 0
      /\ y = IF w > 0 THEN TotalsThrough(Previous(L, m), w).revenue ELSE 0
  BY <1>1 DEF Compared, BuildComparison, NoTotals
<1>3. slump = IF w > 0 THEN TrendOver(x, y, MonthDeadBand) ELSE NoTrend
  BY <1>1, <1>2 DEF BuildTrends
<1> HIDE DEF a, x, y, slump
<1>4. Says(a.health.messages, "revenue_drop")
        <=> Measurable(c) /\ y > 0 /\ x > 0 /\ Fell(slump.change)
  BY <1>1, <1>2, DropIsSaid DEF FellSince, x, y, slump
<1>5. Says(a.recommendations, "revenue_slump")
        <=> slump.previous > 0 /\ slump.direction = "down" /\ Fell(slump.change)
  BY <1>1, AdviceIsSaid DEF slump
<1>6. SUFFICES ASSUME x > 0
               PROVE  Says(a.health.messages, "revenue_drop")
                        <=> Says(a.recommendations, "revenue_slump")
  BY DEF a, x
<1>7. w > 0
  <2>1. ~(0 > 0)
    OBVIOUS
  <2> QED
    BY <1>2, <1>6, <2>1
<1>8. Measurable(c) /\ x \in Int /\ y \in Int
  BY <1>2, <1>7, ComparableIsMeasurable, TurnoverThrough
<1>9. slump.previous = y
  BY <1>3, <1>7 DEF TrendOver
<1>10. y > 0 => (Fell(slump.change) => slump.direction = "down")
  <2>1. SUFFICES ASSUME y > 0, Fell(slump.change) PROVE slump.direction = "down"
    OBVIOUS
  <2> DEFINE change == Round((x - y) * 100, y)
  <2>2. change \in Int
    <3>1. (x - y) * 100 \in Int /\ y \in Nat \ {0}
      BY <1>8, <2>1
    <3> QED
      BY <3>1, RoundIsAnInteger
  <2>3. /\ slump.change = change
        /\ slump.direction = IF change > MonthDeadBand THEN "up"
                             ELSE IF change < -MonthDeadBand THEN "down" ELSE "stable"
    <3>1. y # 0 /\ ~(y < 0)
      BY <1>8, <2>1
    <3> QED
      BY <1>3, <1>7, <3>1 DEF TrendOver
  <2> HIDE DEF change
  <2>4. change < -10
    BY <2>1, <2>3 DEF Fell, RevenueDropPct
  <2>5. ~(change > MonthDeadBand) /\ change < -MonthDeadBand
    BY <2>2, <2>4 DEF MonthDeadBand
  <2> QED
    BY <2>3, <2>5
<1> QED
  BY <1>4, <1>5, <1>6, <1>8, <1>9, <1>10

LEMMA FallsAreSaidTwice ==
  ASSUME BooksInv
  PROVE  FallIsSaidTwice
<1>1. /\ ledger \subseteq Entry /\ IsFiniteSet(ledger) /\ now \in Int
      /\ MonthOf(now) \in Months /\ MonthOf(now) - 1 \in Months
      /\ view = Assemble(ledger, goals, MonthOf(now), now)
      /\ past = Assemble(ledger, goals, MonthOf(now) - 1, now)
  BY ThisMonth, MonthBefore DEF BooksInv
<1> QED
  BY <1>1, FallOfAMonth DEF FallIsSaidTwice

-----------------------------------------------------------------------------
(* The runway.  Its balances are integers, so that the lowest is one.      *)

LEMMA LeastOfSome ==
  ASSUME NEW S, IsFiniteSet(S), S \subseteq Int, S # {}
  PROVE  Min(S) \in S /\ \A y \in S : Min(S) <= y
<1> DEFINE Q(s) == s # {} => \E x \in s : \A y \in s : x <= y
           T == {Cardinality(s) : s \in {q \in SUBSET S : ~Q(q)}}
<1>0. \A s \in SUBSET S : IsFiniteSet(s) /\ Cardinality(s) \in Nat
  BY FS_Subset, FS_CardinalityType
<1>1. ASSUME NEW s \in SUBSET S, NEW x \in s, Q(s \ {x})
      PROVE  Q(s)
  <2>1. \A y \in s : y \in Int
    OBVIOUS
  <2>2. CASE s \ {x} = {}
    <3>1. \A y \in s : y = x
      BY <2>2
    <3>2. x <= x
      BY <2>1
    <3> QED
      BY <3>1, <3>2
  <2>3. CASE s \ {x} # {}
    <3>1. PICK z \in s \ {x} : \A y \in s \ {x} : z <= y
      BY <1>1, <2>3
    <3>2. CASE x <= z
      <4>1. \A y \in s : x <= y
        BY <2>1, <3>1, <3>2
      <4> QED
        BY <4>1
    <3>3. CASE ~(x <= z)
      <4>1. \A y \in s : z <= y
        BY <2>1, <3>1, <3>3
      <4> QED
        BY <4>1
    <3> QED
      BY <3>2, <3>3
  <2> QED
    BY <2>2, <2>3
<1>2. Q({})
  OBVIOUS
<1> HIDE DEF Q
<1>3. T = {}
  <2>1. SUFFICES ASSUME T # {} PROVE FALSE
    OBVIOUS
  <2>2. T \in SUBSET Nat
    BY <1>0
  <2>3. PICK n \in T : \A j \in T : n <= j
    BY <2>1, <2>2, LeastNatural
  <2>4. PICK s \in SUBSET S : n = Cardinality(s) /\ ~Q(s)
    BY <2>3
  <2>5. PICK x \in s : TRUE
    BY <1>2, <2>4
  <2>6. s \ {x} \in SUBSET S /\ ~Q(s \ {x})
    BY <1>1, <2>4
  <2>7. n <= Cardinality(s \ {x})
    BY <2>3, <2>6
  <2>8. IsFiniteSet(s)
    BY <1>0
  <2>9. /\ Cardinality(s \ {x}) \in Nat /\ Cardinality(s) \in Nat
        /\ Cardinality(s) = Cardinality(s \ {x}) + 1
    BY <2>8, OneLess
  <2> HIDE DEF T
  <2> QED
    BY <2>4, <2>7, <2>9
<1>4. Q(S)
  <2>1. SUFFICES ASSUME ~Q(S) PROVE FALSE
    OBVIOUS
  <2>2. Cardinality(S) \in T
    BY <2>1
  <2> QED
    BY <1>3, <2>2
<1>5. \E x \in S : \A y \in S : x <= y
  BY <1>4 DEF Q
<1> QED
  BY <1>5 DEF Min

(* The curve as it is booked.                                              *)
WholePoints(points) == \A k \in DOMAIN points : /\ points[k].date \in Int /\ points[k].in \in Int
                                                /\ points[k].balance \in Int

LEMMA BookedCurve ==
  ASSUME NEW L, L \subseteq Entry, IsFiniteSet(L), NEW m \in Months
  PROVE  LET points == CashFlowForecast(L, m)
         IN  WholePoints(points) /\ DOMAIN points = 1..MonthLengths[m]
<1> DEFINE points == CashFlowForecast(L, m)
<1>1. FirstDay[m] \in Int /\ MonthLengths[m] \in Nat
  BY NextMonth, MonthsAreNumbered
<1>2. ASSUME NEW S, S \subseteq L
      PROVE  Total(Incomes(S)) \in Int /\ Net(S) \in Int
  <2>1. Incomes(S) \subseteq L /\ Expenses(S) \subseteq L
    BY <1>2 DEF Incomes, Expenses
  <2>2. Total(Incomes(S)) \in Int /\ Total(Expenses(S)) \in Int
    BY <2>1, PricedPart, TotalIsAnInteger
  <2> QED
    BY <2>2 DEF Net
<1>3. ASSUME NEW k \in 1..MonthLengths[m]
      PROVE  /\ points[k].date \in Int /\ points[k].in \in Int
             /\ points[k].balance \in Int
  <2> DEFINE d == FirstDay[m] + k - 1
             booked == Within(L, "effective", d, d)
             upto == {e \in L : EffectiveDate(e) <= d}
  <2>1. /\ points[k].date = d /\ points[k].in = Total(Incomes(booked))
        /\ points[k].balance = Net(upto)
    BY DEF CashFlowForecast
  <2>2. booked \subseteq L /\ upto \subseteq L
    BY DEF Within
  <2>3. d \in Int
    BY <1>1
  <2> HIDE DEF d, booked, upto
  <2> QED
    BY <1>2, <2>1, <2>2, <2>3
<1>4. DOMAIN points = 1..MonthLengths[m]
  BY DEF CashFlowForecast
<1> HIDE DEF points
<1>5. WholePoints(points)
  BY <1>3, <1>4 DEF WholePoints
<1> QED
  BY <1>4, <1>5 DEF points

(* What is expected on top of it.                                          *)
LEMMA ExtraIsAnInteger ==
  ASSUME NEW points, WholePoints(points), NEW rates, WholeRates(rates),
         NEW day, NEW k \in DOMAIN points
  PROVE  ExtraFrom(points, rates, day, k) \in Int
<1>1. points[k].date \in Int /\ points[k].in \in Int
  BY DEF WholePoints
<1>2. rates[Weekday(points[k].date)].avg \in Int
  BY <1>1, WeekdayIsOne DEF WholeRates
<1>3. ExpectedExtra(points[k], rates) \in Int
  <2> DEFINE a == rates[Weekday(points[k].date)].avg
             b == points[k].in
  <2>1. a \in Int /\ b \in Int /\ ExpectedExtra(points[k], rates) = Larger(0, a - b)
    BY <1>1, <1>2 DEF ExpectedExtra
  <2> HIDE DEF a, b
  <2> QED
    BY <2>1 DEF Larger
<1> QED
  BY <1>3 DEF ExtraFrom

ExtraUpTo(points, rates, day, j) ==
    MapThenSumSet(LAMBDA k : ExtraFrom(points, rates, day, k), 1..j)

LEMMA ExtrasAreAnInteger ==
  ASSUME NEW points, WholePoints(points), NEW rates, WholeRates(rates),
         NEW day, NEW n \in Nat, DOMAIN points = 1..n, NEW j \in 1..n
  PROVE  ExtraUpTo(points, rates, day, j) \in Int
<1> DEFINE A == 1..j
           F(k) == ExtraFrom(points, rates, day, k)
           f == [k \in A |-> F(k)]
           Fold(g) == g = [s \in SUBSET A |->
                             IF s = {} THEN 0
                             ELSE F(CHOOSE x \in s : TRUE) + g[s \ {CHOOSE x \in s : TRUE}]]
<1>1. IsFiniteSet(A) /\ A \subseteq DOMAIN points
  BY FS_Interval
<1> HIDE DEF A
<1>2. \A x \in A : f[x] \in Int /\ f[x] = F(x)
  BY <1>1, ExtraIsAnInteger
<1> HIDE DEF f, F
<1>3. ASSUME NEW s \in SUBSET A, NEW g
      PROVE  Adds(f, s, g) = IF s = {} THEN 0
                ELSE F(CHOOSE x \in s : TRUE) + g[s \ {CHOOSE x \in s : TRUE}]
  <2>1. s # {} => f[CHOOSE x \in s : TRUE] = F(CHOOSE x \in s : TRUE)
    BY <1>2
  <2> QED
    BY <2>1 DEF Adds, First
<1>4. ASSUME NEW g
      PROVE  Fold(g) <=> Counted(f, A, g)
  BY <1>3 DEF Counted
<1>5. PICK h : Counted(f, A, h)
  BY <1>1, <1>2, SumsExist
<1> HIDE DEF Fold
<1>6. Fold(CHOOSE g : Fold(g))
  <2>1. \E g : Fold(g)
    BY <1>4, <1>5
  <2> QED
    BY <2>1
<1>7. (CHOOSE g : Fold(g))[A] = SumOver(f, A)
  BY <1>1, <1>2, <1>4, <1>6, SumIsCounted
<1>8. ExtraUpTo(points, rates, day, j) = (CHOOSE g : Fold(g))[A]
  BY DEF ExtraUpTo, MapThenSumSet, MapThenFoldSet, Fold, F, A
<1> QED
  BY <1>1, <1>2, <1>7, <1>8, SumIsAnInteger

WholeCurve(curve) == /\ IsFiniteSet(ToSet(curve))
                     /\ \A d \in ToSet(curve) : d.date \in Int /\ d.balance \in Int

LEMMA CurveIsWhole ==
  ASSUME NEW points, WholePoints(points), NEW rates, WholeRates(rates),
         NEW day, NEW n \in Nat, DOMAIN points = 1..n
  PROVE  WholeCurve(Forecast(points, rates, day))
<1> DEFINE curve == Forecast(points, rates, day)
           Extra(k) == ExtraUpTo(points, rates, day, k)
<1>1. DOMAIN curve = 1..n
  BY DEF Forecast
<1>2. \A k \in 1..n : /\ curve[k].date = points[k].date
                      /\ curve[k].balance = points[k].balance + Extra(k)
  BY DEF Forecast, ExtraUpTo
<1>3. \A k \in 1..n : Extra(k) \in Int
  BY ExtrasAreAnInteger
<1> HIDE DEF Extra, curve
<1>4. ASSUME NEW k \in 1..n
      PROVE  curve[k].date \in Int /\ curve[k].balance \in Int
  <2>1. points[k].date \in Int /\ points[k].balance \in Int
    BY DEF WholePoints
  <2> QED
    BY <1>2, <1>3, <2>1
<1>5. ToSet(curve) = {curve[k] : k \in 1..n}
  BY <1>1 DEF ToSet
<1>6. IsFiniteSet(ToSet(curve))
  <2>1. IsFiniteSet(1..n)
    BY FS_Interval
  <2> QED
    BY <1>5, <2>1, ImageIsFinite
<1> QED
  BY <1>4, <1>5, <1>6 DEF WholeCurve, curve

LEMMA BalanceOfToday ==
  ASSUME NEW points, WholePoints(points), NEW day
  PROVE  BalanceToday(points, day) \in Int
<1>1. CASE \E k \in DOMAIN points : points[k].date = day
  <2>1. \E p \in ToSet(points) : p.date = day
    BY <1>1 DEF ToSet
  <2>2. PICK p \in ToSet(points) : p = CHOOSE q \in ToSet(points) : q.date = day
    BY <2>1
  <2>3. p.balance \in Int
    BY DEF ToSet, WholePoints
  <2> QED
    BY <1>1, <2>2, <2>3 DEF BalanceToday
<1>2. CASE ~ \E k \in DOMAIN points : points[k].date = day
  BY <1>2 DEF BalanceToday
<1> QED
  BY <1>1, <1>2

LEMMA CoveredOnACurve ==
  ASSUME NEW curve, WholeCurve(curve), NEW today \in Int, NEW expects, NEW day \in Int
  PROVE  LET c == PositionOn(curve, today, expects, day)
         IN  /\ c.commitments = "coberto" =>
                   /\ \A d \in ToSet(curve) : d.balance >= 0
                   /\ c.untilNegative = Nobody
             /\ c.untilNegative # Nobody =>
                   \A d \in ToSet(curve) : d.date > day /\ d.balance < 0
                       => d.date >= day + c.untilNegative
<1> DEFINE C == ToSet(curve)
           balances == {d.balance : d \in C}
           lowest == Min(balances \cup {today})
           dips == {d \in C : d.balance < 0 /\ d.date > day}
           dates == {d.date : d \in dips}
           until == IF dips = {} THEN Nobody ELSE Min(dates) - day
           c == PositionOn(curve, today, expects, day)
<1>1. c.untilNegative = until /\ c.commitments = CommitmentCoverage(expects, lowest, until)
      /\ c.forecast = curve
  BY DEF PositionOn
<1>2. IsFiniteSet(C) /\ \A d \in C : d.date \in Int /\ d.balance \in Int
  BY DEF WholeCurve
<1> HIDE DEF C
<1>3. IsFiniteSet(balances \cup {today}) /\ balances \cup {today} \subseteq Int
  <2>1. IsFiniteSet(balances)
    <3> DEFINE f == [d \in C |-> d.balance]
    <3>1. balances = {f[d] : d \in C}
      OBVIOUS
    <3> HIDE DEF f
    <3> QED
      BY <1>2, <3>1, ImageIsFinite
  <2> QED
    BY <1>2, <2>1, FS_AddElement
<1>4. \A y \in balances \cup {today} : lowest <= y /\ lowest \in Int
  BY <1>3, LeastOfSome
<1>5. dips # {} => Min(dates) \in dates /\ \A y \in dates : Min(dates) <= y
  <2>1. IsFiniteSet(dips)
    BY <1>2, FS_Subset
  <2>2. IsFiniteSet(dates)
    <3> DEFINE f == [d \in dips |-> d.date]
    <3>1. dates = {f[d] : d \in dips}
      OBVIOUS
    <3> HIDE DEF f, dips
    <3> QED
      BY <2>1, <3>1, ImageIsFinite
  <2>3. dates \subseteq Int
    BY <1>2
  <2>4. dips # {} => dates # {}
    OBVIOUS
  <2> HIDE DEF dates, dips
  <2> QED
    BY <2>2, <2>3, <2>4, LeastOfSome
<1>6. c.commitments = "coberto" => ~(lowest < 0)
  BY <1>1 DEF CommitmentCoverage
<1>7. ASSUME ~(lowest < 0)
      PROVE  (\A d \in C : d.balance >= 0) /\ dips = {}
  <2>1. ASSUME NEW d \in C
        PROVE  d.balance >= 0
    <3>1. d.balance \in balances \cup {today}
      OBVIOUS
    <3>2. lowest <= d.balance /\ lowest \in Int /\ d.balance \in Int
      BY <1>2, <1>4, <3>1
    <3> HIDE DEF lowest
    <3> QED
      BY <1>7, <3>2
  <2>2. ASSUME NEW d \in C
        PROVE  ~(d.balance < 0)
    BY <1>2, <2>1
  <2> QED
    BY <2>1, <2>2
<1>8. ASSUME NEW d \in C, d.date > day, d.balance < 0
      PROVE  d.date >= day + (Min(dates) - day)
  <2>1. d \in dips /\ d.date \in dates
    BY <1>8
  <2>2. Min(dates) \in Int
    BY <1>2, <1>5, <2>1
  <2>3. Min(dates) <= d.date /\ d.date \in Int
    BY <1>2, <1>5, <2>1
  <2> HIDE DEF dates
  <2> QED
    BY <2>2, <2>3
<1>9. c.untilNegative # Nobody => c.untilNegative = Min(dates) - day
  BY <1>1
<1> HIDE DEF c, dates, lowest
<1> QED
  BY <1>1, <1>6, <1>7, <1>8, <1>9 DEF C, c

LEMMA CoveredIsCovered ==
  ASSUME BooksInv
  PROVE  CoveredMeansCovered
<1> DEFINE m == MonthOf(now)
           ck == NewMonthClock(m, now)
           points == CashFlowForecast(ledger, m)
           rates == CashInRates(ledger, WindowStart(ck), WindowEnd(ck))
           c == view.cash
<1>1. /\ ledger \subseteq Entry /\ IsFiniteSet(ledger) /\ now \in Int /\ m \in Months
      /\ view = Assemble(ledger, goals, m, now)
  BY ThisMonth DEF BooksInv
<1>2. /\ c = BuildCashPosition(points, rates, now)
      /\ view.recommendations = BuildRecommendations(view.projection, view.trends, c)
  BY <1>1 DEF Assemble, Input, Build, Built
<1>3. /\ WholePoints(points) /\ DOMAIN points = 1..MonthLengths[m] /\ MonthLengths[m] \in Nat \ {0}
      /\ WholeRates(rates)
  BY <1>1, BookedCurve, RatesAreWhole, MonthsAreNumbered
<1> HIDE DEF m, points, rates, c
<1> DEFINE curve == Forecast(points, rates, now)
<1>4. c = PositionOn(curve, BalanceToday(points, now), Sample(rates) > 0, now)
  <2>1. 1 \in DOMAIN points
    BY <1>3
  <2>2. points # <<>>
    BY <2>1
  <2> QED
    BY <1>2, <2>2 DEF BuildCashPosition
<1>5. WholeCurve(curve) /\ BalanceToday(points, now) \in Int
  BY <1>3, CurveIsWhole, BalanceOfToday
<1>6. Curve(view) = ToSet(curve)
  <2>1. c.forecast = curve
    BY <1>4 DEF PositionOn
  <2> QED
    BY <2>1 DEF Curve, c
<1> HIDE DEF curve
<1>7. /\ c.commitments = "coberto" =>
            /\ \A d \in ToSet(curve) : d.balance >= 0
            /\ c.untilNegative = Nobody
      /\ c.untilNegative # Nobody =>
            \A d \in ToSet(curve) : d.date > now /\ d.balance < 0
                => d.date >= now + c.untilNegative
  BY <1>1, <1>4, <1>5, CoveredOnACurve
<1>8. c.untilNegative = Nobody => ~Says(view.recommendations, "runway")
  BY <1>2, AdviceIsSaid
<1> QED
  BY <1>6, <1>7, <1>8 DEF CoveredMeansCovered, c

-----------------------------------------------------------------------------
(* The bills of the day.  The prices are positive, so a total of nothing   *)
(* means that nothing is due.                                              *)

LEMMA PositiveTotal ==
  ASSUME NEW L, L \subseteq Entry, IsFiniteSet(L), NEW S, S \subseteq L
  PROVE  Total(S) > 0 <=> S # {}
<1>1. Priced(S) /\ IsFiniteSet(S)
  BY PricedPart, FS_Subset
<1>2. Total(S) = SumOver(AmountsOf(S), S)
  BY <1>1, TotalIsSum
<1>3. S # {} => SumOver(AmountsOf(S), S) > 0
  <2>1. \A e \in S : AmountsOf(S)[e] \in Nat \ {0}
    BY DEF AmountsOf, Entry
  <2> QED
    BY <1>1, <2>1, PositiveSum
<1>4. S = {} => ~(Total(S) > 0)
  <2>1. SumOver(AmountsOf({}), {}) = 0 /\ ~(0 > 0)
    BY SumOfNothing
  <2> QED
    BY <1>2, <2>1
<1> QED
  BY <1>2, <1>3, <1>4

(* The bills that a look-back of the ledger holds are due or late.         *)
LEMMA DueOrLate ==
  ASSUME NEW L, L \subseteq Entry, NEW day \in Int
  PROVE  LET S == LookBack(L, day)
         IN  /\ S \subseteq L
             /\ Pending(S) = DueOn(S, day) \cup Overdue(S, day)
<1> DEFINE S == LookBack(L, day)
           first == FirstDay[Larger(1, MonthOf(day) - OverdueLookbackMonths)]
<1>1. S = {e \in L : EffectiveDate(e) # Nobody /\ EffectiveDate(e) \in first..day}
  BY DEF LookBack, Within, BasisDate
<1> HIDE DEF S, first
<1>2. S \subseteq L
  BY <1>1
<1>3. ASSUME NEW e \in S
      PROVE  EffectiveDate(e) = day \/ EffectiveDate(e) < day
  <2>1. EffectiveDate(e) \in first..day
    BY <1>1
  <2> QED
    BY <2>1
<1>4. Pending(S) = DueOn(S, day) \cup Overdue(S, day)
  <2>1. Pending(S) \subseteq S
    BY DEF Pending, Expenses
  <2> QED
    BY <1>3, <2>1 DEF DueOn, Overdue
<1> QED
  BY <1>2, <1>4 DEF S

(* The messages are filled line by line.                                   *)
AddLine(chunks, line) ==
    IF chunks # <<>> /\ Fits(Last(chunks), line)
    THEN Append(Front(chunks), Append(Last(chunks), line))
    ELSE Append(chunks, <<line>>)

Chunked(lines, g) ==
    g = [s \in SUBSET DOMAIN lines |->
            IF s = {} THEN <<>> ELSE AddLine(g[s \ {Max(s)}], lines[Max(s)])]

LEMMA ChunksAre ==
  ASSUME NEW lines
  PROVE  ChunkLines(lines) = (CHOOSE g : Chunked(lines, g))[DOMAIN lines]
BY DEF ChunkLines, FoldLeft, MapThenFoldSet, Chunked, AddLine

LEMMA NothingToList ==
  ASSUME NEW S, NEW day, DueOn(S, day) = {}
  PROVE  BillListMessages(S, day) = <<>>
<1> DEFINE bills == DueToday(S, day)
           lines == [k \in DOMAIN bills |-> Line(bills[k])]
           chunks == ChunkLines(lines)
<1>1. DOMAIN bills = {}
  <2>1. Cardinality(DueOn(S, day)) = 0
    BY FS_EmptySet
  <2>2. DOMAIN bills = 1..Cardinality(DueOn(S, day))
    BY DEF DueToday, Sorted
  <2> QED
    BY <2>1, <2>2
<1> HIDE DEF bills
<1>2. DOMAIN lines = {}
  BY <1>1
<1> HIDE DEF lines
<1>3. chunks = <<>>
  <2> DEFINE h == [s \in SUBSET DOMAIN lines |-> <<>>]
  <2>1. \A s \in SUBSET DOMAIN lines : s = {}
    BY <1>2
  <2>2. Chunked(lines, h)
    BY <2>1 DEF Chunked
  <2>3. Chunked(lines, CHOOSE g : Chunked(lines, g))
    BY <2>2
  <2>4. {} \in SUBSET DOMAIN lines
    OBVIOUS
  <2>5. (CHOOSE g : Chunked(lines, g))[{}] = <<>>
    <3>1. PICK f : Chunked(lines, f) /\ f = CHOOSE g : Chunked(lines, g)
      BY <2>3
    <3>2. f[{}] = <<>>
      BY <2>4, <3>1 DEF Chunked
    <3> QED
      BY <3>1, <3>2
  <2> QED
    BY <1>2, <2>5, ChunksAre
<1> HIDE DEF chunks
<1>4. BillListMessages(S, day)
        = [k \in DOMAIN chunks |->
              [total  |-> IF k = 1 THEN SumOfRows(bills, Amount) ELSE 0,
               lines  |-> chunks[k],
               length |-> (IF k = 1 THEN HeaderLength ELSE ContinuationLength)
                          + 2 + SizeOf(chunks[k]) - 1]]
  BY DEF BillListMessages, chunks, lines, bills
<1>5. DOMAIN chunks = {}
  BY <1>3
<1> QED
  BY <1>4, <1>5

Warns(alerts) == \E k \in DOMAIN alerts : alerts[k].kind # "goal"

LEMMA WarnsAmongElements ==
  ASSUME NEW alerts
  PROVE  Warns(alerts) <=> \E x \in Elements(alerts) : x.kind # "goal"
BY DEF Warns, Elements

(* The digest warns exactly when something is due or late.                 *)
LEMMA WarnedIsOwed ==
  ASSUME NEW L, L \subseteq Entry, IsFiniteSet(L), NEW S, S \subseteq L,
         NEW revenue, NEW goal, NEW day
  PROVE  Warns(Evaluate(S, revenue, goal, day)) <=> ~Quiet(S, day)
<1> DEFINE late == Sorted(Overdue(S, day), LAMBDA x, y :
                      \/ EffectiveDate(x) > EffectiveDate(y)
                      \/ EffectiveDate(x) = EffectiveDate(y) /\ x.id > y.id)
           due  == Total(DueOn(S, day))
           n    == Smaller(Len(late), MaxOverdue)
           a1 == When(due > 0, [kind |-> "due_today", of |-> due])
           a2 == [k \in 1..n |-> [kind |-> "overdue", of |-> late[k].id]]
           a3 == When(goal.revenue > 0 /\ revenue >= goal.revenue, [kind |-> "goal", of |-> revenue])
<1>1. Evaluate(S, revenue, goal, day) = a1 \o a2 \o a3
  BY DEF Evaluate
<1>2. DueOn(S, day) \subseteq L /\ Overdue(S, day) \subseteq L
  BY DEF DueOn, Overdue, Pending, Expenses
<1>3. IsList(a1) /\ (Warns(a1) <=> due > 0)
  BY SaysNothing, SaysOne, WarnsAmongElements DEF When
<1>4. IsList(a3) /\ ~Warns(a3)
  BY SaysNothing, SaysOne, WarnsAmongElements DEF When
<1>5. due > 0 <=> DueOn(S, day) # {}
  BY <1>2, PositiveTotal
<1>6. Len(late) = Cardinality(Overdue(S, day)) /\ Cardinality(Overdue(S, day)) \in Nat
  <2>1. Cardinality(Overdue(S, day)) \in Nat
    BY <1>2, FS_Subset, FS_CardinalityType
  <2> QED
    BY <2>1 DEF Sorted
<1>7. n \in Nat /\ (n > 0 <=> Overdue(S, day) # {})
  <2>1. Cardinality(Overdue(S, day)) = 0 <=> Overdue(S, day) = {}
    BY <1>2, FS_Subset, FS_EmptySet
  <2>2. MaxOverdue \in Nat \ {0}
    BY BooksAssumption
  <2> DEFINE k == Cardinality(Overdue(S, day))
  <2>3. n = IF k <= MaxOverdue THEN k ELSE MaxOverdue
    BY <1>6 DEF Smaller
  <2>4. k \in Nat /\ (k = 0 <=> Overdue(S, day) = {})
    BY <1>6, <2>1
  <2> HIDE DEF n, k
  <2>5. n \in Nat /\ (n > 0 <=> k # 0)
    BY <2>2, <2>3, <2>4
  <2> QED
    BY <2>4, <2>5
<1> HIDE DEF late, due, n
<1>8. IsList(a2) /\ (Warns(a2) <=> n > 0)
  <2> DEFINE T == {[kind |-> "overdue", of |-> late[k].id] : k \in 1..n}
  <2>1. a2 \in [1..n -> T]
    OBVIOUS
  <2>2. a2 \in Seq(T)
    BY <1>7, <2>1
  <2>3. IsList(a2)
    BY <2>2 DEF IsList
  <2>4. DOMAIN a2 = 1..n /\ \A k \in 1..n : a2[k].kind = "overdue"
    OBVIOUS
  <2>5. n > 0 <=> \E k \in 1..n : TRUE
    <3>1. n > 0 => 1 \in 1..n
      BY <1>7
    <3>2. ASSUME NEW k \in 1..n
          PROVE  n > 0
      BY <1>7
    <3> QED
      BY <3>1, <3>2
  <2> HIDE DEF a2
  <2>6. Warns(a2) <=> \E k \in 1..n : TRUE
    BY <2>4 DEF Warns
  <2> QED
    BY <2>3, <2>5, <2>6
<1> HIDE DEF a1, a2, a3
<1>9. Warns(a1 \o a2 \o a3) <=> (Warns(a1) \/ Warns(a2) \/ Warns(a3))
  <2>1. IsList(a1 \o a2) /\ Elements(a1 \o a2) = Elements(a1) \cup Elements(a2)
    BY <1>3, <1>8, ElementsOfBoth
  <2>2. Elements(a1 \o a2 \o a3) = Elements(a1) \cup Elements(a2) \cup Elements(a3)
    BY <1>4, <2>1, ElementsOfBoth
  <2>3. \A u : Warns(u) <=> \E x \in Elements(u) : x.kind # "goal"
    BY DEF Warns, Elements
  <2> QED
    BY <2>2, <2>3
<1>10. Quiet(S, day) <=> DueOn(S, day) = {} /\ Overdue(S, day) = {}
  BY DEF Quiet
<1> QED
  BY <1>1, <1>3, <1>4, <1>5, <1>7, <1>8, <1>9, <1>10

LEMMA CalmIsQuiet ==
  ASSUME BooksInv
  PROVE  CalmMeansNothingOwed
<1> DEFINE S == LookBack(ledger, now)
           d == Digest(ledger, goals, view, now)
<1>1. ledger \subseteq Entry /\ IsFiniteSet(ledger) /\ now \in Int
  BY ThisMonth DEF BooksInv
<1>2. S \subseteq ledger /\ Pending(S) = DueOn(S, now) \cup Overdue(S, now)
  BY <1>1, DueOrLate
<1>3. /\ d.alerts = Evaluate(S, view.kpis.faturamento, GoalOf(goals, view.month), now)
      /\ d.calm = CalmLine(S, now, view.cash.commitments)
  BY DEF Digest
<1> HIDE DEF S, d
<1>4. Warns(d.alerts) <=> ~Quiet(S, now)
  BY <1>1, <1>2, <1>3, WarnedIsOwed
<1>5. d.calm = "none" <=> ~Quiet(S, now)
  BY <1>3 DEF CalmLine
<1>6. Quiet(S, now) => Pending(S) = {} /\ BillListMessages(S, now) = <<>>
  BY <1>2, NothingToList DEF Quiet
<1>7. LET warned == \E k \in DOMAIN d.alerts : d.alerts[k].kind # "goal"
      IN  /\ (d.calm = "none") <=> warned
          /\ d.calm # "none" => /\ Pending(S) = {}
                                /\ BillListMessages(S, now) = <<>>
  BY <1>4, <1>5, <1>6 DEF Warns
<1> QED
  BY <1>7 DEF CalmMeansNothingOwed, S, d

(* The words follow the figures.  For any ledger, goals and calendar: the  *)
(* warning about falling sales and its advice come together, "coberto" is  *)
(* never said over a curve that goes under water, and the digest is calm   *)
(* exactly when nothing is due or late (health.go, recommendations.go,     *)
(* cashposition.go, notifications.go).                                     *)
THEOREM WordsFollowTheFigures == BooksSpec => []WordsMatchTheFigures
<1>1. BooksInv => WordsMatchTheFigures
  BY FallsAreSaidTwice, CoveredIsCovered, CalmIsQuiet DEF WordsMatchTheFigures
<1> QED
  BY <1>1, BooksAreKept, PTL

-----------------------------------------------------------------------------
(* More about sums: over a sequence, line by line; over another set, one   *)
(* to one; and part by part.                                               *)

LEMMA GreatestOfSome ==
  ASSUME NEW S, IsFiniteSet(S), S \subseteq Int, S # {}
  PROVE  Max(S) \in S /\ \A y \in S : Max(S) >= y
<1> DEFINE W == {s \in SUBSET S : s # {} => \E x \in s : \A y \in s : x >= y}
<1>1. {} \in W
  OBVIOUS
<1>2. ASSUME NEW s \in SUBSET S, NEW x \in s, s \ {x} \in W
      PROVE  s \in W
  <2>1. \A y \in s : y \in Int
    OBVIOUS
  <2>2. CASE s \ {x} = {}
    <3>1. \A y \in s : y = x
      BY <2>2
    <3>2. x >= x
      BY <2>1
    <3> QED
      BY <3>1, <3>2
  <2>3. CASE s \ {x} # {}
    <3>1. PICK z \in s \ {x} : \A y \in s \ {x} : z >= y
      BY <1>2, <2>3
    <3>2. CASE x >= z
      <4>1. \A y \in s : x >= y
        BY <2>1, <3>1, <3>2
      <4> QED
        BY <4>1
    <3>3. CASE ~(x >= z)
      <4>1. \A y \in s : z >= y
        BY <2>1, <3>1, <3>3
      <4> QED
        BY <4>1
    <3> QED
      BY <3>2, <3>3
  <2> QED
    BY <2>2, <2>3
<1> HIDE DEF W
<1>3. S \in W
  BY <1>1, <1>2, OneByOne
<1>4. \E x \in S : \A y \in S : x >= y
  BY <1>3 DEF W
<1> QED
  BY <1>4 DEF Max

(* A fold from left to right: the last line is added last.                 *)
LastAdded(f, S, g) ==
    g = [s \in SUBSET S |-> IF s = {} THEN 0 ELSE g[s \ {Max(s)}] + f[Max(s)]]

LEMMA LineByLine ==
  ASSUME NEW S, IsFiniteSet(S), S \subseteq Int, NEW f, \A x \in S : f[x] \in Int
  PROVE  (CHOOSE g : LastAdded(f, S, g))[S] = SumOver(f, S)
<1>1. ASSUME NEW s \in SUBSET S, s # {}
      PROVE  /\ Max(s) \in s /\ SumOver(f, s \ {Max(s)}) \in Int /\ f[Max(s)] \in Int
             /\ SumOver(f, s) = SumOver(f, s \ {Max(s)}) + f[Max(s)]
  <2>1. IsFiniteSet(s) /\ s \subseteq Int /\ \A x \in s : f[x] \in Int
    BY FS_Subset
  <2>2. Max(s) \in s
    BY <1>1, <2>1, GreatestOfSome
  <2>3. SumOver(f, s) = f[Max(s)] + SumOver(f, s \ {Max(s)})
    BY <2>1, <2>2, SumLess
  <2>4. IsFiniteSet(s \ {Max(s)})
    BY <2>1, FS_Subset
  <2>5. SumOver(f, s \ {Max(s)}) \in Int
    BY <2>1, <2>4, SumIsAnInteger
  <2>6. f[Max(s)] \in Int
    BY <2>1, <2>2
  <2> QED
    BY <2>2, <2>3, <2>5, <2>6
<1> DEFINE h == [s \in SUBSET S |-> SumOver(f, s)]
<1>2. LastAdded(f, S, h)
  <2>1. \A s \in SUBSET S : SumOver(f, s) = IF s = {} THEN 0 ELSE h[s \ {Max(s)}] + f[Max(s)]
    <3> SUFFICES ASSUME NEW s \in SUBSET S
                 PROVE  SumOver(f, s) = IF s = {} THEN 0 ELSE h[s \ {Max(s)}] + f[Max(s)]
      OBVIOUS
    <3>1. CASE s = {}
      BY <3>1, SumOfNothing
    <3>2. CASE s # {}
      <4>1. h[s \ {Max(s)}] = SumOver(f, s \ {Max(s)})
        OBVIOUS
      <4> QED
        BY <1>1, <3>2, <4>1
    <3> QED
      BY <3>1, <3>2
  <2> QED
    BY <2>1 DEF LastAdded
<1>3. PICK g : LastAdded(f, S, g) /\ g = CHOOSE e : LastAdded(f, S, e)
  BY <1>2
<1> DEFINE W == {s \in SUBSET S : g[s] = SumOver(f, s)}
<1>4. {} \in W
  <2>1. {} \in SUBSET S
    OBVIOUS
  <2>2. g[{}] = 0
    BY <1>3, <2>1 DEF LastAdded
  <2> QED
    BY <2>1, <2>2, SumOfNothing
<1>5. \A s \in SUBSET S : s # {} => g[s] = g[s \ {Max(s)}] + f[Max(s)]
  BY <1>3 DEF LastAdded
(* In this order only the greatest element can be taken away.              *)
<1> DEFINE T == {Cardinality(s) : s \in {q \in SUBSET S : q \notin W}}
<1>6. S \in W
  <2>1. SUFFICES ASSUME S \notin W PROVE FALSE
    OBVIOUS
  <2>2. \A s \in SUBSET S : IsFiniteSet(s) /\ Cardinality(s) \in Nat
    BY FS_Subset, FS_CardinalityType
  <2>3. T \in SUBSET Nat
    BY <2>2
  <2>4. T # {}
    BY <2>1
  <2>5. PICK n \in T : \A j \in T : n <= j
    BY <2>3, <2>4, LeastNatural
  <2>6. PICK s \in SUBSET S : n = Cardinality(s) /\ s \notin W
    BY <2>5
  <2>7. s # {}
    BY <1>4, <2>6
  <2>8. Max(s) \in s
    BY <1>1, <2>7
  <2>9. s \ {Max(s)} \in SUBSET S
    OBVIOUS
  <2>10. s \ {Max(s)} \in W
    <3>1. SUFFICES ASSUME s \ {Max(s)} \notin W PROVE FALSE
      OBVIOUS
    <3>2. n <= Cardinality(s \ {Max(s)})
      BY <2>5, <2>9, <3>1
    <3>3. /\ Cardinality(s \ {Max(s)}) \in Nat /\ Cardinality(s) \in Nat
          /\ Cardinality(s) = Cardinality(s \ {Max(s)}) + 1
      BY <2>2, <2>8, OneLess
    <3> HIDE DEF T, W
    <3> QED
      BY <2>6, <3>2, <3>3
  <2>11. g[s] = SumOver(f, s)
    BY <1>1, <1>5, <2>7, <2>10
  <2> QED
    BY <2>6, <2>11
<1> QED
  BY <1>3, <1>6

(* A sum over the lines of something.                                      *)
Lined(rows) == IsFiniteSet(DOMAIN rows) /\ DOMAIN rows \subseteq Int

LEMMA AmountOfRows ==
  ASSUME NEW rows, Lined(rows), NEW f, \A k \in DOMAIN rows : f[k] \in Int /\ f[k] = rows[k].amount
  PROVE  SumOfRows(rows, Amount) = SumOver(f, DOMAIN rows)
<1> DEFINE S == DOMAIN rows
           Fold(g) == g = [s \in SUBSET S |->
                             IF s = {} THEN 0 ELSE g[s \ {Max(s)}] + Amount(rows[Max(s)])]
<1>1. ASSUME NEW g
      PROVE  Fold(g) <=> LastAdded(f, S, g)
  <2>1. ASSUME NEW s \in SUBSET S, s # {}
        PROVE  f[Max(s)] = Amount(rows[Max(s)])
    <3>1. IsFiniteSet(s) /\ s \subseteq Int
      BY FS_Subset DEF Lined
    <3>2. Max(s) \in S
      BY <2>1, <3>1, GreatestOfSome
    <3> QED
      BY <3>2 DEF Amount
  <2> QED
    BY <2>1 DEF LastAdded
<1>2. SumOfRows(rows, Amount) = (CHOOSE g : Fold(g))[S]
  BY DEF SumOfRows, FoldLeft, MapThenFoldSet
<1> HIDE DEF Fold
<1>3. (CHOOSE g : Fold(g)) = CHOOSE g : LastAdded(f, S, g)
  BY <1>1
<1>4. (CHOOSE g : LastAdded(f, S, g))[S] = SumOver(f, S)
  BY LineByLine DEF Lined
<1> QED
  BY <1>2, <1>3, <1>4

LEMMA TotalsOfRows ==
  ASSUME NEW rows, Lined(rows), NEW f, \A k \in DOMAIN rows : f[k] \in Int /\ f[k] = rows[k].total
  PROVE  TotalOfRows(rows) = SumOver(f, DOMAIN rows)
<1> DEFINE S == DOMAIN rows
           Fold(g) == g = [s \in SUBSET S |->
                             IF s = {} THEN 0 ELSE g[s \ {Max(s)}] + rows[Max(s)].total]
<1>1. ASSUME NEW g
      PROVE  Fold(g) <=> LastAdded(f, S, g)
  <2>1. ASSUME NEW s \in SUBSET S, s # {}
        PROVE  f[Max(s)] = rows[Max(s)].total
    <3>1. IsFiniteSet(s) /\ s \subseteq Int
      BY FS_Subset DEF Lined
    <3>2. Max(s) \in S
      BY <2>1, <3>1, GreatestOfSome
    <3> QED
      BY <3>2
  <2> QED
    BY <2>1 DEF LastAdded
<1>2. TotalOfRows(rows) = (CHOOSE g : Fold(g))[S]
  BY DEF TotalOfRows, SumOfRows, FoldLeft, MapThenFoldSet
<1> HIDE DEF Fold
<1>3. (CHOOSE g : Fold(g)) = CHOOSE g : LastAdded(f, S, g)
  BY <1>1
<1>4. (CHOOSE g : LastAdded(f, S, g))[S] = SumOver(f, S)
  BY LineByLine DEF Lined
<1> QED
  BY <1>2, <1>3, <1>4

LEMMA SizeOfRows ==
  ASSUME NEW rows, Lined(rows), NEW f, \A k \in DOMAIN rows : f[k] \in Int /\ f[k] = Cost(rows[k])
  PROVE  SizeOf(rows) = SumOver(f, DOMAIN rows)
<1> DEFINE S == DOMAIN rows
           Fold(g) == g = [s \in SUBSET S |->
                             IF s = {} THEN 0 ELSE g[s \ {Max(s)}] + Cost(rows[Max(s)])]
<1>1. ASSUME NEW g
      PROVE  Fold(g) <=> LastAdded(f, S, g)
  <2>1. ASSUME NEW s \in SUBSET S, s # {}
        PROVE  f[Max(s)] = Cost(rows[Max(s)])
    <3>1. IsFiniteSet(s) /\ s \subseteq Int
      BY FS_Subset DEF Lined
    <3>2. Max(s) \in S
      BY <2>1, <3>1, GreatestOfSome
    <3> QED
      BY <3>2
  <2> QED
    BY <2>1 DEF LastAdded
<1>2. SizeOf(rows) = (CHOOSE g : Fold(g))[S]
  BY DEF SizeOf, SumOfRows, FoldLeft, MapThenFoldSet
<1> HIDE DEF Fold
<1>3. (CHOOSE g : Fold(g)) = CHOOSE g : LastAdded(f, S, g)
  BY <1>1
<1>4. (CHOOSE g : LastAdded(f, S, g))[S] = SumOver(f, S)
  BY LineByLine DEF Lined
<1> QED
  BY <1>2, <1>3, <1>4

(* A set is put in order by how many of it come before each: `before[x]'   *)
(* are the elements that come before x.                                    *)
Ranked(S, before) ==
    /\ \A x \in S : before[x] \subseteq S /\ x \notin before[x]
    /\ \A x \in S : \A y \in before[x] : before[y] \subseteq before[x]
    /\ \A x, y \in S : x = y \/ x \in before[y] \/ y \in before[x]

InRank(S, before) ==
    [k \in 1..Cardinality(S) |-> CHOOSE x \in S : Cardinality(before[x]) = k - 1]

LEMMA RanksAreOneForOne ==
  ASSUME NEW S, IsFiniteSet(S), NEW before, Ranked(S, before)
  PROVE  /\ OneForOne(InRank(S, before), 1..Cardinality(S), S)
         /\ \A k \in 1..Cardinality(S) : Cardinality(before[InRank(S, before)[k]]) = k - 1
<1> DEFINE n == Cardinality(S)
           rank == [x \in S |-> Cardinality(before[x])]
<1>0. n \in Nat
  BY FS_CardinalityType
<1>1. ASSUME NEW x \in S
      PROVE  IsFiniteSet(before[x]) /\ rank[x] \in 0..(n - 1)
  <2>1. before[x] \subseteq S /\ before[x] # S
    BY DEF Ranked
  <2>2. /\ IsFiniteSet(before[x]) /\ Cardinality(before[x]) <= n
        /\ (n = Cardinality(before[x]) => S = before[x])
    BY <2>1, FS_Subset
  <2>3. Cardinality(before[x]) \in Nat
    BY <2>2, FS_CardinalityType
  <2> HIDE DEF n
  <2>4. Cardinality(before[x]) < n
    BY <1>0, <2>1, <2>2, <2>3
  <2>5. Cardinality(before[x]) \in 0..(n - 1)
    BY <1>0, <2>3, <2>4
  <2> QED
    BY <2>2, <2>5
<1>2. ASSUME NEW x \in S, NEW y \in before[x]
      PROVE  rank[y] < rank[x]
  <2>1. y \in S /\ before[y] \subseteq before[x] /\ y \notin before[y]
    BY DEF Ranked
  <2>2. before[y] # before[x]
    BY <2>1
  <2>3. /\ Cardinality(before[y]) <= Cardinality(before[x])
        /\ (Cardinality(before[x]) = Cardinality(before[y]) => before[x] = before[y])
    BY <1>1, <2>1, FS_Subset
  <2>4. Cardinality(before[x]) \in Nat /\ Cardinality(before[y]) \in Nat
    BY <1>1, <2>1, FS_CardinalityType
  <2>5. Cardinality(before[y]) < Cardinality(before[x])
    BY <2>2, <2>3, <2>4
  <2> QED
    BY <2>1, <2>5
<1>3. ASSUME NEW x \in S, NEW y \in S, rank[x] = rank[y]
      PROVE  x = y
  <2>1. rank[x] \in Int /\ rank[y] \in Int
    BY <1>1
  <2>2. x \notin before[y]
    <3>1. SUFFICES ASSUME x \in before[y] PROVE FALSE
      OBVIOUS
    <3>2. rank[x] < rank[y]
      BY <1>2, <3>1
    <3> HIDE DEF rank
    <3> QED
      BY <1>3, <2>1, <3>2
  <2>3. y \notin before[x]
    <3>1. SUFFICES ASSUME y \in before[x] PROVE FALSE
      OBVIOUS
    <3>2. rank[y] < rank[x]
      BY <1>2, <3>1
    <3> HIDE DEF rank
    <3> QED
      BY <1>3, <2>1, <3>2
  <2> QED
    BY <2>2, <2>3 DEF Ranked
<1>4. rank \in Injection(S, 0..(n - 1))
  <2>1. rank \in [S -> 0..(n - 1)]
    BY <1>1
  <2>2. IsInjective(rank)
    BY <1>3 DEF IsInjective
  <2> HIDE DEF rank
  <2> QED
    BY <2>1, <2>2 DEF Injection
<1>5. IsFiniteSet(0..(n - 1)) /\ Cardinality(0..(n - 1)) = n
  <2> HIDE DEF n
  <2>1. /\ IsFiniteSet(0..(n - 1))
        /\ Cardinality(0..(n - 1)) = IF 0 > n - 1 THEN 0 ELSE (n - 1) - 0 + 1
    BY <1>0, FS_Interval
  <2> QED
    BY <1>0, <2>1
<1>6. rank \in Surjection(S, 0..(n - 1))
  BY <1>4, <1>5, FS_Injection
<1>7. \A k \in 0..(n - 1) : \E x \in S : rank[x] = k
  BY <1>6 DEF Surjection
<1> DEFINE s == InRank(S, before)
<1>8. ASSUME NEW k \in 1..n
      PROVE  s[k] \in S /\ rank[s[k]] = k - 1
  <2>1. k - 1 \in 0..(n - 1)
    BY <1>0
  <2>2. PICK x \in S : rank[x] = k - 1
    BY <1>7, <2>1
  <2>3. s[k] = CHOOSE y \in S : Cardinality(before[y]) = k - 1
    BY DEF InRank
  <2>4. s[k] \in S /\ Cardinality(before[s[k]]) = k - 1
    BY <2>2, <2>3
  <2> QED
    BY <2>4
<1> HIDE DEF s
<1>9. ASSUME NEW x \in S
      PROVE  \E k \in 1..n : s[k] = x
  <2>1. rank[x] \in 0..(n - 1)
    BY <1>1
  <2> DEFINE k == rank[x] + 1
  <2>2. k \in 1..n /\ k - 1 = rank[x]
    BY <1>0, <2>1
  <2>3. s[k] \in S /\ rank[s[k]] = rank[x]
    BY <1>8, <2>2
  <2>4. s[k] = x
    BY <1>3, <2>3
  <2> QED
    BY <2>2, <2>4
<1>10. ASSUME NEW j \in 1..n, NEW k \in 1..n, s[j] = s[k]
       PROVE  j = k
  <2>1. rank[s[j]] = j - 1 /\ rank[s[k]] = k - 1
    BY <1>8
  <2>2. j \in Int /\ k \in Int
    OBVIOUS
  <2> QED
    BY <1>10, <2>1, <2>2
<1>11. \A k \in 1..n : Cardinality(before[s[k]]) = k - 1
  BY <1>8
<1> HIDE DEF rank, n
<1>12. OneForOne(s, 1..n, S)
  BY <1>8, <1>9, <1>10 DEF OneForOne
<1> QED
  BY <1>11, <1>12 DEF s, n

-----------------------------------------------------------------------------
(* The ids number the entries, so each entry has one of its own.           *)
NumberedInv == /\ \A e \in ledger : Valid(e) /\ e.id \in 1..Cardinality(ledger)
               /\ \A e, f \in ledger : e.id = f.id => e = f

LEMMA NumberedStart == BooksInit => NumberedInv
<1> SUFFICES ASSUME BooksInit PROVE NumberedInv
  OBVIOUS
<1>1. /\ ledger \subseteq Entry /\ IsFiniteSet(ledger) /\ \A e \in ledger : Valid(e)
      /\ {e.id : e \in ledger} = 1..Cardinality(ledger)
  BY BooksAssumption DEF BooksInit
<1> DEFINE n == Cardinality(ledger)
           id == [e \in ledger |-> e.id]
<1>2. n \in Nat /\ IsFiniteSet(1..n) /\ Cardinality(1..n) = n
  <2>1. n \in Nat
    BY <1>1, FS_CardinalityType
  <2> HIDE DEF n
  <2>2. IsFiniteSet(1..n) /\ Cardinality(1..n) = IF 1 > n THEN 0 ELSE n - 1 + 1
    BY <2>1, FS_Interval
  <2> QED
    BY <2>1, <2>2
<1>3. id \in Surjection(ledger, 1..n)
  <2>1. \A k \in 1..n : \E e \in ledger : e.id = k
    BY <1>1
  <2>2. \A e \in ledger : e.id \in 1..n
    BY <1>1
  <2> HIDE DEF n
  <2> QED
    BY <2>1, <2>2 DEF Surjection
<1>4. id \in Injection(ledger, 1..n)
  BY <1>1, <1>2, <1>3, FS_Surjection
<1>5. \A e, f \in ledger : e.id = f.id => e = f
  BY <1>4 DEF Injection, IsInjective
<1> QED
  BY <1>1, <1>5 DEF NumberedInv

LEMMA RegisteredIsValid ==
  ASSUME NEW item \in Menu, NEW day \in FirstNow..LastNow, NEW id \in Nat
  PROVE  Valid(Registered(item, day, id)) /\ Registered(item, day, id).id = id
<1>1. item \in Items /\ day \in Days /\ day + item.delay \in Days
  BY BooksAssumption
<1> DEFINE u == IF item.delay = 0 THEN Nobody ELSE day + item.delay
           s == IF item.delay = 0 THEN "paid" ELSE "pending"
           d == [id |-> id, type |-> item.type, origin |-> item.origin,
                 amount |-> item.amount, category |-> item.category, date |-> day,
                 due |-> u, status |-> s, pay |-> Nobody, method |-> Nobody]
           pay    == IF s = "pending" THEN Nobody ELSE day
           origin == IF item.type = "expense" THEN Nobody ELSE item.origin
           n == [d EXCEPT !.pay = pay, !.method = Nobody, !.origin = origin]
<1>2. Registered(item, day, id) = Normalize(d)
  BY DEF Registered
<1>3. s \in {"paid", "pending"}
  OBVIOUS
<1> HIDE DEF u, s
<1>4. Normalize(d) = n
  <2>1. /\ d.status = s /\ d.pay = Nobody /\ d.method = Nobody /\ d.date = day
        /\ d.type = item.type /\ d.origin = item.origin
    OBVIOUS
  <2>2. pay = IF d.status = "pending" THEN Nobody
              ELSE IF d.status = "paid" /\ d.pay = Nobody THEN d.date ELSE d.pay
    BY <1>3, <2>1
  <2>3. origin = IF d.type = "expense" THEN Nobody ELSE d.origin
    BY <2>1
  <2>4. Nobody = IF d.status = "pending" THEN Nobody ELSE d.method
    BY <2>1
  <2> HIDE DEF d, pay, origin
  <2> QED
    BY <2>2, <2>3, <2>4 DEF Normalize
<1>5. item.amount > 0 /\ item.type \in Types /\ item.origin \in Origins \cup {Nobody}
  BY <1>1 DEF Items
<1>6. origin # Nobody => item.type = "income" /\ origin \in Origins
  BY <1>5 DEF Types
<1>7. (s = "paid") <=> (pay # Nobody)
  BY <1>1, <1>3, EntriesAssumption
<1>8. n.id = id /\ n.amount = item.amount /\ n.date = day /\ n.type = item.type /\ n.origin = origin
      /\ n.status = s /\ n.pay = pay
  OBVIOUS
<1> HIDE DEF n, d, pay, origin
<1>9. Valid(n)
  BY <1>1, <1>3, <1>5, <1>6, <1>7, <1>8 DEF Valid, Statuses
<1> QED
  BY <1>2, <1>4, <1>8, <1>9

LEMMA NumberedStep == BooksInv /\ NumberedInv /\ [BooksNext]_vars => NumberedInv'
<1> SUFFICES ASSUME BooksInv, NumberedInv, [BooksNext]_vars PROVE NumberedInv'
  OBVIOUS
<1> DEFINE n == Cardinality(ledger)
<1>0. n \in Nat /\ n + 1 \in Nat
  BY FS_CardinalityType DEF BooksInv
<1>1. CASE ledger' = ledger
  BY <1>1 DEF NumberedInv
<1>2. ASSUME NEW item \in Menu, Register(item)
      PROVE  NumberedInv'
  <2> DEFINE r == Registered(item, now, n + 1)
  <2>1. ledger' = ledger \cup {r}
    BY <1>2 DEF Register
  <2>2. Valid(r) /\ r.id = n + 1
    BY <1>0, RegisteredIsValid DEF BooksInv
  <2> HIDE DEF r
  <2>3. \A e \in ledger : e.id \in 1..n /\ e.id # n + 1
    BY <1>0 DEF NumberedInv
  <2>4. r \notin ledger
    BY <2>2, <2>3
  <2>5. Cardinality(ledger') = n + 1
    BY <2>1, <2>4, FS_AddElement DEF BooksInv
  <2>6. \A e \in ledger' : Valid(e) /\ e.id \in 1..(n + 1)
    <3> HIDE DEF n
    <3> QED
      BY <1>0, <2>1, <2>2, <2>3 DEF NumberedInv
  <2>7. \A e, f \in ledger' : e.id = f.id => e = f
    BY <2>1, <2>2, <2>3 DEF NumberedInv
  <2> QED
    BY <2>5, <2>6, <2>7 DEF NumberedInv
<1>3. ASSUME NEW e \in ledger, Settle(e)
      PROVE  NumberedInv'
  <2> DEFINE x == [e EXCEPT !.status = "paid", !.pay = now]
             R == ledger \ {e}
  <2>1. ledger' = R \cup {x}
    BY <1>3 DEF Settle
  <2>2. e \in Entry /\ now \in Days /\ Valid(e)
    BY ThisMonth DEF BooksInv, NumberedInv
  <2>3. /\ x.id = e.id /\ x.status = "paid" /\ x.pay = now
        /\ x.amount = e.amount /\ x.date = e.date /\ x.type = e.type /\ x.origin = e.origin
    BY <2>2 DEF Entry
  <2> HIDE DEF x
  <2>4. Valid(x)
    BY <2>2, <2>3, EntriesAssumption DEF Valid, Statuses
  <2>5. \A f \in R : f.id # e.id
    BY DEF NumberedInv
  <2>6. x \notin R
    BY <2>3, <2>5
  <2>7. IsFiniteSet(R) /\ Cardinality(R) = n - 1
    BY FS_RemoveElement DEF BooksInv
  <2> HIDE DEF R
  <2>8. Cardinality(R \cup {x}) = Cardinality(R) + 1
    BY <2>6, <2>7, FS_AddElement
  <2>9. Cardinality(ledger') = n
    <3> HIDE DEF n
    <3> QED
      BY <1>0, <2>1, <2>7, <2>8
  <2>10. \A f \in ledger' : Valid(f) /\ f.id \in 1..n
    BY <2>1, <2>3, <2>4 DEF NumberedInv, R
  <2>11. \A f, g \in ledger' : f.id = g.id => f = g
    BY <2>1, <2>3, <2>5 DEF NumberedInv, R
  <2> QED
    BY <2>9, <2>10, <2>11 DEF NumberedInv
<1>4. CASE NextDay
  BY <1>1, <1>4 DEF NextDay
<1>5. CASE UNCHANGED vars
  BY <1>1, <1>5 DEF vars
<1> QED
  BY <1>2, <1>3, <1>4, <1>5 DEF BooksNext

LEMMA BooksAreNumbered == BooksSpec => [](BooksInv /\ NumberedInv)
<1> QED
  BY BooksStart, BooksStep, NumberedStart, NumberedStep, PTL DEF BooksSpec

-----------------------------------------------------------------------------
(* Lists of entries.  A list is in order of one number, and of another     *)
(* where the first is the same; the two together tell its lines apart.     *)
Ahead(S, a, b) == [x \in S |-> {y \in S : a[y] > a[x] \/ (a[y] = a[x] /\ b[y] > b[x])}]

LEMMA OrderedByTwo ==
  ASSUME NEW S, NEW a, NEW b, \A x \in S : a[x] \in Int /\ b[x] \in Int,
         \A x, y \in S : a[x] = a[y] /\ b[x] = b[y] => x = y
  PROVE  Ranked(S, Ahead(S, a, b))
<1> DEFINE before == Ahead(S, a, b)
           Gt(y, x) == a[y] > a[x] \/ (a[y] = a[x] /\ b[y] > b[x])
<1>1. \A x \in S : before[x] = {y \in S : Gt(y, x)}
  BY DEF Ahead
<1>2. \A x \in S : ~Gt(x, x)
  OBVIOUS
<1>3. \A x, y, z \in S : Gt(z, y) /\ Gt(y, x) => Gt(z, x)
  OBVIOUS
<1>4. \A x, y \in S : x = y \/ Gt(x, y) \/ Gt(y, x)
  OBVIOUS
<1> HIDE DEF Gt, before
<1>5. \A x \in S : before[x] \subseteq S /\ x \notin before[x]
  BY <1>1, <1>2
<1>6. \A x \in S : \A y \in before[x] : before[y] \subseteq before[x]
  BY <1>1, <1>3
<1>7. \A x, y \in S : x = y \/ x \in before[y] \/ y \in before[x]
  BY <1>1, <1>4
<1>8. Ranked(S, before)
  BY <1>5, <1>6, <1>7 DEF Ranked
<1> QED
  BY <1>8 DEF before

(* A list of all of a set, each once.                                      *)
ListOf(s, S) == /\ IsFiniteSet(S)
                /\ s \in Seq(S) /\ Len(s) = Cardinality(S)
                /\ OneForOne(s, 1..Len(s), S)

LEMMA RankedIsAList ==
  ASSUME NEW S, IsFiniteSet(S), NEW before, Ranked(S, before)
  PROVE  ListOf(InRank(S, before), S)
<1> DEFINE s == InRank(S, before)
           n == Cardinality(S)
<1>1. n \in Nat
  BY FS_CardinalityType
<1>2. OneForOne(s, 1..n, S)
  BY RanksAreOneForOne
<1>3. s = [k \in 1..n |-> s[k]]
  BY DEF InRank
<1> HIDE DEF s, n
<1>4. \A k \in 1..n : s[k] \in S
  BY <1>2 DEF OneForOne
<1>5. s \in Seq(S) /\ Len(s) = n
  BY <1>1, <1>3, <1>4
<1> QED
  BY <1>2, <1>5 DEF ListOf, s, n

LEMMA ListHasAll ==
  ASSUME NEW S, NEW s, ListOf(s, S)
  PROVE  ToSet(s) = S
BY DEF ListOf, OneForOne, ToSet

(* The total of a list is the total of its set.                            *)
LEMMA TotalOfAList ==
  ASSUME NEW S, Priced(S), NEW s, ListOf(s, S)
  PROVE  SumOfRows(s, Amount) = Total(S)
<1> DEFINE f == AmountsOf(S)
           e == [k \in 1..Len(s) |-> s[k].amount]
<1>1. /\ s \in Seq(S) /\ Len(s) \in Nat /\ DOMAIN s = 1..Len(s)
      /\ OneForOne(s, 1..Len(s), S)
  BY DEF ListOf
<1>2. IsFiniteSet(1..Len(s)) /\ 1..Len(s) \subseteq Int
  BY <1>1, FS_Interval
<1>3. \A x \in S : f[x] = x.amount /\ f[x] \in Int
  BY DEF Priced, AmountsOf
<1>4. \A k \in 1..Len(s) : e[k] = f[s[k]] /\ e[k] = s[k].amount /\ e[k] \in Int
  BY <1>1, <1>3 DEF OneForOne
<1> HIDE DEF e, f
<1>5. SumOver(e, 1..Len(s)) = SumOver(f, S)
  BY <1>1, <1>2, <1>3, <1>4, SumMoves
<1>6. Lined(s)
  BY <1>1, <1>2 DEF Lined
<1>7. SumOfRows(s, Amount) = SumOver(e, DOMAIN s)
  BY <1>1, <1>4, <1>6, AmountOfRows
<1>8. Total(S) = SumOver(f, S)
  BY TotalIsSum DEF f
<1> QED
  BY <1>1, <1>5, <1>7, <1>8

LEMMA EffectiveIsADay ==
  ASSUME NEW e \in Entry
  PROVE  EffectiveDate(e) \in Int /\ EffectiveDate(e) # Nobody
<1>1. e.date \in Days /\ e.due \in Days \cup {Nobody}
  BY DEF Entry
<1>2. Days \subseteq Int /\ Nobody \notin Days
  BY EntriesAssumption
<1> QED
  BY <1>1, <1>2 DEF EffectiveDate

Numbered(L) == /\ L \subseteq Entry /\ IsFiniteSet(L)
               /\ \A e, f \in L : e.id = f.id => e = f

(* The lists that ListEntries and the digest return: the latest first.     *)
LEMMA LatestFirst ==
  ASSUME NEW L, Numbered(L), NEW S, S \subseteq L
  PROVE  ListOf(Sorted(S, LAMBDA x, y : \/ EffectiveDate(x) > EffectiveDate(y)
                                        \/ EffectiveDate(x) = EffectiveDate(y) /\ x.id > y.id), S)
<1> DEFINE a == [x \in S |-> EffectiveDate(x)]
           b == [x \in S |-> x.id]
           before == Ahead(S, a, b)
           Here(x) == {y \in S : \/ EffectiveDate(y) > EffectiveDate(x)
                                 \/ EffectiveDate(y) = EffectiveDate(x) /\ y.id > x.id}
<1>1. IsFiniteSet(S)
  BY FS_Subset DEF Numbered
<1>2. \A x \in S : a[x] \in Int /\ b[x] \in Int
  <2> SUFFICES ASSUME NEW x \in S PROVE a[x] \in Int /\ b[x] \in Int
    OBVIOUS
  <2>1. x \in Entry
    BY DEF Numbered
  <2>2. EffectiveDate(x) \in Int /\ x.id \in Int
    BY <2>1, EffectiveIsADay DEF Entry
  <2> QED
    BY <2>2
<1>3. \A x, y \in S : a[x] = a[y] /\ b[x] = b[y] => x = y
  BY DEF Numbered
<1>4. \A x \in S : Here(x) = before[x]
  BY DEF Ahead
<1> HIDE DEF a, b
<1>5. Ranked(S, before)
  BY <1>2, <1>3, OrderedByTwo
<1> HIDE DEF before
<1>6. ListOf(InRank(S, before), S)
  BY <1>1, <1>5, RankedIsAList
<1>7. InRank(S, before) = [k \in 1..Cardinality(S) |-> CHOOSE x \in S : Cardinality(Here(x)) = k - 1]
  <2> HIDE DEF Here
  <2>1. ASSUME NEW k \in 1..Cardinality(S)
        PROVE  (CHOOSE x \in S : Cardinality(before[x]) = k - 1)
                 = CHOOSE x \in S : Cardinality(Here(x)) = k - 1
    BY <1>4
  <2> QED
    BY <2>1 DEF InRank
<1> QED
  BY <1>6, <1>7 DEF Sorted

LEMMA LimitIsANumber ==
  ASSUME NEW n \in Int
  PROVE  ClampLimit(n) \in Nat
BY SummariesAssumption DEF ClampLimit

LEMMA CutSaysSo ==
  ASSUME NEW L, Numbered(L), NEW q, q.limit \in Int
  PROVE  Whole(ListingOf(L, q), Asked(L, q))
<1> DEFINE S == Asked(L, q)
           s == Sorted(S, LAMBDA x, y :
                   \/ EffectiveDate(x) > EffectiveDate(y)
                   \/ EffectiveDate(x) = EffectiveDate(y) /\ x.id > y.id)
           n == QueryLimit(q)
           matched == IF n > 0 /\ Len(s) > n THEN SubSeq(s, 1, n) ELSE s
           limit == IF Bounded(q) THEN MaxRangeEntries ELSE ClampLimit(q.limit)
           cut == Len(matched) > limit
           entries == IF cut THEN SubSeq(matched, 1, limit) ELSE matched
           omitted == IF cut THEN Len(matched) - limit ELSE 0
           r == ListingOf(L, q)
<1>1. S \subseteq L
  BY DEF Asked
<1>2. ListOf(s, S)
  <2> HIDE DEF S
  <2> QED
    BY <1>1, LatestFirst
<1>3. Latest(S, n) = matched
  BY DEF Latest
<1>4. /\ r.truncated = cut /\ r.entries = entries /\ r.omitted = omitted
      /\ r.totals = Bounded(q)
      /\ Bounded(q) => /\ r.expense = Total(Expenses(ToSet(matched)))
                       /\ r.entradas = Total(Incomes(ToSet(matched)))
  <2>1. r = Listed(matched, ToSet(matched), limit, Bounded(q))
    BY <1>3 DEF ListingOf
  <2> HIDE DEF matched, limit, r
  <2> QED
    BY <2>1 DEF Listed
<1>5. s \in Seq(S) /\ Len(s) \in Nat /\ Len(s) = Cardinality(S) /\ ToSet(s) = S
  <2> HIDE DEF s, S
  <2>1. ToSet(s) = S
    BY <1>2, ListHasAll
  <2>2. s \in Seq(S) /\ Len(s) \in Nat /\ Len(s) = Cardinality(S)
    BY <1>2 DEF ListOf
  <2> QED
    BY <2>1, <2>2
<1>6. limit \in Nat
  BY SummariesAssumption, LimitIsANumber
<1> HIDE DEF s, S, r
<1>7. CASE Bounded(q)
  <2>1. n = 0
    BY <1>7 DEF QueryLimit
  <2>2. matched = s
    BY <2>1
  <2>3. ~cut => ToSet(entries) = S
    BY <1>5, <2>2
  <2>4. r.entradas - r.expense = Net(S)
    BY <1>4, <1>5, <1>7, <2>2 DEF Net
  <2>5. Len(entries) + omitted = Cardinality(S)
    <3> HIDE DEF limit, matched
    <3>1. CASE cut
      <4>1. Len(SubSeq(matched, 1, limit)) = limit
        BY <1>5, <1>6, <2>2, <3>1
      <4> QED
        BY <1>5, <1>6, <2>2, <3>1, <4>1
    <3>2. CASE ~cut
      BY <1>5, <2>2, <3>2
    <3> QED
      BY <3>1, <3>2
  <2> HIDE DEF cut, entries, omitted
  <2> QED
    BY <1>4, <2>3, <2>4, <2>5 DEF Whole, S, r
<1>8. CASE ~Bounded(q)
  <2> DEFINE c == ClampLimit(q.limit)
  <2>1. n = c + 1 /\ limit = c /\ c \in Nat
    BY <1>8, LimitIsANumber DEF QueryLimit
  <2> HIDE DEF c, limit, n
  <2>2. ~cut => matched = s
    <3>1. SUFFICES ASSUME ~cut, n > 0 /\ Len(s) > n PROVE FALSE
      OBVIOUS
    <3>2. matched = SubSeq(s, 1, n)
      BY <3>1
    <3>3. Len(SubSeq(s, 1, n)) = n
      BY <1>5, <2>1, <3>1
    <3> HIDE DEF matched
    <3>4. Len(matched) = c + 1
      BY <2>1, <3>2, <3>3
    <3> QED
      BY <2>1, <3>1, <3>4
  <2>3. ~cut => ToSet(entries) = S
    BY <1>5, <2>2
  <2> HIDE DEF cut, entries, omitted
  <2> QED
    BY <1>4, <1>8, <2>3 DEF Whole, S, r
<1> QED
  BY <1>7, <1>8

LEMMA NothingIsLeftOutSilently == BooksInv /\ NumberedInv => NoSilentCut
<1> SUFFICES ASSUME BooksInv, NumberedInv, NEW q \in Queries
             PROVE  Whole(ListingOf(ledger, q), Asked(ledger, q))
  BY DEF NoSilentCut
<1>1. Numbered(ledger)
  BY DEF BooksInv, NumberedInv, Numbered
<1>2. q.limit \in Int
  BY DEF Queries
<1> QED
  BY <1>1, <1>2, CutSaysSo

-----------------------------------------------------------------------------
(* The messages of the list.  They are filled line by line, so whatever    *)
(* one more line preserves holds of all of them.                           *)

LEMMA Upward ==
  ASSUME NEW n \in Nat, NEW W, 0 \in W, \A i \in 0..(n - 1) : i \in W => i + 1 \in W
  PROVE  \A i \in 0..n : i \in W
<1> DEFINE T == {i \in 0..n : i \notin W}
<1>1. SUFFICES ASSUME T # {} PROVE FALSE
  OBVIOUS
<1>2. PICK i \in T : \A j \in T : i <= j
  <2>1. T \in SUBSET Nat
    OBVIOUS
  <2> QED
    BY <1>1, <2>1, LeastNatural
<1>3. i \in 0..n /\ i \notin W /\ i # 0
  BY <1>2
<1>4. i - 1 \in 0..(n - 1) /\ (i - 1) + 1 = i /\ ~(i <= i - 1) /\ i - 1 \in 0..n
  BY <1>3
<1>5. i - 1 \in W
  BY <1>2, <1>4
<1> QED
  BY <1>3, <1>4, <1>5

FilledLines(lines, n) ==
    \E g : \A s \in SUBSET DOMAIN lines : Cardinality(s) <= n =>
              g[s] = IF s = {} THEN <<>> ELSE AddLine(g[s \ {Max(s)}], lines[Max(s)])

LEMMA ChunksExist ==
  ASSUME NEW lines, Lined(lines)
  PROVE  \E g : Chunked(lines, g)
<1> DEFINE D == DOMAIN lines
           n == Cardinality(D)
           W == {k \in Nat : FilledLines(lines, k)}
<1>0. \A s \in SUBSET D : /\ IsFiniteSet(s) /\ Cardinality(s) \in Nat /\ Cardinality(s) <= n
                          /\ s # {} => Max(s) \in s
  <2> SUFFICES ASSUME NEW s \in SUBSET D
               PROVE  /\ IsFiniteSet(s) /\ Cardinality(s) \in Nat /\ Cardinality(s) <= n
                      /\ s # {} => Max(s) \in s
    OBVIOUS
  <2>1. IsFiniteSet(D) /\ D \subseteq Int
    BY DEF Lined
  <2>2. IsFiniteSet(s) /\ Cardinality(s) <= n /\ s \subseteq Int
    BY <2>1, FS_Subset
  <2>3. Cardinality(s) \in Nat
    BY <2>2, FS_CardinalityType
  <2>4. s # {} => Max(s) \in s
    BY <2>2, GreatestOfSome
  <2> QED
    BY <2>2, <2>3, <2>4
<1>1. n \in Nat
  BY <1>0
<1>2. 0 \in W
  <2> DEFINE h == [s \in SUBSET D |-> <<>>]
  <2>1. \A s \in SUBSET D : Cardinality(s) <= 0 => s = {}
    BY <1>0, FS_EmptySet
  <2>2. \A s \in SUBSET D : h[s] = <<>>
    OBVIOUS
  <2> HIDE DEF h
  <2>3. \A s \in SUBSET D : Cardinality(s) <= 0 =>
           h[s] = IF s = {} THEN <<>> ELSE AddLine(h[s \ {Max(s)}], lines[Max(s)])
    BY <2>1, <2>2
  <2>4. FilledLines(lines, 0)
    BY <2>3 DEF FilledLines
  <2> QED
    BY <2>4
<1>3. ASSUME NEW k \in 0..(n - 1), k \in W
      PROVE  k + 1 \in W
  <2>1. PICK g : \A s \in SUBSET D : Cardinality(s) <= k =>
              g[s] = IF s = {} THEN <<>> ELSE AddLine(g[s \ {Max(s)}], lines[Max(s)])
    BY <1>3 DEF FilledLines
  <2> DEFINE Next1(s) == IF s = {} THEN <<>> ELSE AddLine(g[s \ {Max(s)}], lines[Max(s)])
             h == [s \in SUBSET D |-> IF Cardinality(s) <= k THEN g[s] ELSE Next1(s)]
  <2>2. ASSUME NEW s \in SUBSET D, Cardinality(s) <= k + 1
        PROVE  h[s] = IF s = {} THEN <<>> ELSE AddLine(h[s \ {Max(s)}], lines[Max(s)])
    <3>1. h[s] = Next1(s)
      BY <2>1
    <3>2. s # {} => h[s \ {Max(s)}] = g[s \ {Max(s)}]
      <4>1. SUFFICES ASSUME s # {} PROVE h[s \ {Max(s)}] = g[s \ {Max(s)}]
        OBVIOUS
      <4>2. Max(s) \in s /\ s \ {Max(s)} \in SUBSET D /\ IsFiniteSet(s)
        BY <1>0, <4>1
      <4>3. /\ Cardinality(s \ {Max(s)}) \in Nat /\ Cardinality(s) \in Nat
            /\ Cardinality(s) = Cardinality(s \ {Max(s)}) + 1
        BY <4>2, OneLess
      <4>4. Cardinality(s \ {Max(s)}) <= k
        BY <2>2, <4>3
      <4> QED
        BY <4>2, <4>4
    <3> HIDE DEF h
    <3> QED
      BY <3>1, <3>2
  <2> HIDE DEF h
  <2>3. FilledLines(lines, k + 1)
    BY <2>2 DEF FilledLines
  <2> QED
    BY <2>3
<1>4. n \in W
  <2> HIDE DEF W, n
  <2>1. \A i \in 0..n : i \in W
    BY <1>1, <1>2, <1>3, Upward
  <2> QED
    BY <1>1, <2>1
<1>5. PICK g : \A s \in SUBSET D : Cardinality(s) <= n =>
              g[s] = IF s = {} THEN <<>> ELSE AddLine(g[s \ {Max(s)}], lines[Max(s)])
  BY <1>4 DEF FilledLines
<1> DEFINE h == [s \in SUBSET D |-> g[s]]
<1>6. Chunked(lines, h)
  <2>1. ASSUME NEW s \in SUBSET D
        PROVE  h[s] = IF s = {} THEN <<>> ELSE AddLine(h[s \ {Max(s)}], lines[Max(s)])
    <3>1. s \ {Max(s)} \in SUBSET D
      OBVIOUS
    <3>2. h[s \ {Max(s)}] = g[s \ {Max(s)}] /\ h[s] = g[s]
      BY <3>1
    <3>3. Cardinality(s) <= n
      BY <1>0
    <3> HIDE DEF h, n
    <3> QED
      BY <1>5, <3>2, <3>3
  <2>2. h = [s \in SUBSET D |-> h[s]]
    OBVIOUS
  <2> HIDE DEF h
  <2>3. h = [s \in SUBSET D |-> IF s = {} THEN <<>> ELSE AddLine(h[s \ {Max(s)}], lines[Max(s)])]
    BY <2>1, <2>2
  <2> QED
    BY <2>3 DEF Chunked
<1> QED
  BY <1>6

(* The messages after so many lines.                                       *)
LEMMA AfterSoManyLines ==
  ASSUME NEW lines, NEW n \in Nat, DOMAIN lines = 1..n
  PROVE  \E c : /\ c[0] = <<>> /\ \A i \in 1..n : c[i] = AddLine(c[i - 1], lines[i])
                /\ ChunkLines(lines) = c[n]
<1>1. Lined(lines)
  <2>1. IsFiniteSet(1..n) /\ 1..n \subseteq Int
    BY FS_Interval
  <2> QED
    BY <2>1 DEF Lined
<1>2. PICK g : Chunked(lines, g) /\ g = CHOOSE e : Chunked(lines, e)
  <2>1. \E g : Chunked(lines, g)
    BY <1>1, ChunksExist
  <2> QED
    BY <2>1
<1>3. \A s \in SUBSET (1..n) : g[s] = IF s = {} THEN <<>> ELSE AddLine(g[s \ {Max(s)}], lines[Max(s)])
  BY <1>2 DEF Chunked
<1> DEFINE c == [i \in 0..n |-> g[1..i]]
<1>4. c[0] = <<>>
  <2>1. 1..0 = {} /\ 1..0 \in SUBSET (1..n)
    OBVIOUS
  <2>2. g[1..0] = <<>>
    BY <1>3, <2>1
  <2> QED
    BY <2>2
<1>5. ASSUME NEW i \in 1..n
      PROVE  c[i] = AddLine(c[i - 1], lines[i])
  <2>1. 1..i \in SUBSET (1..n) /\ 1..i # {} /\ i \in 1..i /\ 1..i \subseteq Int
    <3>1. i \in Int /\ 1 <= i /\ i <= n
      OBVIOUS
    <3>2. i \in 1..i
      BY <3>1
    <3>3. \A j \in 1..i : j \in 1..n
      BY <3>1
    <3> QED
      BY <3>2, <3>3
  <2>2. Max(1..i) = i
    <3>1. IsFiniteSet(1..i)
      BY FS_Interval
    <3>2. Max(1..i) \in 1..i /\ \A y \in 1..i : Max(1..i) >= y
      BY <2>1, <3>1, GreatestOfSome
    <3>3. Max(1..i) >= i
      BY <2>1, <3>2
    <3> QED
      BY <3>2, <3>3
  <2>3. (1..i) \ {i} = 1..(i - 1)
    OBVIOUS
  <2>4. g[1..i] = AddLine(g[1..(i - 1)], lines[i])
    BY <1>3, <2>1, <2>2, <2>3
  <2>5. i \in 0..n /\ i - 1 \in 0..n
    OBVIOUS
  <2> QED
    BY <2>4, <2>5
<1>6. c[n] = g[DOMAIN lines]
  OBVIOUS
<1>7. ChunkLines(lines) = c[n]
  BY <1>2, <1>6, ChunksAre
<1> HIDE DEF c
<1> QED
  BY <1>4, <1>5, <1>7

-----------------------------------------------------------------------------
(* Sequences end to end: f[k] is the first k of them.                      *)
Joined(chunks, f) == /\ f[0] = <<>>
                     /\ \A k \in 1..Len(chunks) : f[k] = f[k - 1] \o chunks[k]

LEMMA NothingInFront == ASSUME NEW T, NEW s \in Seq(T) PROVE <<>> \o s = s
OBVIOUS

LEMMA FlattenedIs ==
  ASSUME NEW T, NEW chunks \in Seq(Seq(T)), NEW f, Joined(chunks, f)
  PROVE  FlattenSeq(chunks) = f[Len(chunks)]
<1> DEFINE n == Len(chunks)
           Flat(h) == h = [i \in 1..Len(chunks) |-> IF i = 1 THEN chunks[i] ELSE h[i - 1] \o chunks[i]]
<1>0. n \in Nat
  OBVIOUS
<1>1. CASE n = 0
  <2>1. chunks = <<>>
    BY <1>1
  <2>2. FlattenSeq(chunks) = chunks
    BY <1>1 DEF FlattenSeq
  <2> QED
    BY <1>1, <2>1, <2>2 DEF Joined
<1>2. CASE n # 0
  <2>1. FlattenSeq(chunks) = (CHOOSE h : Flat(h))[n]
    BY <1>2 DEF FlattenSeq
  <2> DEFINE e == [i \in 1..n |-> f[i]]
  <2>2. f[1] = chunks[1]
    <3>1. 1 \in 1..n /\ chunks[1] \in Seq(T)
      BY <1>0, <1>2
    <3>2. f[1] = f[1 - 1] \o chunks[1]
      BY <3>1 DEF Joined
    <3>3. 1 - 1 = 0
      OBVIOUS
    <3>4. <<>> \o chunks[1] = chunks[1]
      BY <3>1, NothingInFront
    <3>5. f[0] = <<>>
      BY DEF Joined
    <3> QED
      BY <3>2, <3>3, <3>4, <3>5
  <2>3. Flat(e)
    <3>1. ASSUME NEW i \in 1..n
          PROVE  e[i] = IF i = 1 THEN chunks[i] ELSE e[i - 1] \o chunks[i]
      <4>1. f[i] = f[i - 1] \o chunks[i]
        BY DEF Joined
      <4>2. i # 1 => i - 1 \in 1..n
        OBVIOUS
      <4> QED
        BY <2>2, <4>1, <4>2
    <3> QED
      BY <3>1
  <2>4. PICK h : Flat(h) /\ h = CHOOSE g : Flat(g)
    BY <2>3
  <2>5. \A i \in 1..n : h[i] = IF i = 1 THEN chunks[i] ELSE h[i - 1] \o chunks[i]
    BY <2>4
  <2> DEFINE W == {i \in 0..n : i # 0 => h[i] = f[i]}
  <2>6. 0 \in W
    BY <1>0
  <2>7. ASSUME NEW i \in 0..(n - 1), i \in W
        PROVE  i + 1 \in W
    <3>1. i + 1 \in 1..n /\ i + 1 \in 0..n /\ (i + 1) - 1 = i
      BY <1>0
    <3>2. CASE i = 0
      BY <2>2, <2>5, <3>1, <3>2
    <3>3. CASE i # 0
      <4>0. i + 1 # 1
        BY <1>0, <3>3
      <4>1. h[i + 1] = h[(i + 1) - 1] \o chunks[i + 1]
        <5> HIDE DEF Flat, n
        <5> QED
          BY <2>5, <3>1, <4>0
      <4>2. f[i + 1] = f[(i + 1) - 1] \o chunks[i + 1]
        BY <3>1 DEF Joined
      <4> QED
        BY <2>7, <3>1, <3>3, <4>1, <4>2
    <3> QED
      BY <3>2, <3>3
  <2>8. n \in W
    <3> HIDE DEF W, n
    <3>1. \A i \in 0..n : i \in W
      BY <1>0, <2>6, <2>7, Upward
    <3> QED
      BY <1>0, <3>1
  <2>9. h[n] = f[n]
    BY <1>2, <2>8
  <2> HIDE DEF Flat
  <2> QED
    BY <2>1, <2>4, <2>9
<1> QED
  BY <1>1, <1>2

(* Lines that fit a message of their own.                                  *)
Fitting(T) == \A l \in T : Cost(l) \in Int /\ Cost(l) <= Budget + 1

LEMMA SizeOfOneMore ==
  ASSUME NEW T, Fitting(T), NEW x \in Seq(T), NEW l \in T
  PROVE  SizeOf(x) \in Int /\ SizeOf(Append(x, l)) = SizeOf(x) + Cost(l)
<1> DEFINE y == Append(x, l)
           n == Len(x)
           f == [k \in 1..(n + 1) |-> Cost(y[k])]
<1>1. n \in Nat /\ DOMAIN x = 1..n /\ DOMAIN y = 1..(n + 1)
  OBVIOUS
<1>2. /\ \A k \in 1..n : y[k] = x[k] /\ x[k] \in T
      /\ y[n + 1] = l
  OBVIOUS
<1> HIDE DEF y
<1>3. \A k \in 1..(n + 1) : f[k] = Cost(y[k]) /\ f[k] \in Int
  <2>1. \A k \in 1..(n + 1) : y[k] \in T
    BY <1>1, <1>2
  <2> QED
    BY <2>1 DEF Fitting
<1>4. \A k \in 1..n : f[k] = Cost(x[k]) /\ f[k] \in Int
  BY <1>1, <1>2, <1>3
<1>5. f[n + 1] = Cost(l)
  BY <1>1, <1>2
<1> HIDE DEF f, n
<1>6. IsFiniteSet(1..n) /\ IsFiniteSet(1..(n + 1)) /\ 1..n \subseteq Int /\ 1..(n + 1) \subseteq Int
  BY <1>1, FS_Interval
<1>7. SizeOf(x) = SumOver(f, 1..n)
  <2>1. Lined(x)
    BY <1>1, <1>6 DEF Lined
  <2> QED
    BY <1>1, <1>4, <2>1, SizeOfRows
<1>8. SizeOf(y) = SumOver(f, 1..(n + 1))
  <2>1. Lined(y)
    BY <1>1, <1>6 DEF Lined
  <2> QED
    BY <1>1, <1>3, <2>1, SizeOfRows
<1>9. n + 1 \in 1..(n + 1) /\ (1..(n + 1)) \ {n + 1} = 1..n
  BY <1>1
<1>10. SumOver(f, 1..(n + 1)) = f[n + 1] + SumOver(f, 1..n)
  <2> DEFINE S == 1..(n + 1)
             m == n + 1
  <2>1. IsFiniteSet(S) /\ (\A k \in S : f[k] \in Int) /\ m \in S /\ S \ {m} = 1..n
    BY <1>3, <1>6, <1>9
  <2> HIDE DEF S, m
  <2>2. SumOver(f, S) = f[m] + SumOver(f, S \ {m})
    BY <2>1, SumLess
  <2> QED
    BY <2>1, <2>2 DEF S, m
<1>11. SumOver(f, 1..n) \in Int
  BY <1>4, <1>6, SumIsAnInteger
<1>12. f[n + 1] \in Int
  BY <1>3, <1>9
<1>13. SizeOf(y) = SizeOf(x) + Cost(l)
  BY <1>5, <1>7, <1>8, <1>10, <1>11, <1>12
<1> QED
  BY <1>7, <1>11, <1>13 DEF y

LEMMA SizeOfNoLines == SizeOf(<<>>) = 0
<1> DEFINE f == [k \in {} |-> 0]
<1>1. DOMAIN <<>> = {}
  OBVIOUS
<1>2. Lined(<<>>)
  BY <1>1, FS_EmptySet DEF Lined
<1>3. SizeOf(<<>>) = SumOver(f, {})
  BY <1>1, <1>2, SizeOfRows
<1> QED
  BY <1>3, SumOfNothing

(* So far: each message fits, and end to end they are the lines so far.    *)
Packed(chunks, T, sofar) ==
    /\ chunks \in Seq(Seq(T))
    /\ \A k \in 1..Len(chunks) : SizeOf(chunks[k]) \in Int /\ SizeOf(chunks[k]) <= Budget + 1
    /\ \E f : Joined(chunks, f) /\ f[Len(chunks)] = sofar

LEMMA LengthOfFront ==
  ASSUME NEW S, NEW s \in Seq(S), NEW j \in 0..Len(s)
  PROVE  Len(SubSeq(s, 1, j)) = j
OBVIOUS

LEMMA OneLineMore ==
  ASSUME NEW T, Fitting(T), Budget \in Int, NEW sofar \in Seq(T), NEW l \in T,
         NEW chunks, Packed(chunks, T, sofar)
  PROVE  Packed(AddLine(chunks, l), T, Append(sofar, l))
<1> DEFINE n == Len(chunks)
<1>0. chunks \in Seq(Seq(T)) /\ n \in Nat
  BY DEF Packed
<1>1. PICK f : Joined(chunks, f) /\ f[n] = sofar
  BY DEF Packed
<1>2. /\ \A k \in 1..n : SizeOf(chunks[k]) \in Int /\ SizeOf(chunks[k]) <= Budget + 1
      /\ \A k \in 1..n : chunks[k] \in Seq(T)
  BY <1>0 DEF Packed
<1>3. CASE chunks # <<>> /\ Fits(Last(chunks), l)
  <2> DEFINE last == chunks[n]
             c == Append(Front(chunks), Append(last, l))
             g == [k \in 0..n |-> IF k = n THEN f[n - 1] \o Append(last, l) ELSE f[k]]
  <2>1. n # 0 /\ n \in 1..n /\ n - 1 \in 0..n /\ n - 1 # n
    BY <1>0, <1>3
  <2>2. AddLine(chunks, l) = c /\ last \in Seq(T) /\ Fits(last, l)
    BY <1>2, <1>3, <2>1 DEF AddLine, Last
  <2>3. Append(last, l) \in Seq(T)
    BY <2>2
  <2>4. /\ c \in Seq(Seq(T)) /\ Len(c) = n /\ c[n] = Append(last, l)
        /\ \A k \in 1..(n - 1) : c[k] = chunks[k]
    <3> DEFINE front == Front(chunks)
    <3>1. /\ front \in Seq(Seq(T)) /\ Len(front) = n - 1
          /\ \A k \in 1..(n - 1) : front[k] = chunks[k]
      <4>1. front = SubSeq(chunks, 1, n - 1)
        BY DEF Front
      <4> HIDE DEF front
      <4>2. 1..(n - 1) \subseteq 1..n /\ n - 1 \in Nat
        BY <1>0, <2>1
      <4>3. \A j \in 1..(n - 1) : chunks[j] \in Seq(T)
        BY <1>2, <4>2
      <4>4. front \in Seq(Seq(T))
        BY <1>0, <2>1, <4>1, <4>2
      <4>5. Len(front) = n - 1
        <5>1. n - 1 \in 0..Len(chunks)
          BY <1>0, <2>1
        <5> QED
          BY <1>0, <4>1, <5>1, LengthOfFront
      <4>6. \A k \in 1..(n - 1) : front[k] = chunks[k]
        BY <1>0, <2>1, <4>1, <4>2
      <4> QED
        BY <4>4, <4>5, <4>6
    <3> HIDE DEF front, last
    <3> DEFINE w == Append(last, l)
    <3>2. w \in Seq(T)
      BY <2>3
    <3> HIDE DEF w
    <3>3. /\ Append(front, w) \in Seq(Seq(T)) /\ Len(Append(front, w)) = n
          /\ Append(front, w)[n] = w
          /\ \A k \in 1..(n - 1) : Append(front, w)[k] = front[k]
      <4> HIDE DEF n
      <4> QED
        BY <1>0, <2>1, <3>1, <3>2
    <3> QED
      BY <3>1, <3>3 DEF front, w
  <2>5. SizeOf(Append(last, l)) \in Int /\ SizeOf(Append(last, l)) <= Budget + 1
    <3>1. /\ SizeOf(last) \in Int /\ SizeOf(Append(last, l)) = SizeOf(last) + Cost(l)
          /\ Cost(l) \in Int /\ Cost(l) <= Budget + 1
      BY <2>2, SizeOfOneMore DEF Fitting
    <3>2. last = <<>> => SizeOf(last) = 0
      BY SizeOfNoLines
    <3>3. last = <<>> \/ SizeOf(last) + Cost(l) <= Budget
      BY <2>2 DEF Fits
    <3> HIDE DEF last
    <3> QED
      BY <3>1, <3>2, <3>3
  <2>6. \A k \in 1..n : SizeOf(c[k]) \in Int /\ SizeOf(c[k]) <= Budget + 1
    <3> SUFFICES ASSUME NEW k \in 1..n PROVE SizeOf(c[k]) \in Int /\ SizeOf(c[k]) <= Budget + 1
      OBVIOUS
    <3>1. CASE k = n
      BY <2>4, <2>5, <3>1
    <3>2. CASE k # n
      <4>1. k \in 1..(n - 1)
        BY <1>0, <3>2
      <4>2. c[k] = chunks[k]
        BY <2>4, <4>1
      <4> HIDE DEF c
      <4> QED
        BY <1>2, <4>2
    <3> QED
      BY <3>1, <3>2
  <2>7. Joined(c, g)
    <3>1. g[0] = <<>>
      BY <1>0, <1>1, <2>1 DEF Joined
    <3>2. ASSUME NEW k \in 1..n
          PROVE  g[k] = g[k - 1] \o c[k]
      <4>1. k - 1 \in 0..n /\ k - 1 # n /\ k \in 0..n
        BY <1>0
      <4>2. g[k - 1] = f[k - 1]
        BY <4>1
      <4>3. CASE k = n
        <5>1. g[k] = f[n - 1] \o Append(last, l)
          BY <4>1, <4>3
        <5> HIDE DEF c, g, last
        <5> QED
          BY <2>4, <4>2, <4>3, <5>1
      <4>4. CASE k # n
        <5>1. g[k] = f[k]
          BY <4>1, <4>4
        <5>2. f[k] = f[k - 1] \o chunks[k]
          BY <1>1 DEF Joined
        <5>3. k \in 1..(n - 1)
          BY <1>0, <4>4
        <5>4. c[k] = chunks[k]
          BY <2>4, <5>3
        <5> HIDE DEF c, g
        <5> QED
          BY <4>2, <5>1, <5>2, <5>4
      <4> QED
        BY <4>3, <4>4
    <3> HIDE DEF c, g
    <3> QED
      BY <2>4, <3>1, <3>2 DEF Joined
  <2>8. g[n] = Append(sofar, l)
    <3>1. g[n] = f[n - 1] \o Append(last, l)
      <4>1. n \in 0..n
        BY <1>0
      <4> HIDE DEF n, last
      <4> QED
        BY <4>1
    <3>2. sofar = f[n - 1] \o last
      BY <1>1, <2>1 DEF Joined
    <3>3. f[n - 1] \in Seq(T)
      <4> DEFINE W == {k \in 0..n : f[k] \in Seq(T)}
      <4>1. 0 \in W
        <5>1. f[0] = <<>> /\ <<>> \in Seq(T)
          BY <1>1 DEF Joined
        <5>2. 0 \in 0..n
          BY <1>0
        <5> QED
          BY <5>1, <5>2
      <4>2. ASSUME NEW k \in 0..(n - 1), k \in W
            PROVE  k + 1 \in W
        <5>1. k + 1 \in 1..n /\ (k + 1) - 1 = k /\ k + 1 \in 0..n
          BY <1>0
        <5>2. f[k + 1] = f[(k + 1) - 1] \o chunks[k + 1]
          BY <1>1, <5>1 DEF Joined
        <5>3. chunks[k + 1] \in Seq(T)
          BY <1>2, <5>1
        <5>4. f[k] \o chunks[k + 1] \in Seq(T)
          BY <4>2, <5>3
        <5> QED
          BY <5>1, <5>2, <5>4
      <4> HIDE DEF W
      <4>3. \A k \in 0..n : k \in W
        BY <1>0, <4>1, <4>2, Upward
      <4> QED
        BY <2>1, <4>3 DEF W
    <3> DEFINE a == f[n - 1]
               b == last
    <3>4. a \in Seq(T) /\ b \in Seq(T)
      BY <2>2, <3>3
    <3> HIDE DEF a, b
    <3>5. a \o Append(b, l) = Append(a \o b, l)
      BY <3>4
    <3> QED
      BY <3>1, <3>2, <3>5 DEF a, b
  <2> HIDE DEF c, g
  <2>9. Packed(c, T, Append(sofar, l))
    BY <2>4, <2>6, <2>7, <2>8 DEF Packed
  <2> QED
    BY <2>2, <2>9
<1>4. CASE ~(chunks # <<>> /\ Fits(Last(chunks), l))
  <2> DEFINE w == <<l>>
             c == Append(chunks, w)
             g == [k \in 0..(n + 1) |-> IF k = n + 1 THEN Append(sofar, l) ELSE f[k]]
  <2>1. AddLine(chunks, l) = c
    BY <1>4 DEF AddLine
  <2>2. w \in Seq(T) /\ SizeOf(w) \in Int /\ SizeOf(w) <= Budget + 1
    <3>1. Append(<<>>, l) = w /\ <<>> \in Seq(T)
      OBVIOUS
    <3>2. SizeOf(w) = 0 + Cost(l)
      BY <3>1, SizeOfOneMore, SizeOfNoLines
    <3>3. Cost(l) \in Int /\ Cost(l) <= Budget + 1
      BY DEF Fitting
    <3>4. SizeOf(w) = Cost(l)
      BY <3>2, <3>3
    <3>5. w \in Seq(T)
      OBVIOUS
    <3> HIDE DEF w
    <3> QED
      BY <3>3, <3>4, <3>5
  <2> HIDE DEF w
  <2>3. /\ c \in Seq(Seq(T)) /\ Len(c) = n + 1 /\ c[n + 1] = w
        /\ \A k \in 1..n : c[k] = chunks[k]
    BY <1>0, <2>2
  <2> HIDE DEF c
  <2>4. \A k \in 1..(n + 1) : SizeOf(c[k]) \in Int /\ SizeOf(c[k]) <= Budget + 1
    <3> SUFFICES ASSUME NEW k \in 1..(n + 1) PROVE SizeOf(c[k]) \in Int /\ SizeOf(c[k]) <= Budget + 1
      OBVIOUS
    <3>1. k \in 1..n \/ k = n + 1
      BY <1>0
    <3> QED
      BY <1>2, <2>2, <2>3, <3>1
  <2>5. Append(sofar, l) = sofar \o w
    BY DEF w
  <2>6. Joined(c, g)
    <3>1. g[0] = <<>>
      BY <1>0, <1>1 DEF Joined
    <3>2. ASSUME NEW k \in 1..(n + 1)
          PROVE  g[k] = g[k - 1] \o c[k]
      <4>1. k - 1 \in 0..(n + 1) /\ k - 1 # n + 1 /\ k \in 0..(n + 1)
        BY <1>0
      <4>2. g[k - 1] = f[k - 1]
        BY <4>1
      <4>3. CASE k = n + 1
        <5>1. g[k] = Append(sofar, l) /\ k - 1 = n
          BY <1>0, <4>1, <4>3
        <5> HIDE DEF g
        <5> QED
          BY <1>1, <2>3, <2>5, <4>2, <4>3, <5>1
      <4>4. CASE k # n + 1
        <5>1. g[k] = f[k] /\ k \in 1..n
          BY <1>0, <4>1, <4>4
        <5>2. f[k] = f[k - 1] \o chunks[k]
          BY <1>1, <5>1 DEF Joined
        <5> HIDE DEF g
        <5> QED
          BY <2>3, <4>2, <5>1, <5>2
      <4> QED
        BY <4>3, <4>4
    <3> HIDE DEF g
    <3> QED
      BY <2>3, <3>1, <3>2 DEF Joined
  <2>7. g[n + 1] = Append(sofar, l)
    BY <1>0
  <2> HIDE DEF g
  <2>8. Packed(c, T, Append(sofar, l))
    BY <2>3, <2>4, <2>6, <2>7 DEF Packed
  <2> QED
    BY <2>1, <2>8
<1> QED
  BY <1>3, <1>4

LEMMA AllLinesPacked ==
  ASSUME NEW T, Fitting(T), Budget \in Int, NEW lines \in Seq(T)
  PROVE  Packed(ChunkLines(lines), T, lines)
<1> DEFINE n == Len(lines)
<1>0. n \in Nat /\ DOMAIN lines = 1..n
  OBVIOUS
<1>1. PICK c : /\ c[0] = <<>> /\ \A i \in 1..n : c[i] = AddLine(c[i - 1], lines[i])
               /\ ChunkLines(lines) = c[n]
  BY <1>0, AfterSoManyLines
<1> DEFINE W == {i \in 0..n : Packed(c[i], T, SubSeq(lines, 1, i))}
<1>2. 0 \in W
  <2>1. <<>> \in Seq(Seq(T)) /\ Len(<<>>) = 0 /\ 1..0 = {} /\ SubSeq(lines, 1, 0) = <<>>
    OBVIOUS
  <2> DEFINE f == [k \in {0} |-> <<>>]
  <2>2. Joined(<<>>, f) /\ f[0] = <<>>
    BY <2>1 DEF Joined
  <2> HIDE DEF f
  <2>3. Packed(<<>>, T, <<>>)
    BY <2>1, <2>2 DEF Packed
  <2>4. Packed(c[0], T, SubSeq(lines, 1, 0))
    BY <1>1, <2>1, <2>3
  <2>5. 0 \in 0..n
    BY <1>0
  <2> QED
    BY <2>4, <2>5
<1>3. ASSUME NEW i \in 0..(n - 1), i \in W
      PROVE  i + 1 \in W
  <2>1. i + 1 \in 1..n /\ i + 1 \in 0..n /\ (i + 1) - 1 = i
    BY <1>0
  <2>2. c[i + 1] = AddLine(c[i], lines[i + 1])
    BY <1>1, <2>1
  <2>3. /\ SubSeq(lines, 1, i) \in Seq(T) /\ lines[i + 1] \in T
        /\ SubSeq(lines, 1, i + 1) = Append(SubSeq(lines, 1, i), lines[i + 1])
    BY <1>0, <2>1
  <2> DEFINE sofar == SubSeq(lines, 1, i)
             l == lines[i + 1]
             x == c[i]
  <2>4. sofar \in Seq(T) /\ l \in T /\ Packed(x, T, sofar)
    BY <1>3, <2>3
  <2> HIDE DEF sofar, l, x
  <2>5. Packed(AddLine(x, l), T, Append(sofar, l))
    BY <2>4, OneLineMore
  <2>6. Packed(c[i + 1], T, SubSeq(lines, 1, i + 1))
    BY <2>2, <2>3, <2>5 DEF sofar, l, x
  <2> QED
    BY <2>1, <2>6
<1>4. Packed(c[n], T, SubSeq(lines, 1, n))
  <2> HIDE DEF W, n
  <2>1. \A i \in 0..n : i \in W
    BY <1>0, <1>2, <1>3, Upward
  <2>2. n \in W
    BY <1>0, <2>1
  <2> QED
    BY <2>2 DEF W
<1>5. SubSeq(lines, 1, n) = lines
  OBVIOUS
<1> QED
  BY <1>1, <1>4, <1>5

LEMMA BiggestFirst ==
  ASSUME NEW L, Numbered(L), NEW S, S \subseteq L, NEW day
  PROVE  ListOf(DueToday(S, day), DueOn(S, day))
<1> DEFINE D == DueOn(S, day)
           a == [x \in D |-> x.amount]
           b == [x \in D |-> x.id]
           before == Ahead(D, a, b)
           Here(x) == {y \in D : y.amount > x.amount \/ (y.amount = x.amount /\ y.id > x.id)}
<1>0. D \subseteq L
  BY DEF DueOn, Pending, Expenses
<1>1. IsFiniteSet(D)
  BY <1>0, FS_Subset DEF Numbered
<1>2. \A x \in D : a[x] \in Int /\ b[x] \in Int
  <2>1. \A x \in D : x.amount \in Int /\ x.id \in Int
    BY <1>0 DEF Numbered, Entry
  <2> QED
    BY <2>1
<1>3. \A x, y \in D : a[x] = a[y] /\ b[x] = b[y] => x = y
  BY <1>0 DEF Numbered
<1> HIDE DEF D
<1>4. \A x \in D : Here(x) = before[x]
  BY DEF Ahead
<1> HIDE DEF a, b
<1>5. Ranked(D, before)
  BY <1>2, <1>3, OrderedByTwo
<1> HIDE DEF before
<1>6. ListOf(InRank(D, before), D)
  BY <1>1, <1>5, RankedIsAList
<1>7. InRank(D, before) = [k \in 1..Cardinality(D) |-> CHOOSE x \in D : Cardinality(Here(x)) = k - 1]
  <2> HIDE DEF Here
  <2>1. ASSUME NEW k \in 1..Cardinality(D)
        PROVE  (CHOOSE x \in D : Cardinality(before[x]) = k - 1)
                 = CHOOSE x \in D : Cardinality(Here(x)) = k - 1
    BY <1>4
  <2> QED
    BY <2>1 DEF InRank
<1>8. DueToday(S, day) = [k \in 1..Cardinality(D) |-> CHOOSE x \in D : Cardinality(Here(x)) = k - 1]
  BY DEF DueToday, Sorted, D
<1> QED
  BY <1>6, <1>7, <1>8 DEF D

LEMMA ClippedToFit ==
  ASSUME NEW n \in Nat
  PROVE  ClipLine(n) \in Int /\ ClipLine(n) <= Budget
<1>1. Budget \in Int /\ Budget > Ellipsis /\ Ellipsis = 3
  <2>1. Larger(HeaderLength, ContinuationLength) \in Int
    BY BillsAssumption DEF Larger
  <2> QED
    BY <2>1, BillsAssumption DEF Budget, Reserve, Ellipsis
<1>2. CASE n <= Budget
  BY <1>1, <1>2 DEF ClipLine
<1>3. CASE ~(n <= Budget)
  <2> DEFINE K == {k \in 0..Larger(0, Budget - Ellipsis) : RuneStart(k) \/ k = 0}
  <2>1. Larger(0, Budget - Ellipsis) = Budget - 3
    BY <1>1 DEF Larger
  <2>2. 0 \in K /\ K \subseteq Int /\ K \subseteq 0..(Budget - 3)
    BY <1>1, <2>1
  <2>3. IsFiniteSet(K)
    <3>1. IsFiniteSet(0..(Budget - 3))
      BY <1>1, FS_Interval
    <3> HIDE DEF K
    <3> QED
      BY <2>2, <3>1, FS_Subset
  <2>4. ClipLine(n) = Max(K) + 3
    BY <1>1, <1>3 DEF ClipLine
  <2> HIDE DEF K
  <2>5. Max(K) \in K
    BY <2>2, <2>3, GreatestOfSome
  <2>6. Max(K) \in Int /\ Max(K) <= Budget - 3
    <3>1. Max(K) \in 0..(Budget - 3)
      BY <2>2, <2>5
    <3> DEFINE m == Max(K)
    <3> HIDE DEF m
    <3>2. m \in 0..(Budget - 3)
      BY <3>1 DEF m
    <3>3. m \in Int /\ m <= Budget - 3
      BY <1>1, <3>2
    <3> QED
      BY <3>3 DEF m
  <2> QED
    BY <1>1, <2>4, <2>6
<1> QED
  BY <1>2, <1>3

LEMMA ListHoldsEveryBill ==
  ASSUME LinesHaveALength, NEW L, Numbered(L), NEW S, S \subseteq L, NEW day
  PROVE  LET bills    == DueToday(S, day)
             messages == BillListMessages(S, day)
             listed   == FlattenSeq([k \in DOMAIN messages |-> messages[k].lines])
         IN  /\ [k \in DOMAIN listed |-> listed[k].bill] = [k \in DOMAIN bills |-> bills[k].id]
             /\ \A k \in DOMAIN messages : messages[k].length <= MaxWhatsAppText
             /\ messages # <<>> => messages[1].total = Total(DueOn(S, day))
<1> DEFINE D == DueOn(S, day)
           bills == DueToday(S, day)
           lines == [k \in DOMAIN bills |-> Line(bills[k])]
           chunks == ChunkLines(lines)
           messages == BillListMessages(S, day)
           T == {Line(e) : e \in D}
           head(k) == IF k = 1 THEN HeaderLength ELSE ContinuationLength
           total(k) == IF k = 1 THEN SumOfRows(bills, Amount) ELSE 0
<1>0. D \subseteq L
  BY DEF DueOn, Pending, Expenses
<1>1. /\ Budget \in Int /\ MaxWhatsAppText \in Int
      /\ \A k : head(k) \in Int /\ head(k) + 2 + Budget <= MaxWhatsAppText
  <2>1. /\ Larger(HeaderLength, ContinuationLength) \in Int
        /\ Larger(HeaderLength, ContinuationLength) >= HeaderLength
        /\ Larger(HeaderLength, ContinuationLength) >= ContinuationLength
    BY BillsAssumption DEF Larger
  <2> QED
    BY <2>1, BillsAssumption DEF Budget, Reserve
<1>2. ListOf(bills, D)
  BY BiggestFirst
<1>3. /\ bills \in Seq(D) /\ Len(bills) \in Nat /\ DOMAIN bills = 1..Len(bills)
      /\ \A k \in 1..Len(bills) : bills[k] \in D
  <2> HIDE DEF bills, D
  <2> QED
    BY <1>2 DEF ListOf
<1>4. messages = [k \in DOMAIN chunks |->
                    [total |-> total(k), lines |-> chunks[k], length |-> head(k) + 2 + SizeOf(chunks[k]) - 1]]
  BY DEF BillListMessages
<1>5. lines \in Seq(T)
  <2> HIDE DEF bills, D
  <2>1. \A k \in 1..Len(bills) : Line(bills[k]) \in T
    BY <1>3
  <2> QED
    BY <1>3, <2>1
<1>6. Fitting(T)
  <2> SUFFICES ASSUME NEW e \in D
               PROVE  Cost(Line(e)) \in Int /\ Cost(Line(e)) <= Budget + 1
    BY DEF Fitting
  <2>1. LineLength(e) \in Nat
    BY DEF LinesHaveALength
  <2>2. ClipLine(LineLength(e)) \in Int /\ ClipLine(LineLength(e)) <= Budget
    BY <2>1, ClippedToFit
  <2>3. Cost(Line(e)) = ClipLine(LineLength(e)) + 1
    BY DEF Cost, Line
  <2> QED
    BY <1>1, <2>2, <2>3
<1>7. Packed(chunks, T, lines)
  <2> HIDE DEF lines, T
  <2> QED
    BY <1>1, <1>5, <1>6, AllLinesPacked
<1>8. /\ chunks \in Seq(Seq(T)) /\ Len(chunks) \in Nat /\ DOMAIN chunks = 1..Len(chunks)
      /\ \A k \in 1..Len(chunks) : SizeOf(chunks[k]) \in Int /\ SizeOf(chunks[k]) <= Budget + 1
  <2> HIDE DEF chunks, T
  <2> QED
    BY <1>7 DEF Packed
<1>9. DOMAIN lines = 1..Len(bills) /\ \A k \in 1..Len(bills) : lines[k].bill = bills[k].id
  BY <1>3 DEF Line
<1> HIDE DEF chunks, T, lines, D, bills, messages, head, total
<1>10. FlattenSeq(chunks) = lines
  <2>1. PICK f : Joined(chunks, f) /\ f[Len(chunks)] = lines
    BY <1>7 DEF Packed
  <2> QED
    BY <1>8, <2>1, FlattenedIs
<1>11. DOMAIN messages = DOMAIN chunks /\ \A k \in DOMAIN chunks : messages[k].lines = chunks[k]
  BY <1>4
<1>12. [k \in DOMAIN messages |-> messages[k].lines] = chunks
  <2>1. chunks = [k \in DOMAIN chunks |-> chunks[k]]
    BY <1>8
  <2> QED
    BY <1>11, <2>1
<1>13. [k \in DOMAIN lines |-> lines[k].bill] = [k \in DOMAIN bills |-> bills[k].id]
  BY <1>3, <1>9
<1>14. \A k \in DOMAIN messages : messages[k].length <= MaxWhatsAppText
  <2> SUFFICES ASSUME NEW k \in DOMAIN messages PROVE messages[k].length <= MaxWhatsAppText
    OBVIOUS
  <2>1. k \in DOMAIN chunks /\ SizeOf(chunks[k]) \in Int /\ SizeOf(chunks[k]) <= Budget + 1
    BY <1>8, <1>11
  <2>2. messages[k].length = head(k) + 2 + SizeOf(chunks[k]) - 1
    BY <1>4, <2>1
  <2>3. head(k) \in Int /\ head(k) + 2 + Budget <= MaxWhatsAppText
    BY <1>1 DEF head
  <2> QED
    BY <1>1, <2>1, <2>2, <2>3
<1>15. messages # <<>> => messages[1].total = Total(D)
  <2> SUFFICES ASSUME messages # <<>> PROVE messages[1].total = Total(D)
    OBVIOUS
  <2>1. Len(chunks) # 0
    <3>1. SUFFICES ASSUME Len(chunks) = 0 PROVE FALSE
      OBVIOUS
    <3>2. chunks = <<>>
      BY <1>8, <3>1
    <3>3. DOMAIN chunks = {}
      BY <3>2
    <3>4. messages = <<>>
      BY <1>4, <3>3
    <3> QED
      BY <3>4
  <2>2. 1 \in DOMAIN chunks
    BY <1>8, <2>1
  <2>3. messages[1].total = SumOfRows(bills, Amount)
    BY <1>4, <2>2 DEF total
  <2>4. Priced(D)
    BY <1>0, PricedPart DEF Numbered
  <2> QED
    BY <1>2, <2>3, <2>4, TotalOfAList
<1>16. FlattenSeq([k \in DOMAIN messages |-> messages[k].lines]) = lines
  BY <1>10, <1>12
<1> QED
  BY <1>13, <1>14, <1>15, <1>16 DEF messages, bills, D

LEMMA EveryBillOfTheDay == LinesHaveALength /\ BooksInv /\ NumberedInv => EveryBillIsListed
<1> SUFFICES ASSUME LinesHaveALength, BooksInv, NumberedInv PROVE EveryBillIsListed
  OBVIOUS
<1> DEFINE S == LookBack(ledger, now)
<1>1. Numbered(ledger)
  BY DEF BooksInv, NumberedInv, Numbered
<1>2. now \in Int
  BY BooksAssumption DEF BooksInv
<1>3. S \subseteq ledger
  BY <1>2, DueOrLate DEF BooksInv
<1> HIDE DEF S
<1>4. LET bills    == DueToday(S, now)
          messages == BillListMessages(S, now)
          listed   == FlattenSeq([k \in DOMAIN messages |-> messages[k].lines])
      IN  /\ [k \in DOMAIN listed |-> listed[k].bill] = [k \in DOMAIN bills |-> bills[k].id]
          /\ \A k \in DOMAIN messages : messages[k].length <= MaxWhatsAppText
          /\ messages # <<>> => messages[1].total = Total(DueOn(S, now))
  BY <1>1, <1>3, ListHoldsEveryBill
<1> QED
  BY <1>4 DEF EveryBillIsListed, S

(* What is cut to fit says so, for any ledger, limits and lengths of lines *)
(* in bytes: a listing of the agent that does not say it was cut holds all *)
(* that was asked for, and the messages of the digest name every bill of   *)
(* the day, under their total and short enough to be sent (QueryLimit of   *)
(* tools.go, chunkLines and billListMessages of notifier.go).              *)
THEOREM CutsAreAnnounced ==
  ASSUME LinesHaveALength
  PROVE  BooksSpec => []NothingIsCutSilently
<1>1. BooksInv /\ NumberedInv => NothingIsCutSilently
  BY NothingIsLeftOutSilently, EveryBillOfTheDay DEF NothingIsCutSilently
<1> QED
  BY <1>1, BooksAreNumbered, PTL

-----------------------------------------------------------------------------
(* One month has one set of figures.  A day before the end of a month is a *)
(* day of that month or of one before, so a span of months holds no days   *)
(* but theirs.                                                             *)
LEMMA DaysAreInMonths ==
  ASSUME NEW day \in Int, day >= 1, NEW k \in Months, day <= LastDay(k)
  PROVE  MonthOf(day) \in Months /\ day \in DaysOf(MonthOf(day))
<1> DEFINE T == {j \in Months : day <= LastDay(j)}
<1>1. T \subseteq Nat /\ k \in T
  BY MonthsAreNumbered
<1>2. PICK x \in T : \A y \in T : x <= y
  BY <1>1, LeastNatural
<1>3. x \in Months /\ x \in Nat /\ day <= LastDay(x)
  BY <1>1
<1>4. FirstDay[x] <= day
  <2>1. CASE x = 1
    BY <1>3, <2>1, NextMonth
  <2>2. CASE x # 1
    <3>1. x - 1 \in Months /\ FirstDay[x] = LastDay(x - 1) + 1 /\ LastDay(x - 1) \in Int
      BY <1>3, <2>2, NextMonth
    <3>2. x - 1 \notin T
      BY <1>2, <1>3
    <3> QED
      BY <3>1, <3>2
  <2> QED
    BY <2>1, <2>2
<1>5. day \in DaysOf(x)
  BY <1>3, <1>4, NextMonth DEF DaysOf
<1>6. \E j \in Months : day \in DaysOf(j)
  BY <1>3, <1>5
<1> QED
  BY <1>6 DEF MonthOf

LEMMA SpanOfMonths ==
  ASSUME NEW ms, ms \subseteq Months, NEW m \in ms, NEW day
  PROVE  /\ day \in DaysOf(m) => /\ day \in FirstDay[Min(ms)]..LastDay(Max(ms))
                                 /\ MonthOf(day) = m
         /\ day \in FirstDay[Min(ms)]..LastDay(Max(ms)) /\ MonthOf(day) = m
               => day \in DaysOf(m)
<1>1. ms \subseteq Int /\ IsFiniteSet(ms) /\ m \in Int /\ m \in Months
  <2>1. IsFiniteSet(Months) /\ Months \subseteq Int
    BY MonthsAreNumbered, FS_Interval
  <2> QED
    BY <2>1, FS_Subset
<1> DEFINE j == Min(ms)
           k == Max(ms)
<1>2. j \in ms /\ j <= m
  BY <1>1, LeastOfSome
<1>3. k \in ms /\ m <= k
  BY <1>1, GreatestOfSome
<1> HIDE DEF j, k
<1>4. j \in Months /\ k \in Months /\ j \in Int /\ k \in Int
  BY <1>1, <1>2, <1>3
<1>5. /\ FirstDay[m] \in Int /\ LastDay(m) \in Int /\ FirstDay[m] <= LastDay(m)
      /\ FirstDay[j] \in Int /\ LastDay(j) \in Int /\ FirstDay[j] <= LastDay(j)
      /\ FirstDay[k] \in Int /\ LastDay(k) \in Int /\ FirstDay[k] <= LastDay(k)
  BY <1>1, <1>4, NextMonth
<1>6. FirstDay[j] <= FirstDay[m] /\ LastDay(m) <= LastDay(k)
  <2>1. j # m => LastDay(j) < FirstDay[m]
    BY <1>1, <1>2, <1>4, MonthsFollow
  <2>2. k # m => LastDay(m) < FirstDay[k]
    BY <1>1, <1>3, <1>4, MonthsFollow
  <2> QED
    BY <1>5, <2>1, <2>2
<1>7. ASSUME day \in DaysOf(m)
      PROVE  day \in FirstDay[j]..LastDay(k) /\ MonthOf(day) = m
  BY <1>1, <1>5, <1>6, <1>7, MonthIs DEF DaysOf
<1>8. ASSUME day \in FirstDay[j]..LastDay(k), MonthOf(day) = m
      PROVE  day \in DaysOf(m)
  <2>1. day \in Int /\ day >= 1 /\ day <= LastDay(k)
    BY <1>4, <1>5, <1>8, MonthsBeginAtOne
  <2> QED
    BY <1>4, <1>8, <2>1, DaysAreInMonths
<1> QED
  BY <1>7, <1>8 DEF j, k

LEMMA MonthInASpan ==
  ASSUME NEW L, NEW ms, ms \subseteq Months, NEW m \in ms
  PROVE  MultiMonthlySummary(L, ms)[m] = MonthlySummary(L, m)
<1> DEFINE Share(basis) == {e \in Within(L, basis, FirstDay[Min(ms)], LastDay(Max(ms))) :
                               MonthOf(BasisDate(basis, e)) = m}
<1>1. ASSUME NEW basis PROVE Share(basis) = MonthEntries(L, m, basis)
  <2>1. ASSUME NEW e \in L PROVE e \in Share(basis) <=> e \in MonthEntries(L, m, basis)
    <3> DEFINE day == BasisDate(basis, e)
    <3>1. e \in Share(basis) <=> /\ day # Nobody
                                 /\ day \in FirstDay[Min(ms)]..LastDay(Max(ms))
                                 /\ MonthOf(day) = m
      BY DEF Within
    <3>2. e \in MonthEntries(L, m, basis) <=> day # Nobody /\ day \in DaysOf(m)
      BY DEF MonthEntries, Within, DaysOf
    <3> HIDE DEF day
    <3> QED
      BY <3>1, <3>2, SpanOfMonths
  <2> QED
    BY <2>1 DEF Within, MonthEntries
<1>2. MultiMonthlySummary(L, ms)[m] = Summary(Share("transaction"), Share("payment"),
                                              Share("effective"))
  BY DEF MultiMonthlySummary
<1> HIDE DEF Share
<1> QED
  BY <1>1, <1>2 DEF MonthlySummary

LEMMA SpansAgree == SummariesAgree
<1> SUFFICES ASSUME NEW m \in MonthRange(MonthOf(now))
             PROVE  MultiMonthlySummary(ledger, MonthRange(MonthOf(now)))[m]
                      = MonthlySummary(ledger, m)
  BY DEF SummariesAgree
<1>1. MonthRange(MonthOf(now)) \subseteq Months
  BY DEF MonthRange
<1> QED
  BY <1>1, MonthInASpan

(* The splits add up.  One row of a split by category.                     *)
OfCategory(S, c) == {e \in S : e.category = c}
RowOf(S, c) == [category |-> c, total |-> Total(OfCategory(S, c)),
                count |-> Cardinality(OfCategory(S, c))]
RowsOf(S) == {RowOf(S, c) : c \in CategoriesOf(S)}

LEMMA RowsAreWhole ==
  ASSUME NEW L, L \subseteq Entry, IsFiniteSet(L), NEW S, S \subseteq L
  PROVE  /\ IsFiniteSet(S) /\ IsFiniteSet(CategoriesOf(S)) /\ IsFiniteSet(RowsOf(S))
         /\ \A x \in RowsOf(S) : /\ x.category \in CategoriesOf(S) /\ x = RowOf(S, x.category)
                                 /\ x.category \in Int /\ x.total \in Int
<1>1. IsFiniteSet(S)
  BY FS_Subset
<1>2. IsFiniteSet(CategoriesOf(S))
  <2> DEFINE f == [e \in S |-> e.category]
  <2>1. CategoriesOf(S) = {f[e] : e \in S}
    BY DEF CategoriesOf
  <2> HIDE DEF f
  <2> QED
    BY <1>1, <2>1, ImageIsFinite
<1>3. IsFiniteSet(RowsOf(S))
  <2> DEFINE f == [c \in CategoriesOf(S) |-> RowOf(S, c)]
  <2>1. RowsOf(S) = {f[c] : c \in CategoriesOf(S)}
    BY DEF RowsOf
  <2> HIDE DEF f
  <2> QED
    BY <1>2, <2>1, ImageIsFinite
<1>4. ASSUME NEW x \in RowsOf(S)
      PROVE  /\ x.category \in CategoriesOf(S) /\ x = RowOf(S, x.category)
             /\ x.category \in Int /\ x.total \in Int
  <2>1. PICK c \in CategoriesOf(S) : x = RowOf(S, c)
    BY DEF RowsOf
  <2>2. x.category = c /\ x.total = Total(OfCategory(S, c))
    BY <2>1 DEF RowOf
  <2>3. c \in Int
    BY <2>1 DEF CategoriesOf, Entry
  <2>4. Total(OfCategory(S, c)) \in Int
    <3>1. OfCategory(S, c) \subseteq L
      BY DEF OfCategory
    <3> QED
      BY <3>1, PricedPart, TotalIsAnInteger
  <2> QED
    BY <2>1, <2>2, <2>3, <2>4
<1> QED
  BY <1>1, <1>2, <1>3, <1>4

LEMMA LargestRowFirst ==
  ASSUME NEW L, L \subseteq Entry, IsFiniteSet(L), NEW S, S \subseteq L
  PROVE  ListOf(FoldByCategory(S), RowsOf(S))
<1> DEFINE R == RowsOf(S)
           a == [x \in R |-> x.total]
           b == [x \in R |-> -x.category]
           before == Ahead(R, a, b)
           Here(x) == {y \in R : \/ y.total > x.total
                                 \/ y.total = x.total /\ y.category < x.category}
<1>1. IsFiniteSet(R) /\ \A x \in R : x.category \in Int /\ x.total \in Int /\ x = RowOf(S, x.category)
  BY RowsAreWhole
<1>2. FoldByCategory(S) = Sorted(R, LAMBDA x, y :
                                       \/ x.total > y.total
                                       \/ x.total = y.total /\ x.category < y.category)
  BY DEF FoldByCategory, RowsOf, RowOf, OfCategory
<1> HIDE DEF R
<1>3. \A x \in R : a[x] \in Int /\ b[x] \in Int
  BY <1>1
<1>4. \A x, y \in R : a[x] = a[y] /\ b[x] = b[y] => x = y
  <2> SUFFICES ASSUME NEW x \in R, NEW y \in R, a[x] = a[y], b[x] = b[y] PROVE x = y
    OBVIOUS
  <2>1. x.category = y.category
    BY <1>1
  <2>2. x = RowOf(S, x.category) /\ y = RowOf(S, y.category)
    BY <1>1
  <2> QED
    BY <2>1, <2>2
<1>5. \A x \in R : Here(x) = before[x]
  BY <1>1 DEF Ahead
<1> HIDE DEF a, b
<1>6. Ranked(R, before)
  BY <1>3, <1>4, OrderedByTwo
<1> HIDE DEF before
<1>7. ListOf(InRank(R, before), R)
  BY <1>1, <1>6, RankedIsAList
<1>8. InRank(R, before) = [k \in 1..Cardinality(R) |-> CHOOSE x \in R : Cardinality(Here(x)) = k - 1]
  <2> HIDE DEF Here
  <2>1. ASSUME NEW k \in 1..Cardinality(R)
        PROVE  (CHOOSE x \in R : Cardinality(before[x]) = k - 1)
                 = CHOOSE x \in R : Cardinality(Here(x)) = k - 1
    BY <1>5
  <2> QED
    BY <2>1 DEF InRank
<1>9. FoldByCategory(S) = InRank(R, before)
  BY <1>2, <1>8 DEF Sorted
<1> QED
  BY <1>7, <1>9 DEF R

(* The total of the rows is the total of what was split.                   *)
LEMMA SplitAddsUp ==
  ASSUME NEW L, L \subseteq Entry, IsFiniteSet(L), NEW S, S \subseteq L
  PROVE  LET rows == FoldByCategory(S)
             f    == [k \in DOMAIN rows |-> rows[k].total]
         IN  /\ Lined(rows) /\ Len(rows) \in Nat /\ DOMAIN rows = 1..Len(rows)
             /\ \A k \in DOMAIN rows : f[k] \in Int
             /\ SumOver(f, DOMAIN rows) = Total(S)
<1> DEFINE rows == FoldByCategory(S)
           f == [k \in DOMAIN rows |-> rows[k].total]
           R == RowsOf(S)
           C == CategoriesOf(S)
           u == [x \in R |-> x.total]
           p == [c \in C |-> RowOf(S, c)]
           h == [c \in C |-> Total(OfCategory(S, c))]
           key == [e \in S |-> e.category]
           a == AmountsOf(S)
<1>1. ListOf(rows, R)
  BY LargestRowFirst
<1>2. /\ IsFiniteSet(S) /\ IsFiniteSet(C) /\ IsFiniteSet(R)
      /\ \A x \in R : /\ x.category \in C /\ x = RowOf(S, x.category)
                      /\ x.category \in Int /\ x.total \in Int
  BY RowsAreWhole
<1>3. Len(rows) \in Nat /\ DOMAIN rows = 1..Len(rows) /\ OneForOne(rows, 1..Len(rows), R)
  BY <1>1 DEF ListOf
<1>4. IsFiniteSet(1..Len(rows)) /\ 1..Len(rows) \subseteq Int
  BY <1>3, FS_Interval
<1>5. \A x \in R : u[x] = x.total /\ u[x] \in Int
  BY <1>2
<1> HIDE DEF rows, R, u
<1>6. \A k \in 1..Len(rows) : f[k] = u[rows[k]] /\ f[k] \in Int
  BY <1>3, <1>5 DEF OneForOne
<1> HIDE DEF f
<1>7. SumOver(f, 1..Len(rows)) = SumOver(u, R)
  BY <1>3, <1>4, <1>5, <1>6, SumMoves
<1>8. OneForOne(p, C, R)
  <2>1. \A c \in C : p[c] \in R /\ p[c].category = c
    BY DEF R, RowsOf, RowOf
  <2>2. \A x \in R : \E c \in C : p[c] = x
    BY <1>2
  <2> QED
    BY <2>1, <2>2 DEF OneForOne
<1>9. \A c \in C : h[c] = u[p[c]]
  <2>1. \A c \in C : p[c] \in R /\ p[c].total = h[c]
    BY DEF R, RowsOf, RowOf
  <2> QED
    BY <2>1, <1>5
<1>10. SumOver(h, C) = SumOver(u, R)
  <2> HIDE DEF h, p, C
  <2> QED
    BY <1>2, <1>5, <1>8, <1>9, SumMoves
<1>11. \A e \in S : key[e] \in C /\ a[e] \in Int
  BY DEF CategoriesOf, AmountsOf, Entry
<1>12. \A c \in C : h[c] = SumOver(a, PartOf(S, key, c))
  <2> SUFFICES ASSUME NEW c \in C PROVE h[c] = SumOver(a, PartOf(S, key, c))
    OBVIOUS
  <2> DEFINE O == OfCategory(S, c)
  <2>1. O = PartOf(S, key, c) /\ O \subseteq S
    BY DEF OfCategory, PartOf
  <2>2. Priced(O) /\ IsFiniteSet(O)
    BY <2>1, <1>2, FS_Subset, PricedPart
  <2>3. Total(O) = SumOver(AmountsOf(O), O)
    BY <2>2, TotalIsSum
  <2>4. \A e \in O : AmountsOf(O)[e] = a[e] /\ a[e] \in Int
    BY <2>1, <1>11 DEF AmountsOf
  <2> HIDE DEF O, a
  <2>5. SumOver(AmountsOf(O), O) = SumOver(a, O)
    BY <2>2, <2>4, SameSum
  <2> QED
    BY <2>1, <2>3, <2>5 DEF O
<1>13. SumOver(a, S) = SumOver(h, C)
  <2> HIDE DEF h, key, C, a
  <2>1. \A e \in S : key[e] \in C
    BY <1>11
  <2>2. \A e \in S : a[e] \in Int
    BY <1>11
  <2>3. IsFiniteSet(S) /\ IsFiniteSet(C)
    BY <1>2
  <2> QED
    BY <2>1, <2>2, <2>3, <1>12, SumOfParts
<1>14. Total(S) = SumOver(a, S)
  BY PricedPart, TotalIsSum
<1>15. Lined(rows)
  BY <1>3, <1>4 DEF Lined
<1>16. SumOver(f, DOMAIN rows) = Total(S)
  <2> HIDE DEF h, C, a
  <2> QED
    BY <1>3, <1>7, <1>10, <1>13, <1>14
<1> QED
  BY <1>3, <1>6, <1>15, <1>16 DEF rows, f

LEMMA RowsAddUp ==
  ASSUME NEW L, L \subseteq Entry, IsFiniteSet(L), NEW S, S \subseteq L
  PROVE  TotalOfRows(FoldByCategory(S)) = Total(S)
<1> DEFINE rows == FoldByCategory(S)
           f == [k \in DOMAIN rows |-> rows[k].total]
<1>1. /\ Lined(rows) /\ \A k \in DOMAIN rows : f[k] \in Int /\ f[k] = rows[k].total
      /\ SumOver(f, DOMAIN rows) = Total(S)
  BY SplitAddsUp
<1> HIDE DEF rows, f
<1>2. TotalOfRows(rows) = SumOver(f, DOMAIN rows)
  BY <1>1, TotalsOfRows
<1> QED
  BY <1>1, <1>2 DEF rows

(* The same of a split with percents, and of the top of it when that is    *)
(* all of it.                                                              *)
LEMMA PartsOfWhole ==
  ASSUME NEW L, L \subseteq Entry, IsFiniteSet(L), NEW S, S \subseteq L
  PROVE  LET split == Composition(S)
         IN  /\ Parts(split) = Total(S)
             /\ ~(Len(split) > MaxToolCategories) => Parts(TopCategories(split)) = Total(S)
<1> DEFINE rows == FoldByCategory(S)
           f == [k \in DOMAIN rows |-> rows[k].total]
           n == Len(rows)
           split == Composition(S)
<1>1. /\ Lined(rows) /\ n \in Nat /\ DOMAIN rows = 1..n
      /\ \A k \in DOMAIN rows : f[k] \in Int /\ f[k] = rows[k].total
      /\ SumOver(f, DOMAIN rows) = Total(S)
  BY SplitAddsUp
<1>2. /\ split = [k \in DOMAIN rows |->
                    [category |-> rows[k].category, amount |-> rows[k].total,
                     pct |-> Round(rows[k].total * 100, Total(S))]]
  BY DEF Composition
<1>3. DOMAIN split = DOMAIN rows /\ \A k \in DOMAIN rows : split[k].amount = rows[k].total
  BY <1>2
<1>4. Len(split) = n /\ \E T : split \in Seq(T)
  <2>1. split \in Seq({split[k] : k \in 1..n})
    <3> HIDE DEF rows, n, split
    <3>1. split = [k \in 1..n |-> split[k]]
      BY <1>1, <1>2, <1>3
    <3> QED
      BY <1>1, <3>1
  <2> HIDE DEF split, rows, n
  <2> QED
    BY <2>1, <1>1, <1>3
<1> HIDE DEF rows, f, n, split
<1>5. Lined(split)
  BY <1>1, <1>3 DEF Lined
<1>6. SumOfRows(split, Amount) = SumOver(f, DOMAIN split)
  BY <1>1, <1>3, <1>5, AmountOfRows
<1>7. Parts(split) = Total(S)
  BY <1>1, <1>3, <1>6 DEF Parts
<1>8. ASSUME ~(n > MaxToolCategories)
      PROVE  TopCategories(split) = split
  <2>1. MaxToolCategories \in Nat
    BY AnalysisAssumption
  <2>2. Smaller(Len(split), MaxToolCategories) = n
    BY <1>1, <1>4, <1>8, <2>1 DEF Smaller
  <2>3. SubSeq(split, 1, n) = split
    BY <1>4
  <2> QED
    BY <2>2, <2>3 DEF TopCategories
<1> QED
  BY <1>4, <1>7, <1>8 DEF split

(* What a month moves, day by day.                                         *)
LEMMA DayByDay ==
  ASSUME NEW L, L \subseteq Entry, IsFiniteSet(L), NEW m \in Months,
         NEW S, S \subseteq MonthEntries(L, m, "effective")
  PROVE  LET h == [k \in 1..MonthLengths[m] |->
                      Total({e \in S : EffectiveDate(e) = FirstDay[m] + k - 1})]
         IN  /\ Total(S) = SumOver(h, 1..MonthLengths[m])
             /\ \A k \in 1..MonthLengths[m] : h[k] \in Int
<1> DEFINE first == FirstDay[m]
           n == MonthLengths[m]
           C == 1..n
           On(k) == {e \in S : EffectiveDate(e) = first + k - 1}
           h == [k \in C |-> Total(On(k))]
           key == [e \in S |-> EffectiveDate(e) - first + 1]
           a == AmountsOf(S)
<1>1. first \in Int /\ n \in Nat /\ LastDay(m) = first + n - 1
  BY NextMonth, MonthsAreNumbered DEF LastDay
<1>2. S \subseteq L /\ IsFiniteSet(S) /\ Priced(S)
  <2>1. S \subseteq L
    BY DEF MonthEntries, Within
  <2> QED
    BY <2>1, FS_Subset, PricedPart
<1>3. IsFiniteSet(C)
  BY <1>1, FS_Interval
<1>4. ASSUME NEW e \in S
      PROVE  EffectiveDate(e) \in Int /\ key[e] = EffectiveDate(e) - first + 1 /\ key[e] \in C
  <2>1. EffectiveDate(e) \in Int
    BY <1>2, EffectiveIsADay
  <2>2. EffectiveDate(e) \in first..LastDay(m)
    BY DEF MonthEntries, Within, BasisDate
  <2> QED
    BY <1>1, <2>1, <2>2
<1>5. \A e \in S : a[e] \in Int
  BY <1>2 DEF AmountsOf, Priced
<1>6. ASSUME NEW k \in C PROVE h[k] = SumOver(a, PartOf(S, key, k))
  <2> DEFINE O == On(k)
  <2>1. O = PartOf(S, key, k)
    <3>1. k \in Int
      BY <1>1
    <3>2. \A e \in S : key[e] = k <=> EffectiveDate(e) = first + k - 1
      BY <1>1, <1>4, <3>1
    <3> QED
      BY <3>2 DEF PartOf
  <2>2. O \subseteq S
    OBVIOUS
  <2>3. Priced(O) /\ IsFiniteSet(O)
    BY <2>2, <1>2, FS_Subset, PricedPart
  <2>4. Total(O) = SumOver(AmountsOf(O), O)
    BY <2>3, TotalIsSum
  <2>5. \A e \in O : AmountsOf(O)[e] = a[e] /\ a[e] \in Int
    BY <2>2, <1>5 DEF AmountsOf
  <2>6. h[k] = Total(O)
    OBVIOUS
  <2> HIDE DEF O, a, h, key
  <2>7. SumOver(AmountsOf(O), O) = SumOver(a, O)
    BY <2>3, <2>5, SameSum
  <2> QED
    BY <2>1, <2>4, <2>6, <2>7
<1>7. \A e \in S : key[e] \in C
  BY <1>4
<1> HIDE DEF h, key, C, a
<1>8. SumOver(a, S) = SumOver(h, C) /\ \A k \in C : h[k] \in Int
  BY <1>2, <1>3, <1>5, <1>6, <1>7, SumOfParts
<1>9. Total(S) = SumOver(a, S)
  BY <1>2, TotalIsSum DEF a
<1> QED
  BY <1>8, <1>9 DEF h, C

(* What the days of a curve take out, and what they move.                  *)
OutOf(points) == MapThenSumSet(LAMBDA d : d.out, points)
MovedOn(points) == MapThenSumSet(LAMBDA d : d.in + d.out, points)

LEMMA OutIsSum ==
  ASSUME NEW S, NEW f, \A d \in S : f[d] = d.out
  PROVE  OutOf(S) = SumOver(f, S)
<1> DEFINE F(d) == d.out
           Fold(g) == g = [s \in SUBSET S |->
                             IF s = {} THEN 0
                             ELSE F(CHOOSE x \in s : TRUE) + g[s \ {CHOOSE x \in s : TRUE}]]
<1>1. ASSUME NEW g
      PROVE  Fold(g) <=> Counted(f, S, g)
  <2>1. ASSUME NEW s \in SUBSET S
        PROVE  Adds(f, s, g) = IF s = {} THEN 0
                  ELSE F(CHOOSE x \in s : TRUE) + g[s \ {CHOOSE x \in s : TRUE}]
    BY DEF Adds, First
  <2> HIDE DEF F
  <2> QED
    BY <2>1 DEF Counted
<1>2. OutOf(S) = (CHOOSE g : Fold(g))[S]
  BY DEF OutOf, MapThenSumSet, MapThenFoldSet
<1> HIDE DEF Fold
<1>3. (CHOOSE g : Fold(g)) = CHOOSE g : Counted(f, S, g)
  BY <1>1
<1> QED
  BY <1>2, <1>3 DEF SumOver

LEMMA MovedIsSum ==
  ASSUME NEW S, NEW f, \A d \in S : f[d] = d.in + d.out
  PROVE  MovedOn(S) = SumOver(f, S)
<1> DEFINE F(d) == d.in + d.out
           Fold(g) == g = [s \in SUBSET S |->
                             IF s = {} THEN 0
                             ELSE F(CHOOSE x \in s : TRUE) + g[s \ {CHOOSE x \in s : TRUE}]]
<1>1. ASSUME NEW g
      PROVE  Fold(g) <=> Counted(f, S, g)
  <2>1. ASSUME NEW s \in SUBSET S
        PROVE  Adds(f, s, g) = IF s = {} THEN 0
                  ELSE F(CHOOSE x \in s : TRUE) + g[s \ {CHOOSE x \in s : TRUE}]
    <3>1. \A d \in S : f[d] = F(d)
      OBVIOUS
    <3> HIDE DEF F
    <3> QED
      BY <3>1 DEF Adds, First
  <2> HIDE DEF F
  <2> QED
    BY <2>1 DEF Counted
<1>2. MovedOn(S) = (CHOOSE g : Fold(g))[S]
  BY DEF MovedOn, MapThenSumSet, MapThenFoldSet
<1> HIDE DEF Fold
<1>3. (CHOOSE g : Fold(g)) = CHOOSE g : Counted(f, S, g)
  BY <1>1
<1> QED
  BY <1>2, <1>3 DEF SumOver

LEMMA CurveHoldsTheMonth ==
  ASSUME NEW L, L \subseteq Entry, IsFiniteSet(L), NEW m \in Months, NEW rates, NEW day
  PROVE  LET days == ToSet(Forecast(CashFlowForecast(L, m), rates, day))
             S    == MonthEntries(L, m, "effective")
         IN  OutOf(days) = Total(Expenses(S)) /\ MovedOn(days) = Total(S)
<1> DEFINE points == CashFlowForecast(L, m)
           curve == Forecast(points, rates, day)
           days == ToSet(curve)
           S == MonthEntries(L, m, "effective")
           first == FirstDay[m]
           C == 1..MonthLengths[m]
           On(R, k) == {e \in R : EffectiveDate(e) = first + k - 1}
           h == [k \in C |-> Total(On(Expenses(S), k))]
           all == [k \in C |-> Total(On(S, k))]
           u == [d \in days |-> d.out]
           v == [d \in days |-> d.in + d.out]
<1>1. first \in Int /\ MonthLengths[m] \in Nat /\ IsFiniteSet(C) /\ C \subseteq Int
      /\ LastDay(m) = first + MonthLengths[m] - 1
  <2>1. first \in Int /\ MonthLengths[m] \in Nat
    BY NextMonth, MonthsAreNumbered
  <2>2. IsFiniteSet(C) /\ C \subseteq Int
    BY <2>1, FS_Interval
  <2> QED
    BY <2>1, <2>2 DEF LastDay
<1>2. S \subseteq L /\ Expenses(S) \subseteq S /\ Incomes(S) \subseteq S
  BY DEF MonthEntries, Within, Expenses, Incomes
<1>3. Total(Expenses(S)) = SumOver(h, C) /\ \A k \in C : h[k] \in Int
  <2>1. Expenses(S) \subseteq MonthEntries(L, m, "effective")
    BY <1>2
  <2> HIDE DEF S
  <2> QED
    BY <2>1, DayByDay
<1>4. Total(S) = SumOver(all, C) /\ \A k \in C : all[k] \in Int
  BY DayByDay
<1>5. ASSUME NEW k \in C
      PROVE  /\ curve[k].date = first + k - 1 /\ curve[k].out = h[k]
             /\ curve[k].in + curve[k].out = all[k]
  <2> DEFINE d == first + k - 1
             B == Within(L, "effective", d, d)
  <2>1. points[k].date = d /\ points[k].in = Total(Incomes(B)) /\ points[k].out = Total(Expenses(B))
    BY DEF CashFlowForecast
  <2>2. DOMAIN points = C
    BY DEF CashFlowForecast
  <2>3. curve[k].date = points[k].date /\ curve[k].in = points[k].in /\ curve[k].out = points[k].out
    <3> HIDE DEF points, C
    <3> QED
      BY <2>2 DEF Forecast
  <2>4. B = On(S, k)
    <3>1. d \in first..LastDay(m) /\ d \in Int
      BY <1>1
    <3>2. ASSUME NEW e \in L PROVE e \in B <=> e \in S /\ EffectiveDate(e) = d
      <4>1. EffectiveDate(e) \in Int /\ EffectiveDate(e) # Nobody
        BY EffectiveIsADay
      <4>2. e \in B <=> EffectiveDate(e) \in d..d
        BY <4>1 DEF Within, BasisDate
      <4>3. e \in S <=> EffectiveDate(e) \in first..LastDay(m)
        BY <4>1 DEF MonthEntries, Within, BasisDate
      <4> HIDE DEF d, B, S
      <4> QED
        BY <3>1, <4>1, <4>2, <4>3
    <3>3. B \subseteq L
      BY DEF Within
    <3> HIDE DEF B, S
    <3> QED
      BY <1>2, <3>2, <3>3
  <2>5. Expenses(B) = On(Expenses(S), k)
    <3> HIDE DEF B, S
    <3> QED
      BY <2>4 DEF Expenses
  <2>6. Total(B) = Total(Incomes(B)) + Total(Expenses(B))
    <3>1. B \subseteq L
      BY DEF Within
    <3>2. /\ B = Incomes(B) \cup Expenses(B) /\ Incomes(B) \cap Expenses(B) = {}
          /\ Incomes(B) \subseteq L /\ Expenses(B) \subseteq L
      BY <3>1 DEF Incomes, Expenses
    <3> HIDE DEF B
    <3>3. Priced(Incomes(B)) /\ Priced(Expenses(B))
      BY <3>2, PricedPart
    <3> QED
      BY <3>2, <3>3, TotalOfBoth
  <2>7. h[k] = Total(On(Expenses(S), k)) /\ all[k] = Total(On(S, k))
    OBVIOUS
  <2> HIDE DEF B, d, S, h, all, curve, points, On
  <2>8. curve[k].out = h[k]
    BY <2>1, <2>3, <2>5, <2>7
  <2>9. curve[k].in + curve[k].out = all[k]
    BY <2>1, <2>3, <2>4, <2>6, <2>7
  <2> QED
    BY <2>1, <2>3, <2>8, <2>9 DEF d
<1>6. DOMAIN curve = C
  BY DEF Forecast, CashFlowForecast
<1>7. days = {curve[k] : k \in C}
  BY <1>6 DEF ToSet
<1> HIDE DEF curve, C, days, S, h, all, u, v
<1>8. OneForOne(curve, C, days)
  <2>1. \A j, k \in C : curve[j] = curve[k] => j = k
    <3> SUFFICES ASSUME NEW j \in C, NEW k \in C, curve[j] = curve[k] PROVE j = k
      OBVIOUS
    <3>1. first + j - 1 = first + k - 1
      BY <1>5
    <3> QED
      BY <1>1, <3>1
  <2> QED
    BY <1>7, <2>1 DEF OneForOne
<1>9. \A k \in C : h[k] = u[curve[k]] /\ all[k] = v[curve[k]]
  BY <1>5, <1>7 DEF u, v
<1>10. \A d \in days : u[d] = d.out /\ v[d] = d.in + d.out /\ u[d] \in Int /\ v[d] \in Int
  <2> SUFFICES ASSUME NEW d \in days
               PROVE  u[d] = d.out /\ v[d] = d.in + d.out /\ u[d] \in Int /\ v[d] \in Int
    OBVIOUS
  <2>1. PICK k \in C : d = curve[k]
    BY <1>7
  <2>2. u[d] = h[k] /\ v[d] = all[k]
    BY <1>9, <2>1
  <2>3. u[d] = d.out /\ v[d] = d.in + d.out
    BY DEF u, v
  <2> QED
    BY <1>3, <1>4, <2>2, <2>3
<1>11. SumOver(h, C) = SumOver(u, days)
  BY <1>1, <1>8, <1>9, <1>10, SumMoves
<1>12. SumOver(all, C) = SumOver(v, days)
  <2>1. \A d \in days : v[d] \in Int
    BY <1>10
  <2>2. \A k \in C : all[k] = v[curve[k]]
    BY <1>9
  <2>3. IsFiniteSet(C) /\ OneForOne(curve, C, days)
    BY <1>1, <1>8
  <2>4. IsFiniteSet(days) /\ SumOver(all, C) = SumOver(v, days)
    BY <2>1, <2>2, <2>3, SumMoves
  <2> QED
    BY <2>4
<1>13. OutOf(days) = SumOver(u, days) /\ MovedOn(days) = SumOver(v, days)
  BY <1>10, OutIsSum, MovedIsSum
<1>14. OutOf(days) = Total(Expenses(S)) /\ MovedOn(days) = Total(S)
  BY <1>3, <1>4, <1>11, <1>12, <1>13
<1> QED
  BY <1>14 DEF days, S, curve

LEMMA PartsOfAMonth ==
  ASSUME NEW L, L \subseteq Entry, IsFiniteSet(L), NEW g, NEW goal,
         NEW m \in Months, NEW day \in Int
  PROVE  LET a       == Assemble(L, g, m, day)
             payload == DigestPayload(a)
             resumo  == ResumoMensal(L, m, goal)
             period  == CategorySummary(L, FirstDay[m], LastDay(m))
         IN  /\ Parts(a.revenues) = a.kpis.faturamento
             /\ Parts(a.expenses) = a.kpis.despesa
             /\ a.kpis.despesa + a.kpis.agendada = OutOf(Curve(a))
             /\ TotalOfRows(period) = MovedOn(Curve(a))
             /\ resumo.faturamento = a.kpis.faturamento
             /\ TotalOfRows(resumo.porCategoria) = resumo.faturamento
             /\ ~payload.faturamentoCut => Parts(payload.faturamento) = a.kpis.faturamento
             /\ ~payload.despesasCut => Parts(payload.despesas) = a.kpis.despesa
<1> DEFINE a == Assemble(L, g, m, day)
           c == NewMonthClock(m, day)
           S == MonthEntries(L, m, "effective")
           T == MonthEntries(L, m, "transaction")
           arrived == Arrived(Read(L, m), c)
           sold == Sales(T)
           spent == Expenses(arrived.cash)
           summary == MultiMonthlySummary(L, MonthRange(m))[m]
           points == CashFlowForecast(L, m)
           rates == CashInRates(L, WindowStart(c), WindowEnd(c))
           resumo == ResumoMensal(L, m, goal)
           payload == DigestPayload(a)
<1>1. /\ sold \subseteq L /\ S \subseteq L /\ Expenses(S) \subseteq L
      /\ spent \subseteq L
  <2>1. sold \subseteq L /\ S \subseteq L /\ Expenses(S) \subseteq L
    BY DEF Sales, MonthEntries, Within, Expenses
  <2>2. arrived.cash = CashThrough(Read(L, m), Elapsed(c))
    BY DEF Arrived
  <2>3. arrived.cash \subseteq Read(L, m).cash /\ Read(L, m).cash = S
    BY <2>2 DEF CashThrough, Read
  <2> QED
    BY <2>1, <2>3 DEF Expenses
<1>2. summary = MonthlySummary(L, m)
  <2>1. MonthRange(m) \subseteq Months /\ m \in MonthRange(m)
    BY MonthsAreNumbered, BooksAssumption DEF MonthRange
  <2> QED
    BY <2>1, MonthInASpan
<1>3. summary.revenue = Total(sold) /\ summary.expense = Total(Expenses(S))
  BY <1>2 DEF MonthlySummary, Summary, RevenueTotal
<1>4. /\ a.revenues = Composition(sold) /\ a.expenses = Composition(spent)
      /\ a.kpis.faturamento = summary.revenue /\ a.kpis.despesa = Total(spent)
  BY PartsOfAnAnalysis DEF RevenueComposition, ExpenseComposition, Read, Spent
<1>5. a.kpis.agendada = summary.expense - Total(spent)
  BY DEF Assemble, Input, Build, Built
<1>6. a.cash = BuildCashPosition(points, rates, day)
  BY DEF Assemble, Input, Build, Built
<1>7. ToSet(a.cash.forecast) = ToSet(Forecast(points, rates, day))
  <2>1. DOMAIN points = 1..MonthLengths[m] /\ MonthLengths[m] \in Nat \ {0}
    BY MonthsAreNumbered DEF CashFlowForecast
  <2>2. 1 \in DOMAIN points
    BY <2>1
  <2>3. points # <<>>
    BY <2>2
  <2> HIDE DEF points, rates
  <2>4. a.cash = PositionOn(Forecast(points, rates, day), BalanceToday(points, day),
                            Sample(rates) > 0, day)
    BY <1>6, <2>3 DEF BuildCashPosition
  <2> QED
    BY <2>4 DEF PositionOn
<1>8. OutOf(Curve(a)) = Total(Expenses(S)) /\ MovedOn(Curve(a)) = Total(S)
  BY <1>7, CurveHoldsTheMonth DEF Curve
<1>9. CategorySummary(L, FirstDay[m], LastDay(m)) = FoldByCategory(S)
  BY DEF CategorySummary, MonthEntries
<1>10. resumo.faturamento = Total(sold)
  BY DEF ResumoMensal, MonthlySummary, Summary, RevenueTotal
<1>11. resumo.porCategoria = IF Total(sold) > 0 THEN FoldByCategory(sold) ELSE <<>>
  BY DEF ResumoMensal, MonthlySummary, Summary, RevenueTotal, MonthRevenueByCategory,
         RevenueByCategory
<1>12. /\ payload.faturamento = TopCategories(a.revenues)
       /\ payload.faturamentoCut = (Len(a.revenues) > MaxToolCategories)
       /\ payload.despesas = TopCategories(a.expenses)
       /\ payload.despesasCut = (Len(a.expenses) > MaxToolCategories)
  BY DEF DigestPayload, ToolPayload
<1>13. TotalOfRows(<<>>) = 0
  <2>1. Lined(<<>>) /\ DOMAIN <<>> = {}
    BY FS_EmptySet DEF Lined
  <2>2. TotalOfRows(<<>>) = SumOver(<<>>, DOMAIN <<>>)
    BY <2>1, TotalsOfRows
  <2>3. SumOver(<<>>, {}) = 0
    BY SumOfNothing
  <2> QED
    BY <2>1, <2>2, <2>3
<1>14. Total(spent) \in Int /\ Total(Expenses(S)) \in Int
  BY <1>1, PricedPart, TotalIsAnInteger
<1> HIDE DEF a, c, S, T, arrived, sold, spent, summary, points, rates, resumo, payload
<1>15. Parts(a.revenues) = Total(sold)
       /\ (~(Len(a.revenues) > MaxToolCategories) => Parts(TopCategories(a.revenues)) = Total(sold))
  BY <1>1, <1>4, PartsOfWhole
<1>16. Parts(a.expenses) = Total(spent)
       /\ (~(Len(a.expenses) > MaxToolCategories) => Parts(TopCategories(a.expenses)) = Total(spent))
  BY <1>1, <1>4, PartsOfWhole
<1>17. TotalOfRows(FoldByCategory(S)) = Total(S)
  BY <1>1, RowsAddUp
<1>18. TotalOfRows(resumo.porCategoria) = Total(sold)
  <2>1. CASE Total(sold) > 0
    <3>1. TotalOfRows(FoldByCategory(sold)) = Total(sold)
      BY <1>1, RowsAddUp
    <3> QED
      BY <1>11, <2>1, <3>1
  <2>2. CASE ~(Total(sold) > 0)
    <3>1. sold = {}
      BY <1>1, <2>2, PositiveTotal
    <3>2. Priced({}) /\ AmountsOf({}) = AmountsOf({})
      BY FS_EmptySet DEF Priced
    <3>3. Total({}) = SumOver(AmountsOf({}), {})
      BY <3>2, TotalIsSum
    <3>4. Total(sold) = 0
      BY <3>1, <3>3, SumOfNothing
    <3> QED
      BY <1>11, <1>13, <2>2, <3>4
  <2> QED
    BY <2>1, <2>2
<1>19. a.kpis.despesa + a.kpis.agendada = OutOf(Curve(a))
  <2> DEFINE x == Total(spent)
             y == Total(Expenses(S))
  <2>1. x \in Int /\ y \in Int /\ a.kpis.despesa = x /\ a.kpis.agendada = y - x
        /\ OutOf(Curve(a)) = y
    BY <1>3, <1>4, <1>5, <1>8, <1>14
  <2> HIDE DEF x, y
  <2> QED
    BY <2>1
<1>20. /\ Parts(a.revenues) = a.kpis.faturamento
       /\ Parts(a.expenses) = a.kpis.despesa
       /\ resumo.faturamento = a.kpis.faturamento
       /\ TotalOfRows(resumo.porCategoria) = resumo.faturamento
  BY <1>3, <1>4, <1>10, <1>15, <1>16, <1>18
<1>21. /\ ~payload.faturamentoCut => Parts(payload.faturamento) = a.kpis.faturamento
       /\ ~payload.despesasCut => Parts(payload.despesas) = a.kpis.despesa
  BY <1>3, <1>4, <1>12, <1>15, <1>16
<1>22. TotalOfRows(CategorySummary(L, FirstDay[m], LastDay(m))) = MovedOn(Curve(a))
  BY <1>8, <1>9, <1>17
<1> QED
  BY <1>19, <1>20, <1>21, <1>22 DEF a, payload, resumo

LEMMA AllPartsAddUp == BooksInv => PartsAddUp
<1> SUFFICES ASSUME BooksInv, NEW a \in {view, past}
             PROVE  LET payload == DigestPayload(a)
                        resumo  == ResumoMensal(ledger, a.month, GoalOf(goals, a.month))
                        period  == CategorySummary(ledger, FirstDay[a.month], LastDay(a.month))
                    IN  /\ Parts(a.revenues) = a.kpis.faturamento
                        /\ Parts(a.expenses) = a.kpis.despesa
                        /\ a.kpis.despesa + a.kpis.agendada = OutOf(Curve(a))
                        /\ TotalOfRows(period) = MovedOn(Curve(a))
                        /\ resumo.faturamento = a.kpis.faturamento
                        /\ TotalOfRows(resumo.porCategoria) = resumo.faturamento
                        /\ ~payload.faturamentoCut => Parts(payload.faturamento) = a.kpis.faturamento
                        /\ ~payload.despesasCut => Parts(payload.despesas) = a.kpis.despesa
  BY DEF PartsAddUp, OutOf, MovedOn
<1>1. ledger \subseteq Entry /\ IsFiniteSet(ledger) /\ now \in FirstNow..LastNow
  BY DEF BooksInv
<1>2. MonthOf(now) \in Months /\ MonthOf(now) - 1 \in Months /\ now \in Int
  BY <1>1, ThisMonth, MonthBefore
<1>3. PICK m \in Months : a = Assemble(ledger, goals, m, now)
  BY <1>2 DEF BooksInv
<1>4. a.month = m
  BY <1>3, PartsOfAnAnalysis
<1> DEFINE goal == GoalOf(goals, m)
<1> HIDE DEF goal
<1>5. LET payload == DigestPayload(a)
          resumo  == ResumoMensal(ledger, m, goal)
          period  == CategorySummary(ledger, FirstDay[m], LastDay(m))
      IN  /\ Parts(a.revenues) = a.kpis.faturamento
          /\ Parts(a.expenses) = a.kpis.despesa
          /\ a.kpis.despesa + a.kpis.agendada = OutOf(Curve(a))
          /\ TotalOfRows(period) = MovedOn(Curve(a))
          /\ resumo.faturamento = a.kpis.faturamento
          /\ TotalOfRows(resumo.porCategoria) = resumo.faturamento
          /\ ~payload.faturamentoCut => Parts(payload.faturamento) = a.kpis.faturamento
          /\ ~payload.despesasCut => Parts(payload.despesas) = a.kpis.despesa
  BY <1>1, <1>2, <1>3, PartsOfAMonth
<1> QED
  BY <1>4, <1>5 DEF goal

(* The changes are counted.                                                *)
CountedInv == changes \in 0..MaxChanges

LEMMA ChangesAreCounted == BooksSpec => []CountedInv
<1>1. BooksInit => CountedInv
  BY BooksAssumption DEF BooksInit, CountedInv
<1>2. CountedInv /\ [BooksNext]_vars => CountedInv'
  <2> SUFFICES ASSUME CountedInv, [BooksNext]_vars PROVE CountedInv'
    OBVIOUS
  <2>1. MaxChanges \in Nat
    BY BooksAssumption
  <2>2. changes' = changes \/ (changes < MaxChanges /\ changes' = changes + 1)
    BY DEF BooksNext, Register, Settle, NextDay, vars
  <2> QED
    BY <2>1, <2>2 DEF CountedInv
<1> QED
  BY <1>1, <1>2, PTL DEF BooksSpec

LEMMA BooksAreTyped == BooksInv /\ NumberedInv /\ CountedInv => BooksTypeOK
<1> SUFFICES ASSUME BooksInv, NumberedInv, CountedInv PROVE BooksTypeOK
  OBVIOUS
<1>1. view.month = MonthOf(now) /\ past.month = MonthOf(now) - 1
  BY PartsOfAnAnalysis DEF BooksInv
<1> QED
  BY <1>1 DEF BooksInv, NumberedInv, CountedInv, BooksTypeOK

(* One month has one set of figures, whichever way it is read: every       *)
(* split of an analysis, of the agent's resumo and of a period adds up to  *)
(* the figure it stands under, the cash curve moves what the month moves,  *)
(* and a summary is the same alone and in a span of months.                *)
THEOREM AMonthHasOneSetOfFigures == BooksSpec => []FiguresAgree
<1>1. BooksInv /\ NumberedInv /\ CountedInv => FiguresAgree
  BY BooksAreTyped, AllPartsAddUp, SpansAgree DEF FiguresAgree
<1> QED
  BY <1>1, BooksAreNumbered, ChangesAreCounted, PTL

-----------------------------------------------------------------------------
(* What the days that are left are asked for.  An ordinary day brings      *)
(* nothing below zero, since the prices and the weights are positive.      *)
LEMMA NaturalSum ==
  ASSUME NEW S, IsFiniteSet(S), NEW f, \A x \in S : f[x] \in Nat
  PROVE  SumOver(f, S) \in Nat
<1> DEFINE W == {s \in SUBSET S : SumOver(f, s) \in Nat}
<1>1. {} \in W
  BY SumOfNothing
<1>2. ASSUME NEW s \in SUBSET S, NEW x \in s, s \ {x} \in W
      PROVE  s \in W
  <2>1. IsFiniteSet(s) /\ \A y \in s : f[y] \in Int
    BY FS_Subset
  <2>2. SumOver(f, s) = f[x] + SumOver(f, s \ {x})
    BY <2>1, SumLess
  <2>3. SumOver(f, s \ {x}) \in Nat /\ f[x] \in Nat
    BY <1>2
  <2> QED
    BY <2>2, <2>3
<1>3. S \in W
  <2> HIDE DEF W
  <2> QED
    BY <1>1, <1>2, OneByOne
<1> QED
  BY <1>3

LEMMA TotalIsNatural ==
  ASSUME NEW L, L \subseteq Entry, IsFiniteSet(L), NEW S, S \subseteq L
  PROVE  Total(S) \in Nat
<1>1. Priced(S) /\ IsFiniteSet(S)
  BY PricedPart, FS_Subset
<1>2. Total(S) = SumOver(AmountsOf(S), S)
  BY <1>1, TotalIsSum
<1>3. \A e \in S : AmountsOf(S)[e] \in Nat
  BY DEF AmountsOf, Entry
<1> QED
  BY <1>1, <1>2, <1>3, NaturalSum

LEMMA WeightedIs ==
  ASSUME NEW S, NEW basis, NEW end, NEW wd, NEW A, A = AgesOf(S, basis, end, wd),
         NEW f, \A a \in A : f[a] = SoldAt(S, basis, end, wd, a) * Weight[a]
  PROVE  Weighted(S, basis, end, wd) = SumOver(f, A)
<1> DEFINE F(a) == SoldAt(S, basis, end, wd, a) * Weight[a]
           Fold(g) == g = [s \in SUBSET A |->
                             IF s = {} THEN 0
                             ELSE F(CHOOSE x \in s : TRUE) + g[s \ {CHOOSE x \in s : TRUE}]]
<1>1. Weighted(S, basis, end, wd) = (CHOOSE g : Fold(g))[A]
  BY DEF Weighted, MapThenSumSet, MapThenFoldSet
<1>2. \A a \in A : f[a] = F(a)
  OBVIOUS
<1> HIDE DEF F
<1>3. ASSUME NEW g
      PROVE  Fold(g) <=> Counted(f, A, g)
  <2>1. ASSUME NEW s \in SUBSET A
        PROVE  Adds(f, s, g) = IF s = {} THEN 0
                  ELSE F(CHOOSE x \in s : TRUE) + g[s \ {CHOOSE x \in s : TRUE}]
    BY <1>2 DEF Adds, First
  <2> QED
    BY <2>1 DEF Counted
<1> HIDE DEF Fold
<1>4. (CHOOSE g : Fold(g)) = CHOOSE g : Counted(f, A, g)
  BY <1>3
<1> QED
  BY <1>1, <1>4 DEF SumOver

LEMMA RoundIsNatural ==
  ASSUME NEW n \in Nat, NEW d \in Nat \ {0}
  PROVE  Round(n, d) \in Nat
<1>1. 2 * d \in Nat \ {0} /\ 2 * n + d \in Nat
  OBVIOUS
<1>2. \A x \in Nat : x \div (2 * d) \in Nat
  BY <1>1
<1> QED
  BY <1>1, <1>2 DEF Round

LEMMA AverageIsNatural ==
  ASSUME NEW L, L \subseteq Entry, IsFiniteSet(L), NEW S, S \subseteq L,
         NEW basis, NEW end, NEW wd \in Weekdays
  PROVE  RatesOf(S, basis, end)[wd].avg \in Nat
<1> DEFINE A == AgesOf(S, basis, end, wd)
           f == [a \in A |-> SoldAt(S, basis, end, wd, a) * Weight[a]]
<1>1. /\ WindowWeeks \in Nat \ {0} /\ DOMAIN Weight = 0..(WindowWeeks - 1)
      /\ \A a \in DOMAIN Weight : Weight[a] \in Nat
  BY RatesAssumption, MonthsAssumption
<1>2. A \subseteq DOMAIN Weight /\ IsFiniteSet(A)
  <2>1. IsFiniteSet(0..(WindowWeeks - 1))
    BY <1>1, FS_Interval
  <2>2. A \subseteq DOMAIN Weight
    BY DEF AgesOf
  <2> QED
    BY <1>1, <2>1, <2>2, FS_Subset
<1>3. ASSUME NEW a \in A PROVE f[a] \in Nat
  <2> DEFINE R == {e \in S : /\ Weekday(BasisDate(basis, e)) = wd
                             /\ WeeksBefore(end, BasisDate(basis, e)) = a}
  <2>1. R \subseteq L /\ SoldAt(S, basis, end, wd, a) = Total(R)
    BY DEF SoldAt
  <2> HIDE DEF R
  <2>2. SoldAt(S, basis, end, wd, a) \in Nat
    BY <2>1, TotalIsNatural
  <2>3. Weight[a] \in Nat
    BY <1>1, <1>2
  <2> QED
    BY <2>2, <2>3
<1>4. Weighted(S, basis, end, wd) = SumOver(f, A)
  BY WeightedIs
<1>5. RatesOf(S, basis, end)[wd].avg
        = IF A = {} THEN 0 ELSE Round(Weighted(S, basis, end, wd), WeightOf(A))
  BY AverageIs
<1> HIDE DEF A, f
<1>6. SumOver(f, A) \in Nat
  BY <1>2, <1>3, NaturalSum
<1>7. A # {} => WeightOf(A) \in Nat \ {0}
  BY <1>2, WeightIsPositive
<1> QED
  BY <1>4, <1>5, <1>6, <1>7, RoundIsNatural

LEMMA UsualIsNatural ==
  ASSUME NEW L, L \subseteq Entry, IsFiniteSet(L), NEW from, NEW to,
         NEW c, c.first \in Int, NEW n \in Int
  PROVE  Usual(ProjectionRates(L, from, to), c, n) \in Nat
<1>1. Sales(Within(L, "transaction", from, to)) \subseteq L
  BY DEF Sales, Within
<1>2. WeekdayAt(c, n) \in Weekdays
  <2>1. DayAt(c, n) \in Int
    BY DEF DayAt
  <2> QED
    BY <2>1, WeekdayIsOne DEF WeekdayAt
<1> QED
  BY <1>1, <1>2, AverageIsNatural DEF Usual, ProjectionRates

(* A rounded share is off by half at most, and no smaller than what it is  *)
(* a larger share of.                                                      *)
LEMMA Divided ==
  ASSUME NEW a \in Nat, NEW b \in Nat \ {0}
  PROVE  /\ a \div b \in Nat
         /\ b * (a \div b) <= a /\ a < b * (a \div b) + b
OBVIOUS

LEMMA ShareIsNear ==
  ASSUME NEW u \in Nat, NEW missing \in Nat, NEW w \in Nat \ {0}, missing > w
  PROVE  LET r == Round(u * missing, w)
         IN  /\ r \in Nat /\ r >= u
             /\ 2 * (w * r) - 2 * (missing * u) <= w
             /\ 2 * (missing * u) - 2 * (w * r) <= w
             /\ u = 0 => r = 0
<1> DEFINE n == u * missing
           q == (2 * n + w) \div (2 * w)
<1>1. n \in Nat /\ n = missing * u
  OBVIOUS
<1>2. u * w <= n /\ (u = 0 => n = 0)
  <2>1. u * w <= u * missing
    OBVIOUS
  <2> QED
    BY <2>1
<1> HIDE DEF n
<1>3. 2 * n + w \in Nat /\ 2 * w \in Nat \ {0}
  BY <1>1
<1>4. /\ q \in Nat /\ (2 * w) * q <= 2 * n + w
      /\ 2 * n + w < (2 * w) * q + 2 * w
  BY <1>3, Divided
<1>5. Round(n, w) = q
  BY <1>1 DEF Round
<1> HIDE DEF q
<1>6. (2 * w) * q = 2 * (w * q) /\ w * q \in Nat
  BY <1>4
<1>7. q >= u
  <2> SUFFICES ASSUME q < u PROVE FALSE
    BY <1>4
  <2>1. q + 1 <= u
    BY <1>4
  <2>2. (q + 1) * w <= u * w
    BY <1>4, <2>1
  <2>3. (q + 1) * w = w * q + w
    BY <1>4
  <2> QED
    BY <1>1, <1>2, <1>4, <1>6, <2>2, <2>3
<1>8. u = 0 => q = 0
  <2> SUFFICES ASSUME u = 0, q >= 1 PROVE FALSE
    BY <1>4
  <2>1. w * q >= w
    BY <1>4
  <2> QED
    BY <1>1, <1>2, <1>4, <1>6, <2>1
<1> DEFINE x == w * q
<1>9. 2 * x - 2 * n <= w /\ 2 * n - 2 * x <= w
  <2>1. x \in Nat /\ 2 * x <= 2 * n + w /\ 2 * n + w < 2 * x + 2 * w
    BY <1>4, <1>6
  <2> HIDE DEF x
  <2> QED
    BY <1>1, <2>1
<1> QED
  BY <1>1, <1>4, <1>5, <1>7, <1>8, <1>9 DEF n

(* So the shares of a sum are off by half of each at most.                 *)
LEMMA SharesAreNear ==
  ASSUME NEW S, IsFiniteSet(S), NEW u, \A x \in S : u[x] \in Int, NEW r, \A x \in S : r[x] \in Int,
         NEW w \in Int, NEW missing \in Int,
         \A x \in S : /\ 2 * (w * r[x]) - 2 * (missing * u[x]) <= w
                      /\ 2 * (missing * u[x]) - 2 * (w * r[x]) <= w
  PROVE  LET R == SumOver(r, S)
             U == SumOver(u, S)
         IN  /\ R \in Int /\ U \in Int
             /\ 2 * (w * R) - 2 * (missing * U) <= w * Cardinality(S)
             /\ 2 * (missing * U) - 2 * (w * R) <= w * Cardinality(S)
<1> DEFINE Near(s) == /\ 2 * (w * SumOver(r, s)) - 2 * (missing * SumOver(u, s))
                           <= w * Cardinality(s)
                      /\ 2 * (missing * SumOver(u, s)) - 2 * (w * SumOver(r, s))
                           <= w * Cardinality(s)
           W == {s \in SUBSET S : Near(s)}
<1>1. ASSUME NEW s \in SUBSET S
      PROVE  /\ IsFiniteSet(s) /\ Cardinality(s) \in Int
             /\ SumOver(u, s) \in Int /\ SumOver(r, s) \in Int
             /\ \A x \in s : u[x] \in Int /\ r[x] \in Int
  <2>1. IsFiniteSet(s) /\ Cardinality(s) \in Nat
    BY FS_Subset, FS_CardinalityType
  <2>2. \A x \in s : u[x] \in Int
    OBVIOUS
  <2>3. \A x \in s : r[x] \in Int
    OBVIOUS
  <2>4. SumOver(u, s) \in Int
    BY <2>1, <2>2, SumIsAnInteger
  <2>5. SumOver(r, s) \in Int
    BY <2>1, <2>3, SumIsAnInteger
  <2> QED
    BY <2>1, <2>2, <2>3, <2>4, <2>5
<1>2. {} \in W
  <2>1. SumOver(u, {}) = 0 /\ SumOver(r, {}) = 0 /\ Cardinality({}) = 0
    BY SumOfNothing, FS_EmptySet
  <2> QED
    BY <2>1
<1>3. ASSUME NEW s \in SUBSET S, NEW x \in s, s \ {x} \in W
      PROVE  s \in W
  <2> DEFINE t == s \ {x}
             R == SumOver(r, t)
             U == SumOver(u, t)
             n == Cardinality(t)
             a == r[x]
             b == u[x]
  <2>1. t \in SUBSET S /\ Near(t)
    BY <1>3
  <2>2. R \in Int /\ U \in Int /\ n \in Int /\ a \in Int /\ b \in Int
    BY <1>1, <2>1
  <2>3. SumOver(r, s) = a + R /\ SumOver(u, s) = b + U /\ Cardinality(s) = n + 1
    <3>1. IsFiniteSet(s) /\ \A y \in s : u[y] \in Int /\ r[y] \in Int
      BY <1>1
    <3>2. \A y \in s : u[y] \in Int
      BY <3>1
    <3>3. \A y \in s : r[y] \in Int
      BY <3>1
    <3>4. SumOver(r, s) = r[x] + SumOver(r, s \ {x})
      BY <3>1, <3>3, SumLess
    <3>5. SumOver(u, s) = u[x] + SumOver(u, s \ {x})
      BY <3>1, <3>2, SumLess
    <3>6. Cardinality(s) = Cardinality(s \ {x}) + 1
      BY <3>1, OneLess
    <3> QED
      BY <3>4, <3>5, <3>6
  <2>4. /\ 2 * (w * a) - 2 * (missing * b) <= w
        /\ 2 * (missing * b) - 2 * (w * a) <= w
    OBVIOUS
  <2>5. /\ 2 * (w * R) - 2 * (missing * U) <= w * n
        /\ 2 * (missing * U) - 2 * (w * R) <= w * n
    BY <2>1
  <2> HIDE DEF t, R, U, n, a, b, Near
  <2>6. /\ w * (a + R) = w * a + w * R /\ missing * (b + U) = missing * b + missing * U
        /\ w * (n + 1) = w * n + w
        /\ w * a \in Int /\ w * R \in Int /\ missing * b \in Int /\ missing * U \in Int
        /\ w * n \in Int
    BY <2>2
  <2>7. /\ 2 * (w * (a + R)) - 2 * (missing * (b + U)) <= w * (n + 1)
        /\ 2 * (missing * (b + U)) - 2 * (w * (a + R)) <= w * (n + 1)
    <3> DEFINE wa == w * a
               wr == w * R
               mb == missing * b
               mu == missing * U
               wn == w * n
    <3>1. /\ wa \in Int /\ wr \in Int /\ mb \in Int /\ mu \in Int /\ wn \in Int
          /\ 2 * wa - 2 * mb <= w /\ 2 * mb - 2 * wa <= w
          /\ 2 * wr - 2 * mu <= wn /\ 2 * mu - 2 * wr <= wn
      BY <2>4, <2>5, <2>6
    <3>2. /\ w * (a + R) = wa + wr /\ missing * (b + U) = mb + mu /\ w * (n + 1) = wn + w
      BY <2>6
    <3> HIDE DEF wa, wr, mb, mu, wn
    <3>3. /\ 2 * (wa + wr) - 2 * (mb + mu) <= wn + w
          /\ 2 * (mb + mu) - 2 * (wa + wr) <= wn + w
      BY <3>1
    <3> QED
      BY <3>2, <3>3
  <2>8. Near(s)
    BY <2>3, <2>7 DEF Near
  <2> QED
    BY <2>8
<1>4. S \in W
  <2> HIDE DEF W
  <2> QED
    BY <1>2, <1>3, OneByOne
<1> QED
  BY <1>1, <1>4

(* The plan's own sums.                                                    *)
AsksAhead(plan, rates, c) ==
    MapThenSumSet(LAMBDA n : AskOf(plan, Usual(rates, c, n)), DaysAhead(c))

LEMMA UsualAheadIs ==
  ASSUME NEW rates, NEW c, NEW f, \A n \in DaysAhead(c) : f[n] = Usual(rates, c, n)
  PROVE  UsualAhead(rates, c) = SumOver(f, DaysAhead(c))
<1> DEFINE S == DaysAhead(c)
           F(n) == Usual(rates, c, n)
           Fold(g) == g = [s \in SUBSET S |->
                             IF s = {} THEN 0
                             ELSE F(CHOOSE x \in s : TRUE) + g[s \ {CHOOSE x \in s : TRUE}]]
<1>1. UsualAhead(rates, c) = (CHOOSE g : Fold(g))[S]
  BY DEF UsualAhead, MapThenSumSet, MapThenFoldSet
<1>2. \A n \in S : f[n] = F(n)
  OBVIOUS
<1> HIDE DEF F, S
<1>3. ASSUME NEW g
      PROVE  Fold(g) <=> Counted(f, S, g)
  <2>1. ASSUME NEW s \in SUBSET S
        PROVE  Adds(f, s, g) = IF s = {} THEN 0
                  ELSE F(CHOOSE x \in s : TRUE) + g[s \ {CHOOSE x \in s : TRUE}]
    BY <1>2 DEF Adds, First
  <2> QED
    BY <2>1 DEF Counted
<1> HIDE DEF Fold
<1>4. (CHOOSE g : Fold(g)) = CHOOSE g : Counted(f, S, g)
  BY <1>3
<1> QED
  BY <1>1, <1>4 DEF SumOver, S

LEMMA AsksAheadAre ==
  ASSUME NEW plan, NEW rates, NEW c,
         NEW f, \A n \in DaysAhead(c) : f[n] = AskOf(plan, Usual(rates, c, n))
  PROVE  AsksAhead(plan, rates, c) = SumOver(f, DaysAhead(c))
<1> DEFINE S == DaysAhead(c)
           F(n) == AskOf(plan, Usual(rates, c, n))
           Fold(g) == g = [s \in SUBSET S |->
                             IF s = {} THEN 0
                             ELSE F(CHOOSE x \in s : TRUE) + g[s \ {CHOOSE x \in s : TRUE}]]
<1>1. AsksAhead(plan, rates, c) = (CHOOSE g : Fold(g))[S]
  BY DEF AsksAhead, MapThenSumSet, MapThenFoldSet
<1>2. \A n \in S : f[n] = F(n)
  OBVIOUS
<1> HIDE DEF F, S
<1>3. ASSUME NEW g
      PROVE  Fold(g) <=> Counted(f, S, g)
  <2>1. ASSUME NEW s \in SUBSET S
        PROVE  Adds(f, s, g) = IF s = {} THEN 0
                  ELSE F(CHOOSE x \in s : TRUE) + g[s \ {CHOOSE x \in s : TRUE}]
    BY <1>2 DEF Adds, First
  <2> QED
    BY <2>1 DEF Counted
<1> HIDE DEF Fold
<1>4. (CHOOSE g : Fold(g)) = CHOOSE g : Counted(f, S, g)
  BY <1>3
<1> QED
  BY <1>1, <1>4 DEF SumOver, S

(* A plan that stands asks every day for its usual at least, and the asks  *)
(* bring the month to its goal within the rounding.                        *)
OnPlan(rates, p, c, sold) ==
    /\ c.inProgress /\ c.first \in Int /\ c.today \in Int /\ c.total \in Int
    /\ \A n \in Int : Usual(rates, c, n) \in Nat
    /\ p.actual \in Int /\ p.target \in Int /\ p.projected \in Int /\ sold \in Int

LEMMA PlanIs ==
  ASSUME NEW rates, NEW p, NEW c, NEW sold, OnPlan(rates, p, c, sold),
         NEW plan, plan = NewPlan(rates, p, c, sold), plan.state = "ok"
  PROVE  /\ plan.usual = UsualAhead(rates, c) /\ plan.usual > 0 /\ plan.usual \in Nat
         /\ plan.missing = Larger(0, p.target - (p.actual - sold)) /\ plan.missing \in Nat
         /\ plan.behind = (plan.missing > plan.usual)
<1> DEFINE usual == UsualAhead(rates, c)
           missing == Larger(0, p.target - (p.actual - sold))
<1>1. plan = [state |-> "ok", missing |-> missing, usual |-> usual, behind |-> missing > usual]
      /\ ~(usual <= 0)
  BY DEF NewPlan, NoPlan
<1>2. plan.usual = usual /\ plan.missing = missing /\ plan.behind = (missing > usual)
  BY <1>1
<1>3. usual \in Nat
  <2> DEFINE S == DaysAhead(c)
             f == [n \in S |-> Usual(rates, c, n)]
  <2>1. S = c.today..c.total /\ IsFiniteSet(S)
    BY FS_Interval DEF OnPlan, DaysAhead
  <2>2. usual = SumOver(f, S)
    BY UsualAheadIs
  <2>3. \A n \in S : f[n] \in Nat
    BY <2>1 DEF OnPlan
  <2> HIDE DEF f, S
  <2> QED
    BY <2>1, <2>2, <2>3, NaturalSum
<1>4. missing \in Nat
  BY DEF OnPlan, Larger
<1> HIDE DEF usual, missing
<1> QED
  BY <1>1, <1>2, <1>3, <1>4 DEF usual, missing

LEMMA AskIsNear ==
  ASSUME NEW rates, NEW p, NEW c, NEW sold, OnPlan(rates, p, c, sold),
         NEW plan, plan = NewPlan(rates, p, c, sold), plan.state = "ok", NEW n \in Int
  PROVE  LET u == Usual(rates, c, n)
             r == AskOf(plan, u)
             w == plan.usual
         IN  /\ u \in Nat /\ r \in Nat /\ r >= u /\ (u = 0 => r = 0)
             /\ plan.behind => /\ 2 * (w * r) - 2 * (plan.missing * u) <= w
                               /\ 2 * (plan.missing * u) - 2 * (w * r) <= w
             /\ ~plan.behind => r = u
<1> DEFINE u == Usual(rates, c, n)
           w == plan.usual
           m == plan.missing
<1>1. u \in Nat
  BY DEF OnPlan
<1>2. w \in Nat \ {0} /\ m \in Nat /\ plan.behind = (m > w)
  BY PlanIs
<1>3. AskOf(plan, u) = IF plan.behind THEN Round(u * m, w) ELSE u
  BY DEF AskOf
<1> HIDE DEF u, w, m
<1>4. CASE plan.behind
  <2>1. m > w
    BY <1>2, <1>4
  <2>2. LET r == Round(u * m, w)
        IN  /\ r \in Nat /\ r >= u
            /\ 2 * (w * r) - 2 * (m * u) <= w
            /\ 2 * (m * u) - 2 * (w * r) <= w
            /\ u = 0 => r = 0
    BY <1>1, <1>2, <2>1, ShareIsNear
  <2> QED
    BY <1>1, <1>3, <1>4, <2>2 DEF u, w, m
<1>5. CASE ~plan.behind
  BY <1>1, <1>3, <1>5 DEF u
<1> QED
  BY <1>4, <1>5

LEMMA AsksCloseTheMonth ==
  ASSUME NEW rates, NEW p, NEW c, NEW sold, OnPlan(rates, p, c, sold),
         NEW plan, plan = NewPlan(rates, p, c, sold), plan.state = "ok",
         NEW asked, asked = p.actual - sold + AsksAhead(plan, rates, c),
         NEW close, close = PlannedClose(plan, rates, p, c, sold)
  PROVE  /\ asked \in Int
         /\ plan.behind => 2 * AbsInt(asked - p.target) <= Cardinality(DaysAhead(c))
         /\ close = Larger(p.projected, asked)
         /\ 2 * close + Cardinality(DaysAhead(c)) >= 2 * p.target
<1> DEFINE S == DaysAhead(c)
           u == [n \in S |-> Usual(rates, c, n)]
           r == [n \in S |-> AskOf(plan, Usual(rates, c, n))]
           R == SumOver(r, S)
           U == SumOver(u, S)
           w == plan.usual
           m == plan.missing
           N == Cardinality(S)
<1>1. S = c.today..c.total /\ IsFiniteSet(S) /\ S \subseteq Int
  <2>1. c.today \in Int /\ c.total \in Int /\ S = c.today..c.total
    BY DEF OnPlan, DaysAhead
  <2> HIDE DEF S
  <2> QED
    BY <2>1, FS_Interval
<1>2. N \in Nat
  BY <1>1, FS_CardinalityType
<1>3. AsksAhead(plan, rates, c) = R
  BY AsksAheadAre
<1>4. /\ w = U /\ w \in Nat /\ w > 0 /\ m \in Nat
      /\ m = Larger(0, p.target - (p.actual - sold)) /\ plan.behind = (m > w)
  <2>1. UsualAhead(rates, c) = U
    BY UsualAheadIs
  <2> QED
    BY <2>1, PlanIs
<1>5. \A n \in S : /\ u[n] \in Int /\ r[n] \in Int
                   /\ plan.behind => /\ 2 * (w * r[n]) - 2 * (m * u[n]) <= w
                                     /\ 2 * (m * u[n]) - 2 * (w * r[n]) <= w
                   /\ ~plan.behind => r[n] = u[n]
  <2> SUFFICES ASSUME NEW n \in S
               PROVE  /\ u[n] \in Int /\ r[n] \in Int
                      /\ plan.behind => /\ 2 * (w * r[n]) - 2 * (m * u[n]) <= w
                                        /\ 2 * (m * u[n]) - 2 * (w * r[n]) <= w
                      /\ ~plan.behind => r[n] = u[n]
    OBVIOUS
  <2>1. n \in Int
    BY <1>1
  <2>2. u[n] = Usual(rates, c, n) /\ r[n] = AskOf(plan, Usual(rates, c, n))
    OBVIOUS
  <2> HIDE DEF u, r
  <2> QED
    BY <2>1, <2>2, AskIsNear
<1>6. close = Larger(p.projected, asked)
  BY DEF PlannedClose, AsksAhead
<1>7. p.actual \in Int /\ p.target \in Int /\ p.projected \in Int /\ sold \in Int
  BY DEF OnPlan
<1> HIDE DEF S, u, r
<1>8. \A n \in S : r[n] \in Int
  BY <1>5
<1>9. \A n \in S : u[n] \in Int
  BY <1>5
<1>10. R \in Int
  BY <1>1, <1>8, SumIsAnInteger
<1>11. ASSUME plan.behind
       PROVE  /\ 2 * R - 2 * m <= N /\ 2 * m - 2 * R <= N
              /\ m = p.target - (p.actual - sold)
  <2>1. \A n \in S : /\ 2 * (w * r[n]) - 2 * (m * u[n]) <= w
                     /\ 2 * (m * u[n]) - 2 * (w * r[n]) <= w
    BY <1>5, <1>11
  <2>2. w \in Int /\ m \in Int
    BY <1>4
  <2> HIDE DEF w, m, R, U, N
  <2>3. /\ 2 * (w * R) - 2 * (m * U) <= w * N
        /\ 2 * (m * U) - 2 * (w * R) <= w * N
    BY <1>1, <1>8, <1>9, <2>1, <2>2, SharesAreNear DEF R, U, N
  <2>4. m * U = w * m
    BY <1>4
  <2>5. /\ w * (2 * R - 2 * m) <= w * N
        /\ w * (2 * m - 2 * R) <= w * N
    <3>1. /\ w * (2 * R - 2 * m) = 2 * (w * R) - 2 * (w * m)
          /\ w * (2 * m - 2 * R) = 2 * (w * m) - 2 * (w * R)
      BY <2>2, <1>10
    <3> QED
      BY <2>3, <2>4, <3>1
  <2>6. \A i, j \in Int : w * i <= w * j => i <= j
    BY <1>4
  <2>7. 2 * R - 2 * m \in Int /\ 2 * m - 2 * R \in Int /\ N \in Int
    BY <2>2, <1>10, <1>2
  <2>8. m > 0
    <3>1. m > w
      BY <1>4, <1>11
    <3>2. w > 0 /\ w \in Nat
      BY <1>4
    <3> QED
      BY <2>2, <3>1, <3>2
  <2> QED
    BY <1>4, <1>7, <2>5, <2>6, <2>7, <2>8 DEF Larger
<1>12. ASSUME ~plan.behind
       PROVE  R >= p.target - (p.actual - sold)
  <2>1. \A n \in S : r[n] = u[n]
    BY <1>5, <1>12
  <2>2. R = U
    BY <1>1, <1>9, <2>1, SameSum
  <2>3. ~(m > w)
    BY <1>4, <1>12
  <2> HIDE DEF w, m, R, U, N
  <2> QED
    BY <1>4, <1>7, <1>10, <2>2, <2>3 DEF Larger
<1>13. asked = p.actual - sold + R
  BY <1>3
<1> HIDE DEF R, U, w, m, N
<1>14. asked \in Int
  BY <1>7, <1>10, <1>13
<1>15. plan.behind => 2 * AbsInt(asked - p.target) <= N
  BY <1>2, <1>7, <1>10, <1>11, <1>13, <1>4 DEF AbsInt
<1>16. close >= p.projected /\ close >= asked /\ close \in Int
  BY <1>6, <1>7, <1>14 DEF Larger
<1>17. 2 * close + N >= 2 * p.target
  <2>1. CASE plan.behind
    BY <1>2, <1>4, <1>7, <1>10, <1>11, <1>13, <1>14, <1>16, <2>1
  <2>2. CASE ~plan.behind
    BY <1>2, <1>7, <1>10, <1>12, <1>13, <1>14, <1>16, <2>2
  <2> QED
    BY <2>1, <2>2
<1> QED
  BY <1>6, <1>14, <1>15, <1>17 DEF N, S

LEMMA GoalsAreSet == BooksSpec => [](goals \in GoalSets)
<1>1. BooksInit => goals \in GoalSets
  BY DEF BooksInit
<1>2. goals \in GoalSets /\ [BooksNext]_vars => (goals \in GoalSets)'
  BY DEF BooksNext, Register, Settle, NextDay, vars
<1> QED
  BY <1>1, <1>2, PTL DEF BooksSpec

LEMMA GoalIsAnInteger ==
  ASSUME NEW g \in GoalSets, NEW m
  PROVE  GoalOf(g, m).revenue \in Int
BY BooksAssumption DEF GoalOf, NoGoal

(* The ask of a day that is left.                                          *)
LEMMA AskOfADayLeft ==
  ASSUME NEW rates, NEW c, c.inProgress, c.today \in Int, c.today >= 1, c.total \in Int,
         NEW plan, plan.state = "ok", NEW n \in c.today..c.total, NEW realized,
         Usual(rates, c, n) \in Nat, AskOf(plan, Usual(rates, c, n)) \in Nat,
         AskOf(plan, Usual(rates, c, n)) >= Usual(rates, c, n),
         Usual(rates, c, n) = 0 => AskOf(plan, Usual(rates, c, n)) = 0
  PROVE  LET d == DayTarget(plan, rates, c, n, realized)
         IN  /\ d.target = AskOf(plan, Usual(rates, c, n))
             /\ d.target >= d.historical
<1> DEFINE u == Usual(rates, c, n)
           ask == AskOf(plan, u)
           basis == DayBasis(c, n)
           day == [NoDay EXCEPT !.basis = basis, !.day = n, !.realized = realized]
           d == DayTarget(plan, rates, c, n, realized)
<1>1. basis # "realizado"
  BY DEF DayBasis
<1>2. ~(n < 1) /\ ~(n > c.total)
  OBVIOUS
<1>3. d = IF u <= 0 THEN [day EXCEPT !.state = "dia_sem_movimento"]
          ELSE [day EXCEPT !.state = "ok", !.historical = u, !.target = ask,
                           !.source = Source(plan), !.status = CompareToUsual(ask, u)]
  <2> HIDE DEF u, ask, basis, day
  <2> QED
    BY <1>1, <1>2 DEF DayTarget, u, ask, basis, day
<1>4. day.historical = 0 /\ day.target = 0
      /\ DOMAIN day = {"state", "basis", "day", "realized", "historical", "target", "source", "status"}
  BY DEF NoDay
<1> HIDE DEF day, basis, d
<1>5. CASE u <= 0
  <2>1. d.target = 0 /\ d.historical = 0
    BY <1>3, <1>4, <1>5
  <2> QED
    BY <1>5, <2>1 DEF d
<1>6. CASE ~(u <= 0)
  <2>1. d.target = ask /\ d.historical = u
    BY <1>3, <1>4, <1>6
  <2> QED
    BY <2>1 DEF d
<1> QED
  BY <1>5, <1>6

LEMMA AllOfAList ==
  ASSUME NEW T, NEW s \in Seq(T)
  PROVE  SubSeq(s, 1, Len(s)) = s
OBVIOUS

AsksLeft == MapThenSumSet(LAMBDA d : AskFor(d).target, DaysLeft)

LEMMA AsksLeftAre ==
  ASSUME NEW f, \A d \in DaysLeft : f[d] = AskFor(d).target
  PROVE  AsksLeft = SumOver(f, DaysLeft)
<1> DEFINE S == DaysLeft
           F(d) == AskFor(d).target
           Fold(g) == g = [s \in SUBSET S |->
                             IF s = {} THEN 0
                             ELSE F(CHOOSE x \in s : TRUE) + g[s \ {CHOOSE x \in s : TRUE}]]
<1>1. AsksLeft = (CHOOSE g : Fold(g))[S]
  BY DEF AsksLeft, MapThenSumSet, MapThenFoldSet
<1>2. \A n \in S : f[n] = F(n)
  OBVIOUS
<1> HIDE DEF F, S
<1>3. ASSUME NEW g
      PROVE  Fold(g) <=> Counted(f, S, g)
  <2>1. ASSUME NEW s \in SUBSET S
        PROVE  Adds(f, s, g) = IF s = {} THEN 0
                  ELSE F(CHOOSE x \in s : TRUE) + g[s \ {CHOOSE x \in s : TRUE}]
    BY <1>2 DEF Adds, First
  <2> QED
    BY <2>1 DEF Counted
<1> HIDE DEF Fold
<1>4. (CHOOSE g : Fold(g)) = CHOOSE g : Counted(f, S, g)
  BY <1>3
<1> QED
  BY <1>1, <1>4 DEF SumOver, S

LEMMA OpenPlanCloses ==
  ASSUME BooksInv, goals \in GoalSets
  PROVE  PlanClosesTheMonth
<1> DEFINE L == ledger
           m == MonthOf(now)
           c == NewMonthClock(m, now)
           first == FirstDay[m]
           rates == RatesAt(L, c)
           actual == ActualSales(L, m, now)
           sold == SalesOfToday(L, m, now)
           target == GoalOf(goals, m).revenue
           coming == StillToCome(rates, c, 1, 1, c.today, sold)
           p == Projected(actual, coming, target, Sample(rates), c)
           plan == NewPlan(rates, p, c, sold)
           q == view.projection
           close == PlannedClose(plan, rates, p, c, sold)
<1>1. /\ L \subseteq Entry /\ IsFiniteSet(L) /\ now \in FirstNow..LastNow
      /\ view = Assemble(L, goals, m, now)
  BY DEF BooksInv
<1>2. /\ now \in Int /\ m \in Months /\ now \in DaysOf(m)
  BY <1>1, ThisMonth
<1>3. /\ c.inProgress /\ c.first = first /\ first \in Int /\ first <= now
      /\ c.today = now - first + 1 /\ c.total = MonthLengths[m] /\ c.today <= c.total
  BY <1>1, ClockOfToday
<1>4. MonthLengths[m] \in Int /\ LastDay(m) = first + c.total - 1 /\ c.total \in Int
  BY <1>2, <1>3, MonthsAreNumbered DEF LastDay
<1>5. /\ view.month = m /\ view.weekdays = rates /\ view.clock = c
      /\ q = BuildProjection(rates, actual, target, c, sold)
  <2>1. view.clock = c
    BY <1>1 DEF Assemble, Input, Build, Built
  <2> QED
    BY <1>1, <2>1, PartsOfAnAnalysis DEF ProjectionOf
<1>6. /\ q.p = p /\ q.plan = plan /\ q.today = DayTarget(plan, rates, c, c.today, sold)
      /\ q.plannedClose = close
  BY <1>5 DEF BuildProjection, WithPlan
<1>7. SoldToday = sold /\ SoldOn(MonthEntries(L, m, "transaction"), now) = sold
  <2>1. {e \in Read(L, m).sales : DayOfMonth(e.date) = c.today}
          = {e \in L : e.date # Nobody /\ e.date = now}
    BY <1>1, TodayOfTheMonth
  <2>2. {e \in L : e.date # Nobody /\ e.date = now} = {e \in L : e.date = now}
    BY <1>1, EntriesAreDated
  <2>3. {e \in MonthEntries(L, m, "transaction") : e.date = now} = {e \in L : e.date = now}
    <3>1. MonthEntries(L, m, "transaction") = {e \in L : e.date # Nobody /\ e.date \in DaysOf(m)}
      BY DEF MonthEntries, Within, BasisDate, RevenueDate, DaysOf
    <3> QED
      BY <1>2, <2>2, <3>1
  <2>4. /\ sold = RevenueTotal({e \in Read(L, m).sales : DayOfMonth(e.date) = c.today})
        /\ SoldToday = RevenueTotal({e \in L : e.date = now})
        /\ SoldOn(MonthEntries(L, m, "transaction"), now)
             = RevenueTotal({e \in MonthEntries(L, m, "transaction") : e.date = now})
    BY DEF SalesOfToday, SoldToday, SoldOn
  <2> QED
    BY <2>1, <2>2, <2>3, <2>4
<1>8. actual \in Int /\ sold \in Int
  <2>1. ASSUME NEW S, S \subseteq L PROVE RevenueTotal(S) \in Int
    <3>1. Sales(S) \subseteq L
      BY <2>1 DEF Sales
    <3> QED
      BY <1>1, <3>1, PricedPart, TotalIsAnInteger DEF RevenueTotal
  <2>2. {e \in Read(L, m).sales : DayOfMonth(e.date) = c.today} \subseteq L
    BY DEF Read, MonthEntries, Within
  <2>3. Arrived(Read(L, m), c).sales \subseteq L
    BY DEF Arrived, SalesThrough, Read, MonthEntries, Within
  <2> QED
    BY <2>1, <2>2, <2>3 DEF ActualSales, SalesOfToday
<1>9. target \in Int
  BY GoalIsAnInteger
<1>10. WholeRates(rates) /\ \A n \in Int : Usual(rates, c, n) \in Nat
  BY <1>1, <1>3, RatesAreWhole, UsualIsNatural DEF RatesAt
<1> HIDE DEF actual, sold, target, rates, m, c
<1>11. coming \in Int
  <2>1. c.today \in Int /\ c.first \in Int
    BY <1>2, <1>3
  <2>2. /\ coming = Larger(0, Usual(rates, c, c.today) - sold) + AfterToday(rates, c, c.today)
        /\ AfterToday(rates, c, c.today) \in Int
    BY <1>3, <1>4, <1>8, <1>10, <2>1, StillToComeIs
  <2>3. Usual(rates, c, c.today) \in Int
    BY <1>10, <2>1
  <2> QED
    BY <1>8, <2>2, <2>3 DEF Larger
<1>12. p.actual = actual /\ p.target = target /\ p.projected = actual + coming
  BY DEF Projected
<1> HIDE DEF coming, p
<1>13. OnPlan(rates, p, c, sold)
  BY <1>2, <1>3, <1>4, <1>8, <1>9, <1>10, <1>11, <1>12 DEF OnPlan
<1> HIDE DEF plan, q, close
<1> SUFFICES ASSUME q.plan.state = "ok"
             PROVE  LET asked == q.p.actual - SoldToday + AsksLeft
                    IN  /\ \A d \in DaysLeft : AskFor(d).target >= AskFor(d).historical
                        /\ q.plan.behind => 2 * AbsInt(asked - q.p.target) <= Cardinality(DaysLeft)
                        /\ q.plannedClose = Larger(q.p.projected, asked)
                        /\ 2 * q.plannedClose + Cardinality(DaysLeft) >= 2 * q.p.target
                        /\ GetMetaDoDia(ledger, goals, <<>>, now).dias = <<q.today>>
  BY DEF PlanClosesTheMonth, AsksLeft, q
<1>14. plan.state = "ok"
  BY <1>6
<1> DEFINE asked == p.actual - sold + AsksAhead(plan, rates, c)
           days == Cardinality(DaysAhead(c))
<1>15. /\ asked \in Int
       /\ plan.behind => 2 * AbsInt(asked - p.target) <= days
       /\ close = Larger(p.projected, asked)
       /\ 2 * close + days >= 2 * p.target
  <2>1. plan = NewPlan(rates, p, c, sold) /\ close = PlannedClose(plan, rates, p, c, sold)
    BY DEF plan, close
  <2>2. asked = p.actual - sold + AsksAhead(plan, rates, c)
    OBVIOUS
  <2> HIDE DEF asked
  <2> QED
    BY <1>13, <1>14, <2>1, <2>2, AsksCloseTheMonth
<1>16. DaysLeft = now..LastDay(m) /\ DaysAhead(c) = c.today..c.total
  BY <1>2, <1>3, <1>4 DEF DaysLeft, DaysOf, DaysAhead, m
<1>17. ASSUME NEW d \in DaysLeft
       PROVE  LET n == d - first + 1
              IN  /\ n \in c.today..c.total /\ n \in Int /\ d \in Int
                  /\ AskFor(d).target = AskOf(plan, Usual(rates, c, n))
                  /\ AskOf(plan, Usual(rates, c, n)) \in Nat
                  /\ AskFor(d).target >= AskFor(d).historical
  <2> DEFINE n == d - first + 1
             u == Usual(rates, c, n)
  <2>1. d \in Int /\ d >= now /\ d <= LastDay(m)
    BY <1>2, <1>3, <1>4, <1>16
  <2>2. n \in c.today..c.total /\ n \in Int
    BY <1>2, <1>3, <1>4, <2>1
  <2>3. d \in DaysOf(m) /\ MonthOf(d) = m
    <3>1. d \in DaysOf(m)
      BY <1>3, <1>2, <1>4, <2>1 DEF DaysOf
    <3> QED
      BY <1>2, <3>1, MonthIs
  <2>4. AskFor(d) = DayTarget(plan, rates, c, n, SoldOn(ledger, d))
    BY <1>5, <1>6, <2>3 DEF AskFor, DayTargetOn, DayOfMonth, q
  <2>5. u \in Nat /\ AskOf(plan, u) \in Nat /\ AskOf(plan, u) >= u /\ (u = 0 => AskOf(plan, u) = 0)
    BY <1>13, <1>14, <2>2, AskIsNear DEF plan
  <2>6. c.today \in Int /\ c.today >= 1 /\ c.total \in Int
    BY <1>2, <1>3, <1>4
  <2>7. /\ AskFor(d).target = AskOf(plan, u)
        /\ AskFor(d).target >= AskFor(d).historical
    <3> HIDE DEF n
    <3> QED
      BY <1>3, <1>14, <2>2, <2>4, <2>5, <2>6, AskOfADayLeft
  <2> QED
    BY <2>1, <2>2, <2>5, <2>7
<1>18. AsksLeft = AsksAhead(plan, rates, c)
  <2> DEFINE e == [d \in DaysLeft |-> AskFor(d).target]
             f == [n \in DaysAhead(c) |-> AskOf(plan, Usual(rates, c, n))]
             move == [d \in DaysLeft |-> d - first + 1]
  <2>1. AsksLeft = SumOver(e, DaysLeft)
    BY AsksLeftAre
  <2>2. AsksAhead(plan, rates, c) = SumOver(f, DaysAhead(c))
    BY AsksAheadAre
  <2>3. OneForOne(move, DaysLeft, DaysAhead(c))
    <3>1. \A d \in DaysLeft : move[d] = d - first + 1 /\ move[d] \in DaysAhead(c) /\ d \in Int
      BY <1>16, <1>17
    <3>2. ASSUME NEW n \in DaysAhead(c) PROVE \E d \in DaysLeft : move[d] = n
      <4> DEFINE d == n + first - 1
      <4>1. n \in Int /\ n >= now - first + 1 /\ n <= c.total
        BY <1>2, <1>3, <1>4, <1>16
      <4>2. d \in now..LastDay(m) /\ d - first + 1 = n
        BY <1>2, <1>3, <1>4, <4>1
      <4>3. d \in DaysLeft
        BY <1>16, <4>2
      <4>4. move[d] = n
        BY <3>1, <4>2, <4>3
      <4> QED
        BY <4>3, <4>4
    <3> HIDE DEF move
    <3>3. \A x, y \in DaysLeft : move[x] = move[y] => x = y
      BY <1>3, <3>1
    <3> QED
      BY <3>1, <3>2, <3>3 DEF OneForOne
  <2>4. \A d \in DaysLeft : e[d] = f[move[d]]
    BY <1>16, <1>17
  <2>5. \A n \in DaysAhead(c) : f[n] \in Int
    <3> SUFFICES ASSUME NEW n \in DaysAhead(c) PROVE f[n] \in Int
      OBVIOUS
    <3>1. n \in Int
      BY <1>2, <1>3, <1>4, <1>16
    <3>2. AskOf(plan, Usual(rates, c, n)) \in Nat
      BY <1>13, <1>14, <3>1, AskIsNear DEF plan
    <3> QED
      BY <3>2
  <2>6. IsFiniteSet(DaysLeft)
    <3>1. now \in Int /\ LastDay(m) \in Int
      BY <1>2, <1>3, <1>4
    <3> QED
      BY <1>16, <3>1, FS_Interval
  <2> HIDE DEF e, f, move
  <2>7. SumOver(e, DaysLeft) = SumOver(f, DaysAhead(c))
    BY <2>3, <2>4, <2>5, <2>6, SumMoves
  <2> QED
    BY <2>1, <2>2, <2>7
<1>19. Cardinality(DaysLeft) = Cardinality(DaysAhead(c))
  <2>1. c.today \in Int /\ c.total \in Int /\ LastDay(m) \in Int
    BY <1>2, <1>3, <1>4
  <2>2. Cardinality(c.today..c.total) = c.total - c.today + 1
    BY <1>3, <2>1, FS_Interval
  <2>3. now <= LastDay(m)
    BY <1>2, <1>3, <1>4
  <2>4. Cardinality(now..LastDay(m)) = LastDay(m) - now + 1
    <3>1. now \in Int /\ LastDay(m) \in Int
      BY <1>2, <2>1
    <3> QED
      BY <2>3, <3>1, FS_Interval
  <2> QED
    BY <1>2, <1>3, <1>4, <1>16, <2>1, <2>2, <2>4
<1>20. GetMetaDoDia(ledger, goals, <<>>, now).dias = <<q.today>>
  <2> DEFINE dates == IF <<>> = <<>> THEN <<now>> ELSE DistinctDates(<<>>)
             shown == SubSeq(dates, 1, Smaller(Len(dates), MaxDayTargets))
  <2>1. shown = <<now>>
    <3>1. dates = <<now>> /\ Len(<<now>>) = 1
      OBVIOUS
    <3>2. Smaller(1, MaxDayTargets) = 1
      BY AnalysisAssumption DEF Smaller
    <3>3. SubSeq(<<now>>, 1, 1) = <<now>>
      <4>1. <<now>> \in Seq({now})
        OBVIOUS
      <4> QED
        BY <3>1, <4>1, AllOfAList
    <3> QED
      BY <3>1, <3>2, <3>3
  <2>2. GetMetaDoDia(ledger, goals, <<>>, now).dias
          = [k \in DOMAIN shown |-> DayTargetOf(ledger, goals, shown[k], now)]
    BY DEF GetMetaDoDia
  <2> HIDE DEF shown
  <2>3. DayTargetOf(ledger, goals, now, now) = q.today
    <3>1. ~(m > m)
      BY <1>2, MonthsAreNumbered
    <3>2. DayTargetOf(ledger, goals, now, now) = DayTargetOn(view, now, sold)
      BY <1>1, <1>7, <3>1 DEF DayTargetOf, m
    <3>3. DayTargetOn(view, now, sold) = DayTarget(plan, rates, c, c.today, sold)
      BY <1>3, <1>5, <1>6 DEF DayTargetOn, DayOfMonth, m, q
    <3> QED
      BY <1>6, <3>2, <3>3
  <2>4. [k \in DOMAIN <<now>> |-> DayTargetOf(ledger, goals, <<now>>[k], now)] = <<q.today>>
    BY <2>3
  <2> QED
    BY <2>1, <2>2, <2>4
<1>21. \A d \in DaysLeft : AskFor(d).target >= AskFor(d).historical
  BY <1>17
<1>22. /\ q.p.actual - SoldToday + AsksLeft = asked
       /\ q.p = p /\ q.plan = plan /\ q.plannedClose = close
  BY <1>6, <1>7, <1>18
<1>23. days = Cardinality(DaysLeft)
  BY <1>19
<1> HIDE DEF asked, days
<1> QED
  BY <1>15, <1>20, <1>21, <1>22, <1>23

(* A month that is over: nothing is still to come, and its clock has run.  *)
LEMMA NothingToCome ==
  ASSUME NEW rates, NEW c, ~c.inProgress, NEW n, NEW sold
  PROVE  StillToCome(rates, c, 1, 1, n, sold) = 0
<1> DEFINE F(x) == Expected(rates, c, x, 1, 1, n, sold)
           f == [x \in {} |-> 0]
           Fold(g) == g = [s \in SUBSET {} |->
                             IF s = {} THEN 0
                             ELSE F(CHOOSE x \in s : TRUE) + g[s \ {CHOOSE x \in s : TRUE}]]
<1>1. StillToCome(rates, c, 1, 1, n, sold) = (CHOOSE g : Fold(g))[{}]
  BY DEF StillToCome, MapThenSumSet, MapThenFoldSet
<1> HIDE DEF F
<1>2. ASSUME NEW g
      PROVE  Fold(g) <=> Counted(f, {}, g)
  <2>1. ASSUME NEW s \in SUBSET {}
        PROVE  Adds(f, s, g) = IF s = {} THEN 0
                  ELSE F(CHOOSE x \in s : TRUE) + g[s \ {CHOOSE x \in s : TRUE}]
    <3>1. s = {}
      OBVIOUS
    <3> QED
      BY <3>1 DEF Adds
  <2> QED
    BY <2>1 DEF Counted
<1> HIDE DEF Fold
<1>3. (CHOOSE g : Fold(g)) = CHOOSE g : Counted(f, {}, g)
  BY <1>2
<1>4. StillToCome(rates, c, 1, 1, n, sold) = SumOver(f, {})
  BY <1>1, <1>3 DEF SumOver
<1> QED
  BY <1>4, SumOfNothing

LEMMA ClockOfAPastMonth ==
  ASSUME NEW day \in FirstNow..LastNow
  PROVE  LET m == MonthOf(day) - 1
             c == NewMonthClock(m, day)
         IN  /\ m \in Months
             /\ ~c.inProgress /\ c.today = 0 /\ c.remaining = 0
             /\ c.through = MonthLengths[m] /\ Elapsed(c) = MonthLengths[m] /\ Measurable(c)
<1> DEFINE m == MonthOf(day) - 1
           c == NewMonthClock(m, day)
<1>1. m \in Months
  BY MonthBefore
<1>2. MonthOf(day) \in Months /\ day \in DaysOf(MonthOf(day)) /\ day \in Int
  BY ThisMonth
<1>3. m < MonthOf(day)
  BY <1>1, <1>2, MonthsAreNumbered
<1>4. LastDay(m) < FirstDay[MonthOf(day)] /\ LastDay(m) \in Int /\ FirstDay[MonthOf(day)] \in Int
  BY <1>1, <1>2, <1>3, MonthsFollow, NextMonth
<1>5. ~IsRunning(m, day)
  BY <1>2, <1>4 DEF IsRunning, DaysOf
<1>6. MonthLengths[m] \in Nat \ {0}
  BY <1>1, MonthsAreNumbered
<1>7. c = [inProgress |-> FALSE, through |-> MonthLengths[m], today |-> 0,
           remaining |-> 0, total |-> MonthLengths[m], first |-> FirstDay[m]]
  BY <1>5 DEF NewMonthClock
<1> HIDE DEF m, c
<1>8. /\ ~c.inProgress /\ c.today = 0 /\ c.remaining = 0
      /\ c.through = MonthLengths[m] /\ c.total = MonthLengths[m]
  BY <1>7
<1>9. Elapsed(c) = MonthLengths[m] /\ Measurable(c)
  BY <1>6, <1>8 DEF Elapsed, Measurable
<1> QED
  BY <1>1, <1>8, <1>9 DEF m, c

(* Read to its last day, a month is read whole.                            *)
LEMMA WholeMonth ==
  ASSUME NEW L, NEW m \in Months
  PROVE  /\ CashThrough(Read(L, m), MonthLengths[m]) = MonthEntries(L, m, "effective")
         /\ SalesThrough(Read(L, m), MonthLengths[m]) = MonthEntries(L, m, "transaction")
<1>1. MonthLengths[m] \in Int /\ FirstDay[m] \in Int
  BY MonthsAreNumbered, NextMonth
<1>2. ASSUME NEW day \in DaysOf(m)
      PROVE  DayOfMonth(day) <= MonthLengths[m]
  <2>1. MonthOf(day) = m
    BY MonthIs
  <2>2. day \in Int /\ day <= FirstDay[m] + MonthLengths[m] - 1
    BY <1>1 DEF DaysOf, LastDay
  <2> QED
    BY <1>1, <2>1, <2>2 DEF DayOfMonth
<1>3. \A e \in MonthEntries(L, m, "effective") : EffectiveDate(e) \in DaysOf(m)
  BY DEF MonthEntries, Within, BasisDate, DaysOf
<1>4. \A e \in MonthEntries(L, m, "transaction") : RevenueDate(e) \in DaysOf(m)
  BY DEF MonthEntries, Within, BasisDate, DaysOf
<1>5. /\ Read(L, m).cash = MonthEntries(L, m, "effective")
      /\ Read(L, m).sales = MonthEntries(L, m, "transaction")
  BY DEF Read
<1> QED
  BY <1>2, <1>3, <1>4, <1>5 DEF CashThrough, SalesThrough

LEMMA ClosedMonthIsTold ==
  ASSUME BooksInv
  PROVE  ClosedMonthIsWhole
<1> DEFINE L == ledger
           m == MonthOf(now) - 1
           c == NewMonthClock(m, now)
           rates == RatesAt(L, c)
           actual == ActualSales(L, m, now)
           sold == SalesOfToday(L, m, now)
           target == GoalOf(goals, m).revenue
           coming == StillToCome(rates, c, 1, 1, c.today, sold)
           p == Projected(actual, coming, target, Sample(rates), c)
           s == MonthlySummary(L, m)
           arrived == Arrived(Read(L, m), c)
<1>1. /\ L \subseteq Entry /\ IsFiniteSet(L) /\ now \in FirstNow..LastNow
      /\ past = Assemble(L, goals, m, now)
  BY DEF BooksInv
<1>2. /\ m \in Months /\ ~c.inProgress /\ c.today = 0 /\ c.remaining = 0
      /\ c.through = MonthLengths[m] /\ Elapsed(c) = MonthLengths[m] /\ Measurable(c)
  BY <1>1, ClockOfAPastMonth
<1>3. /\ arrived.cash = MonthEntries(L, m, "effective")
      /\ arrived.sales = MonthEntries(L, m, "transaction")
  BY <1>2, WholeMonth DEF Arrived
<1>4. MultiMonthlySummary(L, MonthRange(m))[m] = s
  <2>1. MonthRange(m) \subseteq Months /\ m \in MonthRange(m)
    BY <1>2, MonthsAreNumbered, BooksAssumption DEF MonthRange
  <2> QED
    BY <2>1, MonthInASpan
<1>5. /\ s.revenue = RevenueTotal(arrived.sales) /\ s.expense = Total(Expenses(arrived.cash))
      /\ s.balance = Net(arrived.cash)
  BY <1>3 DEF MonthlySummary, Summary
<1>6. actual = s.revenue /\ Spent(L, m, now) = s.expense
  BY <1>5 DEF ActualSales, Spent
<1>7. s.revenue \in Int /\ s.expense \in Int
  <2>1. arrived.sales \subseteq L /\ arrived.cash \subseteq L
    BY <1>3 DEF MonthEntries, Within
  <2>2. Sales(arrived.sales) \subseteq L /\ Expenses(arrived.cash) \subseteq L
    BY <2>1 DEF Sales, Expenses
  <2> QED
    BY <1>1, <1>5, <2>2, PricedPart, TotalIsAnInteger DEF RevenueTotal
<1>8. /\ past.month = m /\ past.projection = BuildProjection(rates, actual, target, c, sold)
      /\ past.kpis.faturamento = s.revenue /\ past.kpis.despesa = s.expense
      /\ past.compared = BuildComparison(c, Read(L, m), Previous(L, m))
  <2>1. /\ past.month = m /\ past.projection = ProjectionOf(L, goals, m, now)
        /\ past.compared = Compared(L, m, now)
        /\ past.kpis.faturamento = MultiMonthlySummary(L, MonthRange(m))[m].revenue
        /\ past.kpis.despesa = Spent(L, m, now)
    BY <1>1, PartsOfAnAnalysis
  <2> QED
    BY <1>4, <1>6, <2>1 DEF ProjectionOf, Compared
<1>9. past.kpis.agendada = 0
  <2>1. past.kpis.agendada
          = MultiMonthlySummary(L, MonthRange(m))[m].expense - Total(Expenses(arrived.cash))
    BY <1>1 DEF Assemble, Input, Build, Built
  <2> QED
    BY <1>4, <1>5, <1>7, <2>1
<1>10. past.compared.realized.balance = s.balance
  <2>1. past.compared.realized = TotalsThrough(Read(L, m), c.through)
    BY <1>2, <1>8 DEF BuildComparison
  <2>2. TotalsThrough(Read(L, m), c.through).balance = Net(arrived.cash)
    BY <1>2 DEF TotalsThrough, Totals, Arrived
  <2> QED
    BY <1>5, <2>1, <2>2
<1>11. AheadLines(past) = <<>>
  <2>1. past.clock = c
    BY <1>1 DEF Assemble, Input, Build, Built
  <2> QED
    BY <1>2, <2>1 DEF AheadLines
<1>12. p.projected = s.revenue /\ p.daysRemaining = 0
  <2>1. coming = 0
    BY <1>2, NothingToCome
  <2>2. p.projected = actual + coming /\ p.daysRemaining = c.remaining
    BY DEF Projected
  <2> QED
    BY <1>2, <1>6, <1>7, <2>1, <2>2
<1> DEFINE plan == NewPlan(rates, p, c, sold)
<1>13. /\ past.projection.p = p /\ past.projection.plan = plan
       /\ past.projection.today = DayTarget(plan, rates, c, c.today, sold)
       /\ past.projection.plannedClose = PlannedClose(plan, rates, p, c, sold)
  BY <1>8 DEF BuildProjection, WithPlan
<1>14. plan = NoPlan("mes_fechado") /\ plan.state = "mes_fechado"
  BY <1>2 DEF NewPlan, NoPlan
<1> HIDE DEF plan, p, c, rates, sold
<1>15. DayTarget(plan, rates, c, c.today, sold).state = "mes_fechado"
  <2>1. DayTarget(plan, rates, c, c.today, sold) = NoDay
    BY <1>2 DEF DayTarget
  <2> QED
    BY <2>1 DEF NoDay
<1>16. PlannedClose(plan, rates, p, c, sold) = p.projected
  BY <1>14 DEF PlannedClose
<1>17. ~Pacing(p)
  BY <1>12 DEF Pacing
<1> QED
  BY <1>8, <1>9, <1>10, <1>11, <1>12, <1>13, <1>14, <1>15, <1>16, <1>17 DEF ClosedMonthIsWhole

(* What is asked of the days to come closes the month: no ask is below the *)
(* usual of its day, the asks of a month that is behind add up to its goal *)
(* within the half centavo that each was rounded by, and the planned close *)
(* is what they add up to.  A month that is over is told as fact.          *)
THEOREM TheDaysLeftCloseTheMonth == BooksSpec => []PlanInv
<1>1. BooksInv /\ goals \in GoalSets => PlanInv
  BY OpenPlanCloses, ClosedMonthIsTold DEF PlanInv
<1> QED
  BY <1>1, BooksAreKept, GoalsAreSet, PTL
=============================================================================
