------------------------------- MODULE Books -------------------------------
(***************************************************************************)
(* The ledger over time and what every reader of an analysis is told       *)
(* about it: days pass, sales and bills are registered, bills are settled, *)
(* and after each step the analyses of the running and of the previous     *)
(* month are the ones that Assemble returns.                               *)
(*                                                                         *)
(* Bounds: at most MaxChanges entries are registered or settled, days run  *)
(* from FirstNow to LastNow.                                               *)
(***************************************************************************)
EXTENDS Bills

CONSTANTS Histories,          \* ledgers the pharmacy may open with
          GoalSets,           \* goals by month that may have been set
          Menu,               \* what may be registered on a day
          MaxChanges, FirstNow, LastNow

(* An entry, as the stores return it, and an item of the menu.             *)
Entry == [id : Nat, type : Types, origin : Origins \cup {Nobody}, amount : Nat \ {0},
          category : Nat, date : Days, due : Days \cup {Nobody}, status : Statuses,
          pay : Days \cup {Nobody}, method : Methods \cup {Nobody}]
Items == [type : Types, origin : Origins \cup {Nobody}, amount : Nat \ {0},
          category : Nat, delay : Nat]

(* The clock stays within the calendar; a delay ends on a day; an id is    *)
(* the rank of its ULID.                                                   *)
ASSUME BooksAssumption ==
    /\ Days \subseteq Nat \ {0}
    /\ HistoryMonths \in Nat \ {0}
    /\ Cutoffs \subseteq Nat \ {0}
    /\ MaxOverdue \in Nat \ {0}
    /\ MaxChanges \in Nat
    /\ FirstNow \in Int /\ LastNow \in Int /\ FirstNow <= LastNow
    /\ \A day \in FirstNow..LastNow :
          /\ day \in Days /\ \E m \in Months \ {1} : day \in DaysOf(m)
          /\ \A item \in Menu : day + item.delay \in Days
    /\ \A h \in Histories : /\ h \subseteq Entry /\ IsFiniteSet(h)
                            /\ \A e \in h : Valid(e)
                            /\ {e.id : e \in h} = 1..Cardinality(h)
    /\ \A g \in GoalSets : \A m \in DOMAIN g : g[m].revenue \in Int
    /\ Menu \subseteq Items

VARIABLES ledger,   \* the entries, as every store returns them
          now,      \* the pharmacy's calendar day
          goals,    \* the goals, by month
          changes,  \* how many entries were registered or settled
          view,     \* the analysis of the running month
          past      \* the analysis of the month before

vars == <<ledger, now, goals, changes, view, past>>

(* An entry of the menu, registered on a day: paid now, or due later.      *)
Registered(item, day, id) ==
    Normalize([id |-> id, type |-> item.type, origin |-> item.origin,
               amount |-> item.amount, category |-> item.category, date |-> day,
               due |-> IF item.delay = 0 THEN Nobody ELSE day + item.delay,
               status |-> IF item.delay = 0 THEN "paid" ELSE "pending",
               pay |-> Nobody, method |-> Nobody])

Assembled == /\ view' = Assemble(ledger', goals', MonthOf(now'), now')
             /\ past' = Assemble(ledger', goals', MonthOf(now') - 1, now')

BooksInit == /\ ledger \in Histories
             /\ goals \in GoalSets
             /\ now = FirstNow
             /\ changes = 0
             /\ view = Assemble(ledger, goals, MonthOf(now), now)
             /\ past = Assemble(ledger, goals, MonthOf(now) - 1, now)

(* A sale, a bill or another movement is registered today.                 *)
Register(item) ==
    /\ changes < MaxChanges
    /\ changes' = changes + 1
    /\ ledger' = ledger \cup {Registered(item, now, Cardinality(ledger) + 1)}
    /\ UNCHANGED <<now, goals>>

(* A pending entry is paid today.                                          *)
Settle(e) ==
    /\ changes < MaxChanges
    /\ changes' = changes + 1
    /\ e.status = "pending"
    /\ ledger' = (ledger \ {e}) \cup {[e EXCEPT !.status = "paid", !.pay = now]}
    /\ UNCHANGED <<now, goals>>

NextDay == /\ now < LastNow
           /\ now' = now + 1
           /\ UNCHANGED <<ledger, goals, changes>>

(* Whatever happened, the next to ask is told what the ledger says then.   *)
BooksNext == /\ \/ \E item \in Menu : Register(item)
                \/ \E e \in ledger : Settle(e)
                \/ NextDay
             /\ Assembled

BooksSpec == BooksInit /\ [][BooksNext]_vars

-----------------------------------------------------------------------------
(* get_analysis without a month: MonthOf reads the day in UTC, which is    *)
(* the next one during the last three hours of the pharmacy's day.         *)
UTCDays == {now, now + 1}
DefaultMonths == {MonthOf(day) : day \in UTCDays}
=============================================================================
