------------------------------- MODULE MCBooks -------------------------------
(***************************************************************************)
(* A small pharmacy for TLC: weeks of three days, months of six or seven,  *)
(* a clock that runs from the 18th day over the turn of the third month.   *)
(***************************************************************************)
EXTENDS BooksReadings, TLC

CONSTANT pix

FourMonths == <<6, 7, 6, 6>>
TwoWeights == (0 :> 4) @@ (1 :> 3)
OneCutoff == {3}

Sale(id, day, amount, category) ==
    [id |-> id, type |-> "income", origin |-> "venda", amount |-> amount,
     category |-> category, date |-> day, due |-> Nobody, status |-> "paid",
     pay |-> day, method |-> pix]
DueLater(entry, day) == [entry EXCEPT !.due = day, !.status = "pending",
                                      !.pay = Nobody, !.method = Nobody]
Bill(id, day, due, amount, category) ==
    DueLater([Sale(id, day, amount, category) EXCEPT !.type = "expense", !.origin = Nobody], due)
Paid(entry) == [entry EXCEPT !.status = "paid", !.pay = EffectiveDate(entry)]

(* What the days before the clock starts sold: 250 in the first week of    *)
(* the second month, 224 in that of the third.                             *)
Takings == <<60, 50, 40, 70, 55, 30, 100, 80, 70, 90, 60, 40, 85, 80, 74, 70, 45>>
Sold    == {Sale(d, d, Takings[d], d % 2) : d \in DOMAIN Takings}

(* A busy month: a bill that is late, three on one day, one that was paid  *)
(* in the month after it was due, and a customer who pays next month.      *)
Busy == Sold \cup {Bill(18, 12, 17, 20, 2), Bill(19, 15, 19, 30, 2), Bill(20, 15, 19, 12, 3),
                   Bill(21, 16, 19, 90, 2), Paid(Bill(22, 13, 15, 25, 3)),
                   DueLater(Sale(23, 17, 35, 1), 21)}

(* A poor one: the balance is negative until a customer pays tomorrow.     *)
Poor == {Sale(1, 15, 50, 0), Sale(2, 16, 40, 1), Paid(Bill(3, 16, 16, 120, 2)),
         DueLater(Sale(4, 17, 200, 1), 19)}

TwoLedgers == {Busy, Poor}

Goal(revenue, expense) == [revenue |-> revenue, expense |-> expense]
TwoGoals == {3 :> Goal(400, 100) @@ 4 :> Goal(150, 0), 3 :> Goal(250, 200)}

Item(type, origin, amount, category, delay) ==
    [type |-> type, origin |-> origin, amount |-> amount, category |-> category, delay |-> delay]
SmallMenu == {Item("income", "venda", 40, 0, 0), Item("income", "venda", 75, 1, 2),
              Item("income", "emprestimo", 90, 4, 0), Item("expense", Nobody, 33, 2, 0),
              Item("expense", Nobody, 21, 3, 2)}

(* Half a message, a third of one, and more than one can hold.             *)
LengthOfLine(e) == IF e.amount > 80 THEN 70 ELSE IF e.amount > 25 THEN 30 ELSE 14
EvenBytes(k) == k % 2 = 0
=============================================================================
