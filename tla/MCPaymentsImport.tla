-------------------------- MODULE MCPaymentsImport --------------------------
(***************************************************************************)
(* A small instance of the payment import for TLC.  A sale of january is   *)
(* paid in two parcelas, due on the last day of it and in february.  The   *)
(* envelope of that last day exists in two versions, one of which has the  *)
(* first parcela a day earlier, beside a line that is no sale; a third has *)
(* the same parcela twice.  Later both parcelas are liquidated on one day. *)
(***************************************************************************)
EXTENDS PaymentsReadings

CONSTANTS first, corrected, broken, other, saleA, r1, r2

Line(kind, event, due, amount, parcela) ==
    [kind |-> kind, event |-> event, code |-> saleA, sold |-> 2, due |-> due,
     amount |-> amount, parcela |-> parcela, of |-> 2, method |-> 3,
     gross |-> 100, net |-> 95]

Parcela(due, amount, number) == Line("transactional", Sold, due, amount, number)
Paid(amount, number)         == Line("financial", Sold, 7, amount, number)

TheFiles ==
    (first     :> <<<<Parcela(6, 45, 2), Parcela(4, 50, 1)>>, <<>>>>)
 @@ (corrected :> <<<<Parcela(6, 45, 2)>>, <<Parcela(3, 50, 1), Line("transactional", 6, 5, 7, 1)>>>>)
 @@ (broken    :> <<<<Parcela(6, 45, 2)>>, <<Parcela(4, 50, 1), Parcela(4, 50, 1)>>>>)
 @@ (other     :> <<<<Paid(50, 1)>>, <<Paid(45, 2)>>>>)

(* The bucket's prefix is the source day of what lies in it.               *)
TheImports   == [v \in DOMAIN TheFiles |-> ImportResult[v].day]
TheKeys      == [v \in DOMAIN TheFiles |-> ImportResult[v].keys]
TheMalformed == {v \in DOMAIN TheFiles : ~ImportResult[v].valid}
AllDates     == {TheImports[v] : v \in DOMAIN TheFiles}
AllKeys      == UNION {TheKeys[v] : v \in DOMAIN TheFiles}

ShortMonths == <<4, 3, 4>>

(* The ledger's curve of february: 10 before it, and 3 in on its first day.*)
TheLedger == 2 :> << [date |-> 5, in |-> 3, out |-> 0, balance |-> 13],
                     [date |-> 6, in |-> 0, out |-> 4, balance |-> 9],
                     [date |-> 7, in |-> 0, out |-> 0, balance |-> 9] >>

TwoRuns == Permutations({r1, r2})
=============================================================================
