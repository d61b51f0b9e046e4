------------------------------- MODULE MCDesk -------------------------------
(***************************************************************************)
(* Small instances of the desk for TLC.                                    *)
(***************************************************************************)
EXTENDS Desk, TLC

CONSTANTS pix, p1, p2, t1, t2

Draft == [date |-> Nobody, due |-> Nobody, amount |-> 1, type |-> "expense",
          origin |-> Nobody, status |-> Nobody, method |-> Nobody]

(* A bill for later, a sale paid by pix, one that is refused.              *)
SmallDrafts == {[Draft EXCEPT !.date = 2],
                [Draft EXCEPT !.type = "income", !.method = pix, !.date = 1],
                [Draft EXCEPT !.amount = 0]}

(* A corrected date, a settled bill, a sale that was an expense.           *)
SmallPatches == {[date |-> 1],
                 [status |-> "paid", method |-> pix],
                 [status |-> "pending", due |-> 2],
                 [type |-> "expense", amount |-> 2]}

Category(slug, label, type, default) ==
    [slug |-> slug, label |-> label, type |-> type, default |-> default]

TwoDefaults == <<Category("aluguel", "Aluguel", "expense", TRUE),
                 Category("delivery", "Delivery", "income", TRUE)>>

(* A default under its own and under another name, and three new ones.     *)
SomeCategories == {Category("aluguel", "Aluguel", "expense", FALSE),
                   Category("aluguel", "Loja", "expense", FALSE),
                   Category("atacado", "Atacado", "income", FALSE),
                   Category("varejo", "Varejo", "income", FALSE),
                   Category("convenio", "Convenio", "income", FALSE)}

Symmetry == Permutations(Callers) \cup Permutations(Tools)

(* A negative target is refused.                                           *)
SomeTargets == {-1, 0, 5}

(* Bought on credit, and paid.                                             *)
SomeSigned == {2, -1}

(* Jo, Joao, Joao S. and Maria, in alphabetical order.                     *)
TheTokens == <<<< <<"j", "o">> >>,
               << <<"j", "o", "a", "o">> >>,
               << <<"j", "o", "a", "o">>, <<"s">> >>,
               << <<"m", "a", "r">> >> >>
=============================================================================
