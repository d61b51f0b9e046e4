----------------------------- MODULE MCNotifier -----------------------------
(***************************************************************************)
(* A small day of the notifier for TLC: one person who can be reached, and *)
(* one who may register during the day and whom WhatsApp may refuse,       *)
(* served first.                                                           *)
(***************************************************************************)
EXTENDS Notifier

rui == 1
ana == 2

SmallInit == /\ Init
             /\ ana \in phones
             /\ blocked \subseteq {rui}
             /\ window = Users
             /\ open = DueBills

SmallSpec == SmallInit /\ [][Next]_vars /\ Fairness
=============================================================================
