----------------------------- MODULE Caderninho -----------------------------
(***************************************************************************)
(* What the fiado store promises (packages/fiado/store.go): a book of      *)
(* lines and, for each client, a balance that moves with them.  A line is  *)
(* written or erased together with its effect on the balance, in one step, *)
(* and neither of two callers ever overwrites what the other did.          *)
(*                                                                         *)
(* "Desde", the copies of a line and the repair that runs after a write    *)
(* do not exist at this level.                                             *)
(***************************************************************************)
EXTENDS FiadoMovements

VARIABLES lines,    \* the movements written in the book
          balance   \* balance[c]: what client c owes, negative for a credit

bookVars == <<lines, balance>>

BookInit == /\ lines = {}
            /\ balance = [c \in Clients |-> 0]

(* Store.Record as its contract states it.                                 *)
Enter(m) == /\ m \notin lines
            /\ lines' = lines \cup {m}
            /\ balance' = [balance EXCEPT ![m.client] = @ + m.amount]

(* Store.Delete as its contract states it.                                 *)
Erase(m) == /\ m \in lines
            /\ lines' = lines \ {m}
            /\ balance' = [balance EXCEPT ![m.client] = @ - m.amount]

BookNext == \E m \in Movement : Enter(m) \/ Erase(m)

BookSpec == BookInit /\ [][BookNext]_bookVars
=============================================================================
