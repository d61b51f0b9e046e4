--------------------------- MODULE FiadoMovements ---------------------------
(***************************************************************************)
(* The movements of the caderninho (the pharmacy's book of sales on        *)
(* credit) and what they add up to: packages/fiado/fiado.go.  A movement   *)
(* is one line of the book; its sign is its only type, positive for what   *)
(* the client took, negative for what the client paid.                     *)
(*                                                                         *)
(* A name and a description do not change any rule here and are left out.  *)
(* Days are positive integers, ids are the ULIDs in the order they were    *)
(* generated, and an amount is a whole number of centavos.                 *)
(***************************************************************************)
EXTENDS Integers, FiniteSets

CONSTANTS Clients,       \* client slugs
          Days,          \* calendar days a movement may carry
          Amounts,       \* signed amounts the callers ask for
          MaxAmount,     \* MaxAmountCentavos
          MaxMovements,  \* bound: how many movements a behaviour may build
          Nil            \* the nil pointer, and the absent row

ASSUME DaysAssumption == Days \subseteq Nat \ {0} /\ Nil \notin Days
ASSUME AmountsAssumption == Amounts \subseteq Int
ASSUME MaxAmountAssumption == MaxAmount \in Nat
ASSUME MaxMovementsAssumption == MaxMovements \in Nat

Ids == 1 .. MaxMovements

(* Movement.Validate: what every store refuses before it writes.           *)
ValidAmount(a) == a # 0 /\ a <= MaxAmount /\ a >= -MaxAmount

Movement == [id : Ids, client : Clients, date : Days,
             amount : Amounts \cap ((-MaxAmount .. MaxAmount) \ {0})]

OfClient(rows, c) == {m \in rows : m.client = c}

-----------------------------------------------------------------------------
(* Totals and Sum.  Money is counted one centavo at a time: a centavo is a *)
(* pair of a movement and its rank in that movement, so a total is the     *)
(* cardinality of a set and needs no recursion.                            *)
Centavos == 1 .. MaxAmount

Taken(rows) == Cardinality({u \in rows \X Centavos : u[2] <= u[1].amount})
Paid(rows)  == Cardinality({u \in rows \X Centavos : u[2] <= -(u[1].amount)})
Sum(rows)   == Taken(rows) - Paid(rows)

-----------------------------------------------------------------------------
(* clearSince: no debt, no "desde".  A credit counts as settled.           *)
clearSince(balance) == balance <= 0

(* A client's movements are replayed in sort-key order, which is the date  *)
(* and then the ULID.                                                      *)
Before(m, n) == m.date < n.date \/ (m.date = n.date /\ m.id < n.id)

UpTo(rows, m)   == {n \in rows : n = m \/ Before(n, m)}
Earlier(rows, m) == {n \in rows : Before(n, m)}

(* The movement that took the balance out of zero for the last time: the   *)
(* running balance was clear before it and is never clear again.           *)
Openings(rows) ==
    {m \in rows : /\ clearSince(Sum(Earlier(rows, m)))
                  /\ \A n \in rows : n = m \/ Before(m, n)
                                     => ~clearSince(Sum(UpTo(rows, n)))}

sinceFromMovements(rows) ==
    IF Openings(rows) = {} THEN Nil ELSE (CHOOSE m \in Openings(rows) : TRUE).date

(* DaysOpen: how long a debtor has been owing, Nil when there is nothing   *)
(* to age; a debt that started today is not yet a measurable day.          *)
DaysOpen(balance, since, today) ==
    IF clearSince(balance) \/ since = Nil \/ today - since < 1
    THEN Nil ELSE today - since
=============================================================================
