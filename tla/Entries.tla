------------------------------ MODULE Entries ------------------------------
(***************************************************************************)
(* A lançamento of the pharmacy's ledger and the rules of                  *)
(* packages/domain/financial.go and packages/finance/store.go: how an      *)
(* entry is normalised and validated, and by which of its three dates it   *)
(* is counted.  Amounts are centavos, days are numbers.                    *)
(*                                                                         *)
(* Description, supplier, source, audit times and the fields of a series   *)
(* travel with the entry and decide nothing; they are left out.            *)
(***************************************************************************)
EXTENDS Integers

CONSTANTS Days,     \* calendar days, the zero value of the code is not one
          Amounts,  \* the amounts a caller may ask for, valid or not
          Methods,  \* means of payment, without the empty one
          Nobody    \* the empty string and the nil pointer of the code

ASSUME EntriesAssumption == /\ Days \subseteq Int
                            /\ Amounts \subseteq Int
                            /\ Nobody \notin Days \cup Methods

Types    == {"expense", "income"}
Statuses == {"pending", "paid"}
Origins  == {"venda", "recebimento_cliente", "emprestimo", "aporte_socio",
             "receita_financeira", "restituicao", "outros"}

(* Coerces an unknown origin to "outros"; "not recorded" stays that way.   *)
NormalizeIncomeOrigin(s) ==
    IF s \in Origins \cup {Nobody} THEN s ELSE "outros"

(* What counts as faturamento: a sale, and nothing else that comes in.     *)
IsRevenue(e) == e.type = "income" /\ e.origin = "venda"

(* FinancialEntry.Normalize.                                               *)
Normalize(e) ==
    [e EXCEPT !.pay    = IF e.status = "pending" THEN Nobody
                         ELSE IF e.status = "paid" /\ @ = Nobody THEN e.date
                         ELSE @,
              !.method = IF e.status = "pending" THEN Nobody ELSE @,
              !.origin = IF e.type = "expense" THEN Nobody ELSE @]

(* FinancialEntry.Validate, for an entry that has a user and an id.        *)
Valid(e) ==
    /\ e.amount > 0
    /\ e.date \in Days
    /\ e.type \in Types
    /\ e.origin # Nobody => e.type = "income" /\ e.origin \in Origins
    /\ e.status \in Statuses
    /\ (e.status = "paid") <=> (e.pay # Nobody)

-----------------------------------------------------------------------------

(* The three dates of an entry.                                            *)
EffectiveDate(e) == IF e.due # Nobody THEN e.due ELSE e.date
RevenueDate(e)   == e.date
CashDate(e)      == IF e.status = "paid" THEN e.pay ELSE Nobody

Bases == {"effective", "transaction", "payment"}

(* basisDate: Nobody when the entry is not on that basis at all.           *)
BasisDate(b, e) == CASE b = "payment"     -> CashDate(e)
                     [] b = "transaction" -> RevenueDate(e)
                     [] b = "effective"   -> EffectiveDate(e)

(* The stored row: the key and the two index keys are derived from the     *)
(* entry, and a pending entry has no key in the cash index.                *)
EntryToItem(e) ==
    [sk   |-> <<e.date, e.id>>,
     gsi1 |-> IF CashDate(e) = Nobody THEN Nobody ELSE <<CashDate(e), e.id>>,
     gsi2 |-> <<EffectiveDate(e), e.id>>,
     row  |-> e]

(* itemToEntry: every read heals the row and then refuses an invalid one.  *)
ItemToEntry(i) == Normalize([i.row EXCEPT !.origin = NormalizeIncomeOrigin(@)])
Readable(i)    == Valid(ItemToEntry(i))
=============================================================================
