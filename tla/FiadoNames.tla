----------------------------- MODULE FiadoNames -----------------------------
(***************************************************************************)
(* Whose account a movement of the caderninho goes to: the tools of        *)
(* packages/fiado/tools.go and the name rules of packages/fiado/fiado.go.  *)
(* A name reaches a slug, a slug is compared with the accounts that exist, *)
(* and only then is the movement recorded.                                 *)
(*                                                                         *)
(* A slug is a number, in alphabetical order, and Tokens[slug] are its     *)
(* words, each a sequence of letters; NoSlug is a name with nothing        *)
(* usable in it.  Amounts are centavos; what the store does inside         *)
(* Record and Delete is the module Fiado.                                  *)
(***************************************************************************)
EXTENDS SequencesExt, Orders

CONSTANTS Tellers,   \* turns that may run at the same time
          NameSlugs, \* the slugs of the names people type
          Tokens,    \* Tokens[slug]: its words
          NoSlug,    \* the empty slug
          Values,    \* amounts the model may send, before the tool's sign
          MaxShown,  \* maxDebtorsInTool
          MaxLines,  \* bound: movements ever recorded
          MaxTells   \* bound: tool calls ever begun

NamesAssumption == /\ NameSlugs \subseteq Nat
                   /\ NoSlug \notin NameSlugs
                   /\ \A s \in NameSlugs : Tokens[s] \in Seq(Seq(STRING))
                   /\ Values \subseteq Int
                   /\ MaxShown \in Nat /\ MaxLines \in Nat /\ MaxTells \in Nat

VARIABLES accounts,  \* the slugs in the book, with how each was opened
          lines,     \* the movements
          telling,   \* telling[t]: what teller t has decided to record
          told       \* tool calls begun

namesVars == <<accounts, lines, telling, told>>

Silent == [at |-> "rest"]

Init == /\ accounts = <<>>
        /\ lines = {}
        /\ telling = [t \in Tellers |-> Silent]
        /\ told = 0

InBook == DOMAIN accounts

Balance(s) == MapThenSumSet(LAMBDA l : l.amount, {l \in lines : l.slug = s})

-----------------------------------------------------------------------------
(* SimilarClients: one slug is the other written short.                    *)

(* A token that is the other, or the start of it and long enough.          *)
TokenAlike(a, b, minPrefix) ==
    /\ a # <<>> /\ b # <<>>
    /\ \/ a = b
       \/ IsPrefix(a, b) /\ Len(a) >= minPrefix
       \/ IsPrefix(b, a) /\ Len(b) >= minPrefix

(* The shorter list matches the longer one from its first token; a bare    *)
(* initial means something only after a first token that matched.          *)
Abbreviates(a, b) ==
    LET n == IF Len(a) < Len(b) THEN Len(a) ELSE Len(b)
    IN  /\ n > 0
        /\ \A k \in 1..n : TokenAlike(a[k], b[k], IF k = 1 THEN 3 ELSE 1)

(* Broken variant of SimilarClients: finds the long name of a short one    *)
(* and not the other way round.                                            *)
SimilarLonger(slug, book) ==
    {s \in book \ {slug} : /\ Len(Tokens[slug]) <= Len(Tokens[s])
                           /\ Abbreviates(Tokens[slug], Tokens[s])}

SimilarClients(slug, book) ==
    {s \in book \ {slug} : Abbreviates(Tokens[slug], Tokens[s])}

-----------------------------------------------------------------------------
Begin(t) == telling[t] = Silent /\ told < MaxTells /\ told' = told + 1

(* A name that resembles somebody in the book is a question, not a new     *)
(* account; so is a payment of a stranger.  Both yield to a confirmation.  *)
Accepted(slug, payment, confirmedNew, book) ==
    \/ slug \in book
    \/ confirmedNew
    \/ SimilarClients(slug, book) = {} /\ ~payment

(* registrar_fiado and registrar_pagamento_fiado up to the decision.  The  *)
(* tool chooses the sign.  A refusal is an answer and changes nothing.     *)
RecordMovement(t) ==
    \E slug \in NameSlugs, v \in Values, payment, confirmedNew \in BOOLEAN :
        /\ Begin(t)
        /\ v > 0
        /\ Accepted(slug, payment, confirmedNew, InBook)
        /\ telling' = [telling EXCEPT ![t] =
                          [at |-> "record", slug |-> slug,
                           amount |-> IF payment THEN -v ELSE v,
                           how |-> [saw |-> InBook, confirmed |-> confirmedNew,
                                    payment |-> payment]]]
        /\ UNCHANGED <<accounts, lines>>

(* The question: the tool answers with the candidates, or with the book.   *)
Ask(t) == \E slug \in NameSlugs \cup {NoSlug}, v \in Values, payment \in BOOLEAN :
    /\ Begin(t)
    /\ slug # NoSlug /\ v > 0 => ~Accepted(slug, payment, FALSE, InBook)
    /\ UNCHANGED <<accounts, lines, telling>>

(* Record opens the account of a slug that has none.                       *)
Record(t) ==
    /\ telling[t].at = "record"
    /\ Cardinality(lines) < MaxLines
    /\ lines' = lines \cup {[id     |-> IF lines = {} THEN 1
                                        ELSE 1 + Max({l.id : l \in lines}),
                             slug   |-> telling[t].slug,
                             amount |-> telling[t].amount]}
    /\ accounts' = IF telling[t].slug \in InBook THEN accounts
                   ELSE [s \in InBook \cup {telling[t].slug} |->
                            IF s \in InBook THEN accounts[s] ELSE telling[t].how]
    /\ telling' = [telling EXCEPT ![t] = Silent]
    /\ UNCHANGED told

(* apagar_movimento_fiado: the account stays, also with nothing left in it.*)
ApagarMovimento(t) == \E l \in lines :
    /\ Begin(t)
    /\ lines' = lines \ {l}
    /\ UNCHANGED <<accounts, telling>>

(* A request that fails, or a turn that dies.                              *)
Abandon(t) == /\ telling[t] # Silent
              /\ telling' = [telling EXCEPT ![t] = Silent]
              /\ UNCHANGED <<accounts, lines, told>>

Step(t) == \/ RecordMovement(t) \/ Ask(t) \/ Record(t)
           \/ ApagarMovimento(t) \/ Abandon(t)

Next == \E t \in Tellers : Step(t)

Spec == Init /\ [][Next]_namesVars

-----------------------------------------------------------------------------
(* The answers.  A line of the book is a slug; the store lists them in     *)
(* alphabetical order.                                                     *)

ListDebtors == InOrder(InBook, <)

Owed(book) == MapThenSumSet(LAMBDA s : IF Balance(s) > 0 THEN Balance(s) ELSE 0, book)

(* sortDebtorsByBalance.                                                   *)
ByBalance(book) ==
    InOrder(book, LAMBDA s, r : \/ Balance(s) > Balance(r)
                                \/ Balance(s) = Balance(r) /\ s < r)

(* listar_fiados: who is square is left out unless asked for, the total    *)
(* covers everybody, the list is cut.                                      *)
ListarFiados(incluirQuitados) ==
    LET kept == ByBalance({s \in InBook : Balance(s) # 0 \/ incluirQuitados})
    IN  [devedores |-> IF Len(kept) > MaxShown THEN SubSeq(kept, 1, MaxShown) ELSE kept,
         total     |-> Owed(InBook),
         clientes  |-> Len(kept),
         truncated |-> Len(kept) > MaxShown]

(* GET /fiado: everybody, by a stable sort of the store's order.           *)
InsertStably(sorted, s) ==
    LET k == Cardinality({i \in DOMAIN sorted : Balance(sorted[i]) >= Balance(s)})
    IN  InsertAt(sorted, k + 1, s)
ListHandler == [devedores |-> FoldLeft(InsertStably, <<>>, ListDebtors),
                total     |-> Owed(InBook)]

(* accountState.                                                           *)
AccountState(s) == CASE Balance(s) > 0 -> "devendo"
                     [] Balance(s) < 0 -> "credito"
                     [] Balance(s) = 0 -> "quite"

-----------------------------------------------------------------------------
(* The shape of the state.                                                 *)
TypeOK == /\ InBook \subseteq NameSlugs
          /\ \A l \in lines : l.slug \in InBook /\ l.amount # 0
          /\ \A t \in Tellers : telling[t].at \in {"rest", "record"}
          /\ told \in 0..MaxTells

(* Two names that look like one person are two accounts only if somebody   *)
(* confirmed it, or if two turns decided before either had written: the    *)
(* order in which the short and the long name were told does not matter    *)
(* (recordMovement, SimilarClients).                                       *)
LookalikesWereAskedFor ==
    \A s, r \in InBook :
        s # r /\ Abbreviates(Tokens[s], Tokens[r])
            => \/ accounts[s].confirmed \/ accounts[r].confirmed
               \/ s \notin accounts[r].saw /\ r \notin accounts[s].saw

(* A payment never opens an account in credit on its own: where the first  *)
(* movement was a payment, somebody confirmed the name (errUnknownDebtor). *)
CreditIsConfirmed ==
    \A s \in InBook : accounts[s].payment => accounts[s].confirmed

(* Nobody gets an account by accident.                                     *)
NamesInv == TypeOK /\ LookalikesWereAskedFor /\ CreditIsConfirmed

(* The two lists of the caderninho tell one story: the same total, the     *)
(* same order, and what the tool cuts away owes no more than what it       *)
(* shows (listar_fiados, GET /fiado).                                      *)
ListsAgree ==
    \A all \in BOOLEAN :
        LET tool  == ListarFiados(all)
            whole == ListHandler.devedores
            shown == InOrder({k \in DOMAIN whole : all \/ Balance(whole[k]) # 0}, <)
            page  == [n \in DOMAIN shown |-> whole[shown[n]]]
        IN  /\ tool.total = ListHandler.total
            /\ IsPrefix(tool.devedores, page)
            /\ tool.clientes = Len(page)
            /\ tool.truncated <=> Len(tool.devedores) < Len(page)
            /\ ~tool.truncated =>
                  tool.total = MapThenSumSet(LAMBDA s : Balance(s),
                      {s \in Range(tool.devedores) : AccountState(s) = "devendo"})
=============================================================================
