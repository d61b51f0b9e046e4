------------------------------- MODULE Ledger -------------------------------
(***************************************************************************)
(* The financial ledger: the entries API of the dashboard                  *)
(* (apps/dashboard-api/internal/finance/entries.go) and the agent's        *)
(* create and edit tools (packages/finance/tools.go), as concurrent        *)
(* callers of the DynamoDB store (packages/finance/dynamodb_entries.go).   *)
(*                                                                         *)
(* A caller's request to DynamoDB is one step, so what a caller read may   *)
(* be old when it writes.  Reads are eventually consistent: `lagging' is   *)
(* the table before the last write that has not reached every replica and  *)
(* index yet, and the bound on the lag is that one write.  Any call may    *)
(* end early, by an error of a request or a caller that dies.              *)
(***************************************************************************)
EXTENDS Entries, FiniteSets

CONSTANTS Callers,   \* handlers and agent turns that run at the same time
          Today,     \* the pharmacy's calendar day
          Drafts,    \* bodies of POST /entries and arguments of the create tool
          Patches,   \* bodies of PUT /entries and arguments of the edit tool
          MaxIds,    \* bound: entries ever created
          MaxCalls   \* bound: calls ever begun

ASSUME LedgerAssumption == Today \in Days /\ MaxIds \in Nat /\ MaxCalls \in Nat

(* What a patch may name.                                                  *)
PatchFields == {"date", "due", "amount", "type", "origin", "status", "method"}

(* What decoding leaves of a body or of a tool's arguments: a date is a    *)
(* day or is not there, an amount is a number; type, status and origin are *)
(* whatever the caller wrote.                                              *)
ASSUME BodiesAssumption ==
    /\ \A d \in Drafts : /\ d.date \in Days \cup {Nobody}
                         /\ d.due \in Days \cup {Nobody}
                         /\ d.amount \in Amounts
                         /\ d.method \in Methods \cup {Nobody}
    /\ \A p \in Patches : /\ DOMAIN p \subseteq PatchFields
                          /\ "date"   \in DOMAIN p => p.date \in Days
                          /\ "due"    \in DOMAIN p => p.due \in Days \cup {Nobody}
                          /\ "amount" \in DOMAIN p => p.amount \in Amounts
                          /\ "method" \in DOMAIN p => p.method \in Methods \cup {Nobody}

T == INSTANCE Table WITH Absent <- Nobody

VARIABLES table,     \* the stored items
          lagging,   \* what a read that is not consistent may still see
          calls,     \* calls[c]: what caller c is in the middle of
          ids,       \* how many ids have been drawn; a ulid is its number
          gone,      \* history: ids whose deletion was answered
          made       \* calls begun

ledgerVars == <<table, lagging, calls, ids, gone, made>>

Idle == [at |-> "idle"]

Init == /\ table = {}
        /\ lagging = {}
        /\ calls = [c \in Callers |-> Idle]
        /\ ids = 0
        /\ gone = {}
        /\ made = 0

-----------------------------------------------------------------------------
(* Requests to the table.                                                  *)

Write(t) == table' = t /\ lagging' = table

End(c)    == calls' = [calls EXCEPT ![c] = Idle]
Begin(c)  == calls[c].at \in {"idle", "missed"} /\ made < MaxCalls /\ made' = made + 1

(* ErrEntryNotFound reaches the caller as a 404 or as a tool error.        *)
Miss(c, id) == calls' = [calls EXCEPT ![c] = [at |-> "missed", id |-> id]]

(* A query of an index sees each half of a moved row on its own: the row   *)
(* in its old place, in its new place, in both or in neither.              *)
IndexViews == {table, lagging, table \cup lagging, table \cap lagging}

-----------------------------------------------------------------------------
(* POST /entries and create_financial_entry.  A draft is a record in which *)
(* Nobody is a field that was left out.                                    *)

StatusOf(d, day) == IF d.status \in Statuses THEN d.status
                    ELSE IF day > Today THEN "pending" ELSE "paid"

NewEntry(id, d) ==
    LET day    == IF d.date = Nobody THEN Today ELSE d.date
        status == StatusOf(d, day)
    IN  Normalize([id     |-> id,
                   date   |-> day,
                   due    |-> IF status = "pending" /\ d.due = Nobody THEN day ELSE d.due,
                   pay    |-> Nobody,
                   amount |-> d.amount,
                   type   |-> d.type,
                   origin |-> IF d.type = "income" /\ d.origin = Nobody
                              THEN "venda" ELSE d.origin,
                   status |-> status,
                   method |-> d.method])

(* The tool says whether the entry is pending, coerces the origin, ignores *)
(* the due date and the method where they make no sense, and dates a paid  *)
(* entry by its transaction.                                               *)
ToolEntry(id, d) ==
    LET day    == IF d.date = Nobody THEN Today ELSE d.date
        status == IF d.status = "pending" THEN "pending" ELSE "paid"
    IN  [id     |-> id,
         date   |-> day,
         due    |-> IF status = "pending" THEN d.due ELSE Nobody,
         pay    |-> IF status = "paid" THEN day ELSE Nobody,
         amount |-> d.amount,
         type   |-> d.type,
         origin |-> IF d.type # "income" THEN Nobody
                    ELSE IF d.origin = Nobody THEN "venda"
                    ELSE NormalizeIncomeOrigin(d.origin),
         status |-> status,
         method |-> IF status = "paid" THEN d.method ELSE Nobody]

(* A draft the handler or the tool answers with an error.                  *)
Acceptable(d) == d.amount > 0 /\ d.type \in Types

SaveEntry(e) == Valid(e) /\ Write(T!PutItem(table, EntryToItem(e)))

Save(c, e) == /\ Begin(c)
              /\ ids < MaxIds
              /\ SaveEntry(e)
              /\ ids' = ids + 1
              /\ End(c)
              /\ UNCHANGED gone

Create(c) == \E d \in Drafts :
                /\ Acceptable(d)
                /\ d.type = "income" => d.origin \in Origins \cup {Nobody}
                /\ Save(c, NewEntry(ids + 1, d))

CreateByTool(c) == \E d \in Drafts : Acceptable(d) /\ Save(c, ToolEntry(ids + 1, d))

-----------------------------------------------------------------------------
(* PUT /entries/{date}/{id} and edit_financial_entry.  A patch is a record *)
(* of the fields it names and no others.                                   *)

PatchIsValid(p) ==
    /\ "amount" \in DOMAIN p => p.amount > 0
    /\ "type"   \in DOMAIN p => p.type \in Types
    /\ "status" \in DOMAIN p => p.status \in Statuses
    /\ "origin" \in DOMAIN p => p.origin \in Origins \cup {Nobody}

(* Broken variant of Apply: a field that is left out is an empty one.      *)
ApplyClearing(e, p) ==
    LET Field(f) == IF f \in DOMAIN p THEN p[f] ELSE e[f]
    IN  [e EXCEPT !.date = Field("date"),     !.amount = Field("amount"),
                  !.due = IF "due" \in DOMAIN p THEN p.due ELSE Nobody,
                  !.type = Field("type"),     !.origin = Field("origin"),
                  !.status = Field("status"), !.method = Field("method"),
                  !.pay = IF "status" \notin DOMAIN p THEN @
                          ELSE IF p.status = "pending" THEN Nobody
                          ELSE IF e.status # "paid" \/ @ = Nobody THEN Today
                          ELSE @]

(* updateEntryRequest.apply: settling happens today, unless the entry was  *)
(* settled already; reopening forgets the day.                             *)
Apply(e, p) ==
    LET Field(f) == IF f \in DOMAIN p THEN p[f] ELSE e[f]
    IN  [e EXCEPT !.date = Field("date"),     !.due = Field("due"),
                  !.amount = Field("amount"), !.type = Field("type"),
                  !.origin = Field("origin"), !.status = Field("status"),
                  !.method = Field("method"),
                  !.pay = IF "status" \notin DOMAIN p THEN @
                          ELSE IF p.status = "pending" THEN Nobody
                          ELSE IF e.status # "paid" \/ @ = Nobody THEN Today
                          ELSE @]

(* What the edit tool makes of its arguments: no type, no way to clear a   *)
(* field, and an origin on income only.                                    *)
ToolPatch(e, p) ==
    LET named == {f \in DOMAIN p : /\ f # "type"
                                   /\ p[f] # Nobody
                                   /\ f = "origin" => e.type = "income"}
    IN  [f \in named |-> IF f = "origin" THEN NormalizeIncomeOrigin(p[f]) ELSE p[f]]

Edit(c, e, p) ==
    calls' = [calls EXCEPT ![c] = [at |-> "write", named |-> DOMAIN p,
                                   prev |-> e, next |-> Normalize(Apply(e, p))]]

(* The address of the request is any one a client may hold.  A miss is a   *)
(* 404; a patch the handler refuses changes nothing.                       *)
GetEntry(c) == \E t \in {table, lagging}, day \in Days, id \in 1..ids :
    /\ Begin(c)
    /\ \/ /\ ~T!Exists(t, <<day, id>>)
          /\ Miss(c, id)
       \/ \E i \in T!ItemsAt(t, <<day, id>>), p \in Patches :
             /\ Readable(i)
             /\ PatchIsValid(p)
             /\ Edit(c, ItemToEntry(i), p)
    /\ UNCHANGED <<table, lagging, ids, gone>>

(* FindEntryByID reads the whole partition through the effective-date      *)
(* index and takes the first row of that id; one bad row fails it all.     *)
FindEntryByID(c) == \E view \in IndexViews, id \in 1..ids :
    LET found == {i \in T!InIndex(view, "gsi2") : i.row.id = id}
    IN  /\ Begin(c)
        /\ \A i \in view : Readable(i)
        /\ \/ /\ found = {}
              /\ Miss(c, id)
           \/ \E i \in found, p \in Patches :
                 /\ \A j \in found : EffectiveDate(j.row) <= EffectiveDate(i.row)
                 /\ PatchIsValid(ToolPatch(ItemToEntry(i), p))
                 /\ Edit(c, ItemToEntry(i), ToolPatch(ItemToEntry(i), p))
        /\ UNCHANGED <<table, lagging, ids, gone>>

(* Broken variant of Replaceable: puts without a condition.                *)
ReplaceableBlindly(prev, next) == TRUE

(* UpdateEntry: one conditional put where the row stays under its key, a   *)
(* transaction that empties the old key where the transaction date moved.  *)
Replaceable(prev, next) ==
    LET oldKey == EntryToItem(prev).sk
        newKey == EntryToItem(next).sk
    IN  IF oldKey = newKey
        THEN T!Exists(table, oldKey)
        ELSE T!TransactionHolds(table, {oldKey}, {EntryToItem(next)}, {oldKey})

Replaced(prev, next) ==
    LET oldKey == EntryToItem(prev).sk
        newKey == EntryToItem(next).sk
    IN  IF oldKey = newKey
        THEN T!PutItem(table, EntryToItem(next))
        ELSE T!TransactWriteItems(table, {oldKey}, {EntryToItem(next)})

UpdateEntry(c) ==
    /\ calls[c].at = "write"
    /\ LET prev == calls[c].prev
           next == calls[c].next
       IN  \/ /\ Valid(next)
              /\ Replaceable(prev, next)
              /\ Write(Replaced(prev, next))
              /\ End(c)
           \/ /\ Valid(next)
              /\ ~Replaceable(prev, next)
              /\ Miss(c, prev.id)
              /\ UNCHANGED <<table, lagging>>
    /\ UNCHANGED <<ids, gone, made>>

(* A rejected patch, a request that fails, a caller that dies.             *)
Abandon(c) == /\ calls[c].at = "write"
              /\ End(c)
              /\ UNCHANGED <<table, lagging, ids, gone, made>>

-----------------------------------------------------------------------------
(* DELETE /entries/{date}/{id}, conditional on the row being there.        *)
DeleteEntry(c) == \E day \in Days, id \in 1..ids :
    LET key == <<day, id>>
    IN  /\ Begin(c)
        /\ \/ /\ T!Exists(table, key)
              /\ Write(T!DeleteItem(table, key))
              /\ gone' = gone \cup {id}
              /\ End(c)
           \/ /\ ~T!Exists(table, key)
              /\ Miss(c, id)
              /\ UNCHANGED <<table, lagging, gone>>
        /\ UNCHANGED ids

(* The last write reaches the replicas and the indexes.                    *)
Propagate == /\ lagging # table
             /\ lagging' = table
             /\ UNCHANGED <<table, calls, ids, gone, made>>

Step(c) == \/ Create(c)
           \/ CreateByTool(c)
           \/ GetEntry(c)
           \/ FindEntryByID(c)
           \/ UpdateEntry(c)
           \/ Abandon(c)
           \/ DeleteEntry(c)

Next == Propagate \/ \E c \in Callers : Step(c)

Spec == Init /\ [][Next]_ledgerVars
=============================================================================
