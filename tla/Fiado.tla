-------------------------------- MODULE Fiado --------------------------------
(***************************************************************************)
(* The DynamoDB store of the caderninho: packages/fiado/dynamodb.go.       *)
(*                                                                         *)
(* A movement is written twice, under a day key and under a client key.    *)
(* Beside the movements each client has one row, the "latest", with the    *)
(* balance and the day the balance left zero ("desde").  Record and Delete *)
(* move both copies and the balance in one DynamoDB transaction; only      *)
(* afterwards, in settleSince, do they read the row back and repair        *)
(* "desde".  Callers are Lambda invocations that share one ledger, so the  *)
(* steps of two calls interleave, and a call can end at any step: the      *)
(* Lambda is killed, or a request fails and the call returns the error.    *)
(***************************************************************************)
EXTENDS FiadoMovements

CONSTANTS Procs,      \* concurrent callers of the store
          Calls,      \* what happens in a run: "record", "delete", "failure"
          Lost        \* marks a client whose last repair was abandoned

ASSUME CallsAssumption == Calls \subseteq {"record", "delete", "failure"}
ASSUME LostAssumption == Lost # Nil /\ Lost \notin Procs /\ Nil \notin Procs

VARIABLES dayRows,     \* movements stored under FIADODIA#<date>#<client>#<id>
          clientRows,  \* movements stored under FIADOCLI#<client>#<date>#<id>
          latest,      \* latest[c]: the row FIADO#<client>, or Nil
          call,        \* call[p]: where caller p is, and its locals
          issued,      \* every movement built so far (ULIDs are never reused)
          opened,      \* history: "desde" as a store without interleaving keeps it
          pending      \* history: who still owes client c a repair

rows  == <<dayRows, clientRows, latest>>
ghost == <<opened, pending>>
vars  == <<dayRows, clientRows, latest, call, issued, opened, pending>>

Debtor == [balance : Int, since : Days \cup {Nil}]

ASSUME NilAssumption == Nil \notin Debtor

Steps == {"idle", "record", "lookup", "delete", "settle", "replay", "repair"}

Starting(step, m) == [step |-> step, mov |-> m, balance |-> 0, since |-> Nil]

Idle == Starting("idle", Nil)

Call == [step : Steps, mov : Movement \cup {Nil}, balance : Int,
         since : Days \cup {Nil}]

TypeOK == /\ dayRows \subseteq Movement
          /\ clientRows \subseteq Movement
          /\ latest \in [Clients -> Debtor \cup {Nil}]
          /\ call \in [Procs -> Call]
          /\ \A p \in Procs : call[p].step # "idle" => call[p].mov \in Movement
          /\ issued \subseteq Movement
          /\ opened \in [Clients -> Days \cup {Nil}]
          /\ pending \in [Clients -> Procs \cup {Nil, Lost}]

Balance(c) == IF latest[c] = Nil THEN 0 ELSE latest[c].balance
Since(c)   == IF latest[c] = Nil THEN Nil ELSE latest[c].since

Init == /\ dayRows = {} /\ clientRows = {} /\ issued = {}
        /\ latest = [c \in Clients |-> Nil]
        /\ call = [p \in Procs |-> Idle]
        /\ opened = [c \in Clients |-> Nil]
        /\ pending = [c \in Clients |-> Nil]

-----------------------------------------------------------------------------
At(p, step) == call[p].step = step
Client(p)   == call[p].mov.client
Goto(p, c)  == call' = [call EXCEPT ![p] = c]
Step(p, s)  == Goto(p, [call[p] EXCEPT !.step = s])

(* Returning from settleSince ends p's duty to repair its client's row.    *)
Return(p) == /\ Goto(p, Idle)
             /\ pending' = [pending EXCEPT ![Client(p)] = IF @ = p THEN Nil ELSE @]

(* "Desde" as the in-memory store keeps it, where a write and its repair   *)
(* are one critical section: set by the movement that takes the balance    *)
(* out of zero, cleared when it comes back, replayed from the remaining    *)
(* lines when a deletion reopens it.                                       *)
OpenedAfter(was, from, to, reopening) ==
    IF clearSince(to) THEN Nil
    ELSE IF clearSince(from) THEN reopening ELSE was

(* A transaction on client c by p: p owes the repair now.                  *)
Moved(p, c) == pending' = [pending EXCEPT ![c] = p]

-----------------------------------------------------------------------------
NextIdReused == Cardinality(dayRows) + 1   \* broken: ids of erased lines come back

(* newID: the next ULID.                                                   *)
NextId == Cardinality(issued) + 1

(* NewMovement and the guards of Record: the movement is built and         *)
(* validated, nothing is written yet.                                      *)
BeginRecord(p) ==
    /\ "record" \in Calls
    /\ At(p, "idle")
    /\ Cardinality(issued) < MaxMovements
    /\ \E c \in Clients, d \in Days, a \in Amounts :
         LET m == [id |-> NextId, client |-> c, date |-> d, amount |-> a]
         IN  /\ ValidAmount(a)
             /\ issued' = issued \cup {m}
             /\ Goto(p, Starting("record", m))
    /\ UNCHANGED <<rows, ghost>>

(* SET Since = if_not_exists(Since, date), and a broken variant without    *)
(* the condition.                                                          *)
SinceOverwritten(c, date) == date
SinceIfNotExists(c, date) == IF Since(c) = Nil THEN date ELSE Since(c)

(* The TransactWriteItems of Record: both copies, the day the balance left *)
(* zero unless one is there, and ADD Balance amount.                       *)
RecordTransaction(p) ==
    LET m    == call[p].mov
        c    == m.client
        next == Balance(c) + m.amount
        day  == SinceIfNotExists(c, m.date)
    IN  /\ At(p, "record")
        /\ dayRows' = dayRows \cup {m}
        /\ clientRows' = clientRows \cup {m}
        /\ latest' = [latest EXCEPT ![c] = [balance |-> next, since |-> day]]
        /\ opened' = [opened EXCEPT ![c] = OpenedAfter(@, Balance(c), next, m.date)]
        /\ Step(p, "settle")
        /\ Moved(p, c)
        /\ UNCHANGED issued

(* Delete is asked for one of the movements a listing has shown.           *)
BeginDelete(p) ==
    /\ "delete" \in Calls
    /\ At(p, "idle")
    /\ \E m \in issued : Goto(p, Starting("lookup", m))
    /\ UNCHANGED <<rows, issued, ghost>>

(* movement(): the consistent read that learns the amount.                 *)
LookupMovement(p) ==
    /\ At(p, "lookup")
    /\ IF call[p].mov \in clientRows THEN Step(p, "delete") ELSE Goto(p, Idle)
    /\ UNCHANGED <<rows, issued, ghost>>

(* Broken variant of Deletable: only the balance update is conditional.    *)
DeletableByRow(m) == latest[m.client] # Nil

(* The conditions of Delete's transaction.                                 *)
Deletable(m) == m \in dayRows /\ m \in clientRows /\ latest[m.client] # Nil

(* Its two deletes.                                                        *)
EraseCopies(m) == clientRows' = clientRows \ {m} /\ dayRows' = dayRows \ {m}

DeleteTransaction(p) ==
    LET m    == call[p].mov
        c    == m.client
        next == Balance(c) - m.amount
        left == OfClient(clientRows \ {m}, c)
    IN  /\ At(p, "delete")
        /\ Deletable(m)
        /\ EraseCopies(m)
        /\ latest' = [latest EXCEPT ![c].balance = next]
        /\ opened' = [opened EXCEPT
                        ![c] = OpenedAfter(@, Balance(c), next, sinceFromMovements(left))]
        /\ Step(p, "settle")
        /\ Moved(p, c)
        /\ UNCHANGED issued

(* A condition of the transaction failed: ErrMovementNotFound.             *)
DeleteNotFound(p) ==
    /\ At(p, "delete")
    /\ ~Deletable(call[p].mov)
    /\ Goto(p, Idle)
    /\ UNCHANGED <<rows, issued, ghost>>

-----------------------------------------------------------------------------
(* settleSince: the consistent read of the row, and what it decides.       *)
SettleClear(p) ==
    /\ At(p, "settle")
    /\ clearSince(Balance(Client(p))) /\ Since(Client(p)) # Nil
    /\ Goto(p, [call[p] EXCEPT !.step = "repair", !.balance = Balance(Client(p)),
                               !.since = Nil])
    /\ UNCHANGED <<rows, issued, ghost>>

(* Broken variant of SettleReopen: a reopened debt stays undated.          *)
SettleReopenUndated(p) ==
    /\ At(p, "settle")
    /\ ~clearSince(Balance(Client(p))) /\ Since(Client(p)) = Nil
    /\ Return(p)
    /\ UNCHANGED <<rows, issued, opened>>

SettleReopen(p) ==
    /\ At(p, "settle")
    /\ ~clearSince(Balance(Client(p))) /\ Since(Client(p)) = Nil
    /\ Goto(p, [call[p] EXCEPT !.step = "replay", !.balance = Balance(Client(p))])
    /\ UNCHANGED <<rows, issued, ghost>>

SettleNothing(p) ==
    /\ At(p, "settle")
    /\ clearSince(Balance(Client(p))) <=> Since(Client(p)) = Nil
    /\ Return(p)
    /\ UNCHANGED <<rows, issued, opened>>

(* sinceFromHistory: the client's movements are read and replayed.         *)
ReplayHistory(p) ==
    LET since == sinceFromMovements(OfClient(clientRows, Client(p)))
    IN  /\ At(p, "replay")
        /\ IF since = Nil
           THEN Return(p)
           ELSE /\ Goto(p, [call[p] EXCEPT !.step = "repair", !.since = since])
                /\ UNCHANGED pending
        /\ UNCHANGED <<rows, issued, opened>>

(* writeSince: SET or REMOVE Since while the balance is still the one      *)
(* read; a failed condition is swallowed.                                  *)
RepairAlwaysLands(p) == TRUE   \* broken variant of RepairLands
RepairLands(p) == Balance(Client(p)) = call[p].balance

WriteSince(p) ==
    /\ At(p, "repair")
    /\ latest' = IF RepairLands(p)
                 THEN [latest EXCEPT ![Client(p)].since = call[p].since]
                 ELSE latest
    /\ Return(p)
    /\ UNCHANGED <<dayRows, clientRows, issued, opened>>

(* A call ends early: killed, or a request failed and the error returned.  *)
(* A transaction that timed out after it committed is this step at         *)
(* "settle".                                                               *)
Fail(p) ==
    /\ "failure" \in Calls
    /\ ~At(p, "idle")
    /\ Goto(p, Idle)
    /\ pending' = [pending EXCEPT ![Client(p)] = IF @ = p THEN Lost ELSE @]
    /\ UNCHANGED <<rows, issued, opened>>

-----------------------------------------------------------------------------
Record(p) == BeginRecord(p) \/ RecordTransaction(p)

Delete(p) == \/ BeginDelete(p) \/ LookupMovement(p)
             \/ DeleteTransaction(p) \/ DeleteNotFound(p)

settleSince(p) == \/ SettleClear(p) \/ SettleReopen(p) \/ SettleNothing(p)
                  \/ ReplayHistory(p) \/ WriteSince(p)

Next == \E p \in Procs : Record(p) \/ Delete(p) \/ settleSince(p) \/ Fail(p)

Spec == Init /\ [][Next]_vars

(* A call that has begun runs on: nothing but a failure stops the handler  *)
(* between two of its requests.  Callers need not call.                    *)
Running(p) == \/ RecordTransaction(p) \/ LookupMovement(p)
              \/ DeleteTransaction(p) \/ DeleteNotFound(p) \/ settleSince(p)

FairSpec == Spec /\ \A p \in Procs : WF_vars(Running(p))

-----------------------------------------------------------------------------
(* The balance of a client's row is always the sum of that client's        *)
(* movements, whoever wrote them and wherever a call was cut short: the    *)
(* blind ADD loses no concurrent movement.                                 *)
BalanceIsSum == \A c \in Clients : Balance(c) = Sum(OfClient(clientRows, c))

(* What the balance rests on.  An id is given once; a movement about to be *)
(* written is in no row yet and in no other call's hands; a client with a  *)
(* movement, or with a repair in progress, has a row.                      *)
IdsAreFresh == /\ IsFiniteSet(issued)
               /\ \A m \in issued : m.id <= Cardinality(issued)

Provenance ==
    /\ clientRows \subseteq issued
    /\ \A p \in Procs : ~At(p, "idle") => call[p].mov \in issued
    /\ \A p \in Procs : At(p, "record") => call[p].mov \notin clientRows
    /\ \A p, q \in Procs :
         At(p, "record") /\ At(q, "record") /\ p # q => call[p].mov # call[q].mov

RowsExist ==
    /\ \A m \in clientRows : latest[m.client] # Nil
    /\ \A p \in Procs :
         call[p].step \in {"settle", "replay", "repair"} => latest[Client(p)] # Nil

(* Every movement is in both timelines or in neither, so "fiados do dia"   *)
(* and a client's statement never disagree about a line.                   *)
CopiesAgree == dayRows = clientRows

IInv == /\ TypeOK /\ IdsAreFresh /\ Provenance /\ RowsExist
        /\ CopiesAgree /\ BalanceIsSum

(* Once the last movement of a client has run its repair to the end, the   *)
(* row has a "desde" exactly when money is owed, whatever older repairs    *)
(* are still in flight.                                                    *)
SettledSince ==
    \A c \in Clients :
      pending[c] = Nil => (Since(c) = Nil <=> clearSince(Balance(c)))

(* "Desde" is the day the balance left zero: with no call in progress the  *)
(* row says what a store without interleaving would say.                   *)
SinceIsOpeningDay ==
    (\A p \in Procs : At(p, "idle")) =>
      \A c \in Clients : pending[c] = Nil => Since(c) = opened[c]

(* A debt that has lost its "desde" (a deletion reopened it) is dated      *)
(* again, and a settled client stops being shown as owing since some day,  *)
(* as long as no call fails.                                               *)
DesdeIsRepaired ==
    \A c \in Clients :
      (Since(c) = Nil <=> ~clearSince(Balance(c)))
        ~> (Since(c) = Nil <=> clearSince(Balance(c)))

(* The store implements the abstract book: the repair steps and everything *)
(* about "desde" are stuttering steps of it.                               *)
Book == INSTANCE Caderninho WITH lines <- clientRows,
                                 balance <- [c \in Clients |-> Balance(c)]
ImplementsBook == Book!BookSpec
=============================================================================
