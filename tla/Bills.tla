------------------------------- MODULE Bills -------------------------------
(***************************************************************************)
(* The bills of the day: the alerts and the calm line of the digest, and   *)
(* the list that follows it, cut into messages that fit                    *)
(* (packages/notifications/notifications.go and the rendering half of      *)
(* apps/notifier/internal/notifier/notifier.go).                           *)
(*                                                                         *)
(* A line is its bill and its length in bytes; wording is left out.        *)
(***************************************************************************)
EXTENDS Analysis

CONSTANTS OverdueLookbackMonths,  \* 3 in the code
          MaxOverdue,             \* 3 in the code
          MaxWhatsAppText,        \* 3800 in the code
          HeaderLength, ContinuationLength,
          LineLength(_),          \* bytes of "• " and a bill's text
          RuneStart(_)            \* whether a rune starts at that byte of a line

(* The read of Run: everything due from the look-back to today.            *)
LookBack(ledger, now) ==
    LET m == Larger(1, MonthOf(now) - OverdueLookbackMonths)
    IN  Within(ledger, "effective", FirstDay[m], now)

Pending(S) == {e \in Expenses(S) : e.status = "pending"}

(* pendingBills.                                                           *)
DueOn(S, now)   == {e \in Pending(S) : EffectiveDate(e) = now}
Overdue(S, now) == {e \in Pending(S) : EffectiveDate(e) < now}

(* BillStatus.Quiet.                                                       *)
Quiet(S, now) == DueOn(S, now) = {} /\ Overdue(S, now) = {}

(* DueToday: the biggest first, ties as the ledger lists them.             *)
DueToday(S, now) ==
    Sorted(DueOn(S, now), LAMBDA x, y :
        x.amount > y.amount \/ (x.amount = y.amount /\ x.id > y.id))

(* Evaluate: the day's total, the latest bills that are late, the goal.    *)
Evaluate(S, revenue, goal, now) ==
    LET late == Sorted(Overdue(S, now), LAMBDA x, y :
                    \/ EffectiveDate(x) > EffectiveDate(y)
                    \/ EffectiveDate(x) = EffectiveDate(y) /\ x.id > y.id)
        due  == Total(DueOn(S, now))
    IN     When(due > 0, [kind |-> "due_today", of |-> due])
        \o [k \in 1..Smaller(Len(late), MaxOverdue) |-> [kind |-> "overdue", of |-> late[k].id]]
        \o When(goal.revenue > 0 /\ revenue >= goal.revenue, [kind |-> "goal", of |-> revenue])

(* calmLine: nothing, the bills alone, or the bills and the cash.          *)
CalmLine(S, now, commitments) ==
    IF ~Quiet(S, now) THEN "none"
    ELSE IF commitments = "coberto" THEN "bills_and_cash" ELSE "bills"

(* buildAlertsBody: what is ahead, then how the month closed so far.       *)
Digest(ledger, goals, a, now) ==
    LET S == LookBack(ledger, now)
    IN  [calm |-> CalmLine(S, now, a.cash.commitments),
         alerts |-> Evaluate(S, a.kpis.faturamento, GoalOf(goals, a.month), now),
         ahead |-> AheadLines(a), insights |-> DigestLines(a),
         payload |-> DigestPayload(a), listFollows |-> DueOn(S, now) # {}]

-----------------------------------------------------------------------------
Reserve == Larger(HeaderLength, ContinuationLength) + 2
Budget  == MaxWhatsAppText - Reserve
Ellipsis == 3

ASSUME BillsAssumption == /\ HeaderLength \in Nat /\ ContinuationLength \in Nat
                          /\ MaxWhatsAppText \in Nat /\ Budget > Ellipsis

(* What a message of the list is cut by.                                   *)
LinesHaveALength == \A e : LineLength(e) \in Nat

(* clipLine: down to the budget, ellipsis included, on a rune boundary.    *)
ClipLine(length) ==
    IF Budget <= 0 \/ length <= Budget THEN length
    ELSE Max({k \in 0..Larger(0, Budget - Ellipsis) : RuneStart(k) \/ k = 0}) + Ellipsis

Line(e) == [bill |-> e.id, amount |-> e.amount, length |-> ClipLine(LineLength(e))]
Cost(line) == line.length + 1
SizeOf(chunk) == SumOfRows(chunk, Cost)

(* Whether a line goes into the message that is being filled.              *)
Fits(chunk, line) == chunk = <<>> \/ SizeOf(chunk) + Cost(line) <= Budget

(* chunkLines.                                                             *)
ChunkLines(lines) ==
    FoldLeft(LAMBDA chunks, line :
                 IF chunks # <<>> /\ Fits(Last(chunks), line)
                 THEN Append(Front(chunks), Append(Last(chunks), line))
                 ELSE Append(chunks, <<line>>),
             <<>>, lines)

(* billListMessages: the total of all of them, and every line of the list. *)
BillListMessages(S, now) ==
    LET bills  == DueToday(S, now)
        chunks == ChunkLines([k \in DOMAIN bills |-> Line(bills[k])])
    IN  [k \in DOMAIN chunks |->
            [total  |-> IF k = 1 THEN SumOfRows(bills, Amount) ELSE 0,
             lines  |-> chunks[k],
             length |-> (IF k = 1 THEN HeaderLength ELSE ContinuationLength)
                        + 2 + SizeOf(chunks[k]) - 1]]
=============================================================================
