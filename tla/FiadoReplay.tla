----------------------------- MODULE FiadoReplay -----------------------------
(***************************************************************************)
(* The totals and the replay of fiado.go as the loops they are, compared   *)
(* with the declarative definitions of FiadoMovements over the histories   *)
(* that the store can hold.                                                *)
(***************************************************************************)
EXTENDS Fiado, Orders

oldestFirst(lines) == InOrder(lines, Before)

(* Sum's loop: the total after i lines.                                    *)
SumLoop(lines) ==
    LET line == oldestFirst(lines)
        total[i \in 0 .. Cardinality(lines)] ==
            IF i = 0 THEN 0 ELSE total[i - 1] + line[i].amount
    IN  total[Cardinality(lines)]

(* Broken variant of Replay: every movement under debt dates it anew.      *)
ReplayRedating(acc, m) ==
    LET running == acc.running + m.amount
    IN  [running |-> running, since |-> IF clearSince(running) THEN Nil ELSE m.date]

(* One round of the loop of sinceFromMovements.                            *)
Replay(acc, m) ==
    LET running == acc.running + m.amount
    IN  [running |-> running,
         since |-> IF clearSince(running) THEN Nil
                   ELSE IF clearSince(acc.running) THEN m.date ELSE acc.since]

ReplayLoop(lines) ==
    LET line == oldestFirst(lines)
        after[i \in 0 .. Cardinality(lines)] ==
            IF i = 0 THEN [running |-> 0, since |-> Nil] ELSE Replay(after[i - 1], line[i])
    IN  after[Cardinality(lines)].since

-----------------------------------------------------------------------------
(* Counting centavos and adding amounts give the same balance.             *)
SumIsTheLoop == \A c \in Clients : LET lines == OfClient(clientRows, c)
                                  IN  Sum(lines) = SumLoop(lines)

(* The replay dates a client exactly when money is owed, and with the day  *)
(* that the declarative reading of "the balance last left zero" gives.     *)
ReplayIsTheDefinition ==
    \A c \in Clients : LET history == OfClient(clientRows, c)
                       IN  /\ ReplayLoop(history) = sinceFromMovements(history)
                           /\ ReplayLoop(history) = Nil <=> clearSince(SumLoop(history))

(* "Em aberto ha N dias" is shown only over a debt, never as zero, and it  *)
(* counts from the day of a purchase of that client.                       *)
DaysOpenIsMeasurable ==
    \A c \in Clients, today \in Days \cup {d + 1 : d \in Days} :
      LET history == OfClient(clientRows, c)
          n == DaysOpen(SumLoop(history), ReplayLoop(history), today)
      IN  n # Nil => /\ n >= 1
                     /\ SumLoop(history) > 0
                     /\ \E m \in history : m.amount > 0 /\ m.date = today - n

(* What the store adds up, replays and ages with loops over a client's     *)
(* timeline is what the definitions that the proofs use say (Sum,          *)
(* sinceFromMovements, DaysOpen).                                          *)
LoopsAreTheDefinitions == SumIsTheLoop /\ ReplayIsTheDefinition /\ DaysOpenIsMeasurable
=============================================================================
