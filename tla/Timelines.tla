----------------------------- MODULE Timelines -----------------------------
(***************************************************************************)
(* The statements of the caderninho: consultar_fiado and fiados_do_dia     *)
(* (packages/fiado/tools.go), GET /fiado/{cliente}/movimentos and          *)
(* GET /fiado/movimentos (apps/dashboard-api/internal/fiado), and the      *)
(* timelines of both stores that they page through.  They are read while   *)
(* others write; the writers are those of the abstract book, which the     *)
(* module Fiado is shown to implement.                                     *)
(*                                                                         *)
(* A timeline is a client's, most recent first, or a day's, in the order   *)
(* of its key: by client, then by id.  A client is a number, in the order  *)
(* of the slugs.  A cursor is the movement it names.                       *)
(***************************************************************************)
EXTENDS SequencesExt, Orders, Caderninho

CONSTANTS MaxDetail,  \* maxMovementsInTool
          PageLimit,  \* the limit a client of the API asks for
          Nowhere     \* no cursor

TimelinesAssumption == /\ Clients \subseteq Nat
                       /\ IsFiniteSet(Days)
                       /\ MaxDetail \in Nat
                       /\ PageLimit \in Nat \ {0}
                       /\ Nowhere \notin Movement

VARIABLES drawn,   \* ids given, never given again
          known,   \* the clients that have an account
          reading, \* a question of the assistant, or a walk through a timeline
          calm     \* history: the lines that were there all through the walk

timelinesVars == <<bookVars, drawn, known, reading, calm>>

Unread == [at |-> "rest"]

ClientTimeline(c) == [of |-> "client", client |-> c]
DayTimeline(d)    == [of |-> "day", date |-> d]

AllTimelines == {ClientTimeline(c) : c \in Clients} \cup {DayTimeline(d) : d \in Days}

RowsOf(t) == IF t.of = "client" THEN OfClient(lines, t.client)
             ELSE {m \in lines : m.date = t.date}

(* Broken variant of Precedes: by day, in no order within one.             *)
PrecedesByDay(m, n, t) ==
    IF t.of = "client" THEN m.date > n.date
    ELSE m.client < n.client \/ (m.client = n.client /\ m.id < n.id)

(* clientSK read backwards, daySK read forwards.                           *)
Precedes(m, n, t) ==
    IF t.of = "client" THEN Before(n, m)
    ELSE m.client < n.client \/ (m.client = n.client /\ m.id < n.id)

(* The rows a Query returns; its ExclusiveStartKey need not exist any more.*)
RowsAfter(t, cursor) ==
    InOrder({m \in RowsOf(t) : cursor # Nowhere => Precedes(cursor, m, t)},
            LAMBDA m, n : Precedes(m, n, t))

Page(rows, limit) == IF limit > 0 /\ Len(rows) > limit THEN SubSeq(rows, 1, limit) ELSE rows

(* timeline of the DynamoDB store.  A Query that stopped at its limit says *)
(* where, and it may say so where there is nothing left.                   *)
Continues(rows, limit) == IF Len(rows) < limit THEN {FALSE}
                          ELSE IF Len(rows) > limit THEN {TRUE} ELSE BOOLEAN

(* timeline of the in-memory store: the cursor is looked for in all rows.  *)
MemoryRows(t) == InOrder(RowsOf(t), LAMBDA m, n : Precedes(m, n, t))

MemoryStart(t, cursor) ==
    IF cursor = Nowhere THEN 1 ELSE SelectInSeq(MemoryRows(t), LAMBDA m : m = cursor) + 1

MemoryTimeline(t, cursor, limit) ==
    Page(SubSeq(MemoryRows(t), MemoryStart(t, cursor), Len(MemoryRows(t))), limit)

-----------------------------------------------------------------------------
(* The tools: every movement counts, the most recent ones are shown.       *)

(* Broken variant of Detail: the totals of what is shown.                  *)
DetailOfShown(rows) ==
    [movimentos |-> Page(rows, MaxDetail), todos |-> Len(rows),
     comprado |-> Taken(Range(Page(rows, MaxDetail))),
     pago     |-> Paid(Range(Page(rows, MaxDetail)))]

Detail(rows) ==
    [movimentos |-> Page(rows, MaxDetail), todos |-> Len(rows),
     comprado |-> Taken(Range(rows)), pago |-> Paid(Range(rows))]

FiadosDoDia(d) == Detail(RowsAfter(DayTimeline(d), Nowhere))

(* consultar_fiado reads the balance first and the whole history after; a  *)
(* name that is not in the book is a question.                             *)
ReadDebtor == \E c \in known :
    /\ reading = Unread
    /\ reading' = [at |-> "asked", client |-> c, saldo |-> balance[c]]
    /\ calm' = OfClient(lines, c)
    /\ UNCHANGED <<bookVars, drawn, known>>

Statement == Detail(RowsAfter(ClientTimeline(reading.client), Nowhere))

ConsultarFiado ==
    /\ reading.at = "asked"
    /\ reading' = Unread
    /\ calm' = {}
    /\ UNCHANGED <<bookVars, drawn, known>>

-----------------------------------------------------------------------------
(* GET .../movimentos, page after page.                                    *)

OpenTimeline == \E t \in AllTimelines :
    /\ reading = Unread
    /\ reading' = [at |-> "open", timeline |-> t, cursor |-> Nowhere, seen |-> <<>>]
    /\ calm' = RowsOf(t)
    /\ UNCHANGED <<bookVars, drawn, known>>

ReadPage ==
    /\ reading.at = "open"
    /\ LET rows == RowsAfter(reading.timeline, reading.cursor)
           page == Page(rows, PageLimit)
       IN  \E more \in Continues(rows, PageLimit) :
             reading' = [reading EXCEPT !.at = IF more THEN "open" ELSE "walked",
                                        !.cursor = IF more THEN Last(page) ELSE Nowhere,
                                        !.seen = @ \o page]
    /\ UNCHANGED <<bookVars, drawn, known, calm>>

(* The writers: Store.Record and Store.Delete, as the book promises them.  *)
Write == \E m \in Movement :
    /\ m.id = drawn + 1
    /\ Enter(m)
    /\ drawn' = m.id
    /\ known' = known \cup {m.client}
    /\ UNCHANGED <<reading, calm>>

Erasure == \E m \in lines :
    /\ Erase(m)
    /\ calm' = IF reading.at = "open" THEN calm \ {m} ELSE calm
    /\ UNCHANGED <<drawn, known, reading>>

Init == /\ BookInit
        /\ drawn = 0
        /\ known = {}
        /\ reading = Unread
        /\ calm = {}

Next == ReadDebtor \/ ConsultarFiado \/ OpenTimeline \/ ReadPage \/ Write \/ Erasure

Spec == Init /\ [][Next]_timelinesVars

-----------------------------------------------------------------------------
(* The shape of the state.                                                 *)
TypeOK == /\ lines \subseteq Movement
          /\ \A m, n \in lines : m.id = n.id => m = n
          /\ \A m \in lines : m.id <= drawn /\ m.client \in known
          /\ reading.at \in {"rest", "asked", "open", "walked"}

(* What consultar_fiado answers adds up: bought minus paid is the balance, *)
(* however much of the history is cut.  Only a movement of that client     *)
(* that came or went between the two reads makes a difference, and just    *)
(* its own amount.                                                         *)
StatementAddsUp ==
    reading.at = "asked" =>
        LET now == OfClient(lines, reading.client)
        IN  Statement.comprado - Statement.pago - reading.saldo
              = Sum(now \ calm) - Sum(calm \ now)

(* The answer fits the state it was read from.                             *)
StatementInv == TypeOK /\ StatementAddsUp

(* A statement walked page by page shows each movement that was there all  *)
(* along exactly once, with others written, backdated and deleted on the   *)
(* way, also where the deleted one was the cursor.                         *)
StatementShowsOnce ==
    reading.at \in {"open", "walked"} =>
        \A m \in calm :
            LET shown == {n \in DOMAIN reading.seen : reading.seen[n] = m}
            IN  /\ Cardinality(shown) <= 1
                /\ reading.at = "walked" => Cardinality(shown) = 1

(* Both stores page alike, from any cursor that still names a movement;    *)
(* and the days of the caderninho add up to what its clients owe.  Reading *)
(* moves no line, so it is enough to look while nobody reads.              *)
TimelinesAgree ==
  reading = Unread =>
    /\ \A t \in AllTimelines, limit \in {0, PageLimit} :
         \A cursor \in {Nowhere} \cup RowsOf(t) :
            Page(RowsAfter(t, cursor), limit) = MemoryTimeline(t, cursor, limit)
    /\ MapThenSumSet(LAMBDA d : FiadosDoDia(d).comprado - FiadosDoDia(d).pago, Days)
         = MapThenSumSet(LAMBDA c : balance[c], known)
=============================================================================
