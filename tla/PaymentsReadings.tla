-------------------------- MODULE PaymentsReadings --------------------------
(***************************************************************************)
(* The import of Extracts' envelopes and what the dashboard reads of the   *)
(* rows (apps/dashboard-api/internal/payments): PaymentsImport says which  *)
(* version wrote a row, and the version's lines say what is in it.         *)
(***************************************************************************)
EXTENDS PaymentsImport, Extracts

CONSTANTS Files,    \* Files[v]: the extracts that v was assembled of
          LedgerOf  \* LedgerOf[m]: the ledger's cash-flow curve of month m

(* Files that cannot be assembled never become an envelope.                *)
ASSUME FilesAssumption ==
    \A v \in DOMAIN Files : CanAssemble(Files[v], Nobody, Nobody)

(* What the importer makes of the files: the day that the envelope is      *)
(* stored and replaced under, and the items that the parser finds in it.   *)
ImportResult ==
    [v \in DOMAIN Files |->
        LET envelope == Assemble(Files[v], Nobody, Nobody)
        IN  [day         |-> envelope.day,
             valid       |-> ValidImport(envelope.lines),
             sales       |-> Sales(envelope.lines),
             receivables |-> ToSet(Receivables(envelope.lines)),
             payments    |-> ToSet(Payments(envelope.lines)),
             keys        |-> RowKeys(envelope.lines)]]

(* queryRange: the rows of a kind, from day to day.                        *)
RowsBetween(kind, from, to) ==
    {k \in Keys : rows[k] # Nil /\ k[1] = kind /\ k[2] \in from..to}

ListSales(from, to) ==
    {CHOOSE s \in ImportResult[rows[k]].sales : SaleKey(s) = k :
        k \in RowsBetween("sale", from, to)}

ListReceivables(from, to) ==
    {CHOOSE r \in ImportResult[rows[k]].receivables : RecvKey(r) = k :
        k \in RowsBetween("recv", from, to)}

(* Without the number of the parcela, which the row has and the reader     *)
(* does not fill in: two payments of one sale may be equal.                *)
ListPayments(from, to) ==
    LET paid == SetToSeq(RowsBetween("pay", from, to))
    IN  [n \in DOMAIN paid |->
            LET p == CHOOSE p \in ImportResult[rows[paid[n]]].payments : PayKey(p) = paid[n]
            IN  [id |-> p.id, day |-> p.day, amount |-> p.amount]]

(* GET /payments/sales: the totals and the share of each method.           *)
SalesTotals(sales) ==
    [gross |-> MapThenSumSet(LAMBDA s : s.gross, sales),
     net   |-> MapThenSumSet(LAMBDA s : s.net, sales),
     fee   |-> MapThenSumSet(LAMBDA s : s.fee, sales),
     byMethod |-> [m \in {s.method : s \in sales} |->
                      MapThenSumSet(LAMBDA s : s.gross, {s \in sales : s.method = m})]]

(* GET /payments/forecast of a month.                                      *)
Forecast(m) == CombineForecast(LedgerOf[m],
                   ListReceivables(Calendar!FirstDay[m], Calendar!LastDay(m)))

-----------------------------------------------------------------------------
AllDays == 1..Calendar!LastDay(Len(MonthLengths))

AmountOf(lines) == MapThenSumSet(LAMBDA n : lines[n].amount, DOMAIN lines)

(* What the extracts themselves say of the envelopes in the bucket.        *)
Extracted(kind) ==
    MapThenSumSet(LAMBDA v : AmountOf(SaleLines(FlattenSeq(Files[v]), kind)),
                  {object[i] : i \in Imports} \ {Nil})

AllSettled == \A i \in Imports : Quiet(i) /\ ~dirty[i] /\ object[i] \notin Malformed

(* Once every import has run to its end, what the dashboard reads is what  *)
(* the extracts say: each line of a parcela, each liquidation, also two of *)
(* one sale on one day, and each sale once however many lines it has.      *)
EveryLineIsCounted ==
    AllSettled =>
        LET sales == ListSales(1, Max(AllDays))
        IN  /\ AmountOn(ListReceivables(1, Max(AllDays)), AllDays) = Extracted("transactional")
            /\ AmountOf(ListPayments(1, Max(AllDays))) = Extracted("financial")
            /\ \A s, t \in sales : s.id = t.id => s = t
            /\ MapThenSumSet(LAMBDA m : SalesTotals(sales).byMethod[m],
                             DOMAIN SalesTotals(sales).byMethod)
                 = SalesTotals(sales).net + SalesTotals(sales).fee

(* The forecast is the ledger's curve with the receivables on top, also of *)
(* a book half-way through an import: each day has the ledger's balance    *)
(* and what was received so far, and the last day accounts for every       *)
(* receivable there is, wherever its day falls.                            *)
ForecastKeepsTheLedger ==
    \A m \in DOMAIN LedgerOf :
        LET base     == LedgerOf[m]
            all      == ListReceivables(1, Max(AllDays))
            forecast == Forecast(m)
            whole    == CombineForecast(base, all)
        IN  /\ \A k \in DOMAIN base :
                 forecast[k].balance
                   = base[k].balance + AmountOn(all, base[1].date..base[k].date)
            /\ whole[Len(base)].balance = base[Len(base)].balance + AmountOn(all, AllDays)

(* A day's import does not depend on the order its extracts were named in: *)
(* otherwise it would be stored under another day and replace nothing.     *)
FileOrderDoesNotMatter ==
    \A r \in Runs : run[r].step = "read" =>
        LET again == Assemble(Reverse(Files[run[r].version]), Nobody, Nobody)
        IN  /\ again.day = ImportResult[run[r].version].day
            /\ RowKeys(again.lines) = ImportResult[run[r].version].keys

(* Rebased onto another month the extracts keep their plan: line against   *)
(* line the order is the same and so are the months in between, and the    *)
(* newest of their days falls in the month that was asked for.             *)
RebaseKeepsThePlan ==
    \A r \in Runs : run[r].step = "read" =>
        LET lines == FlattenSeq(Files[run[r].version])
        IN  \A m \in Calendar!MonthOf(LatestDate(lines))..Len(MonthLengths) :
              LET envelope == Assemble(Files[run[r].version], Nobody, m)
                  moved    == envelope.lines
                  Between(these, j, k) == Calendar!MonthOf(these[k].due)
                                            - Calendar!MonthOf(these[j].due)
              IN  /\ Calendar!MonthOf(envelope.day) = m
                  /\ \A j, k \in DOMAIN lines :
                        /\ lines[j].due <= lines[k].due => moved[j].due <= moved[k].due
                        /\ Between(moved, j, k) = Between(lines, j, k)

(* Neither the order of the files nor the month they are moved to changes  *)
(* the plan of what is to be received (Assemble, rebaseRecords).           *)
AssemblyKeepsThePlan == FileOrderDoesNotMatter /\ RebaseKeepsThePlan
=============================================================================
