------------------------------ MODULE Extracts ------------------------------
(***************************************************************************)
(* What an acquirer's extracts become: the envelope that is assembled of   *)
(* them (packages/payments/pagbank/assemble.go), the sales, receivables    *)
(* and payments that the parser finds in it (parser.go), what is refused   *)
(* (packages/payments/domain.go, service.go), and the keys of the rows     *)
(* (dynamodb.go).                                                          *)
(*                                                                         *)
(* A line of an extract is a record with its kind; `due' is the day a      *)
(* parcela is expected or was paid, `parcela' and `of' are numbers, and    *)
(* Nobody is a field that is empty or unreadable.  Days and months are     *)
(* those of Months, amounts are centavos; brands and raw codes are data.   *)
(***************************************************************************)
EXTENDS Integers, SequencesExt

CONSTANTS MonthLengths, Nobody

Calendar == INSTANCE Months WITH DaysInWeek <- 1, WindowWeeks <- 1

Sold == 1   \* tipoEventoVenda: a sale or its payment

-----------------------------------------------------------------------------
(* Assemble: the lines of all files, kind by kind in the order given.      *)

Dates(line) == {line.sold, line.due} \ {Nobody}

DatesOf(lines) == UNION {Dates(line) : line \in ToSet(lines)}

LatestDate(lines) == Max(DatesOf(lines))

(* rebaseRecords: every date moves by the months that bring the newest one *)
(* into the month asked for.                                               *)
Shift(day, months) == IF day = Nobody THEN Nobody ELSE Calendar!AddMonths(day, months)

Rebased(lines, month) ==
    LET months == month - Calendar!MonthOf(LatestDate(lines))
    IN  [k \in DOMAIN lines |-> [lines[k] EXCEPT !.sold = Shift(@, months),
                                                 !.due  = Shift(@, months)]]

(* Both of what needs a date fail without one.                             *)
CanAssemble(files, day, month) ==
    day = Nobody \/ month # Nobody => DatesOf(FlattenSeq(files)) # {}

(* The envelope, and the import it is one of: the day that was asked for,  *)
(* or the newest one in the lines.                                         *)
Assemble(files, day, month) ==
    LET all   == FlattenSeq(files)
        lines == IF month = Nobody THEN all ELSE Rebased(all, month)
    IN  [day |-> IF day = Nobody THEN LatestDate(lines) ELSE day, lines |-> lines]

-----------------------------------------------------------------------------
(* Parse.                                                                  *)

SaleLines(lines, kind) ==
    SelectSeq(lines, LAMBDA line : line.kind = kind /\ line.event = Sold)

(* parseInstallments, parseParcela: at least one.                          *)
AtLeastOne(n) == IF n = Nobody \/ n < 1 THEN 1 ELSE n

MapMeioPagamento(code) == CASE code \in {3, 14}    -> "credito"
                            [] code \in {1, 8, 15} -> "debito"
                            [] code = 11           -> "pix"
                            [] code = 2            -> "boleto"
                            [] OTHER               -> "outros"

(* The line that a sale is read from: the first of its code.               *)
FirstLines(lines) ==
    LET sold == SaleLines(lines, "transactional")
    IN  {sold[k] : k \in {n \in DOMAIN sold :
                             \A j \in 1..(n - 1) : sold[j].code # sold[n].code}}

Sales(lines) ==
    {[id |-> line.code, day |-> line.sold, gross |-> line.gross, net |-> line.net,
      fee |-> line.gross - line.net, method |-> MapMeioPagamento(line.method),
      installments |-> AtLeastOne(line.of)] : line \in FirstLines(lines)}

ReceivableOf(line) ==
    [id |-> line.code, day |-> line.due, amount |-> line.amount,
     number |-> AtLeastOne(line.parcela), total |-> AtLeastOne(line.of)]

(* Broken variant of Receivables: one for each sale.                       *)
ReceivablesOfSales(lines) ==
    [k \in DOMAIN SetToSeq(FirstLines(lines)) |->
        ReceivableOf(SetToSeq(FirstLines(lines))[k])]

(* One for each line: a sale in parcelas has a line for each of them.      *)
Receivables(lines) ==
    LET sold == SaleLines(lines, "transactional")
    IN  [k \in DOMAIN sold |-> ReceivableOf(sold[k])]

Payments(lines) ==
    LET paid == SaleLines(lines, "financial")
    IN  [k \in DOMAIN paid |->
            [id |-> paid[k].code, day |-> paid[k].due, amount |-> paid[k].amount,
             number |-> AtLeastOne(paid[k].parcela)]]

(* One line that cannot be read refuses the envelope.                      *)
Parses(lines) ==
    /\ \A kind \in {"transactional", "financial"} :
          \A line \in ToSet(SaleLines(lines, kind)) :
             line.code # Nobody /\ line.due # Nobody
    /\ \A line \in FirstLines(lines) : line.sold # Nobody

-----------------------------------------------------------------------------
(* The rows: what an item is known by.                                     *)

SaleKey(s) == <<"sale", s.day, s.id>>
RecvKey(r) == <<"recv", r.day, r.id, r.number>>
PayKey(p)  == <<"pay",  p.day, p.id, p.number>>

SaleKeys(lines) == {SaleKey(s) : s \in Sales(lines)}
RecvKeys(lines) == {RecvKey(r) : r \in ToSet(Receivables(lines))}
PayKeys(lines)  == {PayKey(p)  : p \in ToSet(Payments(lines))}

(* ValidateImportResult: amounts of sales are not negative, and no two     *)
(* items share a key.                                                      *)
ValidImport(lines) ==
    /\ Parses(lines)
    /\ \A s \in Sales(lines) : s.gross >= 0 /\ s.net >= 0
    /\ Cardinality(RecvKeys(lines)) = Len(Receivables(lines))
    /\ Cardinality(PayKeys(lines)) = Len(Payments(lines))

RowKeys(lines) == SaleKeys(lines) \cup RecvKeys(lines) \cup PayKeys(lines)

-----------------------------------------------------------------------------
(* GET /payments/forecast: the ledger's curve with the receivables on top. *)

AmountOn(receivables, days) ==
    MapThenSumSet(LAMBDA r : r.amount, {r \in receivables : r.day \in days})

(* What falls on no day of the curve is credited on its first.             *)
Orphaned(base, receivables) ==
    MapThenSumSet(LAMBDA r : r.amount,
                  {r \in receivables : \A k \in DOMAIN base : base[k].date # r.day})

ReceivedOn(base, receivables, k) ==
    AmountOn(receivables, {base[k].date})
      + (IF k = 1 THEN Orphaned(base, receivables) ELSE 0)

(* Broken variant of Opening: the first day's own entries count twice.     *)
OpeningWithTheDay(base) == base[1].balance

(* What the pharmacy had before the month.                                 *)
Opening(base) == base[1].balance - base[1].in + base[1].out

CombineForecast(base, receivables) ==
    LET Moved(k) == base[k].in + ReceivedOn(base, receivables, k) - base[k].out
    IN  [k \in DOMAIN base |->
            [date |-> base[k].date, in |-> base[k].in, out |-> base[k].out,
             receivable |-> ReceivedOn(base, receivables, k),
             balance |-> Opening(base) + MapThenSumSet(Moved, 1..k)]]
=============================================================================
