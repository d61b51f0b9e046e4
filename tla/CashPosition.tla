---------------------------- MODULE CashPosition ----------------------------
(***************************************************************************)
(* The runway: the booked curve of the month, credited from today on with  *)
(* what an ordinary day still receives                                     *)
(* (packages/finance/analytics/cashposition.go).                           *)
(***************************************************************************)
EXTENDS Projection

(* expectedExtraIncome: what an ordinary day receives beyond what this one *)
(* has booked already.                                                     *)
ExpectedExtra(point, rates) == Larger(0, rates[Weekday(point.date)].avg - point.in)

ExtraFrom(points, rates, now, k) ==
    IF points[k].date >= now THEN ExpectedExtra(points[k], rates) ELSE 0

(* The curve, one DayCash for each day of the month.                       *)
Forecast(points, rates, now) ==
    LET extra(k) == ExtraFrom(points, rates, now, k)
    IN  [k \in DOMAIN points |->
            [date |-> points[k].date,
             balance |-> points[k].balance + MapThenSumSet(extra, 1..k),
             in |-> points[k].in, out |-> points[k].out, expected |-> extra(k)]]

BalanceToday(points, now) ==
    IF \E k \in DOMAIN points : points[k].date = now
    THEN (CHOOSE p \in ToSet(points) : p.date = now).balance ELSE 0

(* Broken variant of CommitmentCoverage: only looks at crossings ahead.    *)
CommitmentCoverageAhead(expects, lowest, untilNegative) ==
    IF ~expects THEN "sem_historico"
    ELSE IF untilNegative # Nobody THEN "descoberto" ELSE "coberto"

(* commitmentCoverage: whether the balance coming in covers the bills.     *)
CommitmentCoverage(expects, lowest, untilNegative) ==
    IF ~expects THEN "sem_historico"
    ELSE IF lowest < 0 THEN "descoberto" ELSE "coberto"

(* buildCashPosition, over a curve.  The trough starts at today's balance, *)
(* the crossing is looked for after today, tomorrow only exists inside the *)
(* month.                                                                  *)
PositionOn(curve, today, expects, now) ==
    LET lowest == Min({d.balance : d \in ToSet(curve)} \cup {today})
        dips   == {d \in ToSet(curve) : d.balance < 0 /\ d.date > now}
        until  == IF dips = {} THEN Nobody ELSE Min({d.date : d \in dips}) - now
    IN  [currentBalance |-> today,
         endOfMonth     |-> curve[Len(curve)].balance,
         untilNegative  |-> until,
         lowest         |-> lowest,
         lowestDate     |-> IF lowest = today THEN now
                            ELSE Min({d.date : d \in {x \in ToSet(curve) : x.balance = lowest}}),
         expects        |-> expects,
         commitments    |-> CommitmentCoverage(expects, lowest, until),
         nextDay        |-> {d \in ToSet(curve) : d.date = now + 1},
         forecast       |-> curve]

BuildCashPosition(points, rates, now) ==
    IF points = <<>>
    THEN [currentBalance |-> 0, endOfMonth |-> 0, untilNegative |-> Nobody,
          lowest |-> 0, lowestDate |-> now, expects |-> FALSE,
          commitments |-> "sem_historico", nextDay |-> {}, forecast |-> <<>>]
    ELSE PositionOn(Forecast(points, rates, now), BalanceToday(points, now),
                    Sample(rates) > 0, now)
=============================================================================
