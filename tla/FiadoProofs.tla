---------------------------- MODULE FiadoProofs ----------------------------
(***************************************************************************)
(* Theorems about the caderninho's store, for every set of clients, days,  *)
(* amounts and callers.                                                    *)
(***************************************************************************)
EXTENDS FiadoReplay, FiniteSetTheorems, WellFoundedInduction, TLAPS

-----------------------------------------------------------------------------
(* Counting centavos.  Owed(S, s) is the set that Taken (s = 1) and Paid   *)
(* (s = -1) count.                                                         *)
Owed(S, s) == {u \in S \X Centavos : u[2] <= s * u[1].amount}

Part(a) == IF a > 0 THEN a ELSE 0

LEMMA MovementFields ==
  ASSUME NEW m \in Movement
  PROVE  /\ m.id \in Ids /\ m.client \in Clients /\ m.date \in Days
         /\ m.amount \in Int /\ m.amount <= MaxAmount /\ -(m.amount) <= MaxAmount
<1>1. /\ m.id \in Ids /\ m.client \in Clients /\ m.date \in Days
      /\ m.amount \in Amounts /\ m.amount \in (-MaxAmount .. MaxAmount) \ {0}
  BY DEF Movement
<1>2. m.amount \in Int
  BY <1>1, AmountsAssumption
<1>3. m.amount <= MaxAmount /\ m.amount >= -MaxAmount
  BY <1>1, MaxAmountAssumption
<1> QED
  BY <1>1, <1>2, <1>3, MaxAmountAssumption

(* The centavos of one valid movement are as many as its amount.           *)
LEMMA OneMovement ==
  ASSUME NEW m \in Movement, NEW s \in {1, -1}
  PROVE  /\ IsFiniteSet(Owed({m}, s))
         /\ Cardinality(Owed({m}, s)) = Part(s * m.amount)
<1> DEFINE a == Part(s * m.amount)
<1>1. m.amount \in Int /\ m.amount <= MaxAmount /\ -(m.amount) <= MaxAmount
  BY MovementFields
<1>2. a \in 0 .. MaxAmount
  BY <1>1, MaxAmountAssumption DEF Part
<1>3. Owed({m}, s) = {m} \X (1 .. a)
  BY <1>1, <1>2, MaxAmountAssumption DEF Owed, Centavos, Part
<1>4. IsFiniteSet({m}) /\ Cardinality({m}) = 1
  BY FS_Singleton
<1>5. IsFiniteSet(1 .. a) /\ Cardinality(1 .. a) = a
  <2>1. 1 \in Int /\ a \in Int
    BY <1>2, MaxAmountAssumption
  <2>2. /\ IsFiniteSet(1 .. a)
        /\ Cardinality(1 .. a) = IF 1 > a THEN 0 ELSE a - 1 + 1
    BY <2>1, FS_Interval
  <2> QED
    BY <2>2, <1>2, MaxAmountAssumption
<1>6. /\ IsFiniteSet({m} \X (1 .. a))
      /\ Cardinality({m} \X (1 .. a)) = 1 * a
  <2> DEFINE A == {m}
             B == 1 .. a
  <2>1. IsFiniteSet(A) /\ IsFiniteSet(B) /\ Cardinality(A) = 1 /\ Cardinality(B) = a
    BY <1>4, <1>5
  <2> HIDE DEF A, B
  <2>2. IsFiniteSet(A \X B) /\ Cardinality(A \X B) = Cardinality(A) * Cardinality(B)
    BY <2>1, FS_Product
  <2> QED
    BY <2>1, <2>2 DEF A, B
<1> QED
  BY <1>3, <1>6, <1>2, MaxAmountAssumption

LEMMA OwedFinite ==
  ASSUME NEW S, IsFiniteSet(S), NEW s \in {1, -1}
  PROVE  IsFiniteSet(Owed(S, s)) /\ Cardinality(Owed(S, s)) \in Nat
<1>1. IsFiniteSet(Centavos)
  BY FS_Interval, MaxAmountAssumption DEF Centavos
<1>2. IsFiniteSet(S \X Centavos)
  BY <1>1, FS_Product
<1>3. Owed(S, s) \in SUBSET (S \X Centavos)
  BY DEF Owed
<1>4. IsFiniteSet(Owed(S, s))
  BY <1>2, <1>3, FS_Subset
<1> QED
  BY <1>4, FS_CardinalityType

LEMMA OwedAdd ==
  ASSUME NEW S \in SUBSET Movement, IsFiniteSet(S), NEW m \in Movement,
         m \notin S, NEW s \in {1, -1}
  PROVE  Cardinality(Owed(S \cup {m}, s))
           = Cardinality(Owed(S, s)) + Part(s * m.amount)
<1>1. Owed(S \cup {m}, s) = Owed(S, s) \cup Owed({m}, s)
  BY DEF Owed
<1>2. Owed(S, s) \cap Owed({m}, s) = {}
  BY DEF Owed
<1>3. IsFiniteSet(Owed(S, s)) /\ Cardinality(Owed(S, s)) \in Nat
  BY OwedFinite
<1>4. /\ IsFiniteSet(Owed({m}, s))
      /\ Cardinality(Owed({m}, s)) = Part(s * m.amount)
  BY OneMovement
<1>5. Cardinality(Owed(S, s) \cup Owed({m}, s))
        = Cardinality(Owed(S, s)) + Cardinality(Owed({m}, s))
             - Cardinality(Owed(S, s) \cap Owed({m}, s))
  BY <1>3, <1>4, FS_Union
<1>6. Cardinality(Owed(S, s) \cap Owed({m}, s)) = 0
  BY <1>2, FS_EmptySet
<1>7. Part(s * m.amount) \in Int
  <2>1. m.amount \in Int
    BY MovementFields
  <2> QED
    BY <2>1 DEF Part
<1>8. Cardinality(Owed(S \cup {m}, s)) = Cardinality(Owed(S, s) \cup Owed({m}, s))
  BY <1>1
<1> QED
  BY <1>3, <1>4, <1>5, <1>6, <1>7, <1>8

LEMMA SumIsOwed ==
  ASSUME NEW S \in SUBSET Movement
  PROVE  Sum(S) = Cardinality(Owed(S, 1)) - Cardinality(Owed(S, -1))
<1>1. \A m \in S : m.amount \in Int
  BY MovementFields
<1>2. {u \in S \X Centavos : u[2] <= u[1].amount} = Owed(S, 1)
  BY <1>1 DEF Owed
<1>3. {u \in S \X Centavos : u[2] <= -(u[1].amount)} = Owed(S, -1)
  BY <1>1 DEF Owed
<1> QED
  BY <1>2, <1>3 DEF Sum, Taken, Paid

(* The balance of a longer book: one more movement adds its amount.        *)
LEMMA SumAdd ==
  ASSUME NEW S \in SUBSET Movement, IsFiniteSet(S), NEW m \in Movement, m \notin S
  PROVE  Sum(S \cup {m}) = Sum(S) + m.amount /\ Sum(S) \in Int
<1>1. S \cup {m} \in SUBSET Movement
  OBVIOUS
<1>2. m.amount \in Int
  BY MovementFields
<1>3. /\ Cardinality(Owed(S, 1)) \in Nat
      /\ Cardinality(Owed(S, -1)) \in Nat
  BY OwedFinite
<1>4. Cardinality(Owed(S \cup {m}, 1)) = Cardinality(Owed(S, 1)) + Part(1 * m.amount)
  BY OwedAdd
<1>5. Cardinality(Owed(S \cup {m}, -1)) = Cardinality(Owed(S, -1)) + Part((-1) * m.amount)
  BY OwedAdd
<1>6. Part(1 * m.amount) - Part((-1) * m.amount) = m.amount
      /\ Part(1 * m.amount) \in Nat /\ Part((-1) * m.amount) \in Nat
  BY <1>2 DEF Part
<1>7. Sum(S) = Cardinality(Owed(S, 1)) - Cardinality(Owed(S, -1))
  BY SumIsOwed
<1>8. Sum(S \cup {m}) = Cardinality(Owed(S \cup {m}, 1)) - Cardinality(Owed(S \cup {m}, -1))
  BY <1>1, SumIsOwed
<1> QED
  BY <1>2, <1>3, <1>4, <1>5, <1>6, <1>7, <1>8

(* ... and erasing a movement takes its amount back out.                   *)
LEMMA SumRemove ==
  ASSUME NEW S \in SUBSET Movement, IsFiniteSet(S), NEW m \in S
  PROVE  Sum(S \ {m}) = Sum(S) - m.amount
<1> DEFINE R == S \ {m}
<1>1. R \in SUBSET Movement /\ m \in Movement /\ m \notin R /\ R \cup {m} = S
  OBVIOUS
<1>2. IsFiniteSet(R)
  BY FS_RemoveElement
<1>3. Sum(R \cup {m}) = Sum(R) + m.amount /\ Sum(R) \in Int
  BY <1>1, <1>2, SumAdd
<1>4. m.amount \in Int
  BY <1>1, MovementFields
<1>5. Sum(R \cup {m}) = Sum(S)
  BY <1>1
<1> HIDE DEF R
<1>6. Sum(R) = Sum(S) - m.amount
  BY <1>3, <1>4, <1>5
<1> QED
  BY <1>6 DEF R

LEMMA SumEmpty == Sum({}) = 0
<1>1. {} \in SUBSET Movement
  OBVIOUS
<1>2. Owed({}, 1) = {} /\ Owed({}, -1) = {}
  BY DEF Owed
<1>3. Cardinality({}) = 0
  BY FS_EmptySet
<1> QED
  BY <1>1, <1>2, <1>3, SumIsOwed

-----------------------------------------------------------------------------
(* The inductive invariant.                                                *)

LEMMA SinceIsADay ==
  ASSUME NEW S \in SUBSET Movement
  PROVE  sinceFromMovements(S) \in Days \cup {Nil}
<1>1. CASE Openings(S) = {}
  BY <1>1 DEF sinceFromMovements
<1>2. CASE Openings(S) # {}
  <2>1. (CHOOSE m \in Openings(S) : TRUE) \in S
    BY <1>2 DEF Openings
  <2>2. (CHOOSE m \in Openings(S) : TRUE).date \in Days
    BY <2>1, MovementFields
  <2> QED
    BY <1>2, <2>2 DEF sinceFromMovements
<1> QED
  BY <1>1, <1>2

THEOREM InitInv == Init => IInv
<1> SUFFICES ASSUME Init
             PROVE  IInv
  OBVIOUS
<1> USE DEF Init
<1>1. TypeOK
  BY DEF TypeOK, Idle, Starting, Call, Steps
<1>2. IdsAreFresh
  BY FS_EmptySet DEF IdsAreFresh
<1>3. Provenance
  BY DEF Provenance, At, Idle, Starting
<1>4. RowsExist
  BY DEF RowsExist, Idle, Starting
<1>5. CopiesAgree
  BY DEF CopiesAgree
<1>6. BalanceIsSum
  <2> SUFFICES ASSUME NEW c \in Clients
               PROVE  Balance(c) = Sum(OfClient(clientRows, c))
    BY DEF BalanceIsSum
  <2>1. OfClient(clientRows, c) = {}
    BY DEF OfClient
  <2>2. Balance(c) = 0
    BY DEF Balance
  <2> QED
    BY <2>1, <2>2, SumEmpty
<1> QED
  BY <1>1, <1>2, <1>3, <1>4, <1>5, <1>6 DEF IInv

(* A step that leaves every row alone and only moves one caller along its  *)
(* own call, never to the point where it would write a new movement.       *)
LEMMA CallMoves ==
  ASSUME IInv, NEW p \in Procs, NEW r \in Call,
         call' = [call EXCEPT ![p] = r],
         r.step # "record",
         r.step # "idle" => r.mov \in issued,
         r.step \in {"settle", "replay", "repair"} => latest[r.mov.client] # Nil,
         UNCHANGED <<rows, issued, opened>>,
         pending' \in [Clients -> Procs \cup {Nil, Lost}]
  PROVE  IInv'
<1> USE DEF IInv, rows
<1>1. TypeOK'
  BY DEF TypeOK
<1>2. IdsAreFresh'
  BY DEF IdsAreFresh
<1>3. Provenance'
  BY DEF Provenance, At, TypeOK
<1>4. RowsExist'
  BY DEF RowsExist, Client, TypeOK
<1>5. CopiesAgree'
  BY DEF CopiesAgree
<1>6. BalanceIsSum'
  BY DEF BalanceIsSum, Balance
<1> QED
  BY <1>1, <1>2, <1>3, <1>4, <1>5, <1>6

LEMMA IdleIsACall == Idle \in Call /\ Idle.step = "idle"
BY DEF Idle, Starting, Call, Steps

LEMMA ReturnTypes ==
  ASSUME TypeOK, NEW p \in Procs, Return(p)
  PROVE  /\ pending' \in [Clients -> Procs \cup {Nil, Lost}]
         /\ call' = [call EXCEPT ![p] = Idle]
BY DEF Return, TypeOK, Goto

(* The steps that write no row.                                            *)
LEMMA QuietSteps ==
  ASSUME IInv, NEW p \in Procs,
         \/ BeginDelete(p) \/ LookupMovement(p) \/ DeleteNotFound(p)
         \/ SettleClear(p) \/ SettleReopen(p) \/ SettleNothing(p)
         \/ ReplayHistory(p) \/ Fail(p)
  PROVE  IInv'
<1> USE DEF ghost
<1>1. TypeOK /\ issued \subseteq Movement /\ clientRows \subseteq Movement
  BY DEF IInv, TypeOK
<1>2. /\ pending \in [Clients -> Procs \cup {Nil, Lost}]
      /\ call[p] \in Call
  BY <1>1 DEF TypeOK
<1>3. ~At(p, "idle") => call[p].mov \in issued /\ call[p].mov \in Movement
  BY <1>1 DEF IInv, Provenance
<1>4. call[p].step \in {"settle", "replay", "repair"} => latest[Client(p)] # Nil
  BY DEF IInv, RowsExist
<1>5. CASE BeginDelete(p)
  <2>1. PICK m \in issued : call' = [call EXCEPT ![p] = Starting("lookup", m)]
    BY <1>5 DEF BeginDelete, Goto
  <2>2. m \in Movement
    BY <1>1
  <2> DEFINE r == Starting("lookup", m)
  <2>3. r \in Call /\ r.step = "lookup" /\ r.mov = m
    BY <2>2 DEF Call, Steps, Starting
  <2>4. UNCHANGED <<rows, issued, opened>> /\ UNCHANGED pending
    BY <1>5 DEF BeginDelete
  <2> HIDE DEF r
  <2>5. call' = [call EXCEPT ![p] = r]
    BY <2>1 DEF r
  <2> QED
    BY <1>2, <2>3, <2>4, <2>5, CallMoves
<1>6. CASE LookupMovement(p)
  <2> DEFINE r == [call[p] EXCEPT !.step = "delete"]
  <2>1. ~At(p, "idle")
    BY <1>6 DEF LookupMovement, At
  <2>2. r \in Call /\ r.step = "delete" /\ r.mov = call[p].mov
    BY <1>2 DEF Call, Steps
  <2>3. UNCHANGED <<rows, issued, opened>> /\ UNCHANGED pending
    BY <1>6 DEF LookupMovement
  <2>4. call' = [call EXCEPT ![p] = r] \/ call' = [call EXCEPT ![p] = Idle]
    BY <1>6 DEF LookupMovement, Step, Goto
  <2> HIDE DEF r
  <2> QED
    BY <1>2, <1>3, <2>1, <2>2, <2>3, <2>4, CallMoves, IdleIsACall
<1>7. CASE DeleteNotFound(p)
  <2>1. UNCHANGED <<rows, issued, opened>> /\ UNCHANGED pending
    BY <1>7 DEF DeleteNotFound
  <2>2. call' = [call EXCEPT ![p] = Idle]
    BY <1>7 DEF DeleteNotFound, Goto
  <2> QED
    BY <1>2, <2>1, <2>2, CallMoves, IdleIsACall
<1>8. CASE SettleClear(p)
  <2> DEFINE r == [call[p] EXCEPT !.step = "repair", !.balance = Balance(Client(p)),
                                  !.since = Nil]
  <2>1. At(p, "settle") /\ ~At(p, "idle")
    BY <1>8 DEF SettleClear, At
  <2>2. Client(p) \in Clients /\ Balance(Client(p)) \in Int
    BY <1>1, <1>3, <2>1, MovementFields DEF Client, Balance, TypeOK, Debtor
  <2>3. r \in Call /\ r.step = "repair" /\ r.mov = call[p].mov
    BY <1>2, <2>2 DEF Call, Steps
  <2>4. UNCHANGED <<rows, issued, opened>> /\ UNCHANGED pending
    BY <1>8 DEF SettleClear
  <2>5. call' = [call EXCEPT ![p] = r]
    BY <1>8 DEF SettleClear, Goto
  <2>6. latest[r.mov.client] # Nil
    BY <1>4, <2>1, <2>3 DEF At, Client
  <2> HIDE DEF r
  <2> QED
    BY <1>2, <1>3, <2>1, <2>3, <2>4, <2>5, <2>6, CallMoves
<1>9. CASE SettleReopen(p)
  <2> DEFINE r == [call[p] EXCEPT !.step = "replay", !.balance = Balance(Client(p))]
  <2>1. At(p, "settle") /\ ~At(p, "idle")
    BY <1>9 DEF SettleReopen, At
  <2>2. Client(p) \in Clients /\ Balance(Client(p)) \in Int
    BY <1>1, <1>3, <2>1, MovementFields DEF Client, Balance, TypeOK, Debtor
  <2>3. r \in Call /\ r.step = "replay" /\ r.mov = call[p].mov
    BY <1>2, <2>2 DEF Call, Steps
  <2>4. UNCHANGED <<rows, issued, opened>> /\ UNCHANGED pending
    BY <1>9 DEF SettleReopen
  <2>5. call' = [call EXCEPT ![p] = r]
    BY <1>9 DEF SettleReopen, Goto
  <2>6. latest[r.mov.client] # Nil
    BY <1>4, <2>1, <2>3 DEF At, Client
  <2> HIDE DEF r
  <2> QED
    BY <1>2, <1>3, <2>1, <2>3, <2>4, <2>5, <2>6, CallMoves
<1>10. CASE SettleNothing(p)
  <2>1. Return(p) /\ UNCHANGED <<rows, issued, opened>>
    BY <1>10 DEF SettleNothing
  <2> QED
    BY <1>1, <2>1, ReturnTypes, CallMoves, IdleIsACall
<1>11. CASE ReplayHistory(p)
  <2> DEFINE since == sinceFromMovements(OfClient(clientRows, Client(p)))
             r == [call[p] EXCEPT !.step = "repair", !.since = since]
  <2>1. At(p, "replay") /\ ~At(p, "idle") /\ UNCHANGED <<rows, issued, opened>>
    BY <1>11 DEF ReplayHistory, At
  <2>2. since \in Days \cup {Nil}
    BY <1>1, SinceIsADay DEF OfClient
  <2>3. r \in Call /\ r.step = "repair" /\ r.mov = call[p].mov
    BY <1>2, <2>2 DEF Call, Steps
  <2>4. latest[r.mov.client] # Nil
    BY <1>4, <2>1, <2>3 DEF At, Client
  <2>5. \/ Return(p)
        \/ call' = [call EXCEPT ![p] = r] /\ UNCHANGED pending
    BY <1>11 DEF ReplayHistory, Goto
  <2> HIDE DEF r
  <2>6. CASE Return(p)
    BY <1>1, <2>1, <2>6, ReturnTypes, CallMoves, IdleIsACall
  <2>7. CASE call' = [call EXCEPT ![p] = r] /\ UNCHANGED pending
    BY <1>2, <1>3, <2>1, <2>3, <2>4, <2>7, CallMoves
  <2> QED
    BY <2>5, <2>6, <2>7
<1>12. CASE Fail(p)
  <2>1. UNCHANGED <<rows, issued, opened>> /\ call' = [call EXCEPT ![p] = Idle]
    BY <1>12 DEF Fail, Goto
  <2>2. /\ pending' \in [Clients -> Procs \cup {Nil, Lost}]
    BY <1>2, <1>12 DEF Fail
  <2> QED
    BY <2>1, <2>2, CallMoves, IdleIsACall
<1> QED
  BY <1>5, <1>6, <1>7, <1>8, <1>9, <1>10, <1>11, <1>12

(* The movement that a call is about: one of those issued, and well formed. *)
LEMMA CallMovement ==
  ASSUME IInv, NEW p \in Procs, ~At(p, "idle")
  PROVE  /\ call[p] \in Call
         /\ call[p].mov \in issued /\ call[p].mov \in Movement
         /\ call[p].mov.client \in Clients /\ call[p].mov.amount \in Int
         /\ call[p].mov.date \in Days
<1>1. call[p] \in Call /\ call[p].mov \in issued /\ issued \subseteq Movement
  BY DEF IInv, TypeOK, Provenance
<1> QED
  BY <1>1, MovementFields

LEMMA BalanceTypes ==
  ASSUME IInv, NEW c \in Clients
  PROVE  Balance(c) \in Int /\ Since(c) \in Days \cup {Nil}
BY DEF IInv, TypeOK, Balance, Since, Debtor

LEMMA MovedTypes ==
  ASSUME TypeOK, NEW p \in Procs, NEW c \in Clients, Moved(p, c)
  PROVE  /\ pending' \in [Clients -> Procs \cup {Nil, Lost}]
BY DEF Moved, TypeOK

LEMMA OpenedType ==
  ASSUME TypeOK, NEW c \in Clients, NEW from, NEW to, NEW day \in Days \cup {Nil},
         opened' = [opened EXCEPT ![c] = OpenedAfter(@, from, to, day)]
  PROVE  opened' \in [Clients -> Days \cup {Nil}]
<1>1. OpenedAfter(opened[c], from, to, day) \in Days \cup {Nil}
  BY DEF TypeOK, OpenedAfter
<1> QED
  BY <1>1 DEF TypeOK

(* A client's lines, as a finite set of movements.                         *)
LEMMA ClientLines ==
  ASSUME IInv, NEW c
  PROVE  /\ OfClient(clientRows, c) \in SUBSET Movement
         /\ IsFiniteSet(OfClient(clientRows, c))
<1>1. clientRows \in SUBSET issued /\ IsFiniteSet(issued) /\ clientRows \subseteq Movement
  BY DEF IInv, TypeOK, Provenance, IdsAreFresh
<1>2. OfClient(clientRows, c) \in SUBSET issued
  BY <1>1 DEF OfClient
<1>3. IsFiniteSet(OfClient(clientRows, c))
  BY <1>1, <1>2, FS_Subset
<1> QED
  BY <1>1, <1>3 DEF OfClient

(* Building a movement: its id is above every one given before.            *)
LEMMA BeginRecordKeepsInv ==
  ASSUME IInv, NEW p \in Procs, BeginRecord(p)
  PROVE  IInv'
<1>1. PICK c \in Clients, d \in Days, a \in Amounts :
        LET m == [id |-> Cardinality(issued) + 1, client |-> c,
                  date |-> d, amount |-> a]
        IN  /\ ValidAmount(a)
            /\ issued' = issued \cup {m}
            /\ Goto(p, Starting("record", m))
  BY DEF BeginRecord, NextId
<1> DEFINE n == Cardinality(issued)
           m == [id |-> n + 1, client |-> c, date |-> d, amount |-> a]
           r == Starting("record", m)
<1>2. /\ IsFiniteSet(issued) /\ n \in Nat /\ n < MaxMovements
      /\ \A k \in issued : k.id <= n /\ k.id \in Nat
      /\ issued \subseteq Movement
  <2>1. IsFiniteSet(issued) /\ n < MaxMovements /\ issued \subseteq Movement
        /\ \A k \in issued : k.id <= n
    BY DEF IInv, IdsAreFresh, TypeOK, BeginRecord
  <2>2. n \in Nat
    BY <2>1, FS_CardinalityType
  <2>3. \A k \in issued : k.id \in Nat
    BY <2>1, MovementFields, MaxMovementsAssumption DEF Ids
  <2> HIDE DEF n
  <2> QED
    BY <2>1, <2>2, <2>3
<1>3. m \in Movement
  <2>1. n + 1 \in Ids
    BY <1>2, MaxMovementsAssumption DEF Ids
  <2>2. a \in Amounts \cap ((-MaxAmount .. MaxAmount) \ {0})
    BY <1>1, AmountsAssumption, MaxAmountAssumption DEF ValidAmount
  <2> HIDE DEF n
  <2> QED
    BY <2>1, <2>2 DEF Movement
<1>4. m \notin issued
  <2>1. m.id = n + 1
    OBVIOUS
  <2> HIDE DEF m, n
  <2> QED
    BY <1>2, <2>1
<1>5. r \in Call /\ r.step = "record" /\ r.mov = m
  <2> HIDE DEF m
  <2> QED
    BY <1>3 DEF Call, Steps, Starting
<1>6. Cardinality(issued \cup {m}) = n + 1 /\ IsFiniteSet(issued \cup {m})
  <2> HIDE DEF m
  <2> QED
    BY <1>2, <1>4, FS_AddElement
<1>7. /\ issued' = issued \cup {m}
      /\ call' = [call EXCEPT ![p] = r]
      /\ UNCHANGED <<dayRows, clientRows, latest, opened, pending>>
  BY <1>1 DEF BeginRecord, Goto, rows, ghost
<1>8. m.id = n + 1
  OBVIOUS
<1> HIDE DEF m, r
<1>9. TypeOK'
  BY <1>3, <1>5, <1>7 DEF IInv, TypeOK
<1>10. IdsAreFresh'
  <2>1. Cardinality(issued') = n + 1 /\ IsFiniteSet(issued')
    BY <1>6, <1>7
  <2> HIDE DEF n
  <2>2. \A k \in issued' : k.id <= n + 1
    BY <1>2, <1>7, <1>8
  <2> QED
    BY <2>1, <2>2 DEF IdsAreFresh
<1>11. Provenance'
  <2>1. clientRows \subseteq issued /\ m \notin clientRows
    BY <1>4 DEF IInv, Provenance
  <2>2. /\ call'[p] = r
        /\ \A q \in Procs : q # p => call'[q] = call[q]
    BY <1>7 DEF IInv, TypeOK
  <2>3. \A q \in Procs : ~At(q, "idle") => call[q].mov \in issued /\ call[q].mov # m
    BY <1>4 DEF IInv, Provenance
  <2>4. \A q \in Procs : q # p /\ call[q].step = "record" => call[q].mov # m
    BY <2>3 DEF At
  <2> QED
    BY <1>5, <1>7, <2>1, <2>2, <2>3, <2>4 DEF IInv, Provenance, At
<1>12. RowsExist'
  BY <1>5, <1>7 DEF IInv, RowsExist, Client, TypeOK
<1>13. CopiesAgree' /\ BalanceIsSum'
  BY <1>7 DEF IInv, CopiesAgree, BalanceIsSum, Balance
<1> QED
  BY <1>9, <1>10, <1>11, <1>12, <1>13 DEF IInv

(* A transaction moves one client's row; the caller goes on to its repair. *)
LEMMA AfterTransaction ==
  ASSUME IInv, NEW p \in Procs, ~At(p, "idle"), NEW row \in Debtor,
         latest' = [latest EXCEPT ![call[p].mov.client] = row],
         Step(p, "settle"), issued' = issued,
         NEW day \in Days \cup {Nil}, NEW from, NEW to,
         opened' = [opened EXCEPT ![call[p].mov.client] = OpenedAfter(@, from, to, day)],
         Moved(p, call[p].mov.client),
         dayRows' = clientRows', clientRows' \subseteq issued,
         \A m \in clientRows' : m.client # call[p].mov.client => m \in clientRows,
         \A m \in clientRows' : m \in clientRows \/ m = call[p].mov,
         \A q \in Procs : q # p /\ At(q, "record") => call[q].mov # call[p].mov,
         \A c \in Clients :
           c # call[p].mov.client => OfClient(clientRows', c) = OfClient(clientRows, c),
         row.balance = Sum(OfClient(clientRows', call[p].mov.client))
  PROVE  IInv'
<1> DEFINE k == call[p].mov.client
           r == [call[p] EXCEPT !.step = "settle"]
<1>1. /\ call[p] \in Call /\ call[p].mov \in issued /\ call[p].mov \in Movement
      /\ k \in Clients
  BY CallMovement
<1>2. r \in Call /\ r.step = "settle" /\ r.mov = call[p].mov
  BY <1>1 DEF Call, Steps
<1>3. /\ call' = [call EXCEPT ![p] = r]
      /\ latest' = [latest EXCEPT ![k] = row]
  BY DEF Step, Goto
<1>4. row # Nil /\ latest'[k] = row
      /\ \A c \in Clients : c # k => latest'[c] = latest[c]
  <2>1. row # Nil
    BY NilAssumption
  <2> QED
    BY <1>1, <1>3, <2>1 DEF IInv, TypeOK
<1>5. /\ opened' \in [Clients -> Days \cup {Nil}]
      /\ pending' \in [Clients -> Procs \cup {Nil, Lost}]
  BY <1>1, OpenedType, MovedTypes DEF IInv
<1>6. /\ call'[p] = r
      /\ \A q \in Procs : q # p => call'[q] = call[q]
  BY <1>3 DEF IInv, TypeOK
<1> HIDE DEF r
<1>7. TypeOK'
  <2>1. clientRows' \subseteq Movement
    BY DEF IInv, TypeOK
  <2>2. latest' \in [Clients -> Debtor \cup {Nil}] /\ call' \in [Procs -> Call]
    BY <1>1, <1>2, <1>3 DEF IInv, TypeOK
  <2>3. \A q \in Procs : call'[q].step # "idle" => call'[q].mov \in Movement
    BY <1>1, <1>2, <1>6 DEF IInv, TypeOK
  <2> QED
    BY <1>5, <2>1, <2>2, <2>3 DEF IInv, TypeOK
<1>8. IdsAreFresh'
  BY DEF IInv, IdsAreFresh
<1>9. Provenance'
  <2>1. \A q \in Procs : call'[q].step # "idle" => call'[q].mov \in issued
    BY <1>1, <1>2, <1>6 DEF IInv, Provenance, At
  <2>2. \A q \in Procs : call'[q].step = "record" =>
          q # p /\ call[q].step = "record" /\ call'[q].mov = call[q].mov
    BY <1>2, <1>6
  <2>3. \A q \in Procs : call[q].step = "record" => call[q].mov \notin clientRows
    BY DEF IInv, Provenance, At
  <2>4. \A q \in Procs : call'[q].step = "record" => call'[q].mov \notin clientRows'
    BY <2>2, <2>3 DEF At
  <2>5. \A q1, q2 \in Procs :
          call[q1].step = "record" /\ call[q2].step = "record" /\ q1 # q2
            => call[q1].mov # call[q2].mov
    BY DEF IInv, Provenance, At
  <2> QED
    BY <2>1, <2>2, <2>4, <2>5 DEF Provenance, At
<1>10. RowsExist'
  <2>1. \A m \in clientRows' : latest'[m.client] # Nil
    <3> SUFFICES ASSUME NEW m \in clientRows'
                 PROVE  latest'[m.client] # Nil
      OBVIOUS
    <3>1. m.client \in Clients
      BY MovementFields DEF IInv, TypeOK
    <3> QED
      BY <1>4, <3>1 DEF IInv, RowsExist
  <2>2. \A q \in Procs : call'[q].step \in {"settle", "replay", "repair"}
          => latest'[call'[q].mov.client] # Nil
    <3> SUFFICES ASSUME NEW q \in Procs,
                        call'[q].step \in {"settle", "replay", "repair"}
                 PROVE  latest'[call'[q].mov.client] # Nil
      OBVIOUS
    <3>1. CASE q = p
      BY <1>2, <1>4, <1>6, <3>1
    <3>2. CASE q # p
      <4>1. call'[q] = call[q] /\ latest[call[q].mov.client] # Nil
        BY <1>6, <3>2 DEF IInv, RowsExist, Client
      <4>2. call[q].mov.client \in Clients
        BY <4>1, <3>2, CallMovement DEF At
      <4> QED
        BY <1>4, <4>1, <4>2
    <3> QED
      BY <3>1, <3>2
  <2> QED
    BY <2>1, <2>2 DEF RowsExist, Client
<1>11. CopiesAgree'
  BY DEF CopiesAgree
<1>12. BalanceIsSum'
  <2> SUFFICES ASSUME NEW c \in Clients
               PROVE  Balance(c)' = Sum(OfClient(clientRows', c))
    BY DEF BalanceIsSum
  <2>1. CASE c = k
    BY <1>4, <2>1 DEF Balance
  <2>2. CASE c # k
    BY <1>4, <2>2 DEF Balance, IInv, BalanceIsSum
  <2> QED
    BY <2>1, <2>2
<1> QED
  BY <1>7, <1>8, <1>9, <1>10, <1>11, <1>12 DEF IInv

LEMMA RecordTransactionKeepsInv ==
  ASSUME IInv, NEW p \in Procs, RecordTransaction(p)
  PROVE  IInv'
<1> DEFINE m == call[p].mov
           c == m.client
           next == Balance(c) + m.amount
           day == IF Since(c) = Nil THEN m.date ELSE Since(c)
           row == [balance |-> next, since |-> day]
<1>1. At(p, "record") /\ ~At(p, "idle")
  BY DEF RecordTransaction, At
<1>2. /\ m \in issued /\ m \in Movement /\ c \in Clients
      /\ m.amount \in Int /\ m.date \in Days
  BY <1>1, CallMovement
<1>3. Balance(c) \in Int /\ Since(c) \in Days \cup {Nil}
  BY <1>2, BalanceTypes
<1>4. row \in Debtor /\ row.balance = next
  BY <1>2, <1>3 DEF Debtor
<1>5. /\ dayRows' = dayRows \cup {m} /\ clientRows' = clientRows \cup {m}
      /\ latest' = [latest EXCEPT ![c] = row]
      /\ opened' = [opened EXCEPT ![c] = OpenedAfter(@, Balance(c), next, m.date)]
      /\ Step(p, "settle") /\ Moved(p, c) /\ issued' = issued
  BY DEF RecordTransaction, SinceIfNotExists
<1>6. m \notin clientRows /\ clientRows \subseteq issued /\ dayRows = clientRows
  BY <1>1 DEF IInv, Provenance, CopiesAgree
<1>7. \A q \in Procs : q # p /\ At(q, "record") => call[q].mov # m
  BY <1>1 DEF IInv, Provenance
<1>8. Sum(OfClient(clientRows', c)) = next
  <2>1. OfClient(clientRows', c) = OfClient(clientRows, c) \cup {m}
    BY <1>5 DEF OfClient
  <2>2. m \notin OfClient(clientRows, c)
    BY <1>6 DEF OfClient
  <2>3. /\ OfClient(clientRows, c) \in SUBSET Movement
        /\ IsFiniteSet(OfClient(clientRows, c))
    BY ClientLines
  <2>4. Sum(OfClient(clientRows, c) \cup {m}) = Sum(OfClient(clientRows, c)) + m.amount
    BY <1>2, <2>2, <2>3, SumAdd
  <2>5. Balance(c) = Sum(OfClient(clientRows, c))
    BY <1>2 DEF IInv, BalanceIsSum
  <2> QED
    BY <2>1, <2>4, <2>5
<1>9. \A d \in Clients : d # c => OfClient(clientRows', d) = OfClient(clientRows, d)
  BY <1>5 DEF OfClient
<1>10. /\ dayRows' = clientRows' /\ clientRows' \subseteq issued
       /\ \A x \in clientRows' : x.client # c => x \in clientRows
       /\ \A x \in clientRows' : x \in clientRows \/ x = m
  BY <1>2, <1>5, <1>6
<1> HIDE DEF row, next
<1> QED
  BY <1>1, <1>2, <1>4, <1>5, <1>7, <1>8, <1>9, <1>10, AfterTransaction

LEMMA DeleteTransactionKeepsInv ==
  ASSUME IInv, NEW p \in Procs, DeleteTransaction(p)
  PROVE  IInv'
<1> DEFINE m == call[p].mov
           c == m.client
           next == Balance(c) - m.amount
           since == sinceFromMovements(OfClient(clientRows \ {m}, c))
           row == [latest[c] EXCEPT !.balance = next]
<1>1. At(p, "delete") /\ ~At(p, "idle") /\ ~At(p, "record")
  BY DEF DeleteTransaction, At
<1>2. /\ m \in issued /\ m \in Movement /\ c \in Clients /\ m.amount \in Int
  BY <1>1, CallMovement
<1>3. m \in clientRows /\ latest[c] # Nil
  BY DEF DeleteTransaction, Deletable
<1>4. Balance(c) \in Int
  BY <1>2, BalanceTypes
<1>5. latest[c] \in Debtor
  BY <1>2, <1>3 DEF IInv, TypeOK
<1>6. row \in Debtor /\ row.balance = next
  BY <1>2, <1>4, <1>5 DEF Debtor
<1>7. /\ dayRows' = dayRows \ {m} /\ clientRows' = clientRows \ {m}
      /\ latest' = [latest EXCEPT ![c] = row]
      /\ opened' = [opened EXCEPT ![c] = OpenedAfter(@, Balance(c), next, since)]
      /\ Step(p, "settle") /\ Moved(p, c) /\ issued' = issued
  BY DEF DeleteTransaction, EraseCopies
<1>8. clientRows \subseteq issued /\ dayRows = clientRows /\ clientRows \subseteq Movement
  BY DEF IInv, Provenance, CopiesAgree, TypeOK
<1>9. since \in Days \cup {Nil}
  <2>1. OfClient(clientRows \ {m}, c) \in SUBSET Movement
    BY <1>8 DEF OfClient
  <2> QED
    BY <2>1, SinceIsADay
<1>10. \A q \in Procs : q # p /\ At(q, "record") => call[q].mov # m
  BY <1>3 DEF IInv, Provenance
<1>11. Sum(OfClient(clientRows', c)) = next
  <2>1. OfClient(clientRows', c) = OfClient(clientRows, c) \ {m}
    BY <1>7 DEF OfClient
  <2>2. m \in OfClient(clientRows, c)
    BY <1>3 DEF OfClient
  <2>3. /\ OfClient(clientRows, c) \in SUBSET Movement
        /\ IsFiniteSet(OfClient(clientRows, c))
    BY ClientLines
  <2>4. Sum(OfClient(clientRows, c) \ {m}) = Sum(OfClient(clientRows, c)) - m.amount
    BY <2>2, <2>3, SumRemove
  <2>5. Balance(c) = Sum(OfClient(clientRows, c))
    BY <1>2 DEF IInv, BalanceIsSum
  <2> QED
    BY <2>1, <2>4, <2>5
<1>12. \A d \in Clients : d # c => OfClient(clientRows', d) = OfClient(clientRows, d)
  BY <1>7 DEF OfClient
<1>13. /\ dayRows' = clientRows' /\ clientRows' \subseteq issued
       /\ \A x \in clientRows' : x.client # c => x \in clientRows
       /\ \A x \in clientRows' : x \in clientRows \/ x = m
  BY <1>7, <1>8
<1> HIDE DEF row, next, since
<1> QED
  BY <1>1, <1>2, <1>6, <1>7, <1>9, <1>10, <1>11, <1>12, <1>13, AfterTransaction

(* The repair touches "desde" and nothing else of the row.                 *)
LEMMA WriteSinceKeepsInv ==
  ASSUME IInv, NEW p \in Procs, WriteSince(p)
  PROVE  IInv'
<1> DEFINE k == Client(p)
<1>1. At(p, "repair") /\ ~At(p, "idle")
  BY DEF WriteSince, At
<1>2. /\ k \in Clients /\ latest[k] # Nil /\ latest[k] \in Debtor
      /\ call[p].since \in Days \cup {Nil}
  <2>1. k \in Clients /\ call[p] \in Call
    BY <1>1, CallMovement DEF Client
  <2>2. latest[k] # Nil
    BY <1>1 DEF IInv, RowsExist, At
  <2> QED
    BY <2>1, <2>2 DEF IInv, TypeOK, Call
<1>3. /\ call' = [call EXCEPT ![p] = Idle]
      /\ pending' \in [Clients -> Procs \cup {Nil, Lost}]
      /\ UNCHANGED <<dayRows, clientRows, issued, opened>>
  BY ReturnTypes DEF WriteSince, IInv
<1> DEFINE row == [latest[k] EXCEPT !.since = call[p].since]
<1>4. row \in Debtor /\ row # Nil /\ row.balance = latest[k].balance
  BY <1>2, NilAssumption DEF Debtor
<1>5. latest' = latest \/ latest' = [latest EXCEPT ![k] = row]
  BY DEF WriteSince
<1> HIDE DEF row
<1>6. latest' \in [Clients -> Debtor \cup {Nil}]
  BY <1>2, <1>4, <1>5 DEF IInv, TypeOK
<1>7. \A c \in Clients : latest[c] # Nil => latest'[c] # Nil
  BY <1>2, <1>4, <1>5 DEF IInv, TypeOK
<1>12. \A c \in Clients : Balance(c)' = Balance(c)
  <2> SUFFICES ASSUME NEW c \in Clients
               PROVE  Balance(c)' = Balance(c)
    OBVIOUS
  <2>1. CASE latest'[c] = latest[c]
    BY <2>1 DEF Balance
  <2>2. CASE latest'[c] # latest[c]
    <3>1. c = k /\ latest'[c] = row
      BY <1>2, <1>5, <2>2 DEF IInv, TypeOK
    <3> QED
      BY <1>2, <1>4, <3>1 DEF Balance
  <2> QED
    BY <2>1, <2>2
<1>8. TypeOK'
  BY <1>3, <1>6, IdleIsACall DEF IInv, TypeOK
<1>9. IdsAreFresh' /\ Provenance' /\ CopiesAgree'
  BY <1>3, IdleIsACall DEF IInv, IdsAreFresh, Provenance, CopiesAgree, At, TypeOK
<1>10. RowsExist'
  <2>1. \A m \in clientRows' : latest'[m.client] # Nil
    <3> SUFFICES ASSUME NEW m \in clientRows
                 PROVE  latest'[m.client] # Nil
      BY <1>3
    <3>1. m.client \in Clients /\ latest[m.client] # Nil
      BY MovementFields DEF IInv, TypeOK, RowsExist
    <3> QED
      BY <1>7, <3>1
  <2>2. \A q \in Procs : call'[q].step \in {"settle", "replay", "repair"}
          => latest'[call'[q].mov.client] # Nil
    <3> SUFFICES ASSUME NEW q \in Procs,
                        call'[q].step \in {"settle", "replay", "repair"}
                 PROVE  latest'[call'[q].mov.client] # Nil
      OBVIOUS
    <3>1. call'[q] = call[q] /\ ~At(q, "idle")
      BY <1>3, IdleIsACall DEF IInv, TypeOK, At
    <3>2. call[q].mov.client \in Clients
      BY <3>1, CallMovement
    <3>3. latest[call[q].mov.client] # Nil
      BY <3>1 DEF IInv, RowsExist, Client
    <3>4. latest'[call[q].mov.client] # Nil
      BY <1>7, <3>2, <3>3
    <3> QED
      BY <3>1, <3>4
  <2> QED
    BY <2>1, <2>2 DEF RowsExist, Client
<1>11. BalanceIsSum'
  <2>1. \A c \in Clients : Balance(c) = Sum(OfClient(clientRows, c))
    BY DEF IInv, BalanceIsSum
  <2>2. \A c \in Clients : Balance(c)' = Sum(OfClient(clientRows', c))
    BY <1>3, <1>12, <2>1
  <2> QED
    BY <2>2 DEF BalanceIsSum
<1> QED
  BY <1>8, <1>9, <1>10, <1>11 DEF IInv

(* Every step of every caller keeps the invariant.                         *)
THEOREM NextInv == IInv /\ [Next]_vars => IInv'
<1> SUFFICES ASSUME IInv, [Next]_vars
             PROVE  IInv'
  OBVIOUS
<1>1. CASE UNCHANGED vars
  BY <1>1 DEF vars, IInv, TypeOK, IdsAreFresh, Provenance, RowsExist, CopiesAgree,
              BalanceIsSum, At, Client, Balance
<1>2. CASE Next
  <2>1. PICK p \in Procs : Record(p) \/ Delete(p) \/ settleSince(p) \/ Fail(p)
    BY <1>2 DEF Next
  <2>2. CASE Record(p)
    BY <2>2, BeginRecordKeepsInv, RecordTransactionKeepsInv DEF Record
  <2>3. CASE Delete(p)
    BY <2>3, DeleteTransactionKeepsInv, QuietSteps DEF Delete
  <2>4. CASE settleSince(p)
    BY <2>4, WriteSinceKeepsInv, QuietSteps DEF settleSince
  <2>5. CASE Fail(p)
    BY <2>5, QuietSteps
  <2> QED
    BY <2>1, <2>2, <2>3, <2>4, <2>5
<1> QED
  BY <1>1, <1>2

(* The store keeps its invariant for ever.                                 *)
THEOREM SpecInv == Spec => []IInv
BY InitInv, NextInv, PTL DEF Spec

(* The variables keep their types.                                         *)
THEOREM SpecTypeOK == Spec => []TypeOK
<1>1. IInv => TypeOK
  BY DEF IInv
<1> QED
  BY <1>1, SpecInv, PTL

(* The day timeline and the client timeline always hold the same lines:    *)
(* neither a killed Lambda nor a concurrent call leaves a single copy.     *)
THEOREM SpecCopiesAgree == Spec => []CopiesAgree
<1>1. IInv => CopiesAgree
  BY DEF IInv
<1> QED
  BY <1>1, SpecInv, PTL

(* Every client's balance is always the sum of that client's movements,    *)
(* for any number of concurrent callers, failures and clients.             *)
THEOREM SpecBalanceIsSum == Spec => []BalanceIsSum
<1>1. IInv => BalanceIsSum
  BY DEF IInv
<1> QED
  BY <1>1, SpecInv, PTL

-----------------------------------------------------------------------------
(* The store implements the book of Caderninho.                            *)

LEMMA SameMovements == Book!Movement = Movement
BY DEF Book!Movement, Book!Ids, Movement, Ids

LEMMA BalanceOnly ==
  ASSUME UNCHANGED clientRows, \A c \in Clients : Balance(c)' = Balance(c)
  PROVE  UNCHANGED Book!bookVars
BY DEF Book!bookVars

(* Outside the two transactions nothing of the book changes.               *)
LEMMA StutteringSteps ==
  ASSUME IInv, NEW p \in Procs,
         \/ BeginRecord(p) \/ BeginDelete(p) \/ LookupMovement(p)
         \/ DeleteNotFound(p) \/ settleSince(p) \/ Fail(p)
  PROVE  UNCHANGED Book!bookVars
<1>1. CASE WriteSince(p)
  <2>1. UNCHANGED clientRows /\ At(p, "repair") /\ ~At(p, "idle")
    BY <1>1 DEF WriteSince, At
  <2>2. /\ Client(p) \in Clients /\ latest[Client(p)] # Nil
        /\ latest[Client(p)] \in Debtor
    <3>1. Client(p) \in Clients
      BY <2>1, CallMovement DEF Client
    <3>2. latest[Client(p)] # Nil
      BY <2>1 DEF IInv, RowsExist, At
    <3> QED
      BY <3>1, <3>2 DEF IInv, TypeOK
  <2> DEFINE row == [latest[Client(p)] EXCEPT !.since = call[p].since]
  <2>3. row.balance = latest[Client(p)].balance
    BY <2>2 DEF Debtor
  <2>4. row # Nil
    <3>1. call[p].since \in Days \cup {Nil}
      BY <2>1, CallMovement DEF Call
    <3>2. row \in Debtor
      BY <2>2, <3>1 DEF Debtor
    <3> QED
      BY <3>2, NilAssumption
  <2>5. latest' = latest \/ latest' = [latest EXCEPT ![Client(p)] = row]
    BY <1>1 DEF WriteSince
  <2> HIDE DEF row
  <2>6. \A c \in Clients : Balance(c)' = Balance(c)
    <3> SUFFICES ASSUME NEW c \in Clients
                 PROVE  Balance(c)' = Balance(c)
      OBVIOUS
    <3>1. CASE latest'[c] = latest[c]
      BY <3>1 DEF Balance
    <3>2. CASE latest'[c] # latest[c]
      <4>1. c = Client(p) /\ latest'[c] = row
        BY <2>2, <2>5, <3>2 DEF IInv, TypeOK
      <4> QED
        BY <2>2, <2>3, <2>4, <4>1 DEF Balance
    <3> QED
      BY <3>1, <3>2
  <2> QED
    BY <2>1, <2>6, BalanceOnly
<1>2. CASE ~WriteSince(p)
  <2>1. UNCHANGED <<clientRows, latest>>
    BY <1>2 DEF BeginRecord, BeginDelete, LookupMovement, DeleteNotFound, settleSince,
                SettleClear, SettleReopen, SettleNothing, ReplayHistory, Fail, rows
  <2>2. \A c \in Clients : Balance(c)' = Balance(c)
    BY <2>1 DEF Balance
  <2> QED
    BY <2>1, <2>2, BalanceOnly
<1> QED
  BY <1>1, <1>2

(* One row is replaced: the balances as the book sees them.                *)
LEMMA OneBalance ==
  ASSUME IInv, NEW k \in Clients, NEW row \in Debtor,
         latest' = [latest EXCEPT ![k] = row]
  PROVE  [c \in Clients |-> Balance(c)]'
           = [[c \in Clients |-> Balance(c)] EXCEPT ![k] = row.balance]
<1>1. row # Nil /\ latest'[k] = row
  BY NilAssumption DEF IInv, TypeOK
<1>2. Balance(k)' = row.balance
  BY <1>1 DEF Balance
<1>3. \A c \in Clients : c # k => Balance(c)' = Balance(c)
  BY DEF IInv, TypeOK, Balance
<1> QED
  BY <1>2, <1>3

LEMMA RecordEnters ==
  ASSUME IInv, NEW p \in Procs, RecordTransaction(p)
  PROVE  Book!BookNext
<1> DEFINE m == call[p].mov
           k == m.client
           day == IF Since(k) = Nil THEN m.date ELSE Since(k)
           row == [balance |-> Balance(k) + m.amount, since |-> day]
<1>1. At(p, "record") /\ ~At(p, "idle")
  BY DEF RecordTransaction, At
<1>2. m \in Movement /\ k \in Clients /\ m.amount \in Int /\ m.date \in Days
  BY <1>1, CallMovement
<1>3. m \notin clientRows
  BY <1>1 DEF IInv, Provenance
<1>4. Balance(k) \in Int /\ Since(k) \in Days \cup {Nil}
  BY <1>2, BalanceTypes
<1>5. row \in Debtor /\ row.balance = Balance(k) + m.amount
  BY <1>2, <1>4 DEF Debtor
<1>6. clientRows' = clientRows \cup {m} /\ latest' = [latest EXCEPT ![k] = row]
  BY DEF RecordTransaction, SinceIfNotExists
<1> HIDE DEF row
<1>7. [c \in Clients |-> Balance(c)]'
        = [[c \in Clients |-> Balance(c)] EXCEPT ![k] = Balance(k) + m.amount]
  BY <1>2, <1>5, <1>6, OneBalance
<1>8. Book!Enter(m)
  BY <1>2, <1>3, <1>6, <1>7 DEF Book!Enter
<1> QED
  BY <1>2, <1>8, SameMovements DEF Book!BookNext

LEMMA DeleteErases ==
  ASSUME IInv, NEW p \in Procs, DeleteTransaction(p)
  PROVE  Book!BookNext
<1> DEFINE m == call[p].mov
           k == m.client
           row == [latest[k] EXCEPT !.balance = Balance(k) - m.amount]
<1>1. At(p, "delete") /\ ~At(p, "idle")
  BY DEF DeleteTransaction, At
<1>2. m \in Movement /\ k \in Clients /\ m.amount \in Int
  BY <1>1, CallMovement
<1>3. m \in clientRows /\ latest[k] # Nil
  BY DEF DeleteTransaction, Deletable
<1>4. Balance(k) \in Int /\ latest[k] \in Debtor
  BY <1>2, <1>3, BalanceTypes DEF IInv, TypeOK
<1>5. row \in Debtor /\ row.balance = Balance(k) - m.amount
  BY <1>2, <1>4 DEF Debtor
<1>6. clientRows' = clientRows \ {m} /\ latest' = [latest EXCEPT ![k] = row]
  BY DEF DeleteTransaction, EraseCopies
<1> HIDE DEF row
<1>7. [c \in Clients |-> Balance(c)]'
        = [[c \in Clients |-> Balance(c)] EXCEPT ![k] = Balance(k) - m.amount]
  BY <1>2, <1>5, <1>6, OneBalance
<1>8. Book!Erase(m)
  BY <1>2, <1>3, <1>6, <1>7 DEF Book!Erase
<1> QED
  BY <1>2, <1>8, SameMovements DEF Book!BookNext

(* Every behaviour of the store is one of the book's: a movement and its   *)
(* effect on the balance are one step, and nothing else moves either.      *)
THEOREM SpecImplementsBook == Spec => ImplementsBook
<1>1. Init => Book!BookInit
  BY DEF Init, Book!BookInit, Balance
<1>2. IInv /\ [Next]_vars => [Book!BookNext]_(Book!bookVars)
  <2> SUFFICES ASSUME IInv, [Next]_vars
               PROVE  [Book!BookNext]_(Book!bookVars)
    OBVIOUS
  <2>1. CASE UNCHANGED vars
    <3>1. UNCHANGED clientRows /\ \A c \in Clients : Balance(c)' = Balance(c)
      BY <2>1 DEF vars, Balance
    <3> QED
      BY <3>1, BalanceOnly
  <2>2. CASE Next
    <3>1. PICK p \in Procs : Record(p) \/ Delete(p) \/ settleSince(p) \/ Fail(p)
      BY <2>2 DEF Next
    <3>2. CASE RecordTransaction(p)
      BY <3>2, RecordEnters
    <3>3. CASE DeleteTransaction(p)
      BY <3>3, DeleteErases
    <3>4. CASE ~RecordTransaction(p) /\ ~DeleteTransaction(p)
      BY <3>1, <3>4, StutteringSteps DEF Record, Delete
    <3> QED
      BY <3>2, <3>3, <3>4
  <2> QED
    BY <2>1, <2>2
<1> QED
  BY <1>1, <1>2, SpecInv, PTL DEF Spec, ImplementsBook, Book!BookSpec

-----------------------------------------------------------------------------
(* Replaying a client's movements.  A finite set of movements has a first  *)
(* and a last one, for their days and ids are counted.                     *)

UniqueIds(S) == \A m, n \in S : m.id = n.id => m = n

LEMMA LeastNatural ==
  ASSUME NEW T \in SUBSET Nat, T # {}
  PROVE  \E x \in T : \A y \in T : x <= y
<1> DEFINE R == OpToRel(<, Nat)
<1>1. IsWellFoundedOn(R, Nat)
  BY NatLessThanWellFounded
<1>2. ASSUME NEW x \in Nat, NEW y \in Nat, y < x
      PROVE  <<y, x>> \in R
  BY <1>2 DEF OpToRel
<1> HIDE DEF R
<1>3. PICK x \in T : \A y \in T : ~ (<<y, x>> \in R)
  BY <1>1, WFMin
<1>4. ASSUME NEW y \in T
      PROVE  x <= y
  <2>1. x \in Nat /\ y \in Nat
    OBVIOUS
  <2>2. ~(y < x)
    BY <1>2, <1>3, <2>1
  <2> QED
    BY <2>1, <2>2
<1> QED
  BY <1>4

LEMMA BeforeIsAnOrder ==
  ASSUME NEW S \in SUBSET Movement, UniqueIds(S)
  PROVE  /\ \A m \in S : ~Before(m, m)
         /\ \A m, n, k \in S : Before(m, n) /\ Before(n, k) => Before(m, k)
         /\ \A m, n \in S : m = n \/ Before(m, n) \/ Before(n, m)
<1>1. ASSUME NEW m \in S
      PROVE  m.date \in Int /\ m.id \in Int
  <2>1. m.id \in 1 .. MaxMovements /\ m.date \in Days
    BY MovementFields DEF Ids
  <2>2. m.date \in Nat
    BY <2>1, DaysAssumption
  <2> QED
    BY <2>1, <2>2, MaxMovementsAssumption
<1> QED
  BY <1>1 DEF Before, UniqueIds

(* Whoever comes earlier has fewer movements before it.                    *)
LEMMA EarlierIsFewer ==
  ASSUME NEW S \in SUBSET Movement, IsFiniteSet(S), UniqueIds(S),
         NEW m \in S, NEW n \in S, Before(m, n)
  PROVE  Cardinality(Earlier(S, m)) < Cardinality(Earlier(S, n))
<1>1. Earlier(S, m) \subseteq Earlier(S, n) /\ m \in Earlier(S, n) /\ m \notin Earlier(S, m)
      /\ Earlier(S, n) \in SUBSET S
  BY BeforeIsAnOrder DEF Earlier
<1>2. IsFiniteSet(Earlier(S, n)) /\ IsFiniteSet(Earlier(S, m))
  BY <1>1, FS_Subset
<1>3. Cardinality(Earlier(S, m)) \in Nat /\ Cardinality(Earlier(S, n)) \in Nat
  BY <1>2, FS_CardinalityType
<1>4. Earlier(S, m) \subseteq Earlier(S, n) \ {m}
      /\ Cardinality(Earlier(S, n) \ {m}) = Cardinality(Earlier(S, n)) - 1
      /\ IsFiniteSet(Earlier(S, n) \ {m})
  BY <1>1, <1>2, FS_RemoveElement
<1>5. Cardinality(Earlier(S, m)) <= Cardinality(Earlier(S, n) \ {m})
  BY <1>4, FS_Subset
<1> QED
  BY <1>3, <1>4, <1>5

LEMMA EarlierIsBounded ==
  ASSUME NEW S \in SUBSET Movement, IsFiniteSet(S), NEW m \in S
  PROVE  /\ Cardinality(Earlier(S, m)) \in Nat /\ Cardinality(S) \in Nat
         /\ Cardinality(Earlier(S, m)) <= Cardinality(S)
<1>1. Earlier(S, m) \in SUBSET S
  BY DEF Earlier
<1> QED
  BY <1>1, FS_Subset, FS_CardinalityType

LEMMA FirstOf ==
  ASSUME NEW S \in SUBSET Movement, IsFiniteSet(S), UniqueIds(S),
         NEW U \in SUBSET S, U # {}
  PROVE  \E k \in U : \A j \in U : ~Before(j, k)
<1> DEFINE T == {Cardinality(Earlier(S, m)) : m \in U}
<1>1. T \in SUBSET Nat /\ T # {}
  BY EarlierIsBounded
<1>2. PICK t \in T : \A y \in T : t <= y
  BY <1>1, LeastNatural
<1>3. PICK k \in U : t = Cardinality(Earlier(S, k))
  OBVIOUS
<1>4. ASSUME NEW j \in U, Before(j, k)
      PROVE  FALSE
  <2>1. Cardinality(Earlier(S, j)) < Cardinality(Earlier(S, k))
    BY <1>4, EarlierIsFewer
  <2>2. Cardinality(Earlier(S, j)) \in Nat /\ Cardinality(Earlier(S, k)) \in Nat
    BY EarlierIsBounded
  <2>3. Cardinality(Earlier(S, k)) <= Cardinality(Earlier(S, j))
    BY <1>2, <1>3
  <2> QED
    BY <2>1, <2>2, <2>3
<1> QED
  BY <1>4

LEMMA LastOf ==
  ASSUME NEW S \in SUBSET Movement, IsFiniteSet(S), UniqueIds(S),
         NEW U \in SUBSET S, U # {}
  PROVE  \E k \in U : \A j \in U : ~Before(k, j)
<1> DEFINE T == {Cardinality(S) - Cardinality(Earlier(S, m)) : m \in U}
<1>1. T \in SUBSET Nat /\ T # {}
  <2>1. \A m \in U : Cardinality(S) - Cardinality(Earlier(S, m)) \in Nat
    BY EarlierIsBounded
  <2> QED
    BY <2>1
<1>2. PICK t \in T : \A y \in T : t <= y
  BY <1>1, LeastNatural
<1>3. PICK k \in U : t = Cardinality(S) - Cardinality(Earlier(S, k))
  OBVIOUS
<1>4. ASSUME NEW j \in U, Before(k, j)
      PROVE  FALSE
  <2>1. Cardinality(Earlier(S, k)) < Cardinality(Earlier(S, j))
    BY <1>4, EarlierIsFewer
  <2>2. /\ Cardinality(Earlier(S, j)) \in Nat /\ Cardinality(Earlier(S, k)) \in Nat
        /\ Cardinality(S) \in Nat
    BY EarlierIsBounded
  <2>3. Cardinality(S) - Cardinality(Earlier(S, k)) <= Cardinality(S) - Cardinality(Earlier(S, j))
    BY <1>2, <1>3
  <2> QED
    BY <2>1, <2>2, <2>3
<1> QED
  BY <1>4

(* Where money is owed, some movement took the balance out of zero for the *)
(* last time: the replay always finds a day.                               *)
LEMMA OpeningExists ==
  ASSUME NEW S \in SUBSET Movement, IsFiniteSet(S), UniqueIds(S), ~clearSince(Sum(S))
  PROVE  Openings(S) # {}
<1> DEFINE G == {m \in S : clearSince(Sum(Earlier(S, m)))}
<1>1. S # {}
  BY SumEmpty DEF clearSince
<1>2. PICK first \in S : \A j \in S : ~Before(j, first)
  BY <1>1, FirstOf
<1>3. first \in G
  <2>1. Earlier(S, first) = {}
    BY <1>2 DEF Earlier
  <2> QED
    BY <2>1, SumEmpty DEF clearSince
<1>4. PICK g \in G : \A j \in G : ~Before(g, j)
  <2>1. G \in SUBSET S /\ G # {}
    BY <1>3
  <2> HIDE DEF G
  <2> QED
    BY <2>1, LastOf
<1>5. ASSUME NEW n \in S, n = g \/ Before(g, n)
      PROVE  ~clearSince(Sum(UpTo(S, n)))
  <2> DEFINE U == {k \in S : Before(n, k)}
  <2>1. CASE U = {}
    <3>1. UpTo(S, n) = S
      BY <2>1, BeforeIsAnOrder DEF UpTo
    <3> QED
      BY <3>1
  <2>2. CASE U # {}
    <3>1. PICK k \in U : \A j \in U : ~Before(j, k)
      <4>1. U \in SUBSET S
        OBVIOUS
      <4> HIDE DEF U
      <4> QED
        BY <2>2, <4>1, FirstOf
    <3>2. Earlier(S, k) = UpTo(S, n)
      BY <3>1, BeforeIsAnOrder DEF Earlier, UpTo
    <3>3. k \in S /\ Before(g, k) /\ g \in S
      BY <1>5, BeforeIsAnOrder
    <3>4. k \notin G
      BY <1>4, <3>3
    <3> QED
      BY <3>2, <3>3, <3>4
  <2> QED
    BY <2>1, <2>2
<1>6. g \in Openings(S)
  BY <1>4, <1>5 DEF Openings
<1> QED
  BY <1>6

LEMMA ReplayFindsADay ==
  ASSUME NEW S \in SUBSET Movement, IsFiniteSet(S), UniqueIds(S), ~clearSince(Sum(S))
  PROVE  sinceFromMovements(S) \in Days /\ sinceFromMovements(S) # Nil
<1>1. Openings(S) # {} /\ Openings(S) \subseteq Movement
  BY OpeningExists DEF Openings
<1>2. (CHOOSE m \in Openings(S) : TRUE) \in Openings(S)
  BY <1>1
<1>3. (CHOOSE m \in Openings(S) : TRUE).date \in Days
  BY <1>1, <1>2, MovementFields
<1> QED
  BY <1>1, <1>3, DaysAssumption DEF sinceFromMovements

-----------------------------------------------------------------------------
(* SettledSince.                                                           *)

(* A call that owes the repair of c has seen the row that is there.        *)
Ready(r, c) ==
    /\ r.step \in {"settle", "replay", "repair"} /\ r.mov.client = c
    /\ r.step # "settle" => r.balance = Balance(c)

(* What a call is about to write fits the balance it has read.             *)
Minded(r) ==
    /\ r.step = "replay" => ~clearSince(r.balance)
    /\ r.step = "repair" => (r.since = Nil <=> clearSince(r.balance))

Dated(c) == Since(c) = Nil <=> clearSince(Balance(c))

Duty    == \A p \in Procs, c \in Clients : pending[c] = p => Ready(call[p], c)
Decided == \A p \in Procs : Minded(call[p])

RepairInv == IInv /\ UniqueIds(issued) /\ Duty /\ Decided /\ SettledSince

LEMMA RepairInit == Init => RepairInv
<1> SUFFICES ASSUME Init PROVE RepairInv
  OBVIOUS
<1>1. UniqueIds(issued)
  BY DEF Init, UniqueIds
<1>2. Duty
  BY LostAssumption DEF Init, Duty
<1>3. Decided
  BY DEF Init, Decided, Minded, Idle, Starting
<1>4. SettledSince
  BY DEF Init, SettledSince, Since, Balance, clearSince
<1> QED
  BY <1>1, <1>2, <1>3, <1>4, InitInv DEF RepairInv

LEMMA IdsStayUnique ==
  ASSUME IInv, UniqueIds(issued), [Next]_vars
  PROVE  UniqueIds(issued')
<1>1. ASSUME NEW p \in Procs, BeginRecord(p)
      PROVE  UniqueIds(issued')
  <2>1. PICK m : m.id = Cardinality(issued) + 1 /\ issued' = issued \cup {m}
    BY <1>1 DEF BeginRecord, NextId
  <2>2. Cardinality(issued) \in Nat /\ \A n \in issued : n.id <= Cardinality(issued)
    BY FS_CardinalityType DEF IInv, IdsAreFresh
  <2>3. ASSUME NEW n \in issued
        PROVE  n.id # m.id
    <3>1. n.id \in 1 .. MaxMovements
      BY MovementFields DEF IInv, TypeOK, Ids
    <3> QED
      BY <2>1, <2>2, <3>1, MaxMovementsAssumption
  <2> QED
    BY <2>1, <2>3 DEF UniqueIds
<1>2. CASE issued' = issued
  BY <1>2
<1>3. ASSUME NEW p \in Procs, Record(p) \/ Delete(p) \/ settleSince(p) \/ Fail(p), ~BeginRecord(p)
      PROVE  issued' = issued
  BY <1>3 DEF Record, Delete, settleSince, Fail, RecordTransaction, BeginDelete, LookupMovement,
              DeleteTransaction, DeleteNotFound, SettleClear, SettleReopen, SettleNothing,
              ReplayHistory, WriteSince
<1> QED
  BY <1>1, <1>2, <1>3 DEF Next, vars

(* A step of one call that leaves the rows alone.                          *)
LEMMA OneCallMoves ==
  ASSUME RepairInv, NEW p \in Procs, NEW r, Minded(r),
         call' = [call EXCEPT ![p] = r], latest' = latest,
         \A c \in Clients : \/ pending'[c] = pending[c]
                            \/ pending'[c] = Nil /\ Dated(c)
                            \/ pending'[c] = Lost,
         \A c \in Clients : pending'[c] = p => Ready(r, c)
  PROVE  Duty' /\ Decided' /\ SettledSince'
<1>1. call'[p] = r /\ \A q \in Procs : q # p => call'[q] = call[q]
  BY DEF RepairInv, IInv, TypeOK
<1>2. \A c \in Clients : Balance(c)' = Balance(c) /\ Since(c)' = Since(c)
  BY DEF Balance, Since
<1>3. Duty'
  <2> SUFFICES ASSUME NEW q \in Procs, NEW c \in Clients, pending'[c] = q
               PROVE  Ready(call[q], c)'
    BY DEF Duty
  <2>1. CASE q = p
    BY <1>1, <1>2, <2>1 DEF Ready
  <2>2. CASE q # p
    <3>1. pending[c] = q
      BY LostAssumption
    <3> QED
      BY <1>1, <1>2, <2>2, <3>1 DEF RepairInv, Duty, Ready
  <2> QED
    BY <2>1, <2>2
<1>4. Decided'
  BY <1>1 DEF RepairInv, Decided, Minded
<1>5. SettledSince'
  <2> SUFFICES ASSUME NEW c \in Clients, pending'[c] = Nil
               PROVE  Dated(c)'
    BY DEF SettledSince, Dated
  <2>1. Dated(c)
    BY LostAssumption DEF RepairInv, SettledSince, Dated
  <2> QED
    BY <1>2, <2>1 DEF Dated
<1> QED
  BY <1>3, <1>4, <1>5

(* A call that is not in its repair owes nothing.                          *)
LEMMA NothingOwed ==
  ASSUME RepairInv, NEW p \in Procs, call[p].step \notin {"settle", "replay", "repair"},
         NEW c \in Clients
  PROVE  pending[c] # p
BY DEF RepairInv, Duty, Ready

LEMMA ReturnPays ==
  ASSUME RepairInv, NEW p \in Procs, Return(p), latest' = latest,
         Client(p) \in Clients, pending[Client(p)] = p => Dated(Client(p))
  PROVE  Duty' /\ Decided' /\ SettledSince'
<1>1. call' = [call EXCEPT ![p] = Idle] /\ Minded(Idle)
  BY IdleIsACall DEF Return, Goto, Minded
<1>2. \A c \in Clients : pending'[c] = IF c = Client(p) /\ pending[c] = p THEN Nil ELSE pending[c]
  BY DEF Return, RepairInv, IInv, TypeOK
<1>3. \A c \in Clients : pending'[c] # p
  BY <1>2, LostAssumption DEF RepairInv, Duty, Ready, Client
<1> QED
  BY <1>1, <1>2, <1>3, OneCallMoves

LEMMA BeginningsMove ==
  ASSUME RepairInv, NEW p \in Procs,
         BeginRecord(p) \/ BeginDelete(p) \/ LookupMovement(p) \/ DeleteNotFound(p)
  PROVE  \E r : call' = [call EXCEPT ![p] = r] /\ r.step \in {"record", "lookup", "delete", "idle"}
<1>1. ASSUME NEW s, NEW m
      PROVE  Starting(s, m).step = s
  BY DEF Starting
<1>2. CASE BeginRecord(p)
  <2>1. PICK m : Goto(p, Starting("record", m))
    BY <1>2 DEF BeginRecord
  <2>2. call' = [call EXCEPT ![p] = Starting("record", m)]
    BY <2>1 DEF Goto
  <2> QED
    BY <1>1, <2>2
<1>3. CASE BeginDelete(p)
  <2>1. PICK m : Goto(p, Starting("lookup", m))
    BY <1>3 DEF BeginDelete
  <2>2. call' = [call EXCEPT ![p] = Starting("lookup", m)]
    BY <2>1 DEF Goto
  <2> QED
    BY <1>1, <2>2
<1>4. CASE LookupMovement(p)
  <2>1. call[p] \in Call
    BY DEF RepairInv, IInv, TypeOK
  <2>2. [call[p] EXCEPT !.step = "delete"].step = "delete"
    BY <2>1 DEF Call
  <2> QED
    BY <1>4, <2>2, IdleIsACall DEF LookupMovement, Goto, Step
<1>5. CASE DeleteNotFound(p)
  BY <1>5, IdleIsACall DEF DeleteNotFound, Goto
<1> QED
  BY <1>2, <1>3, <1>4, <1>5

LEMMA BeginningsOweNothing ==
  ASSUME RepairInv, NEW p \in Procs,
         BeginRecord(p) \/ BeginDelete(p) \/ LookupMovement(p) \/ DeleteNotFound(p)
  PROVE  Duty' /\ Decided' /\ SettledSince'
<1>1. \A c \in Clients : pending[c] # p
  BY NothingOwed DEF BeginRecord, BeginDelete, LookupMovement, DeleteNotFound, At
<1>2. latest' = latest /\ pending' = pending
  BY DEF BeginRecord, BeginDelete, LookupMovement, DeleteNotFound, rows, ghost
<1>3. PICK r : call' = [call EXCEPT ![p] = r] /\ r.step \in {"record", "lookup", "delete", "idle"}
  BY BeginningsMove
<1>4. Minded(r)
  BY <1>3 DEF Minded
<1> QED
  BY <1>1, <1>2, <1>3, <1>4, OneCallMoves

LEMMA SettlingsDecide ==
  ASSUME RepairInv, NEW p \in Procs, SettleClear(p) \/ SettleReopen(p) \/ SettleNothing(p)
  PROVE  Duty' /\ Decided' /\ SettledSince'
<1> DEFINE c == Client(p)
<1>1. /\ call[p] \in Call /\ call[p].step = "settle" /\ c \in Clients /\ c = call[p].mov.client
      /\ Balance(c) \in Int
  <2>1. ~At(p, "idle") /\ call[p].step = "settle"
    BY DEF SettleClear, SettleReopen, SettleNothing, At
  <2>2. call[p] \in Call /\ c \in Clients /\ c = call[p].mov.client
    BY <2>1, CallMovement DEF RepairInv, Client
  <2> QED
    BY <2>1, <2>2, BalanceTypes DEF RepairInv
<1>2. \A d \in Clients : pending[d] = p => d = c
  BY <1>1 DEF RepairInv, Duty, Ready
<1>3. CASE SettleClear(p)
  <2> DEFINE r == [call[p] EXCEPT !.step = "repair", !.balance = Balance(c), !.since = Nil]
  <2>1. /\ r.step = "repair" /\ r.mov = call[p].mov /\ r.balance = Balance(c) /\ r.since = Nil
        /\ call' = [call EXCEPT ![p] = r]
    BY <1>1, <1>3 DEF SettleClear, Goto, Call
  <2>2. clearSince(Balance(c)) /\ latest' = latest /\ pending' = pending
    BY <1>3 DEF SettleClear, rows, ghost
  <2> HIDE DEF r
  <2>3. Minded(r) /\ Ready(r, c)
    BY <1>1, <2>1, <2>2 DEF Minded, Ready
  <2> QED
    BY <1>2, <2>1, <2>2, <2>3, OneCallMoves
<1>4. CASE SettleReopen(p)
  <2> DEFINE r == [call[p] EXCEPT !.step = "replay", !.balance = Balance(c)]
  <2>1. /\ r.step = "replay" /\ r.mov = call[p].mov /\ r.balance = Balance(c)
        /\ call' = [call EXCEPT ![p] = r]
    BY <1>1, <1>4 DEF SettleReopen, Goto, Call
  <2>2. ~clearSince(Balance(c)) /\ latest' = latest /\ pending' = pending
    BY <1>4 DEF SettleReopen, rows, ghost
  <2> HIDE DEF r
  <2>3. Minded(r) /\ Ready(r, c)
    BY <1>1, <2>1, <2>2 DEF Minded, Ready
  <2> QED
    BY <1>2, <2>1, <2>2, <2>3, OneCallMoves
<1>5. CASE SettleNothing(p)
  <2>1. Return(p) /\ latest' = latest /\ Dated(c)
    BY <1>5 DEF SettleNothing, Dated, rows
  <2> QED
    BY <1>1, <2>1, ReturnPays
<1> QED
  BY <1>3, <1>4, <1>5

(* The replay of a call that owes the repair finds a day, for the balance  *)
(* it saw is still there and is money owed.                                *)
LEMMA OwedReplayFinds ==
  ASSUME RepairInv, NEW p \in Procs, At(p, "replay"), pending[Client(p)] = p
  PROVE  /\ Client(p) \in Clients
         /\ sinceFromMovements(OfClient(clientRows, Client(p))) # Nil
<1> DEFINE c == Client(p)
           S == OfClient(clientRows, c)
<1>1. c \in Clients
  BY CallMovement DEF RepairInv, At, Client
<1>2. call[p].balance = Balance(c) /\ ~clearSince(call[p].balance)
  BY <1>1 DEF RepairInv, Duty, Decided, Ready, Minded, At
<1>3. S \in SUBSET Movement /\ IsFiniteSet(S) /\ Balance(c) = Sum(S)
  BY <1>1, ClientLines DEF RepairInv, IInv, BalanceIsSum
<1>4. UniqueIds(S)
  BY DEF RepairInv, UniqueIds, IInv, Provenance, OfClient
<1> HIDE DEF S
<1>5. sinceFromMovements(S) # Nil
  BY <1>2, <1>3, <1>4, ReplayFindsADay
<1> QED
  BY <1>1, <1>5 DEF S

LEMMA ReplayDecides ==
  ASSUME RepairInv, NEW p \in Procs, ReplayHistory(p)
  PROVE  Duty' /\ Decided' /\ SettledSince'
<1> DEFINE c == Client(p)
           since == sinceFromMovements(OfClient(clientRows, c))
<1>1. /\ call[p] \in Call /\ At(p, "replay") /\ call[p].step = "replay"
      /\ c \in Clients /\ c = call[p].mov.client
  BY CallMovement DEF RepairInv, ReplayHistory, At, Client
<1>2. latest' = latest
  BY DEF ReplayHistory, rows
<1>3. CASE since = Nil
  <2>1. Return(p) /\ pending[c] # p
    BY <1>1, <1>3, OwedReplayFinds DEF ReplayHistory
  <2> QED
    BY <1>1, <1>2, <2>1, ReturnPays
<1>4. CASE since # Nil
  <2> DEFINE r == [call[p] EXCEPT !.step = "repair", !.since = since]
  <2>1. Goto(p, r) /\ pending' = pending
    BY <1>4 DEF ReplayHistory
  <2> HIDE DEF since
  <2>2. /\ r.step = "repair" /\ r.mov = call[p].mov /\ r.balance = call[p].balance
        /\ r.since = since /\ call' = [call EXCEPT ![p] = r]
    BY <1>1, <2>1 DEF Goto, Call
  <2> HIDE DEF r
  <2>3. Minded(r)
    BY <1>1, <1>4, <2>2 DEF RepairInv, Decided, Minded
  <2>4. \A d \in Clients : pending[d] = p => Ready(r, d)
    BY <1>1, <2>2 DEF RepairInv, Duty, Ready
  <2> QED
    BY <1>2, <2>1, <2>2, <2>3, <2>4, OneCallMoves
<1> QED
  BY <1>3, <1>4

LEMMA FailureLoses ==
  ASSUME RepairInv, NEW p \in Procs, Fail(p)
  PROVE  Duty' /\ Decided' /\ SettledSince'
<1>1. call' = [call EXCEPT ![p] = Idle] /\ Minded(Idle) /\ latest' = latest
  BY IdleIsACall DEF Fail, Goto, Minded, rows
<1>2. \A c \in Clients : pending'[c] = IF c = Client(p) /\ pending[c] = p THEN Lost ELSE pending[c]
  BY DEF Fail, RepairInv, IInv, TypeOK
<1>3. \A c \in Clients : pending'[c] # p
  BY <1>2, LostAssumption DEF RepairInv, Duty, Ready, Client
<1> QED
  BY <1>1, <1>2, <1>3, OneCallMoves

(* The repair that lands writes what its balance calls for, and the        *)
(* balance is the one that is there; the one that does not land owes       *)
(* nothing any more.                                                       *)
LEMMA RepairDates ==
  ASSUME RepairInv, NEW p \in Procs, WriteSince(p)
  PROVE  Duty' /\ Decided' /\ SettledSince'
<1> DEFINE k == Client(p)
<1>1. /\ call[p] \in Call /\ call[p].step = "repair" /\ k \in Clients /\ k = call[p].mov.client
      /\ latest[k] # Nil /\ latest[k] \in Debtor
  <2>1. call[p].step = "repair" /\ ~At(p, "idle")
    BY DEF WriteSince, At
  <2>2. call[p] \in Call /\ k \in Clients /\ k = call[p].mov.client
    BY <2>1, CallMovement DEF RepairInv, Client
  <2>3. latest[k] # Nil
    BY <2>1 DEF RepairInv, IInv, RowsExist
  <2> QED
    BY <2>1, <2>2, <2>3 DEF RepairInv, IInv, TypeOK
<1>2. Return(p) /\ latest' = IF RepairLands(p) THEN [latest EXCEPT ![k].since = call[p].since]
                             ELSE latest
  BY DEF WriteSince
<1>3. CASE ~RepairLands(p)
  <2>1. pending[k] # p
    BY <1>1, <1>3 DEF RepairLands, RepairInv, Duty, Ready
  <2> QED
    BY <1>1, <1>2, <1>3, <2>1, ReturnPays
<1>4. CASE RepairLands(p)
  <2> DEFINE row == [latest[k] EXCEPT !.since = call[p].since]
  <2>1. latest' = [latest EXCEPT ![k] = row]
    BY <1>2, <1>4
  <2>2. row.balance = latest[k].balance /\ row.since = call[p].since /\ row # Nil
    BY <1>1, NilAssumption DEF Debtor, Call
  <2> HIDE DEF row
  <2>3. /\ latest'[k] = row /\ \A c \in Clients : c # k => latest'[c] = latest[c]
    BY <1>1, <2>1 DEF RepairInv, IInv, TypeOK
  <2>4. \A c \in Clients : /\ Balance(c)' = Balance(c)
                           /\ Since(c)' = IF c = k THEN call[p].since ELSE Since(c)
    BY <1>1, <2>2, <2>3 DEF Balance, Since
  <2>5. ASSUME NEW c \in Clients, c = k
        PROVE  Dated(c)'
    <3>1. Balance(c) = call[p].balance
          /\ (call[p].since = Nil <=> clearSince(call[p].balance))
      BY <1>1, <1>4, <2>5 DEF RepairLands, RepairInv, Decided, Minded
    <3> QED
      BY <2>4, <2>5, <3>1 DEF Dated
  <2>6. call' = [call EXCEPT ![p] = Idle]
        /\ \A c \in Clients : pending'[c] = IF c = k /\ pending[c] = p THEN Nil ELSE pending[c]
    BY <1>2 DEF Return, Goto, RepairInv, IInv, TypeOK
  <2>7. call'[p] = Idle /\ \A q \in Procs : q # p => call'[q] = call[q]
    BY <2>6 DEF RepairInv, IInv, TypeOK
  <2>8. Duty'
    <3> SUFFICES ASSUME NEW q \in Procs, NEW c \in Clients, pending'[c] = q
                 PROVE  Ready(call[q], c)'
      BY DEF Duty
    <3>1. pending[c] = q
      BY <2>6, LostAssumption
    <3>2. q # p
      BY <1>1, <2>6, <3>1, LostAssumption DEF RepairInv, Duty, Ready
    <3> QED
      BY <2>4, <2>7, <3>1, <3>2 DEF RepairInv, Duty, Ready
  <2>9. Decided'
    BY <2>7, IdleIsACall DEF RepairInv, Decided, Minded
  <2>10. SettledSince'
    <3> SUFFICES ASSUME NEW c \in Clients, pending'[c] = Nil
                 PROVE  Dated(c)'
      BY DEF SettledSince, Dated
    <3>1. CASE c = k
      BY <2>5, <3>1
    <3>2. CASE c # k
      BY <2>4, <2>6, <3>2 DEF RepairInv, SettledSince, Dated
    <3> QED
      BY <3>1, <3>2
  <2> QED
    BY <2>8, <2>9, <2>10
<1> QED
  BY <1>3, <1>4

(* A movement hands the repair of its client to whoever wrote it.          *)
LEMMA TransactionOwes ==
  ASSUME RepairInv, NEW p \in Procs, RecordTransaction(p) \/ DeleteTransaction(p)
  PROVE  Duty' /\ Decided' /\ SettledSince'
<1> DEFINE c == call[p].mov.client
           r == [call[p] EXCEPT !.step = "settle"]
<1>1. call[p] \in Call /\ call[p].step \in {"record", "delete"} /\ c \in Clients
  <2>1. ~At(p, "idle") /\ call[p].step \in {"record", "delete"}
    BY DEF RecordTransaction, DeleteTransaction, At
  <2> QED
    BY <2>1, CallMovement DEF RepairInv
<1>2. Step(p, "settle") /\ Moved(p, c)
  BY DEF RecordTransaction, DeleteTransaction
<1>3. \A d \in Clients : d # c => latest'[d] = latest[d]
  BY DEF RecordTransaction, DeleteTransaction, RepairInv, IInv, TypeOK
<1>4. call'[p] = r /\ \A q \in Procs : q # p => call'[q] = call[q]
  BY <1>2 DEF Step, Goto, RepairInv, IInv, TypeOK
<1>5. r.step = "settle" /\ r.mov = call[p].mov
  BY <1>1 DEF Call
<1>6. pending'[c] = p /\ \A d \in Clients : d # c => pending'[d] = pending[d]
  BY <1>1, <1>2 DEF Moved, RepairInv, IInv, TypeOK
<1> HIDE DEF r
<1>7. \A d \in Clients : d # c => Balance(d)' = Balance(d) /\ Since(d)' = Since(d)
  BY <1>3 DEF Balance, Since
<1>8. Duty'
  <2> SUFFICES ASSUME NEW q \in Procs, NEW d \in Clients, pending'[d] = q
               PROVE  Ready(call[q], d)'
    BY DEF Duty
  <2>1. CASE d = c
    BY <1>4, <1>5, <1>6, <2>1 DEF Ready
  <2>2. CASE d # c
    <3>1. pending[d] = q /\ q # p
      BY <1>1, <1>6, <2>2, NothingOwed
    <3> QED
      BY <1>4, <1>7, <2>2, <3>1 DEF RepairInv, Duty, Ready
  <2> QED
    BY <2>1, <2>2
<1>9. Decided'
  BY <1>4, <1>5 DEF RepairInv, Decided, Minded
<1>10. SettledSince'
  BY <1>6, <1>7, LostAssumption DEF RepairInv, SettledSince
<1> QED
  BY <1>8, <1>9, <1>10

LEMMA RepairNext ==
  ASSUME RepairInv, [Next]_vars
  PROVE  RepairInv'
<1>1. IInv' /\ UniqueIds(issued')
  BY NextInv, IdsStayUnique DEF RepairInv
<1>2. Duty' /\ Decided' /\ SettledSince'
  <2>1. CASE UNCHANGED vars
    BY <2>1 DEF vars, RepairInv, Duty, Decided, SettledSince, Ready, Minded, Since, Balance
  <2>2. CASE Next
    BY <2>2, BeginningsOweNothing, SettlingsDecide, ReplayDecides, FailureLoses, RepairDates,
       TransactionOwes DEF Next, Record, Delete, settleSince
  <2> QED
    BY <2>1, <2>2
<1> QED
  BY <1>1, <1>2 DEF RepairInv

LEMMA RepairInvariant == Spec => []RepairInv
BY RepairInit, RepairNext, PTL DEF Spec

(* Once the last movement of a client has run its repair to the end, the   *)
(* row has a "desde" exactly when money is owed, however many older        *)
(* repairs are in flight and whatever failed before                        *)
(* (settleSince, writeSince's condition on the balance).                   *)
THEOREM SpecSettledSince == Spec => []SettledSince
<1>1. RepairInv => SettledSince
  BY DEF RepairInv
<1> QED
  BY <1>1, RepairInvariant, PTL

-----------------------------------------------------------------------------
(* SinceIsOpeningDay.  Repairs of one client that overlap can leave the    *)
(* day of another movement (the run MCFiado_race shows one such history),  *)
(* and a repair cut short leaves none; where repairs take turns and none   *)
(* is cut short, the row follows the store without interleaving.           *)

Settling(p) == call[p].step \in {"settle", "replay", "repair"}

RepairsTakeTurns ==
    \A p, q \in Procs : p # q /\ Settling(p) /\ Settling(q) => Client(p) # Client(q)

(* The day a call in its repair is going to leave in the row of c.         *)
Foretold(r, c) ==
    LET replayed == sinceFromMovements(OfClient(clientRows, c))
    IN  /\ r.step = "settle" => opened[c] = IF clearSince(Balance(c)) THEN Nil
                                            ELSE IF Since(c) # Nil THEN Since(c) ELSE replayed
        /\ r.step = "replay" => opened[c] = replayed
        /\ r.step = "repair" => opened[c] = r.since

NothingLost == \A c \in Clients : pending[c] # Lost
RestedRows  == \A c \in Clients : pending[c] = Nil => Since(c) = opened[c]
OwnRepairs  == \A p \in Procs : Settling(p) => pending[Client(p)] = p
RightDays   == \A p \in Procs, c \in Clients : pending[c] = p => Foretold(call[p], c)

OpeningInv == NothingLost /\ RestedRows /\ OwnRepairs /\ RightDays

LEMMA OpeningInit == Init => OpeningInv
BY LostAssumption DEF Init, OpeningInv, NothingLost, RestedRows, OwnRepairs, RightDays, Settling,
   Since, Idle, Starting

(* A call that moves on without touching the rows.                         *)
LEMMA OpeningKept ==
  ASSUME RepairInv, OpeningInv, NEW p \in Procs, NEW r, call' = [call EXCEPT ![p] = r],
         clientRows' = clientRows, latest' = latest, opened' = opened, pending' = pending,
         r.step \in {"settle", "replay", "repair"} => pending[r.mov.client] = p,
         \A c \in Clients : pending[c] = p => Foretold(r, c)
  PROVE  OpeningInv'
<1>1. call'[p] = r /\ \A q \in Procs : q # p => call'[q] = call[q]
  BY DEF RepairInv, IInv, TypeOK
<1>2. \A c \in Clients : Balance(c)' = Balance(c) /\ Since(c)' = Since(c)
  BY DEF Balance, Since
<1>3. NothingLost' /\ RestedRows'
  BY <1>2 DEF OpeningInv, NothingLost, RestedRows
<1>4. OwnRepairs'
  <2> SUFFICES ASSUME NEW q \in Procs, Settling(q)'
               PROVE  pending'[Client(q)'] = q
    BY DEF OwnRepairs
  <2>1. CASE q = p
    BY <1>1, <2>1 DEF Settling, Client
  <2>2. CASE q # p
    BY <1>1, <2>2 DEF OpeningInv, OwnRepairs, Settling, Client
  <2> QED
    BY <2>1, <2>2
<1>5. RightDays'
  <2> SUFFICES ASSUME NEW q \in Procs, NEW c \in Clients, pending'[c] = q
               PROVE  Foretold(call[q], c)'
    BY DEF RightDays
  <2>1. Foretold(call'[q], c)
    BY <1>1 DEF OpeningInv, RightDays
  <2> QED
    BY <1>2, <2>1 DEF Foretold
<1> QED
  BY <1>3, <1>4, <1>5 DEF OpeningInv

LEMMA OpeningBegins ==
  ASSUME RepairInv, OpeningInv, NEW p \in Procs,
         BeginRecord(p) \/ BeginDelete(p) \/ LookupMovement(p) \/ DeleteNotFound(p)
  PROVE  OpeningInv'
<1>1. \A c \in Clients : pending[c] # p
  BY NothingOwed DEF BeginRecord, BeginDelete, LookupMovement, DeleteNotFound, At
<1>2. clientRows' = clientRows /\ latest' = latest /\ opened' = opened /\ pending' = pending
  BY DEF BeginRecord, BeginDelete, LookupMovement, DeleteNotFound, rows, ghost
<1>3. PICK r : call' = [call EXCEPT ![p] = r] /\ r.step \in {"record", "lookup", "delete", "idle"}
  BY BeginningsMove
<1> QED
  BY <1>1, <1>2, <1>3, OpeningKept

(* Paying the debt of a repair whose day is in the row.                    *)
LEMMA OpeningReturns ==
  ASSUME RepairInv, OpeningInv, NEW p \in Procs, NEW k \in Clients, k = Client(p), Settling(p),
         RepairsTakeTurns, Return(p), clientRows' = clientRows, opened' = opened,
         \A c \in Clients : Balance(c)' = Balance(c),
         \A c \in Clients : c # k => Since(c)' = Since(c), Since(k)' = opened[k]
  PROVE  OpeningInv'
<1>1. call'[p] = Idle /\ \A q \in Procs : q # p => call'[q] = call[q]
  BY DEF Return, Goto, RepairInv, IInv, TypeOK
<1>2. \A c \in Clients : pending'[c] = IF c = k THEN Nil ELSE pending[c]
  BY DEF Return, RepairInv, IInv, TypeOK, OpeningInv, OwnRepairs
<1>3. NothingLost' /\ RestedRows'
  BY <1>2, LostAssumption DEF OpeningInv, NothingLost, RestedRows
<1>4. OwnRepairs'
  <2> SUFFICES ASSUME NEW q \in Procs, Settling(q)'
               PROVE  pending'[Client(q)'] = q
    BY DEF OwnRepairs
  <2>1. q # p
    BY <1>1, IdleIsACall DEF Settling
  <2>2. Settling(q) /\ Client(q)' = Client(q) /\ call[q].step # "idle"
    BY <1>1, <2>1 DEF Settling, Client
  <2>3. pending[Client(q)] = q /\ Client(q) # k /\ Client(q) \in Clients
    BY <2>1, <2>2, CallMovement DEF OpeningInv, OwnRepairs, RepairsTakeTurns, RepairInv, At, Client
  <2> QED
    BY <1>2, <2>2, <2>3
<1>5. RightDays'
  <2> SUFFICES ASSUME NEW q \in Procs, NEW c \in Clients, pending'[c] = q
               PROVE  Foretold(call[q], c)'
    BY DEF RightDays
  <2>1. c # k /\ pending[c] = q
    BY <1>2, LostAssumption
  <2>2. q # p
    BY <2>1 DEF RepairInv, Duty, Ready, Client
  <2>3. Foretold(call'[q], c)
    BY <1>1, <2>1, <2>2 DEF OpeningInv, RightDays
  <2> QED
    BY <2>1, <2>3 DEF Foretold
<1> QED
  BY <1>3, <1>4, <1>5 DEF OpeningInv

LEMMA OpeningSettles ==
  ASSUME RepairInv, OpeningInv, RepairsTakeTurns, NEW p \in Procs,
         SettleClear(p) \/ SettleReopen(p) \/ SettleNothing(p) \/ ReplayHistory(p)
  PROVE  OpeningInv'
<1>1. Settling(p) /\ ~At(p, "idle")
  BY DEF SettleClear, SettleReopen, SettleNothing, ReplayHistory, Settling, At
<1>2. PICK k \in Clients : k = Client(p)
  BY <1>1, CallMovement DEF RepairInv, Client
<1>3. /\ call[p] \in Call /\ call[p].mov.client = k /\ pending[k] = p /\ Foretold(call[p], k)
  BY <1>1, <1>2, CallMovement
  DEF RepairInv, Client, OpeningInv, OwnRepairs, RightDays
<1>4. \A c \in Clients : pending[c] = p => c = k
  BY <1>3 DEF RepairInv, Duty, Ready
<1>5. clientRows' = clientRows /\ latest' = latest /\ opened' = opened
  BY DEF SettleClear, SettleReopen, SettleNothing, ReplayHistory, rows, ghost
<1>6. CASE SettleClear(p)
  <2> DEFINE r == [call[p] EXCEPT !.step = "repair", !.balance = Balance(k), !.since = Nil]
  <2>1. call' = [call EXCEPT ![p] = r] /\ pending' = pending
    BY <1>2, <1>6 DEF SettleClear, Goto, ghost
  <2>2. r.step = "repair" /\ r.mov = call[p].mov /\ r.since = Nil
    BY <1>3 DEF Call
  <2>3. opened[k] = Nil
    BY <1>2, <1>3, <1>6 DEF SettleClear, At, Foretold
  <2> HIDE DEF r
  <2>4. Foretold(r, k)
    BY <2>2, <2>3 DEF Foretold
  <2>5. r.step \in {"settle", "replay", "repair"} => pending[r.mov.client] = p
    BY <1>3, <2>2
  <2>6. \A c \in Clients : pending[c] = p => Foretold(r, c)
    BY <1>4, <2>4
  <2> QED
    BY <1>5, <2>1, <2>5, <2>6, OpeningKept
<1>7. CASE SettleReopen(p)
  <2> DEFINE r == [call[p] EXCEPT !.step = "replay", !.balance = Balance(k)]
  <2>1. call' = [call EXCEPT ![p] = r] /\ pending' = pending
    BY <1>2, <1>7 DEF SettleReopen, Goto, ghost
  <2>2. r.step = "replay" /\ r.mov = call[p].mov
    BY <1>3 DEF Call
  <2>3. opened[k] = sinceFromMovements(OfClient(clientRows, k))
    BY <1>2, <1>3, <1>7 DEF SettleReopen, At, Foretold
  <2> HIDE DEF r
  <2>4. Foretold(r, k)
    BY <2>2, <2>3 DEF Foretold
  <2>5. r.step \in {"settle", "replay", "repair"} => pending[r.mov.client] = p
    BY <1>3, <2>2
  <2>6. \A c \in Clients : pending[c] = p => Foretold(r, c)
    BY <1>4, <2>4
  <2> QED
    BY <1>5, <2>1, <2>5, <2>6, OpeningKept
<1>8. CASE SettleNothing(p)
  <2>1. Return(p) /\ Since(k) = opened[k]
    BY <1>2, <1>3, <1>8 DEF SettleNothing, At, Foretold
  <2>2. \A c \in Clients : Balance(c)' = Balance(c) /\ Since(c)' = Since(c)
    BY <1>5 DEF Balance, Since
  <2> QED
    BY <1>1, <1>2, <1>5, <2>1, <2>2, OpeningReturns
<1>9. CASE ReplayHistory(p)
  <2> DEFINE day == sinceFromMovements(OfClient(clientRows, k))
             r == [call[p] EXCEPT !.step = "repair", !.since = day]
  <2>1. At(p, "replay") /\ call[p].step = "replay"
    BY <1>9 DEF ReplayHistory, At
  <2>2. day # Nil
    BY <1>2, <1>3, <2>1, OwedReplayFinds
  <2>3. opened[k] = day
    BY <1>3, <2>1 DEF Foretold
  <2>4. call' = [call EXCEPT ![p] = r] /\ pending' = pending
    BY <1>2, <1>9, <2>2 DEF ReplayHistory, Goto
  <2> HIDE DEF day
  <2>5. r.step = "repair" /\ r.mov = call[p].mov /\ r.since = day
    BY <1>3 DEF Call
  <2> HIDE DEF r
  <2>6. Foretold(r, k)
    BY <2>3, <2>5 DEF Foretold
  <2>7. r.step \in {"settle", "replay", "repair"} => pending[r.mov.client] = p
    BY <1>3, <2>5
  <2>8. \A c \in Clients : pending[c] = p => Foretold(r, c)
    BY <1>4, <2>6
  <2> QED
    BY <1>5, <2>4, <2>7, <2>8, OpeningKept
<1> QED
  BY <1>6, <1>7, <1>8, <1>9

(* The repair of a call that owes it lands: the balance is the one it saw. *)
LEMMA OpeningLands ==
  ASSUME RepairInv, OpeningInv, RepairsTakeTurns, NEW p \in Procs, WriteSince(p)
  PROVE  OpeningInv'
<1>1. Settling(p) /\ call[p].step = "repair" /\ ~At(p, "idle")
  BY DEF WriteSince, Settling, At
<1>2. PICK k \in Clients : k = Client(p)
  BY <1>1, CallMovement DEF RepairInv, Client
<1>3. /\ call[p] \in Call /\ call[p].mov.client = k /\ pending[k] = p /\ opened[k] = call[p].since
      /\ call[p].balance = Balance(k) /\ latest[k] # Nil /\ latest[k] \in Debtor
  BY <1>1, <1>2, CallMovement
  DEF RepairInv, Client, OpeningInv, OwnRepairs, RightDays, Foretold, Duty, Ready, IInv, RowsExist,
      TypeOK
<1>4. latest' = [latest EXCEPT ![k].since = call[p].since]
  BY <1>2, <1>3 DEF WriteSince, RepairLands
<1> DEFINE row == [latest[k] EXCEPT !.since = call[p].since]
<1>5. latest' = [latest EXCEPT ![k] = row]
  BY <1>4
<1>6. row.balance = latest[k].balance /\ row.since = call[p].since /\ row # Nil
  BY <1>3, NilAssumption DEF Debtor, Call
<1> HIDE DEF row
<1>7. latest'[k] = row /\ \A c \in Clients : c # k => latest'[c] = latest[c]
  BY <1>5 DEF RepairInv, IInv, TypeOK
<1>8. /\ \A c \in Clients : Balance(c)' = Balance(c)
      /\ \A c \in Clients : c # k => Since(c)' = Since(c)
      /\ Since(k)' = opened[k]
  BY <1>3, <1>6, <1>7 DEF Balance, Since
<1>9. Return(p) /\ clientRows' = clientRows /\ opened' = opened
  BY DEF WriteSince
<1> QED
  BY <1>1, <1>2, <1>8, <1>9, OpeningReturns

(* A movement on a client no call is repairing: its row follows "opened".  *)
LEMMA OpeningMoves ==
  ASSUME RepairInv, OpeningInv, RepairsTakeTurns', NEW p \in Procs,
         RecordTransaction(p) \/ DeleteTransaction(p)
  PROVE  OpeningInv'
<1>1. /\ ~At(p, "idle") /\ ~Settling(p) /\ call[p].step \notin {"settle", "replay", "repair"}
  BY DEF RecordTransaction, DeleteTransaction, At, Settling
<1>2. PICK k \in Clients : k = call[p].mov.client
  BY <1>1, CallMovement DEF RepairInv
<1> DEFINE r == [call[p] EXCEPT !.step = "settle"]
<1>3. call'[p] = r /\ \A q \in Procs : q # p => call'[q] = call[q]
  BY DEF RecordTransaction, DeleteTransaction, Step, Goto, RepairInv, IInv, TypeOK
<1>4. r.step = "settle" /\ r.mov = call[p].mov
  BY <1>1, CallMovement DEF RepairInv, Call
<1> HIDE DEF r
<1>5. pending'[k] = p /\ \A c \in Clients : c # k => pending'[c] = pending[c]
  BY <1>2 DEF RecordTransaction, DeleteTransaction, Moved, RepairInv, IInv, TypeOK
<1>6. \A q \in Procs : q # p /\ Settling(q) => Client(q) # k
  <2> SUFFICES ASSUME NEW q \in Procs, q # p, Settling(q)
               PROVE  Client(q) # k
    OBVIOUS
  <2>1. Settling(q)' /\ Client(q)' = Client(q)
    BY <1>3 DEF Settling, Client
  <2>2. Settling(p)' /\ Client(p)' = k
    BY <1>2, <1>3, <1>4 DEF Settling, Client
  <2> QED
    BY <2>1, <2>2 DEF RepairsTakeTurns
<1>7. pending[k] = Nil
  <2>1. \A q \in Procs : pending[k] # q
    BY <1>1, <1>6, NothingOwed DEF RepairInv, Duty, Ready, Settling, Client
  <2> QED
    BY <2>1 DEF OpeningInv, NothingLost, RepairInv, IInv, TypeOK
<1>8. Since(k) = opened[k] /\ (Since(k) = Nil <=> clearSince(Balance(k)))
  BY <1>7 DEF OpeningInv, RestedRows, RepairInv, SettledSince
<1>9. /\ \A c \in Clients : c # k => latest'[c] = latest[c] /\ opened'[c] = opened[c]
      /\ \A c \in Clients : c # k => OfClient(clientRows', c) = OfClient(clientRows, c)
  <2>1. \A c \in Clients : c # k => latest'[c] = latest[c] /\ opened'[c] = opened[c]
    BY <1>2 DEF RecordTransaction, DeleteTransaction, RepairInv, IInv, TypeOK
  <2>2. clientRows' = clientRows \cup {call[p].mov} \/ clientRows' = clientRows \ {call[p].mov}
    BY DEF RecordTransaction, DeleteTransaction, EraseCopies
  <2>3. \A c \in Clients : c # k => OfClient(clientRows', c) = OfClient(clientRows, c)
    BY <1>2, <2>2 DEF OfClient
  <2> QED
    BY <2>1, <2>3
<1>10. \A c \in Clients : c # k => Balance(c)' = Balance(c) /\ Since(c)' = Since(c)
  BY <1>9 DEF Balance, Since
<1>11. opened'[k] = IF clearSince(Balance(k)') THEN Nil
                    ELSE IF Since(k)' # Nil THEN Since(k)'
                    ELSE sinceFromMovements(OfClient(clientRows', k))
  <2>1. CASE RecordTransaction(p)
    <3> DEFINE m == call[p].mov
               row == [balance |-> Balance(k) + m.amount, since |-> SinceIfNotExists(k, m.date)]
    <3>1. latest' = [latest EXCEPT ![k] = row]
      BY <1>2, <2>1 DEF RecordTransaction
    <3>2. m.date \in Days /\ m.date # Nil /\ m.amount \in Int
      BY <1>1, CallMovement, DaysAssumption DEF RepairInv
    <3>3. row \in Debtor
      BY <3>2, BalanceTypes DEF RepairInv, Debtor, SinceIfNotExists
    <3>4. latest'[k] = row /\ row # Nil
      BY <3>1, <3>3, NilAssumption DEF RepairInv, IInv, TypeOK
    <3>5. Balance(k)' = Balance(k) + m.amount /\ Since(k)' = SinceIfNotExists(k, m.date)
      BY <3>4 DEF Balance, Since
    <3>6. opened'[k] = OpenedAfter(opened[k], Balance(k), Balance(k) + m.amount, m.date)
      BY <1>2, <2>1 DEF RecordTransaction, RepairInv, IInv, TypeOK
    <3> QED
      BY <1>8, <3>2, <3>5, <3>6 DEF OpenedAfter, SinceIfNotExists
  <2>2. CASE DeleteTransaction(p)
    <3> DEFINE m == call[p].mov
               row == [latest[k] EXCEPT !.balance = Balance(k) - m.amount]
    <3>1. latest' = [latest EXCEPT ![k] = row]
      BY <1>2, <2>2 DEF DeleteTransaction
    <3>2. latest[k] # Nil /\ latest[k] \in Debtor
      BY <1>2, <2>2 DEF DeleteTransaction, Deletable, RepairInv, IInv, TypeOK
    <3>3. row.balance = Balance(k) - m.amount /\ row.since = Since(k) /\ row # Nil
      <4>1. Balance(k) - m.amount \in Int
        BY <1>1, CallMovement, BalanceTypes DEF RepairInv
      <4>2. row \in Debtor
        BY <3>2, <4>1 DEF Debtor
      <4> QED
        BY <3>2, <4>2, NilAssumption DEF Debtor, Since
    <3> HIDE DEF row
    <3>4. latest'[k] = row
      BY <3>1 DEF RepairInv, IInv, TypeOK
    <3>5. Balance(k)' = Balance(k) - m.amount /\ Since(k)' = Since(k)
      BY <3>3, <3>4 DEF Balance, Since
    <3>6. clientRows' = clientRows \ {m}
      BY <2>2 DEF DeleteTransaction, EraseCopies
    <3>7. opened'[k] = OpenedAfter(opened[k], Balance(k), Balance(k) - m.amount,
                                   sinceFromMovements(OfClient(clientRows', k)))
      BY <1>2, <2>2, <3>6 DEF DeleteTransaction, RepairInv, IInv, TypeOK
    <3> QED
      BY <1>8, <3>5, <3>7 DEF OpenedAfter
  <2> QED
    BY <2>1, <2>2
<1>12. NothingLost' /\ RestedRows'
  <2>1. NothingLost'
    BY <1>5, LostAssumption DEF OpeningInv, NothingLost
  <2>2. RestedRows'
    BY <1>5, <1>9, <1>10, LostAssumption DEF OpeningInv, RestedRows
  <2> QED
    BY <2>1, <2>2
<1>13. OwnRepairs'
  <2> SUFFICES ASSUME NEW q \in Procs, Settling(q)'
               PROVE  pending'[Client(q)'] = q
    BY DEF OwnRepairs
  <2>1. CASE q = p
    BY <1>2, <1>3, <1>4, <1>5, <2>1 DEF Client
  <2>2. CASE q # p
    <3>1. Settling(q) /\ Client(q)' = Client(q) /\ call[q].step # "idle"
      BY <1>3, <2>2 DEF Settling, Client
    <3>2. Client(q) \in Clients /\ Client(q) # k /\ pending[Client(q)] = q
      BY <1>6, <2>2, <3>1, CallMovement DEF OpeningInv, OwnRepairs, RepairInv, At, Client
    <3> QED
      BY <1>5, <3>1, <3>2
  <2> QED
    BY <2>1, <2>2
<1>14. RightDays'
  <2> SUFFICES ASSUME NEW q \in Procs, NEW c \in Clients, pending'[c] = q
               PROVE  Foretold(call[q], c)'
    BY DEF RightDays
  <2>1. CASE c = k
    <3>1. q = p
      BY <1>5, <2>1
    <3> QED
      BY <1>3, <1>4, <1>11, <2>1, <3>1 DEF Foretold
  <2>2. CASE c # k
    <3>1. pending[c] = q /\ q # p
      BY <1>1, <1>5, <2>2, NothingOwed
    <3>2. Foretold(call'[q], c)
      BY <1>3, <3>1 DEF OpeningInv, RightDays
    <3> QED
      BY <1>9, <1>10, <2>2, <3>2 DEF Foretold
  <2> QED
    BY <2>1, <2>2
<1> QED
  BY <1>12, <1>13, <1>14 DEF OpeningInv

LEMMA OpeningNext ==
  ASSUME "failure" \notin Calls, RepairInv, OpeningInv, RepairsTakeTurns, RepairsTakeTurns',
         [Next]_vars
  PROVE  OpeningInv'
<1>1. CASE UNCHANGED vars
  BY <1>1 DEF vars, OpeningInv, NothingLost, RestedRows, OwnRepairs, RightDays, Settling, Client,
              Foretold, Since, Balance
<1>2. CASE Next
  BY <1>2, OpeningBegins, OpeningSettles, OpeningLands, OpeningMoves
  DEF Next, Record, Delete, settleSince, Fail
<1> QED
  BY <1>1, <1>2

(* As long as no call is cut short and two calls never repair the same     *)
(* client at once, "desde" of a client at rest is the day its balance left *)
(* zero, as the in-memory store keeps it under one lock                    *)
(* (settleSince, sinceFromHistory, writeSince).                            *)
THEOREM TurnsKeepTheOpeningDay ==
  ASSUME "failure" \notin Calls
  PROVE  Spec /\ []RepairsTakeTurns => []SinceIsOpeningDay
<1>1. Init => OpeningInv
  BY OpeningInit
<1>2. RepairInv /\ OpeningInv /\ RepairsTakeTurns /\ RepairsTakeTurns' /\ [Next]_vars => OpeningInv'
  BY OpeningNext
<1>3. OpeningInv => SinceIsOpeningDay
  BY DEF OpeningInv, RestedRows, SinceIsOpeningDay
<1> QED
  BY <1>1, <1>2, <1>3, RepairInvariant, PTL DEF Spec

(* One caller at a time is enough for the turns.                           *)
THEOREM OneCallerKeepsTheOpeningDay ==
  ASSUME "failure" \notin Calls, \A p, q \in Procs : p = q
  PROVE  Spec => []SinceIsOpeningDay
<1>1. RepairsTakeTurns
  BY DEF RepairsTakeTurns
<1> QED
  BY <1>1, TurnsKeepTheOpeningDay, PTL

-----------------------------------------------------------------------------
(* LoopsAreTheDefinitions: what each loop has after i rounds is what the   *)
(* definition says of the first i lines.                                   *)

LEMMA SameOpenings ==
  ASSUME NEW A, NEW B, Openings(A) = Openings(B)
  PROVE  sinceFromMovements(A) = sinceFromMovements(B)
BY DEF sinceFromMovements

(* A later movement settles the replay as one round of the loop does.      *)
LEMMA ReplayOneMore ==
  ASSUME NEW U \in SUBSET Movement, IsFiniteSet(U), NEW m \in Movement, m \notin U,
         UniqueIds(U \cup {m}), \A k \in U : Before(k, m)
  PROVE  sinceFromMovements(U \cup {m}) =
            IF clearSince(Sum(U \cup {m})) THEN Nil
            ELSE IF clearSince(Sum(U)) THEN m.date ELSE sinceFromMovements(U)
<1> DEFINE V == U \cup {m}
<1>1. V \in SUBSET Movement /\ IsFiniteSet(V) /\ UniqueIds(V) /\ m \in V /\ U \subseteq V
  BY FS_AddElement
<1>2. \A k \in V : ~Before(m, k)
  BY <1>1, BeforeIsAnOrder
<1>3. Earlier(V, m) = U /\ UpTo(V, m) = V
  BY <1>2 DEF Earlier, UpTo
<1>4. \A k \in U : Earlier(V, k) = Earlier(U, k) /\ UpTo(V, k) = UpTo(U, k)
  BY <1>2 DEF Earlier, UpTo
<1>5. \A k \in V : k \in Openings(V) <=>
         /\ clearSince(Sum(Earlier(V, k)))
         /\ \A n \in V : n = k \/ Before(k, n) => ~clearSince(Sum(UpTo(V, n)))
  BY DEF Openings
<1>6. CASE clearSince(Sum(V))
  <2>1. \A k \in V : k \notin Openings(V)
    BY <1>1, <1>3, <1>5, <1>6
  <2>2. Openings(V) = {}
    BY <2>1 DEF Openings
  <2>3. sinceFromMovements(V) = Nil
    BY <2>2 DEF sinceFromMovements
  <2> QED
    BY <1>6, <2>3
<1>7. CASE ~clearSince(Sum(V)) /\ clearSince(Sum(U))
  <2>1. m \in Openings(V)
    BY <1>1, <1>2, <1>3, <1>5, <1>7
  <2>2. ASSUME NEW k \in U, k \in Openings(V)
        PROVE  FALSE
    <3>1. UniqueIds(U)
      BY <1>1 DEF UniqueIds
    <3>2. PICK last \in U : \A j \in U : ~Before(last, j)
      BY <2>2, <3>1, LastOf
    <3>3. UpTo(U, last) = U
      BY <3>1, <3>2, BeforeIsAnOrder DEF UpTo
    <3>4. last = k \/ Before(k, last)
      BY <3>1, <3>2, BeforeIsAnOrder
    <3>5. ~clearSince(Sum(UpTo(V, last)))
      BY <1>1, <1>5, <2>2, <3>4
    <3> QED
      BY <1>4, <1>7, <3>3, <3>5
  <2>3. Openings(V) = {m}
    <3>1. Openings(V) \subseteq V
      BY DEF Openings
    <3> QED
      BY <2>1, <2>2, <3>1
  <2>4. sinceFromMovements(V) = m.date
    BY <2>3 DEF sinceFromMovements
  <2> QED
    BY <1>7, <2>4
<1>8. CASE ~clearSince(Sum(V)) /\ ~clearSince(Sum(U))
  <2>1. m \notin Openings(V)
    BY <1>1, <1>3, <1>5, <1>8
  <2>2. \A k \in U : k \in Openings(V) <=> k \in Openings(U)
    <3> TAKE k \in U
    <3>1. k \in Openings(U) <=>
             /\ clearSince(Sum(Earlier(U, k)))
             /\ \A n \in U : n = k \/ Before(k, n) => ~clearSince(Sum(UpTo(U, n)))
      BY DEF Openings
    <3> QED
      BY <1>1, <1>3, <1>4, <1>5, <1>8, <3>1
  <2>3. Openings(V) = Openings(U)
    BY <2>1, <2>2 DEF Openings
  <2>4. sinceFromMovements(V) = sinceFromMovements(U)
    BY <2>3, SameOpenings
  <2> QED
    BY <1>8, <2>4
<1> QED
  BY <1>6, <1>7, <1>8

(* oldestFirst is the lines one after the other.                           *)
Replayed(S, line) ==
    /\ line \in [1 .. Cardinality(S) -> S]
    /\ \A i, j \in 1 .. Cardinality(S) : i < j => Before(line[i], line[j])
    /\ \A m \in S : \E i \in 1 .. Cardinality(S) : line[i] = m

LEMMA OldestFirstMeans ==
  ASSUME NEW S \in SUBSET Movement, IsFiniteSet(S), UniqueIds(S)
  PROVE  Replayed(S, oldestFirst(S))
<1> DEFINE n       == Cardinality(S)
           rank    == [m \in S |-> Cardinality(Earlier(S, m)) + 1]
           line    == oldestFirst(S)
<1>1. n \in Nat /\ n \in Int /\ IsFiniteSet(1 .. n) /\ Cardinality(1 .. n) = n
  <2>1. n \in Nat
    BY FS_CardinalityType
  <2> QED
    BY <2>1, FS_Interval
<1>2. \A m \in S : Cardinality(Earlier(S, m)) \in 0 .. n - 1
  <2> TAKE m \in S
  <2>1. Earlier(S, m) \in SUBSET S /\ m \notin Earlier(S, m)
    BY BeforeIsAnOrder DEF Earlier
  <2>2. Cardinality(Earlier(S, m)) <= n /\ Cardinality(Earlier(S, m)) # n
    BY <2>1, FS_Subset
  <2>3. Cardinality(Earlier(S, m)) \in Nat
    BY EarlierIsBounded
  <2> HIDE DEF n
  <2> QED
    BY <1>1, <2>2, <2>3
<1> HIDE DEF n
<1>3. rank \in [S -> 1 .. n] /\ \A m \in S : rank[m] \in Int
  <2>1. \A m \in S : Cardinality(Earlier(S, m)) + 1 \in 1 .. n
    BY <1>1, <1>2
  <2> QED
    BY <1>1, <2>1
<1>4. \A m, k \in S : Before(m, k) => rank[m] < rank[k]
  <2> SUFFICES ASSUME NEW m \in S, NEW k \in S, Before(m, k) PROVE rank[m] < rank[k]
    OBVIOUS
  <2>1. Cardinality(Earlier(S, m)) < Cardinality(Earlier(S, k))
    BY EarlierIsFewer
  <2>2. Cardinality(Earlier(S, m)) \in Nat /\ Cardinality(Earlier(S, k)) \in Nat
    BY EarlierIsBounded
  <2> QED
    BY <2>1, <2>2
<1> HIDE DEF rank
<1>5. rank \in Injection(S, 1 .. n)
  <2>1. \A m, k \in S : m # k => rank[m] # rank[k]
    BY <1>3, <1>4, BeforeIsAnOrder
  <2> QED
    BY <1>3, <2>1 DEF Injection, IsInjective
<1>6. \A i \in 1 .. n : \E m \in S : rank[m] = i
  <2>1. rank \in Surjection(S, 1 .. n)
    BY <1>1, <1>5, FS_Injection DEF n
  <2> QED
    BY <2>1 DEF Surjection
<1>7. \E s \in [1 .. n -> S] : \A i, j \in 1 .. n : i < j => s[i] # s[j] /\ ~Before(s[j], s[i])
  <2> DEFINE s == [i \in 1 .. n |-> CHOOSE m \in S : rank[m] = i]
  <2>1. \A i \in 1 .. n : s[i] \in S /\ rank[s[i]] = i
    BY <1>6
  <2>2. s \in [1 .. n -> S]
    BY <2>1
  <2> HIDE DEF s
  <2>3. ASSUME NEW i \in 1 .. n, NEW j \in 1 .. n, i < j
        PROVE  s[i] # s[j] /\ ~Before(s[j], s[i])
    BY <1>1, <1>4, <2>1, <2>3
  <2> QED
    BY <2>2, <2>3
<1>8. /\ line \in [1 .. n -> S]
      /\ \A i, j \in 1 .. n : i < j => line[i] # line[j] /\ ~Before(line[j], line[i])
  <2>1. line = CHOOSE s \in [1 .. n -> S] :
                  \A i, j \in 1 .. n : i < j => s[i] # s[j] /\ ~Before(s[j], s[i])
    BY DEF oldestFirst, InOrder, n
  <2> HIDE DEF line
  <2> QED
    BY <1>7, <2>1
<1> HIDE DEF line
<1>9. \A i, j \in 1 .. n : i < j => Before(line[i], line[j])
  <2> SUFFICES ASSUME NEW i \in 1 .. n, NEW j \in 1 .. n, i < j
               PROVE  Before(line[i], line[j])
    OBVIOUS
  <2>1. line[i] \in S /\ line[j] \in S /\ line[i] # line[j] /\ ~Before(line[j], line[i])
    BY <1>8
  <2> QED
    BY <2>1, BeforeIsAnOrder
<1>10. line \in Injection(1 .. n, S)
  <2>1. \A i, j \in 1 .. n : i # j => line[i] # line[j]
    <3> SUFFICES ASSUME NEW i \in 1 .. n, NEW j \in 1 .. n, i # j
                 PROVE  line[i] # line[j]
      OBVIOUS
    <3>1. i < j \/ j < i
      BY <1>1
    <3> QED
      BY <1>8, <3>1
  <2> QED
    BY <1>8, <2>1 DEF Injection, IsInjective
<1>11. line \in Surjection(1 .. n, S)
  BY <1>1, <1>10, FS_Injection DEF n
<1> QED
  BY <1>8, <1>9, <1>11 DEF Replayed, Surjection, n, line

(* The first i lines.                                                      *)
First(line, i) == {line[j] : j \in 1 .. i}

LEMMA FirstLines ==
  ASSUME NEW S \in SUBSET Movement, IsFiniteSet(S), UniqueIds(S), NEW line, Replayed(S, line)
  PROVE  /\ First(line, 0) = {} /\ First(line, Cardinality(S)) = S
         /\ \A i \in 1 .. Cardinality(S) :
              LET U == First(line, i - 1)
                  m == line[i]
              IN  /\ U \in SUBSET S /\ IsFiniteSet(U) /\ m \in S /\ m \notin U
                  /\ First(line, i) = U \cup {m} /\ \A k \in U : Before(k, m)
                  /\ UniqueIds(U \cup {m})
<1> DEFINE n == Cardinality(S)
<1>1. n \in Nat
  BY FS_CardinalityType
<1>2. /\ line \in [1 .. n -> S]
      /\ \A i, j \in 1 .. n : i < j => Before(line[i], line[j])
      /\ \A m \in S : \E i \in 1 .. n : line[i] = m
  BY DEF Replayed
<1> HIDE DEF n
<1>3. First(line, 0) = {}
  BY DEF First
<1>4. First(line, n) = S
  BY <1>2 DEF First
<1>5. ASSUME NEW i \in 1 .. n
      PROVE  LET U == First(line, i - 1)
                 m == line[i]
             IN  /\ U \in SUBSET S /\ IsFiniteSet(U) /\ m \in S /\ m \notin U
                 /\ First(line, i) = U \cup {m} /\ \A k \in U : Before(k, m)
                 /\ UniqueIds(U \cup {m})
  <2> DEFINE U == First(line, i - 1)
             m == line[i]
  <2>1. 1 .. i = (1 .. (i - 1)) \cup {i} /\ 1 .. (i - 1) \subseteq 1 .. n
        /\ \A j \in 1 .. (i - 1) : j < i
    BY <1>1
  <2>2. m \in S /\ U \in SUBSET S
    BY <1>2, <2>1 DEF First
  <2>3. First(line, i) = U \cup {m}
    BY <2>1 DEF First
  <2>4. \A k \in U : Before(k, m)
    BY <1>2, <2>1 DEF First
  <2>5. m \notin U
    BY <2>2, <2>4, BeforeIsAnOrder
  <2>6. IsFiniteSet(U) /\ UniqueIds(U \cup {m})
    BY <2>2, FS_Subset DEF UniqueIds
  <2> QED
    BY <2>2, <2>3, <2>4, <2>5, <2>6
<1> QED
  BY <1>3, <1>4, <1>5 DEF n

(* Two loops that begin alike and go on alike are alike.                   *)
LEMMA RoundsAgree ==
  ASSUME NEW n \in Nat, NEW f, NEW g, f[0] = g[0],
         \A i \in 1 .. n : f[i - 1] = g[i - 1] => f[i] = g[i]
  PROVE  f[n] = g[n]
<1> DEFINE T == {i \in 0 .. n : f[i] # g[i]}
<1>1. SUFFICES ASSUME f[n] # g[n] PROVE FALSE
  OBVIOUS
<1>2. T \in SUBSET Nat /\ T # {}
  BY <1>1
<1>3. PICK i \in T : \A j \in T : i <= j
  BY <1>2, LeastNatural
<1>4. i \in 1 .. n /\ i - 1 \in 0 .. n /\ f[i] # g[i]
  BY <1>3
<1>5. i - 1 \notin T
  BY <1>3, <1>4
<1> QED
  BY <1>4, <1>5

LEMMA SumAfterRounds ==
  ASSUME NEW S \in SUBSET Movement, IsFiniteSet(S), UniqueIds(S)
  PROVE  SumLoop(S) = Sum(S)
<1> DEFINE n    == Cardinality(S)
           line == oldestFirst(S)
           sum  == [i \in 0 .. n |-> Sum(First(line, i))]
           Rounds(f) == f = [i \in 0 .. n |-> IF i = 0 THEN 0 ELSE f[i - 1] + line[i].amount]
           total == CHOOSE f : Rounds(f)
<1>1. n \in Nat
  BY FS_CardinalityType
<1>2. Replayed(S, line)
  BY OldestFirstMeans
<1> HIDE DEF line
<1>3. /\ First(line, 0) = {} /\ First(line, n) = S
      /\ \A i \in 1 .. n :
           Sum(First(line, i)) = Sum(First(line, i - 1)) + line[i].amount
  <2>1. ASSUME NEW i \in 1 .. n
        PROVE  Sum(First(line, i)) = Sum(First(line, i - 1)) + line[i].amount
    <3> DEFINE U == First(line, i - 1)
               m == line[i]
    <3>1. U \in SUBSET Movement /\ IsFiniteSet(U) /\ m \in Movement /\ m \notin U
          /\ First(line, i) = U \cup {m}
      BY <1>2, FirstLines
    <3> HIDE DEF U, m
    <3>2. Sum(U \cup {m}) = Sum(U) + m.amount
      BY <3>1, SumAdd
    <3> QED
      BY <3>1, <3>2 DEF U, m
  <2> QED
    BY <1>2, <2>1, FirstLines
<1>4. Rounds(sum)
  <2>1. \A i \in 0 .. n : sum[i] = IF i = 0 THEN 0 ELSE sum[i - 1] + line[i].amount
    <3> TAKE i \in 0 .. n
    <3>1. CASE i = 0
      BY <1>1, <1>3, <3>1, SumEmpty
    <3>2. CASE i # 0
      <4>1. i \in 1 .. n /\ i - 1 \in 0 .. n
        BY <1>1, <3>2
      <4>2. sum[i] = Sum(First(line, i)) /\ sum[i - 1] = Sum(First(line, i - 1))
        BY <4>1
      <4> QED
        BY <1>3, <3>2, <4>1, <4>2
    <3> QED
      BY <3>1, <3>2
  <2> QED
    BY <2>1
<1> HIDE DEF Rounds
<1>5. Rounds(total)
  BY <1>4
<1> HIDE DEF total
<1>6. /\ \A i \in 0 .. n : total[i] = IF i = 0 THEN 0 ELSE total[i - 1] + line[i].amount
      /\ \A i \in 0 .. n : sum[i] = IF i = 0 THEN 0 ELSE sum[i - 1] + line[i].amount
  BY <1>4, <1>5 DEF Rounds
<1> HIDE DEF sum
<1>7. total[0] = sum[0] /\ \A i \in 1 .. n : total[i - 1] = sum[i - 1] => total[i] = sum[i]
  BY <1>1, <1>6
<1>8. total[n] = sum[n]
  BY <1>1, <1>7, RoundsAgree
<1>9. SumLoop(S) = total[n]
  BY DEF SumLoop, total, Rounds, line, n
<1>10. sum[n] = Sum(S)
  BY <1>1, <1>3 DEF sum
<1> QED
  BY <1>8, <1>9, <1>10

LEMMA ReplayAfterRounds ==
  ASSUME NEW S \in SUBSET Movement, IsFiniteSet(S), UniqueIds(S)
  PROVE  ReplayLoop(S) = sinceFromMovements(S)
<1> DEFINE n    == Cardinality(S)
           line == oldestFirst(S)
           Upto(i) == [running |-> Sum(First(line, i)),
                       since |-> sinceFromMovements(First(line, i))]
           state == [i \in 0 .. n |-> Upto(i)]
           Rounds(f) == f = [i \in 0 .. n |->
                               IF i = 0 THEN [running |-> 0, since |-> Nil]
                               ELSE Replay(f[i - 1], line[i])]
           after == CHOOSE f : Rounds(f)
<1>1. n \in Nat
  BY FS_CardinalityType
<1>2. Replayed(S, line)
  BY OldestFirstMeans
<1> HIDE DEF line
<1>3. First(line, 0) = {} /\ First(line, n) = S
  BY <1>2, FirstLines
<1>4. ASSUME NEW i \in 1 .. n
      PROVE  Upto(i) = Replay(Upto(i - 1), line[i])
  <2> DEFINE U == First(line, i - 1)
             m == line[i]
  <2>1. U \in SUBSET Movement /\ IsFiniteSet(U) /\ m \in Movement /\ m \notin U
        /\ First(line, i) = U \cup {m} /\ UniqueIds(U \cup {m}) /\ \A k \in U : Before(k, m)
    BY <1>2, FirstLines
  <2> HIDE DEF U, m
  <2>2. Sum(U \cup {m}) = Sum(U) + m.amount
    BY <2>1, SumAdd
  <2>3. sinceFromMovements(U \cup {m}) =
            IF clearSince(Sum(U \cup {m})) THEN Nil
            ELSE IF clearSince(Sum(U)) THEN m.date ELSE sinceFromMovements(U)
    BY <2>1, ReplayOneMore
  <2>4. Replay([running |-> Sum(U), since |-> sinceFromMovements(U)], m)
          = [running |-> Sum(U \cup {m}), since |-> sinceFromMovements(U \cup {m})]
    BY <2>2, <2>3 DEF Replay
  <2> QED
    BY <2>1, <2>4 DEF U, m
<1>5. Upto(0) = [running |-> 0, since |-> Nil]
  <2>1. Sum({}) = 0 /\ sinceFromMovements({}) = Nil
    BY SumEmpty DEF sinceFromMovements, Openings
  <2> QED
    BY <1>3, <2>1
<1> HIDE DEF Upto
<1>6. Rounds(state)
  <2>1. \A i \in 0 .. n : state[i] = IF i = 0 THEN [running |-> 0, since |-> Nil]
                                     ELSE Replay(state[i - 1], line[i])
    <3> TAKE i \in 0 .. n
    <3>1. CASE i = 0
      BY <1>1, <1>5, <3>1
    <3>2. CASE i # 0
      <4>1. i \in 1 .. n /\ i - 1 \in 0 .. n
        BY <1>1, <3>2
      <4>2. state[i] = Upto(i) /\ state[i - 1] = Upto(i - 1)
        BY <4>1
      <4> QED
        BY <1>4, <3>2, <4>1, <4>2
    <3> QED
      BY <3>1, <3>2
  <2> QED
    BY <2>1
<1> HIDE DEF Rounds
<1>7. Rounds(after)
  BY <1>6
<1> HIDE DEF after
<1>8. /\ \A i \in 0 .. n : after[i] = IF i = 0 THEN [running |-> 0, since |-> Nil]
                                      ELSE Replay(after[i - 1], line[i])
      /\ \A i \in 0 .. n : state[i] = IF i = 0 THEN [running |-> 0, since |-> Nil]
                                      ELSE Replay(state[i - 1], line[i])
  BY <1>6, <1>7 DEF Rounds
<1> HIDE DEF state
<1>9. after[0] = state[0] /\ \A i \in 1 .. n : after[i - 1] = state[i - 1] => after[i] = state[i]
  BY <1>1, <1>8
<1>10. after[n] = state[n]
  BY <1>1, <1>9, RoundsAgree
<1>11. ReplayLoop(S) = after[n].since
  BY DEF ReplayLoop, after, Rounds, line, n
<1>12. state[n].since = sinceFromMovements(S)
  BY <1>1, <1>3 DEF state, Upto
<1> QED
  BY <1>10, <1>11, <1>12

(* The day that the replay finds is that of a purchase, and there is none  *)
(* without a debt.                                                         *)
LEMMA SettledHasNoOpening ==
  ASSUME NEW S \in SUBSET Movement, IsFiniteSet(S), UniqueIds(S), clearSince(Sum(S))
  PROVE  sinceFromMovements(S) = Nil
<1>1. ASSUME NEW k \in Openings(S)
      PROVE  FALSE
  <2>1. k \in S /\ \A n \in S : n = k \/ Before(k, n) => ~clearSince(Sum(UpTo(S, n)))
    BY DEF Openings
  <2>2. PICK last \in S : \A j \in S : ~Before(last, j)
    BY <2>1, LastOf
  <2>3. UpTo(S, last) = S /\ (last = k \/ Before(k, last))
    BY <2>1, <2>2, BeforeIsAnOrder DEF UpTo
  <2> QED
    BY <2>1, <2>2, <2>3
<1> QED
  BY <1>1 DEF sinceFromMovements

LEMMA OpeningIsAPurchase ==
  ASSUME NEW S \in SUBSET Movement, IsFiniteSet(S), UniqueIds(S), ~clearSince(Sum(S))
  PROVE  \E m \in S : m.amount > 0 /\ m.date = sinceFromMovements(S)
<1> DEFINE m == CHOOSE m \in Openings(S) : TRUE
           E == Earlier(S, m)
<1>1. m \in Openings(S) /\ sinceFromMovements(S) = m.date
  BY OpeningExists DEF sinceFromMovements
<1> HIDE DEF m
<1>2. /\ m \in S /\ m \in Movement /\ clearSince(Sum(E)) /\ ~clearSince(Sum(UpTo(S, m)))
      /\ m.amount \in Int
  BY <1>1, MovementFields DEF Openings
<1>3. E \in SUBSET Movement /\ IsFiniteSet(E) /\ m \notin E /\ UpTo(S, m) = E \cup {m}
  <2>1. E \in SUBSET S /\ m \notin E /\ UpTo(S, m) = E \cup {m}
    BY <1>2, BeforeIsAnOrder DEF Earlier, UpTo
  <2> QED
    BY <2>1, FS_Subset
<1> HIDE DEF E
<1>4. Sum(UpTo(S, m)) = Sum(E) + m.amount /\ Sum(E) \in Int
  BY <1>2, <1>3, SumAdd
<1>5. m.amount > 0
  BY <1>2, <1>4 DEF clearSince
<1> QED
  BY <1>1, <1>2, <1>5

(* The loops of fiado.go over the timeline of a client, in every reachable *)
(* state: the total is the balance, the replay finds a day exactly when    *)
(* money is owed, and what is shown as open for some days is (Sum,         *)
(* sinceFromMovements, Debtor.DaysOpen).                                   *)
THEOREM LoopsMeanTheirDefinitions == Spec => []LoopsAreTheDefinitions
<1>1. RepairInv => LoopsAreTheDefinitions
  <2> SUFFICES ASSUME RepairInv, NEW c \in Clients
               PROVE  LET lines == OfClient(clientRows, c)
                      IN  /\ Sum(lines) = SumLoop(lines)
                          /\ ReplayLoop(lines) = sinceFromMovements(lines)
                          /\ ReplayLoop(lines) = Nil <=> clearSince(SumLoop(lines))
                          /\ \A today \in Days \cup {d + 1 : d \in Days} :
                               LET n == DaysOpen(SumLoop(lines), ReplayLoop(lines), today)
                               IN  n # Nil => /\ n >= 1
                                              /\ SumLoop(lines) > 0
                                              /\ \E m \in lines : m.amount > 0 /\ m.date = today - n
    BY DEF LoopsAreTheDefinitions, SumIsTheLoop, ReplayIsTheDefinition, DaysOpenIsMeasurable
  <2> DEFINE S == OfClient(clientRows, c)
  <2>1. S \in SUBSET Movement /\ IsFiniteSet(S) /\ UniqueIds(S)
    <3>1. S \subseteq issued /\ issued \subseteq Movement /\ IsFiniteSet(issued) /\ UniqueIds(issued)
      BY DEF RepairInv, IInv, TypeOK, Provenance, IdsAreFresh, OfClient
    <3> QED
      BY <3>1, FS_Subset DEF UniqueIds
  <2> HIDE DEF S
  <2>2. SumLoop(S) = Sum(S) /\ ReplayLoop(S) = sinceFromMovements(S)
    BY <2>1, SumAfterRounds, ReplayAfterRounds
  <2>3. Sum(S) \in Int
    <3>1. Cardinality(Owed(S, 1)) \in Nat /\ Cardinality(Owed(S, -1)) \in Nat
      BY <2>1, OwedFinite
    <3> QED
      BY <2>1, <3>1, SumIsOwed
  <2>4. sinceFromMovements(S) = Nil <=> clearSince(Sum(S))
    BY <2>1, ReplayFindsADay, SettledHasNoOpening
  <2>5. ASSUME NEW today \in Days \cup {d + 1 : d \in Days},
               DaysOpen(Sum(S), sinceFromMovements(S), today) # Nil
        PROVE  LET n == DaysOpen(Sum(S), sinceFromMovements(S), today)
               IN  /\ n >= 1
                   /\ Sum(S) > 0
                   /\ \E m \in S : m.amount > 0 /\ m.date = today - n
    <3> DEFINE since == sinceFromMovements(S)
    <3>1. ~clearSince(Sum(S)) /\ since # Nil /\ ~(today - since < 1)
          /\ DaysOpen(Sum(S), since, today) = today - since
      BY <2>5 DEF DaysOpen
    <3>2. today \in Int /\ since \in Int
      <4>1. since \in Days /\ Days \subseteq Int
        BY <2>1, <3>1, ReplayFindsADay, DaysAssumption
      <4>2. \A d \in Days : d + 1 \in Int
        BY <4>1
      <4> HIDE DEF since
      <4> QED
        BY <4>1, <4>2
    <3>3. PICK m \in S : m.amount > 0 /\ m.date = since
      BY <2>1, <3>1, OpeningIsAPurchase
    <3> HIDE DEF since
    <3>4. Sum(S) > 0 /\ today - since >= 1 /\ today - (today - since) = since
      BY <2>3, <3>1, <3>2 DEF clearSince
    <3> QED
      BY <3>1, <3>3, <3>4 DEF since
  <2> QED
    BY <2>2, <2>4, <2>5 DEF S
<1> QED
  BY <1>1, RepairInvariant, PTL
=============================================================================
