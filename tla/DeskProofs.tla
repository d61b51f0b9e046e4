----------------------------- MODULE DeskProofs -----------------------------
(***************************************************************************)
(* Theorems about the desk as a whole: what was proved of the ledger, the  *)
(* catalog and the names each on its own holds of the one specification    *)
(* that runs them together; and about what people and the model are        *)
(* answered at it, the statements and lists of the caderninho (Timelines,  *)
(* FiadoNames) and the turn of the assistant (Assistant).                  *)
(***************************************************************************)
EXTENDS Desk, Sums

-----------------------------------------------------------------------------
(* The elements of a finite set, one after the other.                      *)

(* A finite set has an order that agrees with any R in which "neither      *)
(* before the other" is transitive: InOrder chooses one.  Ties are broken  *)
(* by a numbering of the set; the rank of an element is the number of      *)
(* those before it.                                                        *)
LEMMA OrderExists ==
  ASSUME NEW S, IsFiniteSet(S), NEW R,
         \A x \in S : <<x, x>> \notin R,
         \A x, y, z \in S : <<x, y>> \in R /\ <<y, z>> \in R => <<x, z>> \in R,
         \A x, y, z \in S : <<x, z>> \in R => <<x, y>> \in R \/ <<y, z>> \in R
  PROVE  \E s \in [1 .. Cardinality(S) -> S] :
            \A i, j \in 1 .. Cardinality(S) :
               i < j => s[i] # s[j] /\ <<s[j], s[i]>> \notin R
<1> DEFINE n == Cardinality(S)
<1>1. n \in Int /\ n \in Nat /\ IsFiniteSet(1 .. n) /\ Cardinality(1 .. n) = n
  <2>1. n \in Nat
    BY FS_CardinalityType
  <2> QED
    BY <2>1, FS_Interval
<1>2. PICK num \in [S -> 1 .. n] : \A x, y \in S : x # y => num[x] # num[y]
  <2>1. PICK b \in Bijection(1 .. n, S) : TRUE
    BY FS_CardinalityType DEF ExistsBijection
  <2>2. b \in [1 .. n -> S] /\ \A x \in S : \E k \in 1 .. n : b[k] = x
    BY <2>1 DEF Bijection, Surjection
  <2> DEFINE num == [x \in S |-> CHOOSE k \in 1 .. n : b[k] = x]
  <2>3. \A x \in S : num[x] \in 1 .. n /\ b[num[x]] = x
    BY <2>2
  <2> HIDE DEF num
  <2> QED
    <3>1. num \in [S -> 1 .. n]
      <4>1. num = [x \in S |-> num[x]]
        BY DEF num
      <4> QED
        BY <2>3, <4>1
    <3> QED
      BY <2>3, <3>1
<1>0. \A x \in S : num[x] \in Int /\ num[x] \in 1 .. n
  BY <1>1, <1>2
<1> DEFINE Less(x, y) == <<x, y>> \in R \/ (<<y, x>> \notin R /\ num[x] < num[y])
           Below(x)   == {y \in S : Less(y, x)}
           rank       == [x \in S |-> Cardinality(Below(x)) + 1]
<1>3. \A x \in S : ~Less(x, x)
  <2> TAKE x \in S
  <2>1. ~(num[x] < num[x])
    BY <1>0
  <2> QED
    BY <2>1
<1>4. \A x, y \in S : x # y => Less(x, y) \/ Less(y, x)
  <2> SUFFICES ASSUME NEW x \in S, NEW y \in S, x # y PROVE Less(x, y) \/ Less(y, x)
    OBVIOUS
  <2>1. num[x] < num[y] \/ num[y] < num[x]
    BY <1>0, <1>2
  <2> QED
    BY <2>1
<1>5. \A x, y, z \in S : Less(x, y) /\ Less(y, z) => Less(x, z)
  BY <1>0
<1> HIDE DEF Less, n
<1>6. \A x \in S : /\ IsFiniteSet(Below(x)) /\ Cardinality(Below(x)) \in Int
                   /\ Cardinality(Below(x)) \in 0 .. n - 1
  <2> TAKE x \in S
  <2>1. Below(x) \in SUBSET S /\ x \notin Below(x)
    BY <1>3
  <2>2. /\ IsFiniteSet(Below(x)) /\ Cardinality(Below(x)) <= n
        /\ Cardinality(Below(x)) # n
    BY <2>1, FS_Subset DEF n
  <2>3. Cardinality(Below(x)) \in Nat
    BY <2>2, FS_CardinalityType
  <2> QED
    BY <1>1, <2>2, <2>3
<1>7. rank \in [S -> 1 .. n]
  <2>1. \A x \in S : Cardinality(Below(x)) + 1 \in 1 .. n
    <3> TAKE x \in S
    <3>1. Cardinality(Below(x)) \in 0 .. n - 1
      BY <1>6
    <3> HIDE DEF Below
    <3> QED
      BY <1>1, <3>1
  <2> HIDE DEF Below
  <2> QED
    BY <2>1
<1>8. \A x, y \in S : Less(x, y) => rank[x] < rank[y]
  <2> SUFFICES ASSUME NEW x \in S, NEW y \in S, Less(x, y) PROVE rank[x] < rank[y]
    OBVIOUS
  <2>1. Below(x) \in SUBSET Below(y) /\ x \in Below(y) /\ x \notin Below(x)
    BY <1>3, <1>5
  <2>2. /\ Cardinality(Below(x)) <= Cardinality(Below(y))
        /\ Cardinality(Below(x)) # Cardinality(Below(y))
    BY <1>6, <2>1, FS_Subset
  <2>3. Cardinality(Below(x)) \in Int /\ Cardinality(Below(y)) \in Int
    BY <1>6
  <2>4. rank[x] = Cardinality(Below(x)) + 1 /\ rank[y] = Cardinality(Below(y)) + 1
    OBVIOUS
  <2> HIDE DEF Below, rank
  <2> QED
    BY <2>2, <2>3, <2>4
<1>9. \A k \in 1 .. n : \E x \in S : rank[x] = k
  <2>1. rank \in Injection(S, 1 .. n)
    <3> HIDE DEF rank
    <3>0. \A x \in S : rank[x] \in Int
      BY <1>1, <1>7
    <3>1. \A x, y \in S : x # y => rank[x] # rank[y]
      BY <1>4, <1>8, <3>0
    <3> QED
      BY <1>7, <3>1 DEF Injection, IsInjective
  <2> HIDE DEF rank
  <2>2. rank \in Surjection(S, 1 .. n)
    BY <1>1, <2>1, FS_Injection DEF n
  <2> QED
    BY <2>2 DEF Surjection
<1> DEFINE s == [k \in 1 .. n |-> CHOOSE x \in S : rank[x] = k]
<1> HIDE DEF rank
<1>10. \A k \in 1 .. n : s[k] \in S /\ rank[s[k]] = k
  BY <1>9
<1>11. s \in [1 .. n -> S]
  BY <1>10
<1> HIDE DEF s
<1>12. ASSUME NEW i \in 1 .. n, NEW j \in 1 .. n, i < j
       PROVE  s[i] # s[j] /\ <<s[j], s[i]>> \notin R
  <2>1. s[i] # s[j]
    BY <1>10, <1>12
  <2>2. ~Less(s[j], s[i])
    BY <1>1, <1>8, <1>10, <1>12
  <2> QED
    BY <2>1, <2>2 DEF Less
<1> QED
  BY <1>11, <1>12 DEF n

(* As many different elements as a set has are all of them.                *)
LEMMA OrderIsOnto ==
  ASSUME NEW S, IsFiniteSet(S), NEW s \in [1 .. Cardinality(S) -> S],
         \A i, j \in 1 .. Cardinality(S) : i < j => s[i] # s[j]
  PROVE  \A x \in S : \E k \in 1 .. Cardinality(S) : s[k] = x
<1> DEFINE n == Cardinality(S)
<1>1. n \in Int /\ n \in Nat /\ IsFiniteSet(1 .. n) /\ Cardinality(1 .. n) = n
  <2>1. n \in Nat
    BY FS_CardinalityType
  <2> QED
    BY <2>1, FS_Interval
<1>2. s \in Injection(1 .. n, S)
  <2>1. \A i, j \in 1 .. n : i # j => s[i] # s[j]
    BY <1>1
  <2> QED
    BY <2>1 DEF Injection, IsInjective
<1>3. s \in Surjection(1 .. n, S)
  BY <1>1, <1>2, FS_Injection
<1> QED
  BY <1>3 DEF Surjection

-----------------------------------------------------------------------------
(* Entries and what reading, normalising and patching make of them.        *)

Sound(e) == Valid(e) /\ Normalize(e) = e

LEMMA NormalizeIsSound ==
  ASSUME NEW e \in Entry
  PROVE  /\ Normalize(e) \in Entry
         /\ Normalize(e).id = e.id /\ Normalize(e).date = e.date
         /\ Normalize(Normalize(e)) = Normalize(e)
<1> DEFINE pay    == IF e.status = "pending" THEN Nobody
                     ELSE IF e.status = "paid" /\ e.pay = Nobody THEN e.date ELSE e.pay
           method == IF e.status = "pending" THEN Nobody ELSE e.method
           origin == IF e.type = "expense" THEN Nobody ELSE e.origin
           n      == [e EXCEPT !.pay = pay, !.method = method, !.origin = origin]
<1>1. Normalize(e) = n
  BY DEF Normalize
<1>2. pay \in Days \cup {Nobody} /\ method \in Methods \cup {Nobody} /\ origin \in Origins \cup {Nobody}
  BY DEF Entry
<1>3. pay = IF e.status = "pending" THEN Nobody ELSE IF e.status = "paid" /\ pay = Nobody THEN e.date ELSE pay
  BY EntriesAssumption DEF Entry
<1>4. /\ method = IF e.status = "pending" THEN Nobody ELSE method
      /\ origin = IF e.type = "expense" THEN Nobody ELSE origin
  OBVIOUS
<1> HIDE DEF pay, method, origin
<1>5. n \in Entry
  BY <1>2 DEF Entry
<1>6. /\ n.id = e.id /\ n.date = e.date /\ n.status = e.status /\ n.type = e.type
      /\ n.pay = pay /\ n.method = method /\ n.origin = origin
  BY DEF Entry
<1>7. [n EXCEPT !.pay = n.pay, !.method = n.method, !.origin = n.origin] = n
  BY <1>5 DEF Entry
<1> HIDE DEF n
<1>8. Normalize(n) = n
  BY <1>3, <1>4, <1>6, <1>7 DEF Normalize
<1> QED
  BY <1>1, <1>5, <1>6, <1>8

LEMMA SoundMeans ==
  ASSUME NEW e \in Entry, Sound(e)
  PROVE  /\ e.type = "expense" => e.origin = Nobody
         /\ e.status = "pending" => e.pay = Nobody /\ e.method = Nobody
         /\ e.status = "paid" => e.pay # Nobody
         /\ e.origin \in Origins \cup {Nobody}
BY EntriesAssumption DEF Sound, Entry, Normalize, Valid

(* What is stored is what a read makes of it.                              *)
LEMMA ReadIsStored ==
  ASSUME NEW e \in Entry
  PROVE  LET i == EntryToItem(e)
         IN  /\ Readable(i) /\ EntryToItem(ItemToEntry(i)) = i <=> Sound(e)
             /\ Sound(e) => ItemToEntry(i) = e
<1> DEFINE i == EntryToItem(e)
           healed == [e EXCEPT !.origin = NormalizeIncomeOrigin(@)]
<1>1. i.row = e /\ ItemToEntry(i) = Normalize(healed)
  BY DEF EntryToItem, ItemToEntry
<1>2. EntryToItem(ItemToEntry(i)) = i <=> ItemToEntry(i) = e
  BY <1>1 DEF EntryToItem
<1>3. healed = e
  BY DEF Entry, NormalizeIncomeOrigin
<1> QED
  BY <1>1, <1>2, <1>3 DEF Sound, Readable

(* What a handler may apply to an entry.                                   *)
GoodPatch(p) == /\ PatchIsValid(p)
                /\ DOMAIN p \subseteq PatchFields
                /\ "date"   \in DOMAIN p => p["date"] \in Days
                /\ "due"    \in DOMAIN p => p["due"] \in Days \cup {Nobody}
                /\ "amount" \in DOMAIN p => p["amount"] \in Amounts
                /\ "method" \in DOMAIN p => p["method"] \in Methods \cup {Nobody}

LEMMA ApplyFields ==
  ASSUME NEW e \in Entry, NEW p, GoodPatch(p)
  PROVE  /\ Apply(e, p) \in Entry
         /\ Apply(e, p).id = e.id
         /\ \A f \in DOMAIN e \ Implied(DOMAIN p) : Apply(e, p)[f] = e[f]
<1> DEFINE Field(f) == IF f \in DOMAIN p THEN p[f] ELSE e[f]
           pay == IF "status" \notin DOMAIN p THEN e.pay
                  ELSE IF p["status"] = "pending" THEN Nobody
                  ELSE IF e.status # "paid" \/ e.pay = Nobody THEN Today
                  ELSE e.pay
           a == [id |-> e.id, date |-> Field("date"), due |-> Field("due"), pay |-> pay,
                 amount |-> Field("amount"), type |-> Field("type"),
                 origin |-> Field("origin"), status |-> Field("status"),
                 method |-> Field("method")]
<1>1. e = [id |-> e.id, date |-> e.date, due |-> e.due, pay |-> e.pay,
           amount |-> e.amount, type |-> e.type, origin |-> e.origin,
           status |-> e.status, method |-> e.method]
  BY DEF Entry
<1>2. Apply(e, p) = a
  <2>1. Apply(e, p) = [e EXCEPT !.date = Field("date"), !.due = Field("due"),
                          !.amount = Field("amount"), !.type = Field("type"),
                          !.origin = Field("origin"), !.status = Field("status"),
                          !.method = Field("method"), !.pay = pay]
    BY DEF Apply
  <2> HIDE DEF Field, pay
  <2> QED
    BY <1>1, <2>1
<1>3. /\ Field("date") \in Days /\ Field("due") \in Days \cup {Nobody}
      /\ Field("amount") \in Amounts /\ Field("method") \in Methods \cup {Nobody}
      /\ Field("type") \in Types /\ Field("status") \in Statuses
      /\ Field("origin") \in Origins \cup {Nobody}
  BY DEF GoodPatch, PatchIsValid, Entry
<1>4. pay \in Days \cup {Nobody} /\ e.id \in 1..MaxIds
  BY LedgerAssumption DEF Entry
<1>5. a \in Entry
  BY <1>3, <1>4 DEF Entry
<1>6. \A f \in DOMAIN e \ Implied(DOMAIN p) : a[f] = e[f]
  <2>1. DOMAIN e = {"id", "date", "due", "pay", "amount", "type", "origin", "status", "method"}
    BY <1>1
  <2> QED
    BY <2>1 DEF Implied
<1> QED
  BY <1>2, <1>5, <1>6

LEMMA EditedEntry ==
  ASSUME NEW e \in Entry, Sound(e), NEW p, GoodPatch(p)
  PROVE  LET next == Normalize(Apply(e, p))
         IN  /\ next \in Entry
             /\ next.id = e.id
             /\ Normalize(next) = next
             /\ \A f \in DOMAIN e \ Implied(DOMAIN p) : next[f] = e[f]
<1> DEFINE a == Apply(e, p)
           next == Normalize(a)
<1>1. /\ a \in Entry /\ a.id = e.id
      /\ \A f \in DOMAIN e \ Implied(DOMAIN p) : a[f] = e[f]
  BY ApplyFields
<1>2. next \in Entry /\ next.id = a.id /\ Normalize(next) = next
  BY <1>1, NormalizeIsSound
<1>3. /\ next.pay = IF a.status = "pending" THEN Nobody
                    ELSE IF a.status = "paid" /\ a.pay = Nobody THEN a.date
                    ELSE a.pay
      /\ next.method = IF a.status = "pending" THEN Nobody ELSE a.method
      /\ next.origin = IF a.type = "expense" THEN Nobody ELSE a.origin
      /\ \A f \in DOMAIN e : f \notin {"pay", "method", "origin"} => next[f] = a[f]
  <2> HIDE DEF a
  <2> QED
    BY <1>1 DEF Entry, Normalize
<1> HIDE DEF a, next
<1>4. ASSUME NEW f \in DOMAIN e \ Implied(DOMAIN p)
      PROVE  next[f] = e[f]
  <2>1. DOMAIN e = {"id", "date", "due", "pay", "amount", "type", "origin", "status", "method"}
    BY DEF Entry
  <2>2. CASE f \notin {"pay", "method", "origin"}
    BY <1>1, <1>3, <2>2
  <2>3. CASE f = "pay" \/ f = "method"
    <3>1. "status" \notin DOMAIN p
      BY <2>3 DEF Implied
    <3>2. a.status = e.status
      BY <1>1, <2>1, <3>1 DEF Implied
    <3>3. a[f] = e[f]
      BY <1>1, <2>3
    <3> QED
      BY <1>3, <2>3, <3>2, <3>3, SoundMeans DEF Entry, Statuses
  <2>4. CASE f = "origin"
    <3>1. "type" \notin DOMAIN p
      BY <2>4 DEF Implied
    <3>2. a.type = e.type
      BY <1>1, <2>1, <3>1 DEF Implied
    <3>3. a[f] = e[f]
      BY <1>1, <2>4
    <3> QED
      BY <1>3, <2>4, <3>2, <3>3, SoundMeans
  <2> QED
    BY <2>2, <2>3, <2>4
<1> QED
  BY <1>1, <1>2, <1>4 DEF a, next

LEMMA PatchesAreGood ==
  ASSUME NEW p \in Patches
  PROVE  /\ PatchIsValid(p) => GoodPatch(p)
         /\ \A e \in Entry : PatchIsValid(ToolPatch(e, p)) => GoodPatch(ToolPatch(e, p))
<1>1. PatchIsValid(p) => GoodPatch(p)
  BY BodiesAssumption DEF GoodPatch
<1>2. ASSUME NEW e \in Entry, PatchIsValid(ToolPatch(e, p))
      PROVE  GoodPatch(ToolPatch(e, p))
  <2> DEFINE t == ToolPatch(e, p)
  <2>1. DOMAIN t \subseteq DOMAIN p
    BY DEF ToolPatch
  <2>2. \A f \in DOMAIN t : f # "origin" => t[f] = p[f]
    BY DEF ToolPatch
  <2> QED
    BY <1>2, <2>1, <2>2, BodiesAssumption DEF GoodPatch
<1> QED
  BY <1>1, <1>2

-----------------------------------------------------------------------------
(* The rows of a table and the calls in flight.                            *)

Rows(t, n) == \A i \in t : /\ i.row \in Entry /\ i = EntryToItem(i.row)
                           /\ Sound(i.row)
                           /\ i.row.id \in 1..n

LEMMA RowsMean ==
  ASSUME NEW t, NEW n
  PROVE  Rows(t, n) <=> \A i \in t : /\ i.row \in Entry /\ i = EntryToItem(i.row)
                                     /\ Readable(i)
                                     /\ EntryToItem(ItemToEntry(i)) = i
                                     /\ i.row.id \in 1..n
<1> SUFFICES ASSUME NEW i \in t, i.row \in Entry, i = EntryToItem(i.row)
             PROVE  Sound(i.row) <=> Readable(i) /\ EntryToItem(ItemToEntry(i)) = i
  BY DEF Rows
<1> QED
  BY ReadIsStored

LEMMA RowOf ==
  ASSUME NEW e \in Entry
  PROVE  EntryToItem(e).row = e /\ EntryToItem(e).sk = <<e.date, e.id>>
BY DEF EntryToItem

(* The part of the invariant that is about the callers.                    *)
CallsInv == /\ calls \in [Callers -> Call]
            /\ ids \in 0..MaxIds
            /\ gone \subseteq 1..ids
            /\ made \in 0..MaxCalls
            /\ EditsKeepTheEntry

LEMMA TableInvMeans ==
  TableInv <=> Rows(table \cup lagging, ids) /\ OneRowPerId /\ DeletedStaysDeleted /\ CallsInv
BY RowsMean DEF TableInv, TypeOK, EveryRowReads, IdsAreDrawn, CallsInv

LEMMA TableInvMeansNext ==
  TableInv' <=> /\ Rows(table' \cup lagging', ids')
                /\ OneRowPerId' /\ DeletedStaysDeleted' /\ CallsInv'
BY RowsMean DEF TableInv, TypeOK, EveryRowReads, IdsAreDrawn, CallsInv

(* What a call may hold when n ids have been drawn.                        *)
Holds(k, n) == \/ k = Idle
               \/ k \in [at : {"missed"}, id : 1..n]
               \/ /\ k \in [at : {"write"}, named : SUBSET PatchFields,
                            prev : Entry, next : Entry]
                  /\ k.prev.id = k.next.id
                  /\ k.prev.id \in 1..n
                  /\ Normalize(k.next) = k.next
                  /\ \A f \in DOMAIN k.prev \ Implied(k.named) : k.next[f] = k.prev[f]

LEMMA HoldsMeans ==
  ASSUME NEW k, NEW n
  PROVE  Holds(k, n) <=>
           /\ \/ k = Idle
              \/ k \in [at : {"missed"}, id : 1..n]
              \/ k \in [at : {"write"}, named : SUBSET PatchFields,
                        prev : Entry, next : Entry]
           /\ k.at = "write" =>
                /\ k.prev.id = k.next.id
                /\ k.prev.id \in 1..n
                /\ Normalize(k.next) = k.next
                /\ \A f \in DOMAIN k.prev \ Implied(k.named) : k.next[f] = k.prev[f]
<1>1. Idle.at # "write"
  BY DEF Idle
<1>2. \A x \in [at : {"missed"}, id : 1..n] : x.at # "write"
  OBVIOUS
<1>3. \A x \in [at : {"write"}, named : SUBSET PatchFields, prev : Entry, next : Entry] :
        x.at = "write"
  OBVIOUS
<1> QED
  BY <1>1, <1>2, <1>3 DEF Holds

LEMMA CallsHold ==
  ASSUME CallsInv, NEW c \in Callers
  PROVE  Holds(calls[c], ids)
<1>1. calls[c] \in Call
  BY DEF CallsInv
<1> QED
  BY <1>1, HoldsMeans DEF CallsInv, EditsKeepTheEntry, Call

(* One call moves on, and ids are only ever added.                         *)
LEMMA CallsKeep ==
  ASSUME CallsInv, NEW c \in Callers, NEW k, Holds(k, ids'),
         calls' = [calls EXCEPT ![c] = k],
         ids' \in 0..MaxIds, ids <= ids', gone' \subseteq 1..ids',
         made' \in 0..MaxCalls
  PROVE  CallsInv'
<1>1. \A n \in 1..ids : n \in 1..ids'
  BY LedgerAssumption DEF CallsInv
<1>2. \A d \in Callers : Holds(calls'[d], ids')
  <2> SUFFICES ASSUME NEW d \in Callers
               PROVE  Holds(calls'[d], ids')
    OBVIOUS
  <2>1. CASE d = c
    BY <2>1 DEF CallsInv
  <2>2. CASE d # c
    <3>1. calls'[d] = calls[d] /\ Holds(calls[d], ids)
      BY <2>2, CallsHold DEF CallsInv
    <3> QED
      BY <1>1, <3>1 DEF Holds
  <2> QED
    BY <2>1, <2>2
<1>3. \A d \in Callers : calls'[d] \in Call'
  BY <1>2 DEF Holds, Call
<1>4. calls' \in [Callers -> Call']
  BY <1>3 DEF CallsInv
<1>5. EditsKeepTheEntry'
  BY <1>2, HoldsMeans DEF EditsKeepTheEntry
<1> QED
  BY <1>4, <1>5 DEF CallsInv

LEMMA BeginCounts ==
  ASSUME CallsInv, NEW c \in Callers, Begin(c)
  PROVE  made' \in 0..MaxCalls /\ calls[c].at # "write"
BY LedgerAssumption DEF CallsInv, Begin

-----------------------------------------------------------------------------
(* The steps.                                                              *)

LEMMA NormalizeRecord ==
  ASSUME NEW i, NEW d, NEW u, NEW p, NEW a, NEW t, NEW o, NEW s, NEW m
  PROVE  Normalize([id |-> i, date |-> d, due |-> u, pay |-> p, amount |-> a,
                    type |-> t, origin |-> o, status |-> s, method |-> m])
           = [id |-> i, date |-> d, due |-> u,
              pay |-> IF s = "pending" THEN Nobody
                      ELSE IF s = "paid" /\ p = Nobody THEN d ELSE p,
              amount |-> a, type |-> t,
              origin |-> IF t = "expense" THEN Nobody ELSE o,
              status |-> s,
              method |-> IF s = "pending" THEN Nobody ELSE m]
<1> DEFINE Made(pay, origin, method) ==
             [id |-> i, date |-> d, due |-> u, pay |-> pay, amount |-> a,
              type |-> t, origin |-> origin, status |-> s, method |-> method]
           pay    == IF s = "pending" THEN Nobody
                     ELSE IF s = "paid" /\ p = Nobody THEN d ELSE p
           method == IF s = "pending" THEN Nobody ELSE m
           origin == IF t = "expense" THEN Nobody ELSE o
<1>1. Normalize(Made(p, o, m)) =
        [Made(p, o, m) EXCEPT !.pay = pay, !.method = method, !.origin = origin]
  BY DEF Normalize
<1> HIDE DEF pay, method, origin
<1>2. [Made(p, o, m) EXCEPT !.pay = pay] = Made(pay, o, m)
  OBVIOUS
<1>3. [Made(pay, o, m) EXCEPT !.method = method] = Made(pay, o, method)
  OBVIOUS
<1>4. [Made(pay, o, method) EXCEPT !.origin = origin] = Made(pay, origin, method)
  OBVIOUS
<1>5. Normalize(Made(p, o, m)) = Made(pay, origin, method)
  BY <1>1, <1>2, <1>3, <1>4
<1> QED
  BY <1>5 DEF pay, method, origin

LEMMA NewEntryIsSound ==
  ASSUME NEW d \in Drafts, NEW id \in 1..MaxIds, Acceptable(d),
         d.type = "income" => d.origin \in Origins \cup {Nobody},
         Valid(NewEntry(id, d))
  PROVE  NewEntry(id, d) \in Entry /\ Sound(NewEntry(id, d)) /\ NewEntry(id, d).id = id
<1> DEFINE day    == IF d.date = Nobody THEN Today ELSE d.date
           status == StatusOf(d, day)
           due    == IF status = "pending" /\ d.due = Nobody THEN day ELSE d.due
           origin == IF d.type = "income" /\ d.origin = Nobody THEN "venda" ELSE d.origin
           clean  == IF d.type = "expense" THEN Nobody ELSE origin
           Made(o) == [id |-> id, date |-> day, due |-> due, pay |-> Nobody,
                       amount |-> d.amount, type |-> d.type, origin |-> o,
                       status |-> status, method |-> d.method]
<1>1. NewEntry(id, d) = Normalize(Made(origin))
  BY DEF NewEntry
<1>2. /\ day \in Days
      /\ status \in Statuses
      /\ due \in Days \cup {Nobody} /\ d.method \in Methods \cup {Nobody}
      /\ d.amount \in Amounts /\ d.type \in Types
      /\ clean \in Origins \cup {Nobody}
  BY BodiesAssumption, LedgerAssumption DEF StatusOf, Statuses, Acceptable, Types, Origins
<1>3. Normalize(Made(origin)) = Normalize(Made(clean))
  <2>1. (IF d.type = "expense" THEN Nobody ELSE clean)
          = IF d.type = "expense" THEN Nobody ELSE origin
    OBVIOUS
  <2> DEFINE Healed(o) ==
               [id |-> id, date |-> day, due |-> due,
                pay |-> IF status = "pending" THEN Nobody
                        ELSE IF status = "paid" /\ Nobody = Nobody THEN day ELSE Nobody,
                amount |-> d.amount, type |-> d.type,
                origin |-> IF d.type = "expense" THEN Nobody ELSE o,
                status |-> status,
                method |-> IF status = "pending" THEN Nobody ELSE d.method]
  <2>2. Healed(origin) = Healed(clean)
    BY <2>1
  <2> HIDE DEF origin, clean, day, due, status
  <2>3. \A o : Normalize(Made(o)) = Healed(o)
    BY NormalizeRecord
  <2> QED
    BY <2>2, <2>3
<1> HIDE DEF day, status, due, origin, clean
<1>4. Made(clean) \in Entry /\ Made(clean).id = id
  BY <1>2 DEF Entry
<1> HIDE DEF Made
<1> QED
  BY <1>1, <1>3, <1>4, NormalizeIsSound DEF Sound

LEMMA ToolEntryIsSound ==
  ASSUME NEW d \in Drafts, NEW id \in 1..MaxIds, Acceptable(d), Valid(ToolEntry(id, d))
  PROVE  ToolEntry(id, d) \in Entry /\ Sound(ToolEntry(id, d)) /\ ToolEntry(id, d).id = id
<1> DEFINE day    == IF d.date = Nobody THEN Today ELSE d.date
           status == IF d.status = "pending" THEN "pending" ELSE "paid"
           origin == IF d.type # "income" THEN Nobody
                     ELSE IF d.origin = Nobody THEN "venda"
                     ELSE NormalizeIncomeOrigin(d.origin)
           e == [id     |-> id,
                 date   |-> day,
                 due    |-> IF status = "pending" THEN d.due ELSE Nobody,
                 pay    |-> IF status = "paid" THEN day ELSE Nobody,
                 amount |-> d.amount,
                 type   |-> d.type,
                 origin |-> origin,
                 status |-> status,
                 method |-> IF status = "paid" THEN d.method ELSE Nobody]
<1>1. ToolEntry(id, d) = e
  BY DEF ToolEntry
<1>2. /\ day \in Days /\ status \in Statuses
      /\ origin \in Origins \cup {Nobody}
      /\ d.type = "expense" => origin = Nobody
      /\ d.due \in Days \cup {Nobody} /\ d.method \in Methods \cup {Nobody}
      /\ d.amount \in Amounts /\ d.type \in Types
  BY BodiesAssumption, LedgerAssumption
     DEF Statuses, Acceptable, NormalizeIncomeOrigin, Origins
<1> HIDE DEF day, status, origin
<1>3. e \in Entry
  BY <1>2 DEF Entry
<1>4. Normalize(e) = e
  <2>1. day # Nobody /\ status \in {"pending", "paid"}
    BY <1>2, EntriesAssumption DEF Statuses
  <2> QED
    BY <1>2, <2>1, NormalizeRecord
<1> QED
  BY <1>1, <1>3, <1>4 DEF Sound

LEMMA IdleHolds == \A n : Holds(Idle, n)
BY DEF Holds

LEMMA SaveKeepsInv ==
  ASSUME TableInv, NEW c \in Callers, NEW e \in Entry, Sound(e), e.id = ids + 1,
         Save(c, e)
  PROVE  TableInv'
<1> DEFINE item == EntryToItem(e)
<1>1. /\ Rows(table \cup lagging, ids) /\ OneRowPerId /\ DeletedStaysDeleted /\ CallsInv
  BY TableInvMeans
<1>2. /\ ids < MaxIds /\ ids' = ids + 1 /\ ids \in 0..MaxIds /\ gone' = gone
      /\ table' = T!PutItem(table, item) /\ lagging' = table
      /\ calls' = [calls EXCEPT ![c] = Idle] /\ Begin(c)
  BY <1>1 DEF Save, SaveEntry, Write, End, CallsInv
<1>3. ids' \in 0..MaxIds /\ ids <= ids' /\ \A n \in 1..ids : n \in 1..ids' /\ n # ids'
  BY <1>2, LedgerAssumption
<1>4. CallsInv'
  BY <1>1, <1>2, <1>3, CallsKeep, IdleHolds, BeginCounts DEF CallsInv
<1>5. item.row = e
  BY RowOf
<1>6. \A i \in table' : i \in table \/ i = item
  BY <1>2 DEF T!PutItem
<1> HIDE DEF item
<1>7. ids' \in 1..ids'
  BY <1>2, LedgerAssumption
<1>8. Rows(table' \cup lagging', ids')
  BY <1>1, <1>2, <1>3, <1>5, <1>6, <1>7 DEF Rows, item
<1>9. \A i \in table : i.row.id \in 1..ids /\ i.row.id # ids'
  BY <1>1, <1>3 DEF Rows
<1>10. OneRowPerId'
  BY <1>1, <1>2, <1>5, <1>6, <1>9 DEF OneRowPerId
<1>11. DeletedStaysDeleted'
  BY <1>1, <1>2, <1>3, <1>5, <1>6 DEF DeletedStaysDeleted, CallsInv
<1> QED
  BY <1>4, <1>8, <1>10, <1>11, TableInvMeansNext

LEMMA CreateKeepsInv ==
  ASSUME TableInv, NEW c \in Callers, Create(c) \/ CreateByTool(c)
  PROVE  TableInv'
<1>1. CallsInv
  BY TableInvMeans
<1>2. ASSUME NEW e, Save(c, e)
      PROVE  ids + 1 \in 1..MaxIds /\ Valid(e)
  BY <1>1, <1>2, LedgerAssumption DEF CallsInv, Save, SaveEntry
<1>3. CASE Create(c)
  <2>1. PICK d \in Drafts : /\ Acceptable(d)
                            /\ d.type = "income" => d.origin \in Origins \cup {Nobody}
                            /\ Save(c, NewEntry(ids + 1, d))
    BY <1>3 DEF Create
  <2> QED
    BY <1>2, <2>1, NewEntryIsSound, SaveKeepsInv
<1>4. CASE CreateByTool(c)
  <2>1. PICK d \in Drafts : Acceptable(d) /\ Save(c, ToolEntry(ids + 1, d))
    BY <1>4 DEF CreateByTool
  <2> QED
    BY <1>2, <2>1, ToolEntryIsSound, SaveKeepsInv
<1> QED
  BY <1>3, <1>4

(* A call that only reads, or gives up, leaves the rows alone.             *)
LEMMA QuietKeepsInv ==
  ASSUME TableInv, NEW c \in Callers, NEW k, Holds(k, ids),
         calls' = [calls EXCEPT ![c] = k], made' \in 0..MaxCalls,
         UNCHANGED <<table, lagging, ids, gone>>
  PROVE  TableInv'
<1>1. Rows(table \cup lagging, ids) /\ OneRowPerId /\ DeletedStaysDeleted /\ CallsInv
  BY TableInvMeans
<1>2. ids \in 0..MaxIds /\ ids <= ids'
  BY <1>1, LedgerAssumption DEF CallsInv
<1>3. CallsInv'
  BY <1>1, <1>2, CallsKeep DEF CallsInv
<1>4. Rows(table' \cup lagging', ids') /\ OneRowPerId' /\ DeletedStaysDeleted'
  BY <1>1 DEF OneRowPerId, DeletedStaysDeleted
<1> QED
  BY <1>3, <1>4, TableInvMeansNext

LEMMA EditHolds ==
  ASSUME NEW e \in Entry, Sound(e), NEW n, e.id \in 1..n, NEW p, GoodPatch(p)
  PROVE  Holds([at |-> "write", named |-> DOMAIN p,
                prev |-> e, next |-> Normalize(Apply(e, p))], n)
<1> DEFINE next == Normalize(Apply(e, p))
<1>1. /\ next \in Entry /\ next.id = e.id /\ Normalize(next) = next
      /\ \A f \in DOMAIN e \ Implied(DOMAIN p) : next[f] = e[f]
  BY EditedEntry
<1>2. DOMAIN p \in SUBSET PatchFields
  BY DEF GoodPatch
<1> HIDE DEF next
<1>3. Holds([at |-> "write", named |-> DOMAIN p, prev |-> e, next |-> next], n)
  BY <1>1, <1>2 DEF Holds
<1> QED
  BY <1>3 DEF next

LEMMA MissHolds ==
  ASSUME NEW n, NEW id \in 1..n
  PROVE  Holds([at |-> "missed", id |-> id], n)
BY DEF Holds

LEMMA GetEntryKeepsInv ==
  ASSUME TableInv, NEW c \in Callers, GetEntry(c)
  PROVE  TableInv'
<1>1. Rows(table \cup lagging, ids) /\ CallsInv
  BY TableInvMeans
<1>2. PICK t \in {table, lagging}, day \in Days, id \in 1..ids :
         /\ Begin(c)
         /\ \/ Miss(c, id)
            \/ \E i \in T!ItemsAt(t, <<day, id>>), p \in Patches :
                  PatchIsValid(p) /\ Edit(c, ItemToEntry(i), p)
         /\ UNCHANGED <<table, lagging, ids, gone>>
  BY DEF GetEntry
<1>3. made' \in 0..MaxCalls
  BY <1>1, <1>2, BeginCounts
<1>4. CASE Miss(c, id)
  BY <1>2, <1>3, <1>4, MissHolds, QuietKeepsInv DEF Miss
<1>5. ASSUME NEW i \in T!ItemsAt(t, <<day, id>>), NEW p \in Patches,
             PatchIsValid(p), Edit(c, ItemToEntry(i), p)
      PROVE  TableInv'
  <2>1. i \in table \cup lagging
    BY <1>2 DEF T!ItemsAt
  <2>2. /\ i.row \in Entry /\ Sound(i.row) /\ i.row.id \in 1..ids
        /\ ItemToEntry(i) = i.row
    BY <1>1, <2>1, ReadIsStored DEF Rows
  <2>3. GoodPatch(p)
    BY <1>5, PatchesAreGood
  <2> QED
    BY <1>2, <1>3, <1>5, <2>2, <2>3, EditHolds, QuietKeepsInv DEF Edit
<1> QED
  BY <1>2, <1>4, <1>5

LEMMA FindEntryByIDKeepsInv ==
  ASSUME TableInv, NEW c \in Callers, FindEntryByID(c)
  PROVE  TableInv'
<1>1. Rows(table \cup lagging, ids) /\ CallsInv
  BY TableInvMeans
<1>2. PICK view \in IndexViews, id \in 1..ids :
         /\ Begin(c)
         /\ \/ Miss(c, id)
            \/ \E i \in view, p \in Patches :
                  /\ PatchIsValid(ToolPatch(ItemToEntry(i), p))
                  /\ Edit(c, ItemToEntry(i), ToolPatch(ItemToEntry(i), p))
         /\ UNCHANGED <<table, lagging, ids, gone>>
  BY DEF FindEntryByID, T!InIndex
<1>3. made' \in 0..MaxCalls
  BY <1>1, <1>2, BeginCounts
<1>4. CASE Miss(c, id)
  BY <1>2, <1>3, <1>4, MissHolds, QuietKeepsInv DEF Miss
<1>5. ASSUME NEW i \in view, NEW p \in Patches,
             PatchIsValid(ToolPatch(ItemToEntry(i), p)),
             Edit(c, ItemToEntry(i), ToolPatch(ItemToEntry(i), p))
      PROVE  TableInv'
  <2>1. i \in table \cup lagging
    BY <1>2 DEF IndexViews
  <2>2. /\ i.row \in Entry /\ Sound(i.row) /\ i.row.id \in 1..ids
        /\ ItemToEntry(i) = i.row
    BY <1>1, <2>1, ReadIsStored DEF Rows
  <2> DEFINE q == ToolPatch(i.row, p)
  <2>3. GoodPatch(q)
    BY <1>5, <2>2, PatchesAreGood
  <2>4. Edit(c, i.row, q)
    BY <1>5, <2>2
  <2> HIDE DEF q
  <2> QED
    BY <1>2, <1>3, <2>2, <2>3, <2>4, EditHolds, QuietKeepsInv DEF Edit
<1> QED
  BY <1>2, <1>4, <1>5

(* The two writes of UpdateEntry: the row of one id is replaced by another *)
(* of that id, wherever its key is.                                        *)
LEMMA ReplacedRows ==
  ASSUME TableInv, NEW prev \in Entry, NEW next \in Entry,
         prev.id = next.id, Replaceable(prev, next)
  PROVE  /\ \E i \in table : i.row.id = next.id
         /\ EntryToItem(next) \in Replaced(prev, next)
         /\ \A i \in Replaced(prev, next) :
              \/ i = EntryToItem(next)
              \/ i \in table /\ i.row.id # next.id
         /\ \A i \in table : i.row.id # next.id => i \in Replaced(prev, next)
<1> DEFINE new == EntryToItem(next)
           oldKey == EntryToItem(prev).sk
<1>1. Rows(table \cup lagging, ids) /\ OneRowPerId
  BY TableInvMeans
<1>2. oldKey = <<prev.date, next.id>> /\ new.sk = <<next.date, next.id>> /\ new.row = next
  BY RowOf
<1>3. \A i \in table : i.sk = <<i.row.date, i.row.id>>
  BY <1>1, RowOf DEF Rows
<1>4. T!Exists(table, oldKey)
  BY DEF Replaceable, T!TransactionHolds
<1>5. PICK old \in table : old.sk = oldKey
  BY <1>4 DEF T!Exists, T!ItemsAt
<1>6. old.row.id = next.id
  BY <1>2, <1>3, <1>5
<1>7. \A i \in table : i.row.id = next.id => i = old
  BY <1>1, <1>6 DEF OneRowPerId
<1>8. CASE oldKey = new.sk
  <2>1. Replaced(prev, next) = (table \ T!ItemsAt(table, oldKey)) \cup {new}
    BY <1>8 DEF Replaced, T!PutItem
  <2> HIDE DEF new, oldKey
  <2> QED
    BY <1>2, <1>3, <1>5, <1>6, <1>7, <2>1 DEF T!ItemsAt, new
<1>9. CASE oldKey # new.sk
  <2>1. Replaced(prev, next) = {i \in table : i.sk # oldKey /\ i.sk # new.sk} \cup {new}
    BY <1>9 DEF Replaced, T!TransactWriteItems
  <2> HIDE DEF new, oldKey
  <2> QED
    BY <1>2, <1>3, <1>5, <1>6, <1>7, <2>1 DEF new
<1> QED
  BY <1>8, <1>9

LEMMA WritingCall ==
  ASSUME TableInv, NEW c \in Callers, calls[c].at = "write"
  PROVE  LET prev == calls[c].prev
             next == calls[c].next
         IN  /\ prev \in Entry /\ next \in Entry
             /\ prev.id = next.id /\ next.id \in 1..ids
             /\ Normalize(next) = next
             /\ \A f \in DOMAIN prev \ Implied(calls[c].named) : next[f] = prev[f]
<1>1. Holds(calls[c], ids)
  BY TableInvMeans, CallsHold
<1>2. calls[c] # Idle /\ calls[c] \notin [at : {"missed"}, id : 1..ids]
  BY DEF Idle
<1> QED
  BY <1>1, <1>2 DEF Holds

LEMMA UpdateEntryKeepsInv ==
  ASSUME TableInv, NEW c \in Callers, UpdateEntry(c)
  PROVE  TableInv'
<1> DEFINE prev == calls[c].prev
           next == calls[c].next
<1>1. Rows(table \cup lagging, ids) /\ DeletedStaysDeleted /\ CallsInv
  BY TableInvMeans
<1>2. calls[c].at = "write" /\ UNCHANGED <<ids, gone, made>>
  BY DEF UpdateEntry
<1>3. /\ prev \in Entry /\ next \in Entry
      /\ prev.id = next.id /\ next.id \in 1..ids
      /\ Normalize(next) = next
  BY <1>2, WritingCall
<1> HIDE DEF prev, next
<1>4. CASE /\ Valid(next) /\ Replaceable(prev, next)
           /\ Write(Replaced(prev, next)) /\ End(c)
  <2>1. table' = Replaced(prev, next) /\ lagging' = table /\ Sound(next)
    BY <1>3, <1>4 DEF Write, Sound
  <2>2. /\ \E i \in table : i.row.id = next.id
        /\ \A i \in table' :
             \/ i = EntryToItem(next)
             \/ i \in table /\ i.row.id # next.id
    BY <1>3, <1>4, <2>1, ReplacedRows
  <2>3. EntryToItem(next).row = next
    BY <1>3, RowOf
  <2>4. ids \in 0..MaxIds /\ ids <= ids
    BY <1>1, LedgerAssumption DEF CallsInv
  <2>5. CallsInv'
    BY <1>1, <1>2, <1>4, <2>4, CallsKeep, IdleHolds DEF CallsInv, End
  <2>6. Rows(table' \cup lagging', ids')
    BY <1>1, <1>2, <1>3, <2>1, <2>2, <2>3 DEF Rows
  <2>7. OneRowPerId'
    <3>1. OneRowPerId
      BY TableInvMeans
    <3> QED
      BY <2>2, <2>3, <3>1 DEF OneRowPerId
  <2>8. DeletedStaysDeleted'
    BY <1>1, <1>2, <2>2, <2>3 DEF DeletedStaysDeleted
  <2> QED
    BY <2>5, <2>6, <2>7, <2>8, TableInvMeansNext
<1>5. CASE Miss(c, prev.id) /\ UNCHANGED <<table, lagging>>
  BY <1>1, <1>2, <1>3, <1>5, MissHolds, QuietKeepsInv DEF Miss, CallsInv
<1> QED
  BY <1>4, <1>5 DEF UpdateEntry, prev, next

LEMMA DeleteEntryKeepsInv ==
  ASSUME TableInv, NEW c \in Callers, DeleteEntry(c)
  PROVE  TableInv'
<1>1. Rows(table \cup lagging, ids) /\ OneRowPerId /\ DeletedStaysDeleted /\ CallsInv
  BY TableInvMeans
<1>2. PICK day \in Days, id \in 1..ids :
         /\ Begin(c)
         /\ \/ /\ T!Exists(table, <<day, id>>)
               /\ Write(T!DeleteItem(table, <<day, id>>))
               /\ gone' = gone \cup {id}
               /\ End(c)
            \/ Miss(c, id) /\ UNCHANGED <<table, lagging, gone>>
         /\ UNCHANGED ids
  BY DEF DeleteEntry
<1>3. made' \in 0..MaxCalls
  BY <1>1, <1>2, BeginCounts
<1>4. CASE Miss(c, id) /\ UNCHANGED <<table, lagging, gone>>
  BY <1>2, <1>3, <1>4, MissHolds, QuietKeepsInv DEF Miss
<1>5. CASE /\ T!Exists(table, <<day, id>>)
           /\ Write(T!DeleteItem(table, <<day, id>>))
           /\ gone' = gone \cup {id}
           /\ End(c)
  <2>1. table' = table \ T!ItemsAt(table, <<day, id>>) /\ lagging' = table
    BY <1>5 DEF Write, T!DeleteItem
  <2>2. ids \in 0..MaxIds /\ ids <= ids
    BY <1>1, LedgerAssumption DEF CallsInv
  <2>3. gone' \subseteq 1..ids'
    BY <1>1, <1>2, <1>5 DEF CallsInv
  <2>4. CallsInv'
    BY <1>1, <1>2, <1>3, <1>5, <2>2, <2>3, CallsKeep, IdleHolds DEF End
  <2>5. Rows(table' \cup lagging', ids') /\ OneRowPerId'
    BY <1>1, <1>2, <2>1 DEF Rows, OneRowPerId
  <2>6. \A i \in table' : i.row.id # id
    <3>1. PICK old \in table : old.sk = <<day, id>>
      BY <1>5 DEF T!Exists, T!ItemsAt
    <3>2. \A i \in table : i.sk = <<i.row.date, i.row.id>>
      BY <1>1, RowOf DEF Rows
    <3>3. old.row.id = id
      BY <3>1, <3>2
    <3> QED
      BY <1>1, <2>1, <3>1, <3>3 DEF OneRowPerId, T!ItemsAt
  <2>7. DeletedStaysDeleted'
    BY <1>1, <1>5, <2>1, <2>6 DEF DeletedStaysDeleted
  <2> QED
    BY <2>4, <2>5, <2>7, TableInvMeansNext
<1> QED
  BY <1>2, <1>4, <1>5

LEMMA PropagateKeepsInv ==
  ASSUME TableInv, Propagate
  PROVE  TableInv'
BY TableInvMeans, TableInvMeansNext
   DEF Propagate, Rows, OneRowPerId, DeletedStaysDeleted, CallsInv, EditsKeepTheEntry, Call

LEMMA UnchangedKeepsInv ==
  ASSUME TableInv, UNCHANGED ledgerVars
  PROVE  TableInv'
BY TableInvMeans, TableInvMeansNext
   DEF ledgerVars, Rows, OneRowPerId, DeletedStaysDeleted, CallsInv, EditsKeepTheEntry, Call

LEMMA InitInv == Init => TableInv
<1> SUFFICES ASSUME Init
             PROVE  TableInv
  OBVIOUS
<1>1. Rows(table \cup lagging, ids) /\ OneRowPerId /\ DeletedStaysDeleted
  BY DEF Init, Rows, OneRowPerId, DeletedStaysDeleted
<1>2. calls \in [Callers -> Call] /\ \A c \in Callers : calls[c].at # "write"
  BY DEF Init, Call, Idle
<1>3. ids \in 0..MaxIds /\ gone \subseteq 1..ids /\ made \in 0..MaxCalls
  BY LedgerAssumption DEF Init
<1>4. CallsInv
  BY <1>2, <1>3 DEF CallsInv, EditsKeepTheEntry
<1> QED
  BY <1>1, <1>4, TableInvMeans

(* Every step of every caller, and of the client that turns the pages,     *)
(* keeps the table sound.                                                  *)
THEOREM NextInv == TableInv /\ [PagesNext]_vars => TableInv'
<1> SUFFICES ASSUME TableInv, [PagesNext]_vars
             PROVE  TableInv'
  OBVIOUS
<1>1. CASE UNCHANGED ledgerVars
  BY <1>1, UnchangedKeepsInv
<1>2. CASE Propagate
  BY <1>2, PropagateKeepsInv
<1>3. ASSUME NEW c \in Callers, Step(c)
      PROVE  TableInv'
  <2>1. CASE Create(c) \/ CreateByTool(c)
    BY <2>1, CreateKeepsInv
  <2>2. CASE GetEntry(c)
    BY <2>2, GetEntryKeepsInv
  <2>3. CASE FindEntryByID(c)
    BY <2>3, FindEntryByIDKeepsInv
  <2>4. CASE UpdateEntry(c)
    BY <2>4, UpdateEntryKeepsInv
  <2>5. CASE Abandon(c)
    BY <2>5, IdleHolds, TableInvMeans, QuietKeepsInv DEF Abandon, End, CallsInv
  <2>6. CASE DeleteEntry(c)
    BY <2>6, DeleteEntryKeepsInv
  <2> QED
    BY <1>3, <2>1, <2>2, <2>3, <2>4, <2>5, <2>6 DEF Step
<1> QED
  BY <1>1, <1>2, <1>3 DEF PagesNext, LedgerStep, NextPage, Next, vars

(* The table is sound in every reachable state: one readable row for each  *)
(* entry that lives, none for one whose deletion was answered, for any     *)
(* number of concurrent handlers, tools, stale reads and abandoned calls.  *)
THEOREM LedgerInv == PagesSpec => []TableInv
<1>1. PagesInit => TableInv
  BY InitInv DEF PagesInit
<1> QED
  BY <1>1, NextInv, PTL DEF PagesSpec

-----------------------------------------------------------------------------
(* What an edit may lose.                                                  *)

(* A call that writes ends by its write or by being abandoned.             *)
LEMMA WriteEnds ==
  ASSUME TableInv, [PagesNext]_vars, NEW c \in Callers,
         calls[c].at = "write", calls'[c] = Idle, table' # table
  PROVE  /\ Replaceable(calls[c].prev, calls[c].next)
         /\ table' = Replaced(calls[c].prev, calls[c].next)
<1>1. calls \in [Callers -> Call] /\ calls[c] # calls'[c]
  BY TableInvMeans DEF CallsInv, Idle
<1>2. PICK d \in Callers : Step(d)
  BY <1>1 DEF PagesNext, LedgerStep, NextPage, Next, Propagate, vars, ledgerVars
<1>3. \E k : calls' = [calls EXCEPT ![d] = k]
  BY <1>2 DEF Step, Create, CreateByTool, Save, GetEntry, FindEntryByID, UpdateEntry,
              Abandon, DeleteEntry, End, Miss, Edit
<1>4. d = c
  BY <1>1, <1>3
<1>5. UpdateEntry(c)
  BY <1>2, <1>4 DEF Step, Create, CreateByTool, Save, GetEntry, FindEntryByID,
                    Abandon, DeleteEntry, Begin
<1> QED
  BY <1>5 DEF UpdateEntry, Write

(* An edit changes what it names and what follows from that: any other     *)
(* field of an entry is lost to an edit only if the entry was written      *)
(* between the edit's read and its write (Update, editEntryTool).          *)
THEOREM FieldsSurvive == PagesSpec => FieldsAreLostToConcurrencyOnly
<1> DEFINE Survives ==
      \A c \in Callers :
         /\ calls[c].at = "write"
         /\ calls'[c] = Idle
         /\ table' # table
         => \A i \in table, j \in table' :
              i.row = calls[c].prev /\ j.row.id = i.row.id
                => \A f \in DOMAIN i.row \ Implied(calls[c].named) :
                      j.row[f] = i.row[f]
<1>1. TableInv /\ [PagesNext]_vars => [Survives]_vars
  <2> SUFFICES ASSUME TableInv, [PagesNext]_vars, NEW c \in Callers,
                      calls[c].at = "write", calls'[c] = Idle, table' # table,
                      NEW i \in table, NEW j \in table',
                      i.row = calls[c].prev, j.row.id = i.row.id,
                      NEW f \in DOMAIN i.row \ Implied(calls[c].named)
               PROVE  j.row[f] = i.row[f]
    OBVIOUS
  <2> DEFINE prev == calls[c].prev
             next == calls[c].next
  <2>1. Replaceable(prev, next) /\ table' = Replaced(prev, next)
    BY WriteEnds
  <2>2. /\ prev \in Entry /\ next \in Entry /\ prev.id = next.id
        /\ \A g \in DOMAIN prev \ Implied(calls[c].named) : next[g] = prev[g]
    BY WritingCall
  <2>3. j = EntryToItem(next) \/ j.row.id # next.id
    BY <2>1, <2>2, ReplacedRows
  <2>4. j.row = next
    BY <2>2, <2>3, RowOf
  <2> QED
    BY <2>2, <2>4
<1> QED
  BY <1>1, LedgerInv, PTL DEF PagesSpec, FieldsAreLostToConcurrencyOnly

-----------------------------------------------------------------------------
(* The ledger implements the map of entries that LedgerBook is.            *)

EntryAt(t, id) == IF \E i \in t : i.row.id = id
                  THEN (CHOOSE i \in t : i.row.id = id).row
                  ELSE Nobody

LEMMA EntryAtRow ==
  ASSUME NEW t, \A i, j \in t : i.row.id = j.row.id => i = j
  PROVE  /\ \A i \in t : EntryAt(t, i.row.id) = i.row
         /\ \A id : (\A i \in t : i.row.id # id) => EntryAt(t, id) = Nobody
<1>1. ASSUME NEW i \in t
      PROVE  EntryAt(t, i.row.id) = i.row
  <2> DEFINE chosen == CHOOSE j \in t : j.row.id = i.row.id
  <2>1. chosen \in t /\ chosen.row.id = i.row.id
    OBVIOUS
  <2>2. chosen = i
    BY <2>1
  <2> QED
    BY <2>2 DEF EntryAt
<1> QED
  BY <1>1 DEF EntryAt

(* The rows of two tables that differ in one id at most.                   *)
LEMMA SameElsewhere ==
  ASSUME TableInv, TableInv', NEW id,
         \A i \in table : i.row.id # id => i \in table',
         \A i \in table' : i.row.id # id => i \in table
  PROVE  \A other : other # id => EntryAt(table', other) = EntryAt(table, other)
<1> SUFFICES ASSUME NEW other, other # id
             PROVE  EntryAt(table', other) = EntryAt(table, other)
  OBVIOUS
<1>1. OneRowPerId /\ OneRowPerId'
  BY DEF TableInv
<1>2. CASE \E i \in table : i.row.id = other
  <2>1. PICK i \in table : i.row.id = other
    BY <1>2
  <2>2. i \in table'
    BY <2>1
  <2> QED
    BY <1>1, <2>1, <2>2, EntryAtRow DEF OneRowPerId
<1>3. CASE \A i \in table : i.row.id # other
  <2>1. \A i \in table' : i.row.id # other
    BY <1>3
  <2> QED
    BY <1>1, <1>3, <2>1, EntryAtRow DEF OneRowPerId
<1> QED
  BY <1>2, <1>3

LEMMA BookStep ==
  ASSUME NEW id \in 1..MaxIds,
         \A other : other # id => EntryAt(table', other) = EntryAt(table, other),
         LET e == EntryAt(table', id)
             old == EntryAt(table, id)
         IN  \/ id = ids + 1 /\ ids' = id /\ Book!Proper(e, id)
             \/ ids' = ids /\ old # Nobody /\ Book!Proper(e, id)
             \/ ids' = ids /\ old # Nobody /\ e = Nobody
  PROVE  Book!BookNext
<1> DEFINE before == [n \in 1..MaxIds |-> EntryAt(table, n)]
           after  == [n \in 1..MaxIds |-> EntryAt(table', n)]
<1>1. after = [before EXCEPT ![id] = EntryAt(table', id)]
  OBVIOUS
<1>2. before[id] = EntryAt(table, id) /\ after[id] = EntryAt(table', id)
  OBVIOUS
<1> HIDE DEF before, after
<1>3. \/ id = ids + 1 /\ Book!Proper(after[id], id) /\ ids' = id
      \/ ids' = ids /\ before[id] # Nobody /\ Book!Proper(after[id], id)
      \/ ids' = ids /\ before[id] # Nobody /\ after[id] = Nobody
  BY <1>2
<1>4. after = [before EXCEPT ![id] = after[id]]
  BY <1>1, <1>2
<1>5. \E n \in 1..MaxIds :
         \/ /\ n = ids + 1 /\ Book!Proper(after[n], n) /\ ids' = n
            /\ after = [before EXCEPT ![n] = after[n]]
         \/ /\ before[n] # Nobody /\ Book!Proper(after[n], n)
            /\ after = [before EXCEPT ![n] = after[n]] /\ ids' = ids
         \/ /\ before[n] # Nobody
            /\ after = [before EXCEPT ![n] = Nobody] /\ ids' = ids
  BY <1>3, <1>4
<1> QED
  BY <1>5 DEF before, after, EntryAt, Book!BookNext, Book!Add, Book!Replace, Book!Strike

LEMMA ProperRow ==
  ASSUME NEW e \in Entry, Sound(e)
  PROVE  Book!Proper(e, e.id)
BY NobodyAssumption DEF Book!Proper, Book!Valid, Book!Normalize, Sound, Valid, Normalize,
                        Book!Types, Book!Statuses, Book!Origins, Types, Statuses, Origins

LEMMA SaveAdds ==
  ASSUME TableInv, TableInv', NEW c \in Callers, NEW e \in Entry, Sound(e),
         e.id = ids + 1, ids + 1 \in 1..MaxIds, Save(c, e)
  PROVE  Book!BookNext
<1> DEFINE new == EntryToItem(e)
<1>1. /\ Rows(table \cup lagging, ids) /\ OneRowPerId /\ OneRowPerId' /\ ids \in 0..MaxIds
  BY TableInvMeans, TableInvMeansNext DEF CallsInv
<1>2. table' = (table \ T!ItemsAt(table, new.sk)) \cup {new} /\ ids' = ids + 1
  BY DEF Save, SaveEntry, Write, T!PutItem
<1>3. new.row = e /\ new.sk = <<e.date, e.id>>
  BY RowOf
<1>4. \A i \in table : i.row.id # ids + 1 /\ i.sk = <<i.row.date, i.row.id>>
  <2>1. \A n \in 1..ids : n # ids + 1
    BY <1>1, LedgerAssumption
  <2> QED
    BY <1>1, <2>1, RowOf DEF Rows
<1> HIDE DEF new
<1>5. T!ItemsAt(table, new.sk) = {}
  BY <1>3, <1>4 DEF T!ItemsAt
<1>6. new \in table' /\ \A i \in table' : i \in table \/ i = new
  BY <1>2
<1>7. \A other : other # ids + 1 => EntryAt(table', other) = EntryAt(table, other)
  BY <1>2, <1>3, <1>5, <1>6, SameElsewhere
<1>8. EntryAt(table', ids + 1) = e
  BY <1>1, <1>3, <1>6, EntryAtRow DEF OneRowPerId
<1> QED
  BY <1>2, <1>7, <1>8, ProperRow, BookStep

LEMMA CreateAdds ==
  ASSUME TableInv, TableInv', NEW c \in Callers, Create(c) \/ CreateByTool(c)
  PROVE  Book!BookNext
<1>1. CallsInv
  BY TableInvMeans
<1>2. ASSUME NEW e, Save(c, e)
      PROVE  ids + 1 \in 1..MaxIds /\ Valid(e)
  BY <1>1, <1>2, LedgerAssumption DEF CallsInv, Save, SaveEntry
<1>3. CASE Create(c)
  <2>1. PICK d \in Drafts : /\ Acceptable(d)
                            /\ d.type = "income" => d.origin \in Origins \cup {Nobody}
                            /\ Save(c, NewEntry(ids + 1, d))
    BY <1>3 DEF Create
  <2> QED
    BY <1>2, <2>1, NewEntryIsSound, SaveAdds
<1>4. CASE CreateByTool(c)
  <2>1. PICK d \in Drafts : Acceptable(d) /\ Save(c, ToolEntry(ids + 1, d))
    BY <1>4 DEF CreateByTool
  <2> QED
    BY <1>2, <2>1, ToolEntryIsSound, SaveAdds
<1> QED
  BY <1>3, <1>4

LEMMA UpdateReplaces ==
  ASSUME TableInv, TableInv', NEW c \in Callers, UpdateEntry(c), table' # table
  PROVE  Book!BookNext
<1> DEFINE prev == calls[c].prev
           next == calls[c].next
<1>1. OneRowPerId /\ OneRowPerId' /\ CallsInv
  BY TableInvMeans, TableInvMeansNext
<1>2. /\ calls[c].at = "write" /\ ids' = ids /\ Valid(next)
      /\ Replaceable(prev, next) /\ table' = Replaced(prev, next)
  BY DEF UpdateEntry, Write
<1>3. /\ prev \in Entry /\ next \in Entry
      /\ prev.id = next.id /\ next.id \in 1..MaxIds
      /\ Sound(next)
  BY <1>1, <1>2, WritingCall DEF Sound, Entry
<1> HIDE DEF prev, next
<1>4. /\ \E i \in table : i.row.id = next.id
      /\ EntryToItem(next) \in table'
      /\ \A i \in table' : i = EntryToItem(next) \/ (i \in table /\ i.row.id # next.id)
      /\ \A i \in table : i.row.id # next.id => i \in table'
  BY <1>2, <1>3, ReplacedRows
<1>5. EntryToItem(next).row = next
  BY <1>3, RowOf
<1>6. \A other : other # next.id => EntryAt(table', other) = EntryAt(table, other)
  BY <1>4, <1>5, SameElsewhere
<1>7. EntryAt(table', next.id) = next
  BY <1>1, <1>4, <1>5, EntryAtRow DEF OneRowPerId
<1>8. EntryAt(table, next.id) # Nobody
  <2>1. PICK i \in table : i.row.id = next.id
    BY <1>4
  <2>2. EntryAt(table, next.id) = i.row
    BY <1>1, <2>1, EntryAtRow DEF OneRowPerId
  <2>3. i.row \in Entry
    BY <2>1 DEF TableInv, TypeOK
  <2> QED
    BY <2>2, <2>3, NobodyAssumption
<1> QED
  BY <1>2, <1>3, <1>6, <1>7, <1>8, ProperRow, BookStep

LEMMA DeleteStrikes ==
  ASSUME TableInv, TableInv', NEW c \in Callers, DeleteEntry(c), table' # table
  PROVE  Book!BookNext
<1>1. OneRowPerId /\ OneRowPerId' /\ Rows(table \cup lagging, ids) /\ CallsInv
  BY TableInvMeans, TableInvMeansNext
<1>2. PICK day \in Days, id \in 1..ids :
         /\ T!Exists(table, <<day, id>>)
         /\ table' = table \ T!ItemsAt(table, <<day, id>>)
         /\ ids' = ids
  BY DEF DeleteEntry, Write, T!DeleteItem
<1>3. id \in 1..MaxIds
  BY <1>1, LedgerAssumption DEF CallsInv
<1>4. PICK old \in table : old.sk = <<day, id>>
  BY <1>2 DEF T!Exists, T!ItemsAt
<1>5. \A i \in table : i.sk = <<i.row.date, i.row.id>> /\ i.row \in Entry
  BY <1>1, RowOf DEF Rows
<1>6. old.row.id = id
  BY <1>4, <1>5
<1>7. \A i \in table' : i.row.id # id
  BY <1>1, <1>2, <1>4, <1>6 DEF OneRowPerId, T!ItemsAt
<1>8. \A i \in table : i.row.id # id => i \in table'
  BY <1>2, <1>5 DEF T!ItemsAt
<1>9. \A other : other # id => EntryAt(table', other) = EntryAt(table, other)
  BY <1>2, <1>8, SameElsewhere
<1>10. EntryAt(table', id) = Nobody
  BY <1>1, <1>7, EntryAtRow DEF OneRowPerId
<1>11. EntryAt(table, id) # Nobody
  <2>1. EntryAt(table, id) = old.row
    BY <1>1, <1>4, <1>6, EntryAtRow DEF OneRowPerId
  <2> QED
    BY <1>4, <1>5, <2>1, NobodyAssumption
<1> QED
  BY <1>2, <1>3, <1>9, <1>10, <1>11, BookStep

(* Every behaviour of the ledger is one of the book's: a creation, an edit *)
(* and a deletion each change one entry in one step, whatever key, index   *)
(* or stale copy the entry was found under.                                *)
THEOREM LedgerImplementsBook == PagesSpec => ImplementsBook
<1>1. PagesInit => Book!BookInit
  BY DEF PagesInit, Init, Book!BookInit
<1>2. TableInv /\ TableInv' /\ [PagesNext]_vars => [Book!BookNext]_(Book!bookVars)
  <2> SUFFICES ASSUME TableInv, TableInv', [PagesNext]_vars
               PROVE  [Book!BookNext]_(Book!bookVars)
    OBVIOUS
  <2>1. CASE UNCHANGED <<table, ids>>
    BY <2>1 DEF Book!bookVars
  <2>2. CASE ~UNCHANGED <<table, ids>>
    <3>1. PICK c \in Callers : Step(c)
      BY <2>2 DEF PagesNext, LedgerStep, NextPage, Next, Propagate, vars, ledgerVars
    <3>2. CASE Create(c) \/ CreateByTool(c)
      BY <3>2, CreateAdds
    <3>3. CASE UpdateEntry(c)
      <4>1. table' # table
        BY <2>2, <3>3 DEF UpdateEntry
      <4> QED
        BY <3>3, <4>1, UpdateReplaces
    <3>4. CASE DeleteEntry(c)
      <4>1. table' # table
        BY <2>2, <3>4 DEF DeleteEntry
      <4> QED
        BY <3>4, <4>1, DeleteStrikes
    <3>5. CASE GetEntry(c) \/ FindEntryByID(c) \/ Abandon(c)
      BY <2>2, <3>5 DEF GetEntry, FindEntryByID, Abandon
    <3> QED
      BY <3>1, <3>2, <3>3, <3>4, <3>5 DEF Step
  <2> QED
    BY <2>1, <2>2
<1> QED
  BY <1>1, <1>2, LedgerInv, PTL DEF PagesSpec, ImplementsBook, Book!BookSpec

-----------------------------------------------------------------------------
(* Pages.  The order of a listing is that of the keys of its index.        *)

Keys     == Days \X (1..MaxIds)
Place(e) == <<EffectiveDate(e), e.id>>

LEMMA KeysAreOrdered ==
  /\ \A k \in Keys : ~KeyLess(k, k)
  /\ \A k, l, m \in Keys : KeyLess(k, l) /\ KeyLess(l, m) => KeyLess(k, m)
  /\ \A k, l, m \in Keys : KeyLess(k, m) => KeyLess(k, l) \/ KeyLess(l, m)
  /\ \A k, l \in Keys : k = l \/ KeyLess(k, l) \/ KeyLess(l, k)
<1>1. \A k \in Keys : k[1] \in Int /\ k[2] \in Int /\ k = <<k[1], k[2]>>
  <2> SUFFICES ASSUME NEW k \in Days \X (1..MaxIds)
               PROVE  k[1] \in Int /\ k[2] \in Int /\ k = <<k[1], k[2]>>
    BY DEF Keys
  <2>1. PICK d \in Days, n \in 1..MaxIds : k = <<d, n>>
    OBVIOUS
  <2>2. d \in Int /\ n \in Int
    BY EntriesAssumption
  <2> QED
    BY <2>1, <2>2
<1> QED
  BY <1>1 DEF KeyLess

LEMMA PlaceIsKey ==
  ASSUME NEW e \in Entry
  PROVE  Place(e) \in Keys /\ EntryToItem(e).gsi2 = Place(e)
BY DEF Place, Keys, Entry, EffectiveDate, EntryToItem

(* The filter of a page, and the items its key condition leaves.           *)
PageFilter(cur)  == [AnyEntry EXCEPT !.limit = PageLimit, !.cursor = cur]
Hits(view, cur)  == {i \in view : cur # Nobody => KeyLess(i.gsi2, cur)}
Cursors          == {Nobody} \cup Keys

LEMMA FilterFields ==
  ASSUME NEW cur
  PROVE  LET f == PageFilter(cur)
         IN  /\ f.basis = "effective" /\ f.limit = PageLimit /\ f.cursor = cur
             /\ f.from = Nobody /\ f.to = Nobody
             /\ f.type = Nobody /\ f.status = Nobody /\ f.origin = Nobody
BY DEF PageFilter, AnyEntry

(* The key of an entry in the index of a basis.                            *)
KeyOf(b, e) == <<BasisDate(b, e), e.id>>

LEMMA IndexKeyMeans ==
  ASSUME NEW e \in Entry, NEW b \in Bases
  PROVE  /\ IndexKey(b, EntryToItem(e)) # Nobody <=> BasisDate(b, e) # Nobody
         /\ BasisDate(b, e) # Nobody => /\ IndexKey(b, EntryToItem(e)) = KeyOf(b, e)
                                        /\ KeyOf(b, e) \in Keys
<1>1. /\ e.date \in Days /\ e.due \in Days \cup {Nobody} /\ e.pay \in Days \cup {Nobody}
      /\ e.id \in 1..MaxIds
  BY DEF Entry
<1>2. Nobody \notin Days /\ Nobody \notin Keys
  BY EntriesAssumption, NobodyAssumption DEF Keys
<1>3. BasisDate(b, e) \in Days \cup {Nobody}
  BY <1>1 DEF Bases, BasisDate, CashDate, RevenueDate, EffectiveDate
<1>4. BasisDate(b, e) # Nobody => KeyOf(b, e) \in Keys
  BY <1>1, <1>3 DEF KeyOf, Keys
<1>5. CASE b = "payment"
  <2>1. BasisDate(b, e) = CashDate(e)
    BY <1>5 DEF BasisDate
  <2>2. IndexKey(b, EntryToItem(e)) = IF CashDate(e) = Nobody THEN Nobody ELSE <<CashDate(e), e.id>>
    BY <1>5 DEF IndexKey, EntryToItem
  <2> QED
    BY <1>2, <1>4, <2>1, <2>2 DEF KeyOf
<1>6. CASE b = "transaction"
  <2>1. BasisDate(b, e) = e.date
    BY <1>6 DEF BasisDate, RevenueDate
  <2>2. IndexKey(b, EntryToItem(e)) = <<e.date, e.id>>
    BY <1>6 DEF IndexKey, EntryToItem
  <2> QED
    BY <1>1, <1>2, <1>4, <2>1, <2>2 DEF KeyOf
<1>7. CASE b = "effective"
  <2>1. BasisDate(b, e) = EffectiveDate(e)
    BY <1>7 DEF BasisDate
  <2>2. IndexKey(b, EntryToItem(e)) = <<EffectiveDate(e), e.id>>
    BY <1>7 DEF IndexKey, EntryToItem
  <2>3. EffectiveDate(e) \in Days
    BY <1>1 DEF EffectiveDate
  <2> QED
    BY <1>2, <1>4, <2>1, <2>2, <2>3 DEF KeyOf
<1> QED
  BY <1>5, <1>6, <1>7 DEF Bases

(* The items of an index that a filter's key condition leaves, and those   *)
(* of them that its filter expression leaves.                              *)
ItemsOf(view, f) == {i \in view : /\ IndexKey(f.basis, i) # Nobody
                                  /\ KeyCondition(f, IndexKey(f.basis, i))}
Listed(view, f)  == {i \in ItemsOf(view, f) : Matches(f, i.row)}

(* What the paginator reads is a first part of the index: an item that     *)
(* matches and is not among it comes after all that are, which fill the    *)
(* page.  Without a limit it is the whole index.                           *)
LEMMA QueryReads ==
  ASSUME NEW view, IsFiniteSet(view), Rows(view, MaxIds),
         NEW f, f.basis \in Bases, f.limit \in Nat
  PROVE  LET Q == Query(view, f)
         IN  /\ IsFiniteSet(Q)
             /\ Q \subseteq {i.row : i \in Listed(view, f)}
             /\ \A i \in Listed(view, f) :
                  i.row \notin Q => /\ f.limit > 0 /\ Cardinality(Q) >= f.limit
                                    /\ \A e \in Q : ~KeyLess(KeyOf(f.basis, e), KeyOf(f.basis, i.row))
<1> DEFINE key(i) == IndexKey(f.basis, i)
           hits == ItemsOf(view, f)
           items == InOrder(hits, LAMBDA i, j :
                    IF f.limit > 0
                    THEN KeyLess(IndexKey(f.basis, j), IndexKey(f.basis, i))
                    ELSE KeyLess(IndexKey(f.basis, i), IndexKey(f.basis, j)))
           Read(n)  == {items[k].row : k \in {m \in 1..Len(items) :
                        m <= n * PageSize /\ Matches(f, items[m].row)}}
           Enough(n) == \/ n * PageSize >= Len(items)
                        \/ f.limit > 0 /\ Cardinality(Read(n)) >= f.limit
           Stops(n) == n > 0 /\ Enough(n) /\ \A m \in 1..(n - 1) : ~Enough(m)
           last == CHOOSE n \in 0..Len(items) + 1 : Stops(n)
           H    == ItemsOf(view, f)
           size == Cardinality(H)
<1>1. Query(view, f) = Read(last)
  BY DEF Query, ItemsOf
<1>2. PageSize \in Nat /\ PageSize > 0
  BY PageSizeAssumption
<1>3. \A i \in H : /\ i \in view /\ i.row \in Entry
                   /\ key(i) = KeyOf(f.basis, i.row) /\ key(i) \in Keys
  <2> SUFFICES ASSUME NEW i \in H
               PROVE  /\ i \in view /\ i.row \in Entry
                      /\ key(i) = KeyOf(f.basis, i.row) /\ key(i) \in Keys
    OBVIOUS
  <2>1. i \in view /\ key(i) # Nobody
    BY DEF ItemsOf
  <2>2. i.row \in Entry /\ i = EntryToItem(i.row)
    BY <2>1 DEF Rows
  <2> QED
    BY <2>1, <2>2, IndexKeyMeans
<1>4. IsFiniteSet(H)
  BY FS_Subset DEF ItemsOf
<1>5. size \in Nat
  BY <1>4, FS_CardinalityType
<1> HIDE DEF H, key
<1>6. /\ items \in [1 .. size -> H]
      /\ \A i, j \in 1 .. size :
            i < j => items[i] # items[j] /\ (f.limit > 0 => ~KeyLess(key(items[i]), key(items[j])))
  <2> DEFINE Comes(x, y) == IF f.limit > 0 THEN KeyLess(key(y), key(x)) ELSE KeyLess(key(x), key(y))
             R == {p \in H \X H : Comes(p[1], p[2])}
  <2>1. \A x, y \in H : <<x, y>> \in R <=> Comes(x, y)
    OBVIOUS
  <2> HIDE DEF R
  <2>2. \A x \in H : key(x) \in Keys
    BY <1>3
  <2>3. /\ \A x \in H : ~Comes(x, x)
        /\ \A x, y, z \in H : Comes(x, y) /\ Comes(y, z) => Comes(x, z)
        /\ \A x, y, z \in H : Comes(x, z) => Comes(x, y) \/ Comes(y, z)
    <3>1. CASE f.limit > 0
      BY <2>2, <3>1, KeysAreOrdered
    <3>2. CASE ~(f.limit > 0)
      BY <2>2, <3>2, KeysAreOrdered
    <3> QED
      BY <3>1, <3>2
  <2> HIDE DEF Comes
  <2>4. \E s \in [1 .. size -> H] :
           \A i, j \in 1 .. size : i < j => s[i] # s[j] /\ <<s[j], s[i]>> \notin R
    BY <1>4, <2>1, <2>3, OrderExists
  <2>5. PICK s \in [1 .. size -> H] :
           \A i, j \in 1 .. size : i < j => s[i] # s[j] /\ <<s[j], s[i]>> \notin R
    BY <2>4
  <2>6. \A i, j \in 1 .. size : i < j => s[i] # s[j] /\ ~Comes(s[j], s[i])
    <3> SUFFICES ASSUME NEW i \in 1 .. size, NEW j \in 1 .. size, i < j
                 PROVE  s[i] # s[j] /\ ~Comes(s[j], s[i])
      OBVIOUS
    <3>1. s[i] \in H /\ s[j] \in H
      BY <2>5
    <3> QED
      BY <2>1, <2>5, <3>1
  <2>7. /\ items \in [1 .. size -> H]
        /\ \A i, j \in 1 .. size : i < j => items[i] # items[j] /\ ~Comes(items[j], items[i])
    <3>1. hits = H /\ Cardinality(hits) = size
      BY DEF H
    <3>2. \E t \in [1 .. Cardinality(hits) -> hits] :
             \A i, j \in 1 .. Cardinality(hits) :
                i < j => /\ t[i] # t[j]
                         /\ ~(IF f.limit > 0
                              THEN KeyLess(IndexKey(f.basis, t[i]), IndexKey(f.basis, t[j]))
                              ELSE KeyLess(IndexKey(f.basis, t[j]), IndexKey(f.basis, t[i])))
      BY <2>6, <3>1 DEF Comes, key
    <3> HIDE DEF hits
    <3>3. /\ items \in [1 .. Cardinality(hits) -> hits]
          /\ \A i, j \in 1 .. Cardinality(hits) :
                i < j => /\ items[i] # items[j]
                         /\ ~(IF f.limit > 0
                              THEN KeyLess(IndexKey(f.basis, items[i]), IndexKey(f.basis, items[j]))
                              ELSE KeyLess(IndexKey(f.basis, items[j]), IndexKey(f.basis, items[i])))
      BY <3>2 DEF InOrder
    <3> HIDE DEF items
    <3> QED
      BY <3>1, <3>3 DEF Comes, key
  <2> HIDE DEF items
  <2> QED
    BY <2>7 DEF Comes
<1>7. \A i \in H : \E k \in 1 .. size : items[k] = i
  <2> HIDE DEF items
  <2>1. \A i, j \in 1 .. size : i < j => items[i] # items[j]
    BY <1>6
  <2> QED
    BY <1>4, <1>6, <2>1, OrderIsOnto
<1> HIDE DEF items
<1>8. Len(items) = size
  BY <1>5, <1>6
<1>9. \A n, e : e \in Read(n) <=> \E k \in 1 .. size :
                     k <= n * PageSize /\ Matches(f, items[k].row) /\ e = items[k].row
  BY <1>8
<1> HIDE DEF Read
<1>10. last \in Nat /\ Stops(last)
  <2> DEFINE N == {n \in 1 .. size + 1 : Enough(n)}
  <2>1. (size + 1) * PageSize >= size
    BY <1>2, <1>5
  <2>2. size + 1 \in N /\ N \in SUBSET Nat
    BY <1>5, <1>8, <2>1
  <2>3. PICK n \in N : \A m \in N : n <= m
    BY <2>2, LeastNatural
  <2>4. n \in 0 .. size + 1 /\ Stops(n)
    BY <1>5, <2>3
  <2> HIDE DEF Stops
  <2> QED
    BY <1>5, <1>8, <2>4
<1> HIDE DEF last
<1>11. Enough(last)
  BY <1>10
<1>12. Read(last) \subseteq {i.row : i \in Listed(view, f)}
  BY <1>6, <1>9 DEF H, Listed
<1>13. IsFiniteSet(Read(last))
  <2> DEFINE image == {i.row : i \in H}
             g == [i \in H |-> i.row]
  <2>1. g \in Surjection(H, image)
    BY DEF Surjection
  <2>2. IsFiniteSet(image)
    BY <1>4, <2>1, FS_Surjection
  <2>3. Read(last) \subseteq image
    BY <1>6, <1>9
  <2> QED
    BY <2>2, <2>3, FS_Subset
<1>14. ASSUME NEW i \in Listed(view, f), i.row \notin Read(last)
       PROVE  /\ f.limit > 0 /\ Cardinality(Read(last)) >= f.limit
              /\ \A e \in Read(last) : ~KeyLess(KeyOf(f.basis, e), KeyOf(f.basis, i.row))
  <2>0. i \in H /\ Matches(f, i.row)
    BY DEF H, Listed
  <2>1. PICK k \in 1 .. size : items[k] = i
    BY <1>7, <2>0
  <2>2. ~(k <= last * PageSize)
    BY <1>9, <1>14, <2>0, <2>1
  <2>3. last * PageSize \in Int
    BY <1>2, <1>10
  <2>4. ~(last * PageSize >= size)
    BY <1>5, <2>2, <2>3
  <2>5. f.limit > 0 /\ Cardinality(Read(last)) >= f.limit
    BY <1>8, <1>11, <2>4
  <2>6. ASSUME NEW e \in Read(last) PROVE ~KeyLess(KeyOf(f.basis, e), KeyOf(f.basis, i.row))
    <3>1. PICK m \in 1 .. size : m <= last * PageSize /\ e = items[m].row
      BY <1>9
    <3>2. m < k
      BY <1>5, <2>2, <2>3, <3>1
    <3>3. ~KeyLess(key(items[m]), key(items[k]))
      BY <1>6, <2>5, <3>2
    <3>4. items[m] \in H /\ items[k] \in H
      BY <1>6
    <3>5. key(items[m]) = KeyOf(f.basis, e) /\ key(items[k]) = KeyOf(f.basis, i.row)
      BY <1>3, <2>1, <3>1, <3>4
    <3> QED
      BY <3>3, <3>5
  <2> QED
    BY <2>5, <2>6
<1> QED
  BY <1>1, <1>12, <1>13, <1>14

(* What a page of the walk reads.                                          *)
LEMMA QueryMeans ==
  ASSUME NEW view, IsFiniteSet(view), Rows(view, MaxIds), NEW cur \in Cursors
  PROVE  LET Q == Query(view, PageFilter(cur))
         IN  /\ IsFiniteSet(Q)
             /\ Q \subseteq {i.row : i \in Hits(view, cur)}
             /\ \A i \in Hits(view, cur) :
                  i.row \notin Q => /\ Cardinality(Q) >= PageLimit
                                    /\ \A e \in Q : ~KeyLess(Place(e), Place(i.row))
<1> DEFINE f == PageFilter(cur)
<1>1. f.basis = "effective" /\ f.limit = PageLimit /\ f.limit \in Nat /\ f.basis \in Bases
  BY PageLimitAssumption, FilterFields DEF Bases
<1>2. \A i \in view : IndexKey(f.basis, i) = i.gsi2 /\ i.gsi2 # Nobody
  BY <1>1, PlaceIsKey, NobodyAssumption DEF Rows, Keys, IndexKey
<1>3. \A k, e : (KeyCondition(f, k) <=> (cur # Nobody => KeyLess(k, cur))) /\ Matches(f, e)
  BY FilterFields DEF KeyCondition, InRange, Matches
<1> HIDE DEF f
<1>4. Listed(view, f) = Hits(view, cur)
  BY <1>2, <1>3 DEF Listed, ItemsOf, Hits
<1>5. \A e : KeyOf(f.basis, e) = Place(e)
  BY <1>1 DEF KeyOf, Place, BasisDate
<1>6. LET Q == Query(view, f)
      IN  /\ IsFiniteSet(Q)
          /\ Q \subseteq {i.row : i \in Hits(view, cur)}
          /\ \A i \in Hits(view, cur) :
               i.row \notin Q => /\ Cardinality(Q) >= PageLimit
                                 /\ \A e \in Q : ~KeyLess(Place(e), Place(i.row))
  BY <1>1, <1>4, <1>5, QueryReads
<1> QED
  BY <1>6 DEF f

(* A listing is in the order of its keys, the last one first.              *)
LEMMA SortedMeans ==
  ASSUME NEW S, IsFiniteSet(S), S \subseteq Entry
  PROVE  LET s == Sorted(S, "effective")
             n == Cardinality(S)
         IN  /\ n \in Nat /\ s \in [1 .. n -> S]
             /\ \A i, j \in 1 .. n : i < j => s[i] # s[j] /\ ~KeyLess(Place(s[i]), Place(s[j]))
             /\ \A e \in S : \E k \in 1 .. n : s[k] = e
<1> DEFINE s == Sorted(S, "effective")
           n == Cardinality(S)
           R == {p \in S \X S : KeyLess(Place(p[2]), Place(p[1]))}
<1>1. \A x, y \in S : <<x, y>> \in R <=> KeyLess(Place(y), Place(x))
  OBVIOUS
<1>2. \A x \in S : Place(x) \in Keys
  BY PlaceIsKey
<1>3. \A x, y : LessByBasis("effective", x, y) = KeyLess(Place(y), Place(x))
  BY DEF LessByBasis, BasisDate, Place
<1> HIDE DEF R
<1>4. /\ \A x \in S : <<x, x>> \notin R
      /\ \A x, y, z \in S : <<x, y>> \in R /\ <<y, z>> \in R => <<x, z>> \in R
      /\ \A x, y, z \in S : <<x, z>> \in R => <<x, y>> \in R \/ <<y, z>> \in R
  BY <1>1, <1>2, KeysAreOrdered
<1>5. PICK t \in [1 .. n -> S] :
         \A i, j \in 1 .. n : i < j => t[i] # t[j] /\ <<t[j], t[i]>> \notin R
  BY <1>4, OrderExists
<1>6. \A i, j \in 1 .. n : i < j => t[i] # t[j] /\ ~LessByBasis("effective", t[j], t[i])
  <2> SUFFICES ASSUME NEW i \in 1 .. n, NEW j \in 1 .. n, i < j
               PROVE  t[i] # t[j] /\ ~LessByBasis("effective", t[j], t[i])
    OBVIOUS
  <2>1. t[i] # t[j] /\ <<t[j], t[i]>> \notin R
    BY <1>5
  <2> QED
    BY <1>1, <1>3, <2>1
<1>7. /\ s \in [1 .. n -> S]
      /\ \A i, j \in 1 .. n : i < j => s[i] # s[j] /\ ~LessByBasis("effective", s[j], s[i])
  BY <1>6 DEF Sorted, InOrder
<1> HIDE DEF s
<1>8. \A i, j \in 1 .. n : i < j => s[i] # s[j] /\ ~KeyLess(Place(s[i]), Place(s[j]))
  BY <1>3, <1>7
<1>9. \A e \in S : \E k \in 1 .. n : s[k] = e
  <2>1. \A i, j \in 1 .. n : i < j => s[i] # s[j]
    BY <1>7
  <2> QED
    BY <1>7, <2>1, OrderIsOnto
<1>10. n \in Nat
  BY FS_CardinalityType
<1> QED
  BY <1>7, <1>8, <1>9, <1>10 DEF s

(* A page has what the key condition leaves, each row once; a page that is *)
(* short has all of it, and what a full page lacks is past its cursor.     *)
LEMMA PageMeans ==
  ASSUME NEW view, IsFiniteSet(view), Rows(view, MaxIds), NEW cur \in Cursors
  PROVE  LET page == ListEntries(view, PageFilter(cur))
             rows == {i.row : i \in Hits(view, cur)}
         IN  /\ Len(page) \in 0 .. PageLimit /\ page \in [1 .. Len(page) -> rows]
             /\ \A i, j \in 1 .. Len(page) : i # j => page[i] # page[j]
             /\ Len(page) < PageLimit => \A e \in rows : \E k \in 1 .. Len(page) : page[k] = e
             /\ Len(page) = PageLimit =>
                  /\ NextCursor(page) = Place(page[PageLimit])
                  /\ \A k \in 1 .. PageLimit : ~KeyLess(Place(page[k]), Place(page[PageLimit]))
                  /\ \A e \in rows : \/ \E k \in 1 .. PageLimit : page[k] = e
                                     \/ ~KeyLess(Place(page[PageLimit]), Place(e))
<1> DEFINE f    == PageFilter(cur)
           Q    == Query(view, f)
           page == ListEntries(view, f)
           rows == {i.row : i \in Hits(view, cur)}
           s    == Sorted(Q, "effective")
           n    == Cardinality(Q)
<1>1. /\ IsFiniteSet(Q) /\ Q \subseteq rows
      /\ \A e \in rows : e \notin Q => /\ n >= PageLimit
                                       /\ \A d \in Q : ~KeyLess(Place(d), Place(e))
  BY QueryMeans
<1>2. PageLimit \in Nat /\ PageLimit > 0
  BY PageLimitAssumption
<1>3. \A e \in rows : e \in Entry /\ Normalize(e) = e /\ Place(e) \in Keys
  BY PlaceIsKey DEF Rows, Hits, Sound
<1> HIDE DEF rows, Q
<1>4. Q \subseteq Entry /\ {Normalize(e) : e \in Q} = Q
  BY <1>1, <1>3
<1>5. /\ n \in Nat /\ s \in [1 .. n -> Q]
      /\ \A i, j \in 1 .. n : i < j => s[i] # s[j] /\ ~KeyLess(Place(s[i]), Place(s[j]))
      /\ \A e \in Q : \E k \in 1 .. n : s[k] = e
  BY <1>1, <1>4, SortedMeans
<1>6. page = Cut(s, PageLimit)
  BY <1>4, FilterFields DEF ListEntries, Q
<1> HIDE DEF s, n, page
<1>7. Len(s) = n
  BY <1>5
<1>8. /\ Len(page) = IF n > PageLimit THEN PageLimit ELSE n
      /\ \A k \in 1 .. Len(page) : page[k] = s[k]
      /\ page = [k \in 1 .. Len(page) |-> page[k]]
  <2>0. s \in Seq(Q)
    BY <1>5
  <2>1. CASE n > PageLimit
    <3>1. page = SubSeq(s, 1, PageLimit)
      BY <1>2, <1>6, <1>7, <2>1 DEF Cut
    <3> QED
      BY <1>2, <1>5, <1>7, <2>0, <2>1, <3>1
  <2>2. CASE ~(n > PageLimit)
    <3>1. page = s
      BY <1>2, <1>6, <1>7, <2>2 DEF Cut
    <3> QED
      BY <1>2, <1>5, <1>7, <2>2, <3>1
  <2> QED
    BY <2>1, <2>2
<1> DEFINE m == Len(page)
<1>9. m \in 0 .. PageLimit /\ m <= n /\ m \in Int
  BY <1>2, <1>5, <1>8
<1>10. \A k \in 1 .. m : k \in 1 .. n /\ page[k] = s[k] /\ s[k] \in Q /\ s[k] \in rows
  BY <1>1, <1>5, <1>8, <1>9
<1>11. \A i, j \in 1 .. m : i # j => page[i] # page[j]
  <2>1. \A i, j \in 1 .. n : i # j => s[i] # s[j]
    BY <1>5
  <2> QED
    BY <1>10, <2>1
<1>12. page \in [1 .. m -> rows]
  BY <1>8, <1>10
<1>13. ASSUME m < PageLimit, NEW e \in rows
       PROVE  \E k \in 1 .. m : page[k] = e
  <2>1. n = m /\ n < PageLimit
    BY <1>2, <1>5, <1>8, <1>13
  <2>2. e \in Q
    BY <1>1, <1>2, <1>5, <2>1
  <2> QED
    BY <1>5, <1>10, <2>1, <2>2
<1>14. ASSUME m = PageLimit
       PROVE  /\ NextCursor(page) = Place(page[PageLimit])
              /\ \A k \in 1 .. PageLimit : ~KeyLess(Place(page[k]), Place(page[PageLimit]))
              /\ \A e \in rows : \/ \E k \in 1 .. PageLimit : page[k] = e
                                 \/ ~KeyLess(Place(page[PageLimit]), Place(e))
  <2>1. NextCursor(page) = Place(page[PageLimit])
    BY <1>14 DEF NextCursor, Place, Last
  <2>2. PageLimit \in 1 .. m
    BY <1>2, <1>14
  <2>3. ASSUME NEW k \in 1 .. PageLimit
        PROVE  ~KeyLess(Place(page[k]), Place(page[PageLimit]))
    <3>1. CASE k = PageLimit
      BY <1>3, <1>10, <2>2, <3>1, KeysAreOrdered
    <3>2. CASE k < PageLimit
      BY <1>5, <1>10, <1>14, <2>2, <3>2
    <3> QED
      BY <1>2, <3>1, <3>2
  <2>4. ASSUME NEW e \in rows, \A k \in 1 .. PageLimit : page[k] # e
        PROVE  ~KeyLess(Place(page[PageLimit]), Place(e))
    <3>1. CASE e \notin Q
      BY <1>1, <1>10, <2>2, <3>1
    <3>2. CASE e \in Q
      <4>1. PICK k \in 1 .. n : s[k] = e
        BY <1>5, <3>2
      <4>2. ~(k \in 1 .. m)
        BY <1>10, <1>14, <2>4, <4>1
      <4>3. PageLimit < k
        BY <1>2, <1>5, <1>14, <4>2
      <4> QED
        BY <1>5, <1>10, <2>2, <4>1, <4>3
    <3> QED
      BY <3>1, <3>2
  <2> QED
    BY <2>1, <2>3, <2>4
<1> QED
  BY <1>9, <1>11, <1>12, <1>13, <1>14 DEF page, rows

-----------------------------------------------------------------------------
(* The walk.                                                               *)

Never(s, id) == \A k \in 1 .. Len(s) : s[k] # id
Once(s, id)  == \E k \in 1 .. Len(s) : \A l \in 1 .. Len(s) : s[l] = id <=> l = k

(* The row of a steady id is the only one that any view can show of it,    *)
(* and it has been shown once unless the cursor is still before it.        *)
ShownByNow(id) ==
    \E i \in table \cap lagging :
        /\ i.row.id = id
        /\ \A j \in table \cup lagging : j.row.id = id => j = i
        /\ IF walk.at = "open" /\ KeyLess(i.gsi2, walk.cursor)
           THEN Never(walk.seen, id)
           ELSE Once(walk.seen, id)

WalkInv ==
    /\ walk.at \in {"before", "open", "done"}
    /\ walk.cursor \in Cursors
    /\ walk.seen \in Seq(1..MaxIds)
    /\ walk.at = "before" => walk.cursor = Nobody /\ walk.seen = <<>> /\ steady = {}
    /\ walk.at = "open" => walk.cursor \in Keys
    /\ \A i, j \in lagging : i.row.id = j.row.id => i = j
    /\ \A id \in steady : ShownByNow(id)

(* One row for each of finitely many ids.                                  *)
LEMMA RowsAreFinite ==
  ASSUME NEW n \in Nat, NEW t, Rows(t, n), \A i, j \in t : i.row.id = j.row.id => i = j
  PROVE  IsFiniteSet(t)
<1> DEFINE g == [i \in t |-> i.row.id]
<1>1. g \in [t -> 1..n]
  BY DEF Rows
<1>2. g \in Injection(t, 1..n)
  BY <1>1 DEF Injection, IsInjective
<1>3. IsFiniteSet(1..n)
  BY FS_Interval
<1> QED
  BY <1>2, <1>3, FS_Injection

LEMMA ViewIsSound ==
  ASSUME TableInv, WalkInv, NEW view \in IndexViews
  PROVE  /\ IsFiniteSet(view) /\ Rows(view, MaxIds)
         /\ view \subseteq table \cup lagging /\ table \cap lagging \subseteq view
<1>1. Rows(table \cup lagging, ids) /\ ids \in 0..MaxIds /\ OneRowPerId
  BY TableInvMeans DEF CallsInv
<1>2. view \subseteq table \cup lagging /\ table \cap lagging \subseteq view
  BY DEF IndexViews
<1>3. ids \in Nat /\ Rows(table, ids) /\ Rows(lagging, ids)
  BY <1>1, LedgerAssumption DEF Rows
<1>5. IsFiniteSet(table) /\ IsFiniteSet(lagging)
  BY <1>1, <1>3, RowsAreFinite DEF OneRowPerId, WalkInv
<1>6. IsFiniteSet(table \cup lagging)
  BY <1>5, FS_Union
<1>7. \A i \in table \cup lagging : i.row.id \in 1..MaxIds
  BY <1>1, LedgerAssumption DEF Rows
<1> QED
  BY <1>1, <1>2, <1>6, <1>7, FS_Subset DEF Rows

(* What was shown once stays so when others are shown after it.            *)
LEMMA ShowMore ==
  ASSUME NEW A, NEW s \in Seq(A), NEW t \in Seq(A), NEW id
  PROVE  /\ Never(s, id) /\ Never(t, id) => Never(s \o t, id)
         /\ Once(s, id) /\ Never(t, id) => Once(s \o t, id)
         /\ Never(s, id) /\ Once(t, id) => Once(s \o t, id)
<1> DEFINE m == Len(s)
           n == Len(t)
           u == s \o t
<1>1. m \in Nat /\ n \in Nat /\ Len(u) = m + n
  OBVIOUS
<1>2. \A k \in 1 .. m + n : u[k] = IF k <= m THEN s[k] ELSE t[k - m]
  OBVIOUS
<1> HIDE DEF m, n, u
<1>3. ASSUME Never(s, id), Never(t, id)
      PROVE  Never(u, id)
  <2> SUFFICES ASSUME NEW k \in 1 .. m + n PROVE u[k] # id
    BY <1>1 DEF Never
  <2>1. (k <= m => k \in 1 .. m) /\ (~(k <= m) => k - m \in 1 .. n)
    BY <1>1
  <2> QED
    BY <1>2, <1>3, <2>1 DEF Never, m, n
<1>4. ASSUME Once(s, id), Never(t, id)
      PROVE  Once(u, id)
  <2>1. PICK k \in 1 .. m : \A l \in 1 .. m : s[l] = id <=> l = k
    BY <1>4 DEF Once, m
  <2>2. ASSUME NEW l \in 1 .. m + n PROVE u[l] = id <=> l = k
    <3>1. CASE l <= m
      BY <1>1, <1>2, <2>1, <3>1
    <3>2. CASE ~(l <= m)
      <4>1. l - m \in 1 .. n /\ l # k
        BY <1>1, <3>2
      <4>2. t[l - m] # id
        BY <1>4, <4>1 DEF Never, n
      <4> QED
        BY <1>2, <3>2, <4>1, <4>2
    <3> QED
      BY <3>1, <3>2
  <2>3. k \in 1 .. m + n
    BY <1>1
  <2>4. \A l \in 1 .. m + n : u[l] = id <=> l = k
    BY <2>2
  <2>5. Len(u) = m + n
    BY <1>1
  <2>6. \E j \in 1 .. m + n : \A l \in 1 .. m + n : u[l] = id <=> l = j
    BY <2>3, <2>4
  <2>7. \E j \in 1 .. Len(u) : \A l \in 1 .. Len(u) : u[l] = id <=> l = j
    BY <2>5, <2>6
  <2> QED
    BY <2>7 DEF Once
<1>5. ASSUME Never(s, id), Once(t, id)
      PROVE  Once(u, id)
  <2>1. PICK k \in 1 .. n : \A l \in 1 .. n : t[l] = id <=> l = k
    BY <1>5 DEF Once, n
  <2>2. ASSUME NEW l \in 1 .. m + n PROVE u[l] = id <=> l = k + m
    <3>1. CASE l <= m
      <4>1. l \in 1 .. m /\ l # k + m
        BY <1>1, <3>1
      <4> QED
        BY <1>2, <1>5, <3>1, <4>1 DEF Never, m
    <3>2. CASE ~(l <= m)
      <4>1. l - m \in 1 .. n /\ (l = k + m <=> l - m = k)
        BY <1>1, <3>2
      <4> QED
        BY <1>2, <2>1, <3>2, <4>1
    <3> QED
      BY <3>1, <3>2
  <2>3. k + m \in 1 .. m + n
    BY <1>1
  <2>4. \A l \in 1 .. m + n : u[l] = id <=> l = k + m
    BY <2>2
  <2>5. Len(u) = m + n
    BY <1>1
  <2>6. \E j \in 1 .. m + n : \A l \in 1 .. m + n : u[l] = id <=> l = j
    BY <2>3, <2>4
  <2>7. \E j \in 1 .. Len(u) : \A l \in 1 .. Len(u) : u[l] = id <=> l = j
    BY <2>5, <2>6
  <2> QED
    BY <2>7 DEF Once
<1> QED
  BY <1>3, <1>4, <1>5 DEF u

LEMMA PageKeepsWalk ==
  ASSUME TableInv, WalkInv, NextPage
  PROVE  WalkInv'
<1>1. PICK view \in IndexViews :
        LET page == ListEntries(view, PageFilter(walk.cursor))
            full == Len(page) = PageLimit
        IN  /\ walk.at \in {"before", "open"}
            /\ walk' = [at     |-> IF full THEN "open" ELSE "done",
                        cursor |-> IF full THEN NextCursor(page) ELSE walk.cursor,
                        seen   |-> walk.seen \o [k \in 1..Len(page) |-> page[k].id]]
            /\ steady' = IF walk.at = "before" THEN IdsOf(table \cap lagging) ELSE steady
            /\ UNCHANGED ledgerVars
  BY DEF NextPage, PageFilter
<1> DEFINE cur  == walk.cursor
           page == ListEntries(view, PageFilter(cur))
           rows == {i.row : i \in Hits(view, cur)}
           full == Len(page) = PageLimit
           last == page[PageLimit]
           new  == [k \in 1..Len(page) |-> page[k].id]
<1>2. /\ cur \in Cursors /\ walk.seen \in Seq(1..MaxIds)
      /\ walk.at = "before" => cur = Nobody /\ walk.seen = <<>>
      /\ walk.at = "open" => cur \in Keys
      /\ \A i, j \in lagging : i.row.id = j.row.id => i = j
  BY DEF WalkInv
<1>3. /\ IsFiniteSet(view) /\ Rows(view, MaxIds)
      /\ view \subseteq table \cup lagging /\ table \cap lagging \subseteq view
  BY ViewIsSound
<1>4. /\ Len(page) \in 0 .. PageLimit /\ page \in [1 .. Len(page) -> rows]
      /\ \A i, j \in 1 .. Len(page) : i # j => page[i] # page[j]
      /\ ~full => \A e \in rows : \E k \in 1 .. Len(page) : page[k] = e
      /\ full => /\ NextCursor(page) = Place(last)
                 /\ \A k \in 1 .. PageLimit : ~KeyLess(Place(page[k]), Place(last))
                 /\ \A e \in rows : \/ \E k \in 1 .. PageLimit : page[k] = e
                                    \/ ~KeyLess(Place(last), Place(e))
  <2> HIDE DEF rows, page
  <2>1. /\ Len(page) \in 0 .. PageLimit /\ page \in [1 .. Len(page) -> rows]
        /\ \A i, j \in 1 .. Len(page) : i # j => page[i] # page[j]
        /\ Len(page) < PageLimit => \A e \in rows : \E k \in 1 .. Len(page) : page[k] = e
        /\ full => /\ NextCursor(page) = Place(last)
                   /\ \A k \in 1 .. PageLimit : ~KeyLess(Place(page[k]), Place(last))
                   /\ \A e \in rows : \/ \E k \in 1 .. PageLimit : page[k] = e
                                      \/ ~KeyLess(Place(last), Place(e))
    BY <1>2, <1>3, PageMeans DEF rows, page
  <2>2. ~full => Len(page) < PageLimit
    <3>1. Len(page) \in 0 .. PageLimit
      BY <2>1
    <3> QED
      BY <3>1, PageLimitAssumption
  <2> QED
    BY <2>1, <2>2
<1>5. \A i \in view : /\ i.row \in Entry /\ i.row.id \in 1..MaxIds /\ i = EntryToItem(i.row)
                      /\ i.gsi2 = Place(i.row) /\ i.gsi2 \in Keys
  BY <1>3, PlaceIsKey DEF Rows
<1>6. /\ walk'.at = IF full THEN "open" ELSE "done"
      /\ walk'.cursor = IF full THEN Place(last) ELSE cur
      /\ walk'.seen = walk.seen \o new
      /\ table' = table /\ lagging' = lagging
  BY <1>1, <1>4 DEF ledgerVars
<1> HIDE DEF page
<1>7. \A e \in rows : e \in Entry /\ e.id \in 1..MaxIds /\ Place(e) \in Keys
  BY <1>5 DEF Hits
<1>8. full => last \in rows /\ Place(last) \in Keys
  BY <1>4, <1>7, PageLimitAssumption
<1>9. new \in Seq(1..MaxIds) /\ Len(new) = Len(page) /\ \A k \in 1 .. Len(page) : new[k] = page[k].id
  <2>1. \A k \in 1 .. Len(page) : page[k].id \in 1..MaxIds
    BY <1>4, <1>7
  <2>2. Len(page) \in Nat
    BY <1>4, PageLimitAssumption
  <2> QED
    BY <2>1, <2>2
<1>10. walk'.seen \in Seq(1..MaxIds) /\ walk'.cursor \in Cursors /\ (full => walk'.cursor \in Keys)
  BY <1>2, <1>6, <1>8, <1>9 DEF Cursors
<1>11. ASSUME NEW id \in steady'
       PROVE  ShownByNow(id)'
  <2>1. PICK i \in table \cap lagging :
           /\ i.row.id = id
           /\ \A j \in table \cup lagging : j.row.id = id => j = i
           /\ IF cur # Nobody => KeyLess(i.gsi2, cur)
              THEN Never(walk.seen, id)
              ELSE Once(walk.seen, id)
    <3>1. CASE walk.at = "before"
      <4>1. PICK i \in table \cap lagging : i.row.id = id
        BY <1>1, <1>11, <3>1 DEF IdsOf
      <4>2. \A j \in table \cup lagging : j.row.id = id => j = i
        BY <1>2, <4>1, TableInvMeans DEF OneRowPerId
      <4>3. Never(walk.seen, id)
        BY <1>2, <3>1 DEF Never
      <4> QED
        BY <1>2, <3>1, <4>1, <4>2, <4>3
    <3>2. CASE walk.at = "open"
      BY <1>1, <1>2, <1>11, <3>2, NobodyAssumption DEF WalkInv, ShownByNow, Keys
    <3> QED
      BY <1>1, <3>1, <3>2
  <2> DEFINE h == i.row
  <2>2. i \in view /\ i.gsi2 = Place(h) /\ Place(h) \in Keys /\ i = EntryToItem(h)
    BY <1>3, <1>5, <2>1
  <2>3. \A k \in 1 .. Len(page) : new[k] = id => page[k] = h
    BY <1>3, <1>4, <1>9, <2>1 DEF Hits
  <2> SUFFICES IF full /\ KeyLess(Place(h), Place(last))
               THEN Never(walk.seen \o new, id)
               ELSE Once(walk.seen \o new, id)
    BY <1>6, <2>1, <2>2 DEF ShownByNow
  <2>4. CASE h \in rows
    <3>1. Never(walk.seen, id)
      <4>1. i \in Hits(view, cur)
        BY <1>5, <2>2, <2>4 DEF Hits
      <4> QED
        BY <2>1, <4>1 DEF Hits
    <3>2. CASE full /\ KeyLess(Place(h), Place(last))
      <4>1. \A k \in 1 .. Len(page) : page[k] # h
        BY <1>4, <3>2
      <4>2. Never(new, id)
        BY <1>9, <2>3, <4>1 DEF Never
      <4> QED
        BY <1>2, <1>9, <3>1, <3>2, <4>2, ShowMore
    <3>3. CASE ~(full /\ KeyLess(Place(h), Place(last)))
      <4>1. \E k \in 1 .. Len(page) : page[k] = h
        <5>1. CASE ~full
          BY <1>4, <2>4, <5>1
        <5>2. CASE full /\ KeyLess(Place(last), Place(h))
          BY <1>4, <2>4, <5>2
        <5>3. CASE full /\ Place(last) = Place(h)
          <6>1. last.id = id
            BY <2>1, <5>3 DEF Place
          <6>2. PageLimit \in 1 .. Len(page)
            BY <5>3, PageLimitAssumption
          <6> QED
            BY <1>9, <2>3, <6>1, <6>2
        <5> QED
          BY <1>8, <2>2, <3>3, <5>1, <5>2, <5>3, KeysAreOrdered
      <4>2. PICK k \in 1 .. Len(page) : page[k] = h
        BY <4>1
      <4>3. \A l \in 1 .. Len(page) : new[l] = id <=> l = k
        BY <1>4, <1>9, <2>1, <2>3, <4>2
      <4>4. Once(new, id)
        BY <1>9, <4>3 DEF Once
      <4> QED
        BY <1>2, <1>9, <3>1, <3>3, <4>4, ShowMore
    <3> QED
      BY <3>2, <3>3
  <2>5. CASE h \notin rows
    <3>1. ~(cur # Nobody => KeyLess(i.gsi2, cur))
      BY <2>2, <2>5 DEF Hits
    <3>2. Never(new, id)
      <4>1. \A k \in 1 .. Len(page) : page[k] # h
        BY <1>4, <2>5
      <4> QED
        BY <1>9, <2>3, <4>1 DEF Never
    <3>3. Once(walk.seen \o new, id)
      BY <1>2, <1>9, <2>1, <3>1, <3>2, ShowMore
    <3>4. ASSUME full PROVE ~KeyLess(Place(h), Place(last))
      <4>1. KeyLess(Place(last), cur) /\ cur \in Keys
        BY <1>2, <1>5, <1>8, <3>1, <3>4 DEF Hits, Cursors
      <4> QED
        BY <1>8, <2>2, <3>1, <3>4, <4>1, KeysAreOrdered
    <3> QED
      BY <3>3, <3>4
  <2> QED
    BY <2>4, <2>5
<1> QED
  BY <1>2, <1>6, <1>10, <1>11 DEF WalkInv

(* A step of the ledger moves no steady row: what it writes is touched.    *)
LEMMA WritesKeepWalk ==
  ASSUME TableInv, WalkInv, LedgerStep
  PROVE  WalkInv'
<1>1. /\ walk' = walk /\ steady' = steady \ Touched(table, table')
      /\ lagging' = table \/ (lagging' = lagging /\ table' = table)
  BY DEF LedgerStep, Next, Propagate, Step, Create, CreateByTool, Save, SaveEntry, Write,
         GetEntry, FindEntryByID, UpdateEntry, Abandon, DeleteEntry
<1>2. \A i, j \in lagging' : i.row.id = j.row.id => i = j
  BY <1>1, TableInvMeans DEF WalkInv, OneRowPerId
<1>3. ASSUME NEW id \in steady'
      PROVE  ShownByNow(id)'
  <2>1. id \in steady /\ id \notin Touched(table, table')
    BY <1>1, <1>3
  <2>2. PICK i \in table \cap lagging :
          /\ i.row.id = id
          /\ \A j \in table \cup lagging : j.row.id = id => j = i
          /\ IF walk.at = "open" /\ KeyLess(i.gsi2, walk.cursor)
             THEN Never(walk.seen, id)
             ELSE Once(walk.seen, id)
    BY <2>1 DEF WalkInv, ShownByNow
  <2>3. \A j \in (table \ table') \cup (table' \ table) : j.row.id # id
    BY <2>1 DEF Touched, IdsOf
  <2>4. i \in table' \cap lagging' /\ \A j \in table' \cup lagging' : j.row.id = id => j = i
    BY <1>1, <2>2, <2>3
  <2> QED
    BY <1>1, <2>2, <2>4 DEF ShownByNow
<1> QED
  BY <1>1, <1>2, <1>3 DEF WalkInv

LEMMA WalkShowsOnce == WalkInv => PagesShowOnce
<1> SUFFICES ASSUME WalkInv, NEW id \in steady
             PROVE  LET shown == {k \in 1..Len(walk.seen) : walk.seen[k] = id}
                    IN  /\ Cardinality(shown) <= 1
                        /\ walk.at = "done" => Cardinality(shown) = 1
  BY DEF PagesShowOnce
<1> DEFINE shown == {k \in 1..Len(walk.seen) : walk.seen[k] = id}
<1>1. \/ Never(walk.seen, id) /\ walk.at # "done"
      \/ Once(walk.seen, id)
  BY DEF WalkInv, ShownByNow
<1>2. CASE Never(walk.seen, id) /\ walk.at # "done"
  <2>1. shown = {}
    BY <1>2 DEF Never
  <2>2. Cardinality(shown) = 0
    BY <2>1, FS_EmptySet
  <2> QED
    BY <1>2, <2>2
<1>3. CASE Once(walk.seen, id)
  <2>1. PICK k \in 1 .. Len(walk.seen) : \A l \in 1 .. Len(walk.seen) : walk.seen[l] = id <=> l = k
    BY <1>3 DEF Once
  <2>2. shown = {k}
    BY <2>1
  <2>3. Cardinality(shown) = 1
    BY <2>2, FS_Singleton
  <2> QED
    BY <2>3
<1> QED
  BY <1>1, <1>2, <1>3

(* A client that walks the ledger page by page is shown every entry that   *)
(* nobody wrote meanwhile exactly once: however many entries share a date, *)
(* whatever is created, moved, edited and deleted between two pages, and   *)
(* whichever half of a moved row the index shows (ListEntries, NextCursor).*)
THEOREM PagesAreComplete == PagesSpec => []PagesShowOnce
<1>1. PagesInit => WalkInv
  BY DEF PagesInit, Init, WalkInv, Cursors
<1>2. TableInv /\ WalkInv /\ [PagesNext]_vars => WalkInv'
  <2> SUFFICES ASSUME TableInv, WalkInv, [PagesNext]_vars PROVE WalkInv'
    OBVIOUS
  <2>1. CASE UNCHANGED vars
    BY <2>1 DEF vars, ledgerVars, WalkInv, ShownByNow
  <2> QED
    BY <2>1, PageKeepsWalk, WritesKeepWalk DEF PagesNext
<1> QED
  BY <1>1, <1>2, LedgerInv, WalkShowsOnce, PTL DEF PagesSpec

-----------------------------------------------------------------------------
(* Both stores.                                                            *)

(* What comes behind a part of a listing does not change that part.        *)
LEMMA SortedPrefix ==
  ASSUME NEW M, IsFiniteSet(M), M \subseteq Entry,
         \A d, e \in M : d.id = e.id => d = e,
         NEW Q \in SUBSET M,
         \A e \in Q, d \in M : d \notin Q => ~KeyLess(Place(e), Place(d))
  PROVE  LET s == Sorted(Q, "effective")
             t == Sorted(M, "effective")
         IN  \A k \in 1 .. Cardinality(Q) : k \in 1 .. Cardinality(M) /\ s[k] = t[k]
<1> DEFINE s == Sorted(Q, "effective")
           t == Sorted(M, "effective")
           m == Cardinality(Q)
           n == Cardinality(M)
<1>1. IsFiniteSet(Q) /\ m <= n
  BY FS_Subset
<1>2. /\ m \in Nat /\ s \in [1 .. m -> Q]
      /\ \A i, j \in 1 .. m : i < j => s[i] # s[j] /\ ~KeyLess(Place(s[i]), Place(s[j]))
      /\ \A e \in Q : \E k \in 1 .. m : s[k] = e
  BY <1>1, SortedMeans
<1>3. /\ n \in Nat /\ t \in [1 .. n -> M]
      /\ \A i, j \in 1 .. n : i < j => t[i] # t[j] /\ ~KeyLess(Place(t[i]), Place(t[j]))
      /\ \A e \in M : \E k \in 1 .. n : t[k] = e
  BY SortedMeans
<1> HIDE DEF s, t, m, n
<1>4. \A d, e \in M : d = e \/ KeyLess(Place(d), Place(e)) \/ KeyLess(Place(e), Place(d))
  <2> SUFFICES ASSUME NEW d \in M, NEW e \in M, d # e
               PROVE  KeyLess(Place(d), Place(e)) \/ KeyLess(Place(e), Place(d))
    OBVIOUS
  <2>1. Place(d) \in Keys /\ Place(e) \in Keys
    BY PlaceIsKey
  <2>2. Place(d) # Place(e)
    BY DEF Place
  <2> QED
    BY <2>1, <2>2, KeysAreOrdered
<1>5. \A d, e \in M : ~(KeyLess(Place(d), Place(e)) /\ KeyLess(Place(e), Place(d)))
  <2> TAKE d \in M, e \in M
  <2>1. Place(d) \in Keys /\ Place(e) \in Keys
    BY PlaceIsKey
  <2> QED
    BY <2>1, KeysAreOrdered
<1> DEFINE N == {k \in 1 .. m : s[k] # t[k]}
<1>6. N = {}
  <2> SUFFICES ASSUME N # {} PROVE FALSE
    OBVIOUS
  <2>1. N \in SUBSET Nat
    BY <1>2
  <2>2. PICK k \in N : \A l \in N : k <= l
    BY <2>1, LeastNatural
  <2>3. /\ k \in 1 .. m /\ k \in 1 .. n /\ k \in Int /\ s[k] # t[k]
        /\ s[k] \in Q /\ s[k] \in M /\ t[k] \in M
    BY <1>1, <1>2, <1>3, <2>2
  <2>4. \A l \in 1 .. m : l < k => s[l] = t[l]
    <3> TAKE l \in 1 .. m
    <3>1. l \in N => k <= l
      BY <2>2
    <3> QED
      BY <1>2, <2>3, <3>1
  <2>5. PICK j \in 1 .. n : t[j] = s[k]
    BY <1>3, <2>3
  <2>6. ~(j < k)
    <3> SUFFICES ASSUME j < k PROVE FALSE
      OBVIOUS
    <3>1. j \in 1 .. m /\ s[j] = t[j]
      BY <1>2, <1>3, <2>3, <2>4
    <3> QED
      BY <1>2, <2>3, <2>5, <3>1
  <2>7. k < j
    BY <1>3, <2>3, <2>5, <2>6
  <2>8. KeyLess(Place(s[k]), Place(t[k]))
    <3>1. t[k] # t[j] /\ ~KeyLess(Place(t[k]), Place(t[j]))
      BY <1>3, <2>3, <2>7
    <3> QED
      BY <1>4, <2>3, <2>5, <3>1
  <2>9. CASE t[k] \in Q
    <3>1. PICK i \in 1 .. m : s[i] = t[k]
      BY <1>2, <2>9
    <3>2. ~(i < k)
      <4> SUFFICES ASSUME i < k PROVE FALSE
        OBVIOUS
      <4>1. t[i] = t[k] /\ i \in 1 .. n
        BY <1>1, <1>2, <1>3, <2>4, <3>1
      <4> QED
        BY <1>3, <2>3, <4>1
    <3>3. k < i
      BY <1>2, <2>3, <3>1, <3>2
    <3> QED
      BY <1>2, <2>3, <2>8, <3>1, <3>3
  <2>10. CASE t[k] \notin Q
    BY <2>3, <2>8, <2>10
  <2> QED
    BY <2>9, <2>10
<1>7. \A k \in 1 .. m : k \in 1 .. n /\ s[k] = t[k]
  BY <1>1, <1>2, <1>3, <1>6
<1> QED
  BY <1>7 DEF s, t, m, n

(* A filter that the code accepts and that both stores read alike: a       *)
(* cursor comes without a range.                                           *)
PlainFilter(f) == /\ f.basis \in Bases /\ f.limit \in Nat /\ ValidFilter(f)
                  /\ f.cursor # Nobody => f.from = Nobody /\ f.to = Nobody

(* What the in-memory store finds is what the index has.                   *)
LEMMA MemoryFinds ==
  ASSUME NEW t, Rows(t, MaxIds), NEW f, PlainFilter(f)
  PROVE  {e \in {i.row : i \in t} :
             /\ f.cursor # Nobody => KeyLess(<<EffectiveDate(e), e.id>>, f.cursor)
             /\ BasisDate(f.basis, e) # Nobody
             /\ InRange(BasisDate(f.basis, e), f)
             /\ Matches(f, e)}
         = {i.row : i \in Listed(t, f)}
<1> SUFFICES ASSUME NEW i \in t
             PROVE  i \in Listed(t, f)
                    <=> /\ f.cursor # Nobody => KeyLess(<<EffectiveDate(i.row), i.row.id>>, f.cursor)
                        /\ BasisDate(f.basis, i.row) # Nobody
                        /\ InRange(BasisDate(f.basis, i.row), f)
                        /\ Matches(f, i.row)
  <2>1. \A i \in Listed(t, f) : i \in t
    BY DEF Listed, ItemsOf
  <2> QED
    BY <2>1
<1> DEFINE e == i.row
           b == f.basis
<1>1. e \in Entry /\ i = EntryToItem(e) /\ b \in Bases
  BY DEF Rows, PlainFilter
<1>2. /\ IndexKey(b, i) # Nobody <=> BasisDate(b, e) # Nobody
      /\ BasisDate(b, e) # Nobody => IndexKey(b, i) = KeyOf(b, e)
  BY <1>1, IndexKeyMeans
<1>3. i \in Listed(t, f) <=> /\ IndexKey(b, i) # Nobody
                             /\ KeyCondition(f, IndexKey(b, i))
                             /\ Matches(f, e)
  BY DEF Listed, ItemsOf
<1>4. KeyCondition(f, KeyOf(b, e)) <=>
        /\ f.cursor # Nobody => KeyLess(<<EffectiveDate(e), e.id>>, f.cursor)
        /\ InRange(BasisDate(b, e), f)
  <2>1. KeyOf(b, e)[1] = BasisDate(b, e)
    BY DEF KeyOf
  <2>2. CASE f.cursor = Nobody
    BY <2>1, <2>2 DEF KeyCondition
  <2>3. CASE f.cursor # Nobody
    <3>1. b = "effective" /\ f.from = Nobody /\ f.to = Nobody
      BY <2>3 DEF PlainFilter, ValidFilter
    <3>2. KeyOf(b, e) = <<EffectiveDate(e), e.id>>
      BY <3>1 DEF KeyOf, BasisDate
    <3>3. InRange(BasisDate(b, e), f)
      BY <3>1 DEF InRange
    <3> QED
      BY <2>3, <3>2, <3>3 DEF KeyCondition
  <2> QED
    BY <2>2, <2>3
<1> HIDE DEF e, b
<1>5. i \in Listed(t, f) <=> /\ f.cursor # Nobody => KeyLess(<<EffectiveDate(e), e.id>>, f.cursor)
                             /\ BasisDate(b, e) # Nobody
                             /\ InRange(BasisDate(b, e), f)
                             /\ Matches(f, e)
  BY <1>2, <1>3, <1>4
<1> QED
  BY <1>5 DEF e, b

(* Cutting two sequences that begin alike leaves the same.                 *)
LEMMA CutAlike ==
  ASSUME NEW A, NEW s \in Seq(A), NEW t \in Seq(A), NEW l \in Nat, l > 0,
         Len(s) >= l, Len(t) >= l, \A k \in 1 .. l : s[k] = t[k]
  PROVE  Cut(s, l) = Cut(t, l)
<1>1. ASSUME NEW u \in Seq(A), Len(u) >= l
      PROVE  Cut(u, l) = [k \in 1 .. l |-> u[k]]
  <2>1. CASE Len(u) > l
    <3>1. Cut(u, l) = SubSeq(u, 1, l)
      BY <2>1 DEF Cut
    <3> QED
      BY <2>1, <3>1
  <2>2. CASE ~(Len(u) > l)
    <3>1. Cut(u, l) = u /\ Len(u) = l
      BY <1>1, <2>2 DEF Cut
    <3> QED
      BY <3>1
  <2> QED
    BY <2>1, <2>2
<1>2. Cut(s, l) = [k \in 1 .. l |-> s[k]] /\ Cut(t, l) = [k \in 1 .. l |-> t[k]]
  BY <1>1
<1> QED
  BY <1>2

(* For every filter and every table: the query of the index, page by page  *)
(* until it has enough, sorted and cut, is the sorted and cut scan of the  *)
(* entries.                                                                *)
LEMMA ListingsAgree ==
  ASSUME NEW t, IsFiniteSet(t), Rows(t, MaxIds),
         \A i, j \in t : i.row.id = j.row.id => i = j,
         NEW f, PlainFilter(f)
  PROVE  ListEntries(t, f) = MemoryListEntries({i.row : i \in t}, f)
<1> DEFINE Q == Query(t, f)
           M == {i.row : i \in Listed(t, f)}
           l == f.limit
<1>1. f.basis \in Bases /\ l \in Nat /\ (f.basis # "effective" => l = 0)
  BY DEF PlainFilter, ValidFilter
<1>2. /\ IsFiniteSet(Q) /\ Q \in SUBSET M
      /\ \A i \in Listed(t, f) :
           i.row \notin Q => /\ l > 0 /\ Cardinality(Q) >= l
                             /\ \A e \in Q : ~KeyLess(KeyOf(f.basis, e), KeyOf(f.basis, i.row))
  BY <1>1, QueryReads
<1>3. \A i \in Listed(t, f) : i \in t
  BY DEF Listed, ItemsOf
<1>4. M \subseteq Entry /\ \A e \in M : Normalize(e) = e
  BY <1>3 DEF Rows, Sound
<1>5. \A d, e \in M : d.id = e.id => d = e
  BY <1>3
<1>6. IsFiniteSet(M)
  <2> DEFINE L == Listed(t, f)
             g == [i \in L |-> i.row]
  <2>1. g \in Surjection(L, M)
    BY DEF Surjection
  <2>2. IsFiniteSet(L)
    BY <1>3, FS_Subset
  <2> QED
    BY <2>1, <2>2, FS_Surjection
<1>7. MemoryListEntries({i.row : i \in t}, f) = Cut(Sorted(M, f.basis), l)
  <2>1. {e \in {i.row : i \in t} :
             /\ f.cursor # Nobody => KeyLess(<<EffectiveDate(e), e.id>>, f.cursor)
             /\ BasisDate(f.basis, e) # Nobody
             /\ InRange(BasisDate(f.basis, e), f)
             /\ Matches(f, e)} = M
    BY MemoryFinds
  <2> HIDE DEF M
  <2> QED
    BY <2>1 DEF MemoryListEntries
<1> HIDE DEF M
<1>8. ListEntries(t, f) = Cut(Sorted(Q, f.basis), l)
  <2> HIDE DEF Q
  <2>1. {Normalize(e) : e \in Q} = Q
    BY <1>2, <1>4
  <2> QED
    BY <2>1 DEF ListEntries, Q
<1> HIDE DEF Q, l
<1>9. CASE Q = M
  BY <1>7, <1>8, <1>9
<1>10. CASE Q # M
  <2>1. PICK e \in M : e \notin Q
    BY <1>2, <1>10
  <2>2. l > 0 /\ Cardinality(Q) >= l
    BY <1>2, <2>1 DEF M
  <2>3. f.basis = "effective"
    BY <1>1, <2>2
  <2>4. \A d : KeyOf(f.basis, d) = Place(d)
    BY <2>3 DEF KeyOf, Place, BasisDate
  <2>5. \A d \in Q, c \in M : c \notin Q => ~KeyLess(Place(d), Place(c))
    BY <1>2, <2>4 DEF M
  <2> DEFINE s == Sorted(Q, "effective")
             u == Sorted(M, "effective")
  <2>6. \A k \in 1 .. Cardinality(Q) : k \in 1 .. Cardinality(M) /\ s[k] = u[k]
    BY <1>2, <1>4, <1>5, <1>6, <2>5, SortedPrefix
  <2>7. Q \subseteq Entry
    BY <1>2, <1>4
  <2>8. Cardinality(Q) \in Nat /\ s \in [1 .. Cardinality(Q) -> Q]
    BY <1>2, <2>7, SortedMeans
  <2>9. Cardinality(M) \in Nat /\ u \in [1 .. Cardinality(M) -> M]
    BY <1>4, <1>6, SortedMeans
  <2>10. Cardinality(M) >= Cardinality(Q)
    BY <1>2, <1>6, FS_Subset
  <2> HIDE DEF s, u
  <2>11. s \in Seq(M) /\ Len(s) >= l
    BY <1>1, <1>2, <2>2, <2>8
  <2>12. u \in Seq(M) /\ Len(u) >= l
    BY <1>1, <2>2, <2>8, <2>9, <2>10
  <2>13. \A k \in 1 .. l : s[k] = u[k]
    BY <1>1, <2>2, <2>6, <2>8
  <2>14. Cut(s, l) = Cut(u, l)
    BY <1>1, <2>2, <2>11, <2>12, <2>13, CutAlike
  <2> QED
    BY <1>7, <1>8, <2>3, <2>14 DEF s, u
<1> QED
  BY <1>9, <1>10

LEMMA FiltersArePlain ==
  ASSUME NEW f \in Filters
  PROVE  PlainFilter(f)
<1>1. ASSUME NEW b \in Bases, NEW d, NEW t PROVE PlainFilter(OnDay(b, d, t))
  <2> DEFINE g == OnDay(b, d, t)
  <2>1. g.basis = b /\ g.limit = 0 /\ g.cursor = Nobody
    BY DEF OnDay, AnyEntry
  <2> HIDE DEF g
  <2>2. PlainFilter(g)
    BY <2>1 DEF PlainFilter, ValidFilter
  <2> QED
    BY <2>2 DEF g
<1>2. ASSUME NEW k, NEW s, NEW n \in {0, PageLimit} PROVE PlainFilter(After(k, s, n))
  <2> DEFINE g == After(k, s, n)
  <2>1. g.basis = "effective" /\ g.limit = n /\ g.from = Nobody /\ g.to = Nobody
    BY DEF After, AnyEntry
  <2>2. n \in Nat
    BY PageLimitAssumption
  <2> HIDE DEF g
  <2>3. PlainFilter(g)
    BY <2>1, <2>2 DEF PlainFilter, ValidFilter, Bases
  <2> QED
    BY <2>3 DEF g
<1> QED
  BY <1>1, <1>2 DEF Filters

(* Both stores answer every listing of one day, of everything or from a    *)
(* cursor alike, in every state of the ledger.                             *)
THEOREM StoresListAlike == PagesSpec => []StoresAgree
<1>1. TableInv => StoresAgree
  <2> SUFFICES ASSUME TableInv, NEW f \in Filters
               PROVE  ValidFilter(f) /\ ListEntries(table, f) = MemoryListEntries({i.row : i \in table}, f)
    BY DEF StoresAgree
  <2>1. Rows(table \cup lagging, ids) /\ ids \in 0..MaxIds /\ OneRowPerId
    BY TableInvMeans DEF CallsInv
  <2>2. Rows(table, ids) /\ \A i, j \in table : i.row.id = j.row.id => i = j
    BY <2>1 DEF Rows, OneRowPerId
  <2>3. IsFiniteSet(table)
    BY <2>1, <2>2, RowsAreFinite, LedgerAssumption
  <2>4. Rows(table, MaxIds)
    BY <2>1, <2>2, LedgerAssumption DEF Rows
  <2>5. PlainFilter(f)
    BY FiltersArePlain
  <2> QED
    BY <2>2, <2>3, <2>4, <2>5, ListingsAgree DEF PlainFilter
<1> QED
  BY <1>1, LedgerInv, PTL

-----------------------------------------------------------------------------
(* What was proved of the catalog.                                         *)
ShelfProofs == INSTANCE CatalogProofs WITH
                  Turns <- Callers, Asked <- AskedCategories, Absent <- Nobody,
                  MaxTurns <- MaxTells

-----------------------------------------------------------------------------
(* The names.  The invariant carries along what a teller saw of the book   *)
(* when it decided: the book never loses an account, so what was seen is   *)
(* still there, and an account that is not there yet was seen by nobody.   *)

(* Resembling is mutual, so the order in which two names come up does not  *)
(* matter.                                                                 *)

LEMMA TokensAreAlikeBothWays ==
  ASSUME NEW a, NEW b, NEW n, People!TokenAlike(a, b, n)
  PROVE  People!TokenAlike(b, a, n)
BY DEF People!TokenAlike

LEMMA AbbreviatesBothWays ==
  ASSUME NEW a, NEW b, Len(a) \in Nat, Len(b) \in Nat, People!Abbreviates(a, b)
  PROVE  People!Abbreviates(b, a)
<1> DEFINE n == IF Len(a) < Len(b) THEN Len(a) ELSE Len(b)
           l == IF Len(b) < Len(a) THEN Len(b) ELSE Len(a)
<1>1. n = l
  OBVIOUS
<1>2. n > 0 /\ \A k \in 1 .. n : People!TokenAlike(a[k], b[k], IF k = 1 THEN 3 ELSE 1)
  BY DEF People!Abbreviates
<1> HIDE DEF n
<1>3. l > 0 /\ \A k \in 1 .. l : People!TokenAlike(b[k], a[k], IF k = 1 THEN 3 ELSE 1)
  BY <1>1, <1>2, TokensAreAlikeBothWays
<1> QED
  BY <1>3 DEF People!Abbreviates

LEMMA NamesAreAlikeBothWays ==
  ASSUME People!NamesAssumption, NEW s \in NameSlugs, NEW r \in NameSlugs,
         People!Abbreviates(Tokens[s], Tokens[r])
  PROVE  People!Abbreviates(Tokens[r], Tokens[s])
<1>1. Len(Tokens[s]) \in Nat /\ Len(Tokens[r]) \in Nat
  BY DEF People!NamesAssumption
<1> QED
  BY <1>1, AbbreviatesBothWays

(* What is remembered of the opening of an account, and of a decision.     *)
How == [saw : SUBSET NameSlugs, confirmed : BOOLEAN, payment : BOOLEAN]

Decision == [at : {"record"}, slug : NameSlugs, amount : Int \ {0}, how : How]

(* What a teller or an account remembers is in the book.                   *)
WellTold(d) ==
    d # People!Silent => /\ d.how.saw \subseteq People!InBook
                         /\ People!Accepted(d.slug, d.how.payment, d.how.confirmed, d.how.saw)

DecisionsStand == /\ telling \in [Callers -> Decision \cup {People!Silent}]
                  /\ \A t \in Callers : WellTold(telling[t])

BookOnlyGrew == \A s \in People!InBook : accounts[s] \in How /\ accounts[s].saw \subseteq People!InBook

NamesIInv == People!NamesInv /\ DecisionsStand /\ BookOnlyGrew

LEMMA DecisionsAreNotSilent ==
  ASSUME NEW d \in Decision \cup {People!Silent}
  PROVE  /\ d # People!Silent => d \in Decision
         /\ d.at = "record" <=> d # People!Silent
BY DEF Decision, People!Silent

LEMMA NamesStart == People!NamesAssumption /\ People!Init => NamesIInv
<1> SUFFICES ASSUME People!NamesAssumption, People!Init
             PROVE  NamesIInv
  OBVIOUS
<1>1. People!InBook = {} /\ lines = {} /\ told = 0 /\ \A t \in Callers : telling[t] = People!Silent
  BY DEF People!Init, People!InBook
<1>2. People!TypeOK
  BY <1>1 DEF People!TypeOK, People!Silent, People!NamesAssumption
<1>3. DecisionsStand
  BY <1>1 DEF People!Init, DecisionsStand, WellTold
<1> QED
  BY <1>1, <1>2, <1>3
  DEF NamesIInv, People!NamesInv, BookOnlyGrew, People!LookalikesWereAskedFor,
      People!CreditIsConfirmed

(* A step that leaves the book alone and moves one teller.                 *)
LEMMA OneTellerMoves ==
  ASSUME NamesIInv, accounts' = accounts, NEW t \in Callers, NEW d \in Decision \cup {People!Silent},
         WellTold(d), telling' = [telling EXCEPT ![t] = d],
         told' \in 0 .. MaxTells, lines' \subseteq lines
  PROVE  NamesIInv'
<1>1. People!InBook' = People!InBook
  BY DEF People!InBook
<1>2. telling' \in [Callers -> Decision \cup {People!Silent}] /\ \A u \in Callers : WellTold(telling'[u])
  BY DEF NamesIInv, DecisionsStand
<1>3. DecisionsStand'
  BY <1>1, <1>2 DEF DecisionsStand, WellTold
<1>4. People!TypeOK'
  <2>1. \A u \in Callers : telling'[u].at \in {"rest", "record"}
    BY <1>2 DEF Decision, People!Silent
  <2> QED
    BY <1>1, <2>1 DEF NamesIInv, People!NamesInv, People!TypeOK
<1>5. People!LookalikesWereAskedFor' /\ People!CreditIsConfirmed' /\ BookOnlyGrew'
  BY <1>1
  DEF NamesIInv, People!NamesInv, People!LookalikesWereAskedFor, People!CreditIsConfirmed,
      BookOnlyGrew
<1> QED
  BY <1>3, <1>4, <1>5 DEF NamesIInv, People!NamesInv

LEMMA BegunIsCounted ==
  ASSUME People!NamesAssumption, NamesIInv, NEW t \in Callers, People!Begin(t)
  PROVE  told' \in 0 .. MaxTells
BY DEF People!Begin, NamesIInv, People!NamesInv, People!TypeOK, People!NamesAssumption

LEMMA MovementIsDecided ==
  ASSUME People!NamesAssumption, NamesIInv, NEW t \in Callers, People!RecordMovement(t)
  PROVE  NamesIInv'
<1>1. PICK slug \in NameSlugs, v \in Values, payment \in BOOLEAN, confirmedNew \in BOOLEAN :
        /\ People!Begin(t)
        /\ v > 0
        /\ People!Accepted(slug, payment, confirmedNew, People!InBook)
        /\ telling' = [telling EXCEPT ![t] =
                          [at |-> "record", slug |-> slug,
                           amount |-> IF payment THEN -v ELSE v,
                           how |-> [saw |-> People!InBook, confirmed |-> confirmedNew,
                                    payment |-> payment]]]
        /\ UNCHANGED <<accounts, lines>>
  BY DEF People!RecordMovement
<1> DEFINE how == [saw |-> People!InBook, confirmed |-> confirmedNew, payment |-> payment]
           a   == IF payment THEN -v ELSE v
           d   == [at |-> "record", slug |-> slug, amount |-> a, how |-> how]
<1>2. a \in Int \ {0}
  BY <1>1 DEF People!NamesAssumption
<1>3. how \in How
  BY DEF How, NamesIInv, People!NamesInv, People!TypeOK
<1>4. how.saw = People!InBook /\ how.confirmed = confirmedNew /\ how.payment = payment
  OBVIOUS
<1>5. telling' = [telling EXCEPT ![t] = d]
  BY <1>1
<1> HIDE DEF how, a
<1>6. d \in Decision /\ d.slug = slug /\ d.how = how
  BY <1>2, <1>3 DEF Decision
<1> HIDE DEF d
<1>7. WellTold(d)
  BY <1>1, <1>4, <1>6 DEF WellTold
<1>8. told' \in 0 .. MaxTells
  BY <1>1, BegunIsCounted
<1> QED
  BY <1>1, <1>5, <1>6, <1>7, <1>8, OneTellerMoves

(* A teller that only says something, or falls silent.                     *)
LEMMA TellersRest ==
  ASSUME People!NamesAssumption, NamesIInv, NEW t \in Callers,
         People!Ask(t) \/ People!ApagarMovimento(t) \/ People!Abandon(t)
  PROVE  NamesIInv'
<1>1. /\ telling' = telling \/ telling' = [telling EXCEPT ![t] = People!Silent]
      /\ accounts' = accounts /\ lines' \subseteq lines
  BY DEF People!Ask, People!ApagarMovimento, People!Abandon
<1>2. told' \in 0 .. MaxTells
  BY BegunIsCounted
  DEF People!Ask, People!ApagarMovimento, People!Abandon, NamesIInv, People!NamesInv, People!TypeOK
<1>3. PICK d \in Decision \cup {People!Silent} : telling' = [telling EXCEPT ![t] = d] /\ WellTold(d)
  <2>1. CASE telling' = telling
    <3>1. telling' = [telling EXCEPT ![t] = telling[t]]
      BY <2>1 DEF NamesIInv, DecisionsStand
    <3> QED
      BY <3>1 DEF NamesIInv, DecisionsStand
  <2>2. CASE telling' = [telling EXCEPT ![t] = People!Silent]
    BY <2>2 DEF WellTold
  <2> QED
    BY <1>1, <2>1, <2>2
<1> QED
  BY <1>1, <1>2, <1>3, OneTellerMoves

(* The movement is written, and an account opened where there was none.    *)
LEMMA RecordOpensOnPurpose ==
  ASSUME People!NamesAssumption, NamesIInv, NEW t \in Callers, People!Record(t)
  PROVE  NamesIInv'
<1> DEFINE s == telling[t].slug
           how == telling[t].how
<1>1. telling[t] \in Decision /\ telling[t] # People!Silent
  BY DecisionsAreNotSilent DEF People!Record, NamesIInv, DecisionsStand
<1>2. /\ s \in NameSlugs /\ telling[t].amount # 0 /\ how \in How /\ how.saw \subseteq People!InBook
      /\ People!Accepted(s, how.payment, how.confirmed, how.saw)
  BY <1>1 DEF Decision, NamesIInv, DecisionsStand, WellTold
<1>3. People!InBook' = People!InBook \cup {s} /\ (\A r \in People!InBook : accounts'[r] = accounts[r])
      /\ (s \notin People!InBook => accounts'[s] = how)
  <2>1. CASE s \in People!InBook
    BY <2>1 DEF People!Record, People!InBook
  <2>2. CASE s \notin People!InBook
    <3>1. accounts' = [r \in People!InBook \cup {s} |-> IF r \in People!InBook THEN accounts[r] ELSE how]
      BY <2>2 DEF People!Record
    <3> QED
      BY <2>2, <3>1 DEF People!InBook
  <2> QED
    BY <2>1, <2>2
<1>4. telling' = [telling EXCEPT ![t] = People!Silent] /\ told' = told
  BY DEF People!Record
<1>5. PICK id : lines' = lines \cup {[id |-> id, slug |-> s, amount |-> telling[t].amount]}
  BY DEF People!Record
<1>6. DecisionsStand'
  <2>1. telling' \in [Callers -> Decision \cup {People!Silent}]
        /\ \A u \in Callers : telling'[u] = telling[u] \/ telling'[u] = People!Silent
    BY <1>4 DEF NamesIInv, DecisionsStand
  <2>2. ASSUME NEW u \in Callers
        PROVE  WellTold(telling[u])'
    BY <1>3, <2>1 DEF NamesIInv, DecisionsStand, WellTold
  <2> QED
    BY <2>1, <2>2 DEF DecisionsStand
<1>7. People!TypeOK'
  <2>1. \A l \in lines' : l.slug \in People!InBook' /\ l.amount # 0
    BY <1>2, <1>3, <1>5 DEF NamesIInv, People!NamesInv, People!TypeOK
  <2>2. \A u \in Callers : telling'[u].at \in {"rest", "record"}
    BY <1>6 DEF DecisionsStand, Decision, People!Silent
  <2> QED
    BY <1>2, <1>3, <1>4, <2>1, <2>2 DEF NamesIInv, People!NamesInv, People!TypeOK
<1>8. BookOnlyGrew'
  BY <1>2, <1>3 DEF NamesIInv, BookOnlyGrew
<1>9. People!CreditIsConfirmed'
  <2>1. s \notin People!InBook /\ how.payment => how.confirmed
    BY <1>2 DEF People!Accepted, How
  <2> QED
    BY <1>3, <2>1 DEF NamesIInv, People!NamesInv, People!CreditIsConfirmed
<1>10. People!LookalikesWereAskedFor'
  <2>1. ASSUME s \notin People!InBook, NEW r \in People!InBook, ~how.confirmed, r \in how.saw
        PROVE  ~People!Abbreviates(Tokens[s], Tokens[r]) /\ ~People!Abbreviates(Tokens[r], Tokens[s])
    <3>1. People!SimilarClients(s, how.saw) = {} /\ r # s
      BY <1>2, <2>1 DEF People!Accepted
    <3>2. ~People!Abbreviates(Tokens[s], Tokens[r])
      BY <2>1, <3>1 DEF People!SimilarClients
    <3> QED
      BY <1>2, <3>2, NamesAreAlikeBothWays DEF NamesIInv, People!NamesInv, People!TypeOK
  <2> SUFFICES ASSUME NEW p \in People!InBook', NEW q \in People!InBook', p # q,
                      People!Abbreviates(Tokens[p], Tokens[q])
               PROVE  \/ accounts'[p].confirmed \/ accounts'[q].confirmed
                      \/ p \notin accounts'[q].saw /\ q \notin accounts'[p].saw
    BY DEF People!LookalikesWereAskedFor
  <2>2. CASE p \in People!InBook /\ q \in People!InBook
    BY <1>3, <2>2 DEF NamesIInv, People!NamesInv, People!LookalikesWereAskedFor
  <2>3. CASE p \notin People!InBook
    <3>1. p = s /\ q \in People!InBook /\ accounts'[p] = how /\ accounts'[q].saw \subseteq People!InBook
      BY <1>3, <2>3 DEF NamesIInv, BookOnlyGrew
    <3> QED
      BY <2>1, <2>3, <3>1
  <2>4. CASE q \notin People!InBook
    <3>1. q = s /\ p \in People!InBook /\ accounts'[q] = how /\ accounts'[p].saw \subseteq People!InBook
      BY <1>3, <2>4 DEF NamesIInv, BookOnlyGrew
    <3> QED
      BY <2>1, <2>4, <3>1
  <2> QED
    BY <2>2, <2>3, <2>4
<1> QED
  BY <1>6, <1>7, <1>8, <1>9, <1>10 DEF NamesIInv, People!NamesInv

LEMMA NamesNext ==
  ASSUME People!NamesAssumption, NamesIInv, [People!Next]_namesVars
  PROVE  NamesIInv'
<1>1. CASE UNCHANGED namesVars
  BY <1>1
  DEF namesVars, NamesIInv, People!NamesInv, People!TypeOK, People!LookalikesWereAskedFor,
      People!CreditIsConfirmed, DecisionsStand, BookOnlyGrew, WellTold, People!InBook
<1>2. CASE People!Next
  BY <1>2, MovementIsDecided, TellersRest, RecordOpensOnPurpose DEF People!Next, People!Step
<1> QED
  BY <1>1, <1>2

-----------------------------------------------------------------------------
(* A step of the desk is a step of one of its parts and stutters in the    *)
(* others.                                                                 *)

LEMMA StepsOfTheLedger == [DeskNext]_deskVars => [PagesNext]_vars
BY DEF DeskNext, AtLedger, AtCatalog, AtNames, AtStatements, AtConversation, deskVars

(* CatalogProofs speaks of the catalog that the desk runs: two instances   *)
(* of one module, with the same values for its constants.                  *)
LEMMA SameCatalog ==
  /\ ShelfProofs!CatalogAssumption
  /\ Shelf!Init => ShelfProofs!Init
  /\ Shelf!Next => ShelfProofs!Next
  /\ ShelfProofs!CatalogInv => Shelf!CatalogInv
<1>1. ASSUME NEW S
      PROVE  /\ Shelf!IsFiniteSet(S) <=> ShelfProofs!IsFiniteSet(S)
             /\ Shelf!Cardinality(S) = ShelfProofs!Cardinality(S)
  BY DEF Shelf!IsFiniteSet, ShelfProofs!IsFiniteSet, Shelf!Cardinality,
         ShelfProofs!Cardinality
<1>2. ShelfProofs!CatalogAssumption
  BY <1>1, DeskAssumption
  DEF Shelf!CatalogAssumption, ShelfProofs!CatalogAssumption, Shelf!Category, ShelfProofs!Category
<1>3. Shelf!Init => ShelfProofs!Init
  BY DEF Shelf!Init, ShelfProofs!Init, Shelf!Slugs, ShelfProofs!Slugs,
         Shelf!Defaults, ShelfProofs!Defaults, Shelf!Resting,
         ShelfProofs!Resting
<1>4. Shelf!Next => ShelfProofs!Next
  <2> SUFFICES ASSUME NEW t \in Callers, Shelf!Step(t)
               PROVE  ShelfProofs!Step(t)
    BY DEF Shelf!Next, ShelfProofs!Next
  <2>1. Shelf!Browse(t) => ShelfProofs!Browse(t)
    BY DEF Shelf!Browse, ShelfProofs!Browse, Shelf!Begin, ShelfProofs!Begin,
           Shelf!Now, ShelfProofs!Now, Shelf!Resting, ShelfProofs!Resting,
           Shelf!ReconcileDefaultCategories,
           ShelfProofs!ReconcileDefaultCategories, Shelf!MustWrite,
           ShelfProofs!MustWrite, Shelf!Drifted, ShelfProofs!Drifted,
           Shelf!SameMeaning, ShelfProofs!SameMeaning
  <2>2. Shelf!Reconcile(t) => ShelfProofs!Reconcile(t)
    BY DEF Shelf!Reconcile, ShelfProofs!Reconcile, Shelf!Now, ShelfProofs!Now
  <2>3. Shelf!Answered(t) => ShelfProofs!Answered(t)
    BY DEF Shelf!Answered, ShelfProofs!Answered, Shelf!Now, ShelfProofs!Now,
           Shelf!Resting, ShelfProofs!Resting
  <2>4. Shelf!Create(t) => ShelfProofs!Create(t)
    BY DEF Shelf!Create, ShelfProofs!Create, Shelf!Begin, ShelfProofs!Begin,
           Shelf!Resting, ShelfProofs!Resting
  <2>5. Shelf!SaveCategory(t) => ShelfProofs!SaveCategory(t)
    BY DEF Shelf!SaveCategory, ShelfProofs!SaveCategory, Shelf!Now,
           ShelfProofs!Now, Shelf!Resting, ShelfProofs!Resting
  <2>6. Shelf!Save(t) => ShelfProofs!Save(t)
    BY DEF Shelf!Save, ShelfProofs!Save, Shelf!Begin, ShelfProofs!Begin,
           Shelf!AskedGoals, ShelfProofs!AskedGoals, Shelf!Fields,
           ShelfProofs!Fields, Shelf!Resting, ShelfProofs!Resting
  <2>7. Shelf!DefinirMeta(t) => ShelfProofs!DefinirMeta(t)
    BY DEF Shelf!DefinirMeta, ShelfProofs!DefinirMeta, Shelf!Begin,
           ShelfProofs!Begin, Shelf!Now, ShelfProofs!Now, Shelf!AskedGoals,
           ShelfProofs!AskedGoals, Shelf!Fields, ShelfProofs!Fields,
           Shelf!Given, ShelfProofs!Given, Shelf!Merge, ShelfProofs!Merge,
           Shelf!NoGoal, ShelfProofs!NoGoal, Shelf!Resting,
           ShelfProofs!Resting
  <2>8. Shelf!SaveGoal(t) => ShelfProofs!SaveGoal(t)
    BY DEF Shelf!SaveGoal, ShelfProofs!SaveGoal, Shelf!Now, ShelfProofs!Now,
           Shelf!Resting, ShelfProofs!Resting
  <2>9. Shelf!Abandon(t) => ShelfProofs!Abandon(t)
    BY DEF Shelf!Abandon, ShelfProofs!Abandon, Shelf!Now, ShelfProofs!Now,
           Shelf!Resting, ShelfProofs!Resting
  <2>10. Shelf!CreateByTool(t) => ShelfProofs!CreateByTool(t)
    <3>1. \A have, c : Shelf!MayCreate(have, c) <=> ShelfProofs!MayCreate(have, c)
      <4>1. \A have : Shelf!bySlug(have) = ShelfProofs!bySlug(have)
        BY DEF Shelf!bySlug, ShelfProofs!bySlug, Shelf!Slugs,
               ShelfProofs!Slugs, Shelf!Defaults, ShelfProofs!Defaults
      <4> QED
        BY <1>1, <4>1 DEF Shelf!MayCreate, ShelfProofs!MayCreate
    <3> QED
      BY <3>1
      DEF Shelf!CreateByTool, ShelfProofs!CreateByTool, Shelf!Begin,
             ShelfProofs!Begin, Shelf!Now, ShelfProofs!Now, Shelf!Resting,
             ShelfProofs!Resting
  <2> QED
    BY <2>1, <2>2, <2>3, <2>4, <2>5, <2>6, <2>7, <2>8, <2>9, <2>10 DEF Shelf!Step, ShelfProofs!Step
<1>5. ShelfProofs!CatalogInv => Shelf!CatalogInv
  <2>1. ShelfProofs!TypeOK => Shelf!TypeOK
    BY DEF Shelf!TypeOK, ShelfProofs!TypeOK, Shelf!Slugs, ShelfProofs!Slugs,
           Shelf!Defaults, ShelfProofs!Defaults, Shelf!Fields,
           ShelfProofs!Fields
  <2>2. ShelfProofs!ReconcileConverges => Shelf!ReconcileConverges
    BY DEF Shelf!ReconcileConverges, ShelfProofs!ReconcileConverges,
           Shelf!Slugs, ShelfProofs!Slugs, Shelf!Defaults,
           ShelfProofs!Defaults, Shelf!ReconcileDefaultCategories,
           ShelfProofs!ReconcileDefaultCategories, Shelf!MustWrite,
           ShelfProofs!MustWrite, Shelf!Drifted, ShelfProofs!Drifted,
           Shelf!SameMeaning, ShelfProofs!SameMeaning
  <2>3. Shelf!bySlug(cats) = ShelfProofs!bySlug(cats)
    BY DEF Shelf!bySlug, ShelfProofs!bySlug, Shelf!Slugs, ShelfProofs!Slugs,
           Shelf!Defaults, ShelfProofs!Defaults
  <2>4. ShelfProofs!CapIsOvershotByConcurrencyOnly => Shelf!CapIsOvershotByConcurrencyOnly
    BY <1>1, <2>3 DEF Shelf!CapIsOvershotByConcurrencyOnly, ShelfProofs!CapIsOvershotByConcurrencyOnly
  <2> QED
    BY <2>1, <2>2, <2>4 DEF Shelf!CatalogInv, ShelfProofs!CatalogInv
<1> QED
  BY <1>2, <1>3, <1>4, <1>5

LEMMA StepsOfTheCatalog == [DeskNext]_deskVars => [ShelfProofs!Next]_(ShelfProofs!catalogVars)
BY SameCatalog
DEF DeskNext, AtLedger, AtCatalog, AtNames, AtStatements, AtConversation, deskVars,
    catalogVars, ShelfProofs!catalogVars

LEMMA StepsOfTheNames == [DeskNext]_deskVars => [People!Next]_namesVars
BY DEF DeskNext, AtLedger, AtCatalog, AtNames, AtStatements, AtConversation, deskVars, namesVars

-----------------------------------------------------------------------------
(* The desk runs each of its parts.                                        *)

LEMMA TheLedgerRuns == DeskSpec => PagesSpec
<1>1. DeskInit => PagesInit
  BY DEF DeskInit
<1> QED
  BY <1>1, StepsOfTheLedger, PTL DEF DeskSpec, PagesSpec

LEMMA TheCatalogRuns == DeskSpec => ShelfProofs!Spec
<1>1. DeskInit => ShelfProofs!Init
  BY SameCatalog DEF DeskInit
<1> QED
  BY <1>1, StepsOfTheCatalog, PTL DEF DeskSpec, ShelfProofs!Spec

LEMMA TheNamesRun == DeskSpec => People!Init /\ [][People!Next]_namesVars
<1>1. DeskInit => People!Init
  BY DEF DeskInit
<1> QED
  BY <1>1, StepsOfTheNames, PTL DEF DeskSpec

-----------------------------------------------------------------------------
(* The reconciliation of the default categories settles whatever users     *)
(* have stored, and the tools exceed the cap by no more than the turns     *)
(* that were past the check together (ReconcileDefaultCategories,          *)
(* create_category).                                                       *)
THEOREM DeskKeepsTheCatalog == DeskSpec => []CatalogInv
<1>1. ShelfProofs!Spec => []ShelfProofs!CatalogInv
  BY SameCatalog, ShelfProofs!CatalogIsSound
<1>2. ShelfProofs!CatalogInv => CatalogInv
  BY SameCatalog DEF CatalogInv
<1> QED
  BY <1>1, <1>2, TheCatalogRuns, PTL

(* Two names that look like one person are two accounts only where         *)
(* somebody confirmed it or neither had been written when the other was    *)
(* decided, and no account starts in credit unconfirmed, for any names and *)
(* any number of turns at once (recordMovement, SimilarClients,            *)
(* errUnknownDebtor).                                                      *)
THEOREM DeskKeepsTheNames == DeskSpec => []NamesInv
<1>1. People!Init => NamesIInv
  BY NamesStart, DeskAssumption
<1>2. NamesIInv /\ [People!Next]_namesVars => NamesIInv'
  BY NamesNext, DeskAssumption
<1>3. NamesIInv => NamesInv
  BY DEF NamesIInv, NamesInv
<1> QED
  BY <1>1, <1>2, <1>3, TheNamesRun, PTL

(* The handlers read, decide and write back; a field that an edit did not  *)
(* name, a category of the user's own and the target that definir_meta     *)
(* left out are lost only to a write that came in between, or where the    *)
(* goal could not be read.                                                 *)
THEOREM DeskLosesOnlyToRaces == DeskSpec => LossNeedsConcurrency
<1>1. ShelfProofs!Spec => ShelfProofs!OwnCategoriesArePreserved /\ ShelfProofs!OtherTargetIsKept
  BY SameCatalog, ShelfProofs!LossNeedsARace
<1>2. ShelfProofs!OwnCategoriesArePreserved => Shelf!OwnCategoriesArePreserved
  BY PTL DEF ShelfProofs!OwnCategoriesArePreserved, Shelf!OwnCategoriesArePreserved,
             ShelfProofs!Slugs, Shelf!Slugs, ShelfProofs!Defaults, Shelf!Defaults,
             ShelfProofs!Own, Shelf!Own, ShelfProofs!SameMeaning, Shelf!SameMeaning,
             ShelfProofs!catalogVars, Shelf!catalogVars
<1>3. ShelfProofs!OtherTargetIsKept => Shelf!OtherTargetIsKept
  BY PTL DEF ShelfProofs!OtherTargetIsKept, Shelf!OtherTargetIsKept,
             ShelfProofs!Fields, Shelf!Fields, ShelfProofs!Given, Shelf!Given,
             ShelfProofs!catalogVars, Shelf!catalogVars
<1> QED
  BY <1>1, <1>2, <1>3, TheCatalogRuns, TheLedgerRuns, FieldsSurvive, PTL
  DEF LossNeedsConcurrency

(* One row for each id, deletions that last and rows that read the same to *)
(* everybody, beside whatever else the desk is doing.                      *)
THEOREM DeskKeepsTheLedger == DeskSpec => []TableInv /\ ImplementsBook
BY TheLedgerRuns, LedgerInv, LedgerImplementsBook, PTL

-----------------------------------------------------------------------------
(* The statements.  The book is what the writers make it, the balance is   *)
(* what the lines add up to, a question of the assistant remembers the     *)
(* lines its balance was read from, and a walk has shown what is behind    *)
(* its cursor.                                                             *)

(* A line of a timeline that is still ahead of the walk.                   *)
Ahead(m) == reading.cursor # Nobody => Statements!Precedes(reading.cursor, m, reading.timeline)

LinesInv ==
    /\ book \subseteq Statements!Movement
    /\ \A m, n \in book : m.id = n.id => m = n
    /\ \A m \in book : m.id <= drawn /\ m.client \in known
    /\ drawn \in Nat /\ known \subseteq Buyers

BalanceInv ==
    /\ balance \in [Buyers -> Int]
    /\ \A c \in Buyers : balance[c] = Statements!Sum(Statements!OfClient(book, c))

AskedInv ==
    reading.at = "asked" =>
        /\ reading.client \in Buyers
        /\ calm \subseteq Statements!Movement /\ IsFiniteSet(calm)
        /\ reading.saldo = Statements!Sum(calm)

(* Each line that is calm has been shown once unless it is still ahead.    *)
TimelineInv ==
    /\ reading.at \in {"rest", "asked", "open", "walked"}
    /\ reading.at = "rest" => reading = Statements!Unread
    /\ reading.at \in {"open", "walked"} =>
          /\ DOMAIN reading = {"at", "timeline", "cursor", "seen"}
          /\ reading.timeline \in Statements!AllTimelines
          /\ reading.cursor \in {Nobody} \cup Statements!Movement
          /\ reading.seen \in Seq(Statements!Movement)
    /\ reading.at = "open" =>
          /\ calm \subseteq Statements!RowsOf(reading.timeline)
          /\ \A m \in calm : IF Ahead(m) THEN Never(reading.seen, m) ELSE Once(reading.seen, m)
    /\ reading.at = "walked" => \A m \in calm : Once(reading.seen, m)

StatementsInv == LinesInv /\ BalanceInv /\ AskedInv /\ TimelineInv

(* Instances of the library count as the library does.                     *)
LEMMA SameCounts ==
  ASSUME NEW S
  PROVE  /\ Statements!Cardinality(S) = Cardinality(S)
         /\ Conversation!Cardinality(S) = Cardinality(S)
BY DEF Statements!Cardinality, Conversation!Cardinality, Cardinality,
       Statements!IsFiniteSet, Conversation!IsFiniteSet, IsFiniteSet

-----------------------------------------------------------------------------
(* What the lines of the caderninho add up to.  Owed(S, s) is the set that *)
(* Taken (s = 1) and Paid (s = -1) count.                                  *)

Owed(S, s) == {u \in S \X (1 .. MaxAmount) : u[2] <= s * u[1].amount}
Total(S)   == Cardinality(Owed(S, 1)) - Cardinality(Owed(S, -1))

LEMMA LineFields ==
  ASSUME NEW m \in Statements!Movement
  PROVE  /\ m.id \in 1 .. MaxLines /\ m.client \in Buyers /\ m.date \in Days
         /\ m.amount \in Int /\ m.amount <= MaxAmount /\ -(m.amount) <= MaxAmount
<1>1. /\ m.id \in 1 .. MaxLines /\ m.client \in Buyers /\ m.date \in Days
      /\ m.amount \in SignedAmounts /\ m.amount \in (-MaxAmount .. MaxAmount) \ {0}
  BY DEF Statements!Movement, Statements!Ids
<1>2. m.amount \in Int /\ MaxAmount \in Nat
  BY <1>1, DeskAssumption DEF Statements!AmountsAssumption, Statements!MaxAmountAssumption
<1> QED
  BY <1>1, <1>2

LEMMA OwedIsFinite ==
  ASSUME NEW S, IsFiniteSet(S), NEW s
  PROVE  IsFiniteSet(Owed(S, s)) /\ Cardinality(Owed(S, s)) \in Nat
<1>1. IsFiniteSet(1 .. MaxAmount)
  BY FS_Interval, DeskAssumption DEF Statements!MaxAmountAssumption
<1>2. IsFiniteSet(S \X (1 .. MaxAmount))
  BY <1>1, FS_Product
<1>3. Owed(S, s) \in SUBSET (S \X (1 .. MaxAmount))
  BY DEF Owed
<1>4. IsFiniteSet(Owed(S, s))
  BY <1>2, <1>3, FS_Subset
<1> QED
  BY <1>4, FS_CardinalityType

LEMMA OwedUnion ==
  ASSUME NEW A, NEW B, IsFiniteSet(A), IsFiniteSet(B), A \cap B = {}, NEW s
  PROVE  Cardinality(Owed(A \cup B, s)) = Cardinality(Owed(A, s)) + Cardinality(Owed(B, s))
<1>1. Owed(A \cup B, s) = Owed(A, s) \cup Owed(B, s)
  BY DEF Owed
<1>2. Owed(A, s) \cap Owed(B, s) = {}
  BY DEF Owed
<1>3. /\ IsFiniteSet(Owed(A, s)) /\ Cardinality(Owed(A, s)) \in Nat
      /\ IsFiniteSet(Owed(B, s)) /\ Cardinality(Owed(B, s)) \in Nat
  BY OwedIsFinite
<1>4. Cardinality(Owed(A, s) \cup Owed(B, s))
        = Cardinality(Owed(A, s)) + Cardinality(Owed(B, s))
             - Cardinality(Owed(A, s) \cap Owed(B, s))
  BY <1>3, FS_Union
<1>5. Cardinality(Owed(A, s) \cap Owed(B, s)) = 0
  BY <1>2, FS_EmptySet
<1>6. Cardinality(Owed(A \cup B, s)) = Cardinality(Owed(A, s) \cup Owed(B, s))
  BY <1>1
<1> HIDE DEF Owed
<1> QED
  BY <1>3, <1>4, <1>5, <1>6

LEMMA TotalUnion ==
  ASSUME NEW A, NEW B, IsFiniteSet(A), IsFiniteSet(B), A \cap B = {}
  PROVE  Total(A \cup B) = Total(A) + Total(B) /\ Total(A) \in Int /\ Total(B) \in Int
<1>1. /\ Cardinality(Owed(A \cup B, 1)) = Cardinality(Owed(A, 1)) + Cardinality(Owed(B, 1))
      /\ Cardinality(Owed(A \cup B, -1)) = Cardinality(Owed(A, -1)) + Cardinality(Owed(B, -1))
  BY OwedUnion
<1>2. /\ Cardinality(Owed(A, 1)) \in Nat /\ Cardinality(Owed(A, -1)) \in Nat
      /\ Cardinality(Owed(B, 1)) \in Nat /\ Cardinality(Owed(B, -1)) \in Nat
  BY OwedIsFinite
<1> QED
  BY <1>1, <1>2 DEF Total

LEMMA TotalEmpty == Total({}) = 0
<1>1. Owed({}, 1) = {} /\ Owed({}, -1) = {}
  BY DEF Owed
<1> QED
  BY <1>1, FS_EmptySet DEF Total

LEMMA TotalOne ==
  ASSUME NEW m \in Statements!Movement
  PROVE  Total({m}) = m.amount
<1>1. m.amount \in Int /\ m.amount <= MaxAmount /\ -(m.amount) <= MaxAmount /\ MaxAmount \in Nat
  BY LineFields, DeskAssumption DEF Statements!MaxAmountAssumption
<1>2. ASSUME NEW a \in Int, a <= MaxAmount
      PROVE  Cardinality({m} \X {k \in 1 .. MaxAmount : k <= a}) = IF a > 0 THEN a ELSE 0
  <2> DEFINE A == {m}
             B == {k \in 1 .. MaxAmount : k <= a}
             n == IF a > 0 THEN a ELSE 0
  <2>1. B = 1 .. n /\ n \in Nat
    BY <1>1, <1>2
  <2>2. IsFiniteSet(A) /\ Cardinality(A) = 1
    BY FS_Singleton
  <2>3. IsFiniteSet(B) /\ Cardinality(B) = n
    <3>1. n \in Nat
      BY <2>1
    <3> HIDE DEF n
    <3>2. ASSUME NEW k \in Nat PROVE IsFiniteSet(1 .. k) /\ Cardinality(1 .. k) = k
      <4>1. IsFiniteSet(1 .. k) /\ Cardinality(1 .. k) = IF 1 > k THEN 0 ELSE k - 1 + 1
        BY FS_Interval
      <4> QED
        BY <4>1
    <3> QED
      BY <2>1, <3>1, <3>2
  <2> HIDE DEF A, B, n
  <2>4. Cardinality(A \X B) = Cardinality(A) * Cardinality(B)
    BY <2>2, <2>3, FS_Product
  <2> QED
    BY <2>1, <2>2, <2>3, <2>4 DEF A, B, n
<1>3. /\ Owed({m}, 1) = {m} \X {k \in 1 .. MaxAmount : k <= m.amount}
      /\ Owed({m}, -1) = {m} \X {k \in 1 .. MaxAmount : k <= -(m.amount)}
  BY <1>1 DEF Owed
<1>4. /\ Cardinality(Owed({m}, 1)) = IF m.amount > 0 THEN m.amount ELSE 0
      /\ Cardinality(Owed({m}, -1)) = IF -(m.amount) > 0 THEN -(m.amount) ELSE 0
  BY <1>1, <1>2, <1>3
<1> QED
  BY <1>1, <1>4 DEF Total

LEMMA SumIsTotal ==
  ASSUME NEW S \in SUBSET Statements!Movement
  PROVE  /\ Statements!Sum(S) = Total(S)
         /\ Statements!Taken(S) - Statements!Paid(S) = Total(S)
<1>1. \A m \in S : m.amount \in Int
  BY LineFields
<1>2. {u \in S \X (1 .. MaxAmount) : u[2] <= u[1].amount} = Owed(S, 1)
  BY <1>1 DEF Owed
<1>3. {u \in S \X (1 .. MaxAmount) : u[2] <= -(u[1].amount)} = Owed(S, -1)
  BY <1>1 DEF Owed
<1> QED
  BY <1>2, <1>3, SameCounts
  DEF Statements!Sum, Statements!Taken, Statements!Paid, Statements!Centavos, Total

-----------------------------------------------------------------------------
(* The rows of a timeline, in its order.                                   *)

LEMMA LinesAreFinite ==
  ASSUME LinesInv
  PROVE  IsFiniteSet(book)
<1>1. IsFiniteSet(1 .. MaxLines)
  BY FS_Interval, DeskAssumption DEF Statements!MaxMovementsAssumption
<1> DEFINE f == [m \in book |-> m.id]
<1>2. f \in [book -> 1 .. MaxLines]
  BY LineFields DEF LinesInv
<1>3. f \in Injection(book, 1 .. MaxLines)
  BY <1>2 DEF LinesInv, Injection, IsInjective
<1> QED
  BY <1>1, <1>3, FS_Injection

LEMMA PrecedesIsAnOrder ==
  ASSUME NEW t
  PROVE  /\ \A m \in Statements!Movement : ~Statements!Precedes(m, m, t)
         /\ \A m, n, o \in Statements!Movement :
               Statements!Precedes(m, n, t) /\ Statements!Precedes(n, o, t)
                  => Statements!Precedes(m, o, t)
         /\ \A m, n \in Statements!Movement :
               m.id # n.id => Statements!Precedes(m, n, t) \/ Statements!Precedes(n, m, t)
<1>1. \A m \in Statements!Movement : m.id \in Int /\ m.client \in Int /\ m.date \in Int
  <2>1. Buyers \subseteq Int /\ Days \subseteq Int /\ 1 .. MaxLines \subseteq Int
    BY DeskAssumption DEF Statements!TimelinesAssumption, Statements!DaysAssumption
  <2> QED
    BY <2>1, LineFields
<1> HIDE DEF Statements!Movement
<1> QED
  BY <1>1 DEF Statements!Precedes, Statements!Before

(* What RowsAfter returns: each row past the cursor once, in order.        *)
AllRows(rows, S, t) ==
    /\ rows \in Seq(S)
    /\ \A i, j \in 1 .. Len(rows) : i < j =>
         rows[i] # rows[j] /\ Statements!Precedes(rows[i], rows[j], t)
    /\ \A m \in S : \E k \in 1 .. Len(rows) : rows[k] = m

Past(t, cursor) ==
  {m \in Statements!RowsOf(t) : cursor # Nobody => Statements!Precedes(cursor, m, t)}

LEMMA RowsAfterMean ==
  ASSUME LinesInv, NEW t, NEW cursor
  PROVE  AllRows(Statements!RowsAfter(t, cursor), Past(t, cursor), t)
<1> DEFINE S == Past(t, cursor)
           n == Cardinality(S)
           s == Statements!RowsAfter(t, cursor)
           R == {p \in S \X S : Statements!Precedes(p[1], p[2], t)}
<1>1. S \subseteq book /\ S \subseteq Statements!Movement
  BY DEF LinesInv, Past, Statements!RowsOf, Statements!OfClient
<1>2. IsFiniteSet(S) /\ n \in Nat
  BY <1>1, LinesAreFinite, FS_Subset, FS_CardinalityType
<1> HIDE DEF S
<1>3. \A x, y \in S : <<x, y>> \in R <=> Statements!Precedes(x, y, t)
  OBVIOUS
<1> HIDE DEF R
<1>4. /\ \A x \in S : ~Statements!Precedes(x, x, t)
      /\ \A x, y, z \in S :
            Statements!Precedes(x, y, t) /\ Statements!Precedes(y, z, t)
               => Statements!Precedes(x, z, t)
      /\ \A x, y \in S : x # y => Statements!Precedes(x, y, t) \/ Statements!Precedes(y, x, t)
  <2>1. \A x, y \in S : x # y => x.id # y.id
    BY <1>1 DEF LinesInv
  <2> QED
    BY <1>1, <2>1, PrecedesIsAnOrder
<1>5. /\ \A x \in S : <<x, x>> \notin R
      /\ \A x, y, z \in S : <<x, y>> \in R /\ <<y, z>> \in R => <<x, z>> \in R
      /\ \A x, y, z \in S : <<x, z>> \in R => <<x, y>> \in R \/ <<y, z>> \in R
  BY <1>3, <1>4
<1>6. PICK r \in [1 .. n -> S] :
         \A i, j \in 1 .. n : i < j => r[i] # r[j] /\ <<r[j], r[i]>> \notin R
  BY <1>2, <1>5, OrderExists
<1>7. \A i, j \in 1 .. n : i < j => r[i] # r[j] /\ ~Statements!Precedes(r[j], r[i], t)
  BY <1>3, <1>6
<1>8. Statements!Cardinality(S) = n
  BY SameCounts
<1>9. s = CHOOSE u \in [1 .. n -> S] :
            \A i, j \in 1 .. n : i < j => u[i] # u[j] /\ ~Statements!Precedes(u[j], u[i], t)
  BY <1>8 DEF Statements!RowsAfter, Statements!InOrder, S, Past
<1>10. /\ s \in [1 .. n -> S]
       /\ \A i, j \in 1 .. n : i < j => s[i] # s[j] /\ ~Statements!Precedes(s[j], s[i], t)
  BY <1>7, <1>9
<1> HIDE DEF s, n
<1>11. s \in Seq(S) /\ Len(s) = n
  BY <1>2, <1>10
<1>12. \A i, j \in 1 .. n : i < j => s[i] # s[j] /\ Statements!Precedes(s[i], s[j], t)
  BY <1>4, <1>10
<1>13. \A m \in S : \E k \in 1 .. n : s[k] = m
  <2>1. \A i, j \in 1 .. n : i < j => s[i] # s[j]
    BY <1>10
  <2> QED
    BY <1>2, <1>10, <2>1, OrderIsOnto DEF n
<1> QED
  BY <1>11, <1>12, <1>13 DEF AllRows, s, S

-----------------------------------------------------------------------------
(* What consultar_fiado answers.                                           *)

LEMMA TotalDifference ==
  ASSUME NEW A, NEW B, IsFiniteSet(A), IsFiniteSet(B)
  PROVE  Total(A) - Total(B) = Total(A \ B) - Total(B \ A)
<1> DEFINE C == A \cap B
           D == A \ B
           E == B \ A
<1>1. IsFiniteSet(C) /\ IsFiniteSet(D) /\ IsFiniteSet(E)
  BY FS_Subset
<1>2. /\ A = C \cup D /\ C \cap D = {}
      /\ B = C \cup E /\ C \cap E = {}
  OBVIOUS
<1> HIDE DEF C, D, E
<1>3. Total(C \cup D) = Total(C) + Total(D) /\ Total(C) \in Int /\ Total(D) \in Int
  BY <1>1, <1>2, TotalUnion
<1>4. Total(C \cup E) = Total(C) + Total(E) /\ Total(E) \in Int
  BY <1>1, <1>2, TotalUnion
<1>5. Total(A) = Total(C) + Total(D) /\ Total(B) = Total(C) + Total(E)
  BY <1>2, <1>3, <1>4
<1>6. Total(A) - Total(B) = Total(D) - Total(E)
  BY <1>3, <1>4, <1>5
<1> QED
  BY <1>6 DEF D, E

(* The page is cut, the totals are not.                                    *)
LEMMA StatementIsRight ==
  ASSUME StatementsInv
  PROVE  Statements!StatementInv
<1>1. LinesInv /\ AskedInv /\ Statements!TypeOK
  BY DEF StatementsInv, TimelineInv, LinesInv, Statements!TypeOK
<1>2. ASSUME reading.at = "asked"
      PROVE  LET now == Statements!OfClient(book, reading.client)
             IN  Statements!Statement.comprado - Statements!Statement.pago - reading.saldo
                   = Statements!Sum(now \ calm) - Statements!Sum(calm \ now)
  <2> DEFINE t    == Statements!ClientTimeline(reading.client)
             now  == Statements!OfClient(book, reading.client)
             rows == Statements!RowsAfter(t, Nobody)
  <2>1. /\ now \subseteq book /\ now \in SUBSET Statements!Movement /\ IsFiniteSet(now)
        /\ calm \in SUBSET Statements!Movement /\ IsFiniteSet(calm)
        /\ reading.saldo = Statements!Sum(calm)
    BY <1>1, <1>2, LinesAreFinite, FS_Subset DEF AskedInv, LinesInv, Statements!OfClient
  <2>2. Past(t, Nobody) = now
    BY DEF Past, Statements!RowsOf, Statements!ClientTimeline
  <2>3. AllRows(rows, now, t)
    BY <1>1, <2>2, RowsAfterMean
  <2>4. Statements!Range(rows) = now
    BY <2>3 DEF AllRows, Statements!Range
  <2>5. /\ Statements!Statement.comprado = Statements!Taken(now)
        /\ Statements!Statement.pago = Statements!Paid(now)
    BY <2>4 DEF Statements!Statement, Statements!Detail
  <2> HIDE DEF now
  <2>6. /\ Statements!Taken(now) - Statements!Paid(now) = Total(now)
        /\ reading.saldo = Total(calm)
        /\ Statements!Sum(now \ calm) = Total(now \ calm)
        /\ Statements!Sum(calm \ now) = Total(calm \ now)
    <3>1. now \ calm \in SUBSET Statements!Movement /\ calm \ now \in SUBSET Statements!Movement
      BY <2>1
    <3> QED
      BY <2>1, <3>1, SumIsTotal
  <2>7. Total(now) - Total(calm) = Total(now \ calm) - Total(calm \ now)
    BY <2>1, TotalDifference
  <2>8. Statements!Statement.comprado - Statements!Statement.pago - reading.saldo
          = Statements!Sum(now \ calm) - Statements!Sum(calm \ now)
    BY <2>5, <2>6, <2>7
  <2> QED
    BY <2>8 DEF now
<1>3. Statements!StatementAddsUp
  BY <1>2 DEF Statements!StatementAddsUp
<1> QED
  BY <1>1, <1>3 DEF Statements!StatementInv
-----------------------------------------------------------------------------
(* The book under the writers.                                             *)

LEMMA NextKeepsLines ==
  ASSUME LinesInv, [Statements!Next]_timelinesVars
  PROVE  LinesInv'
<1>1. CASE Statements!Write
  <2>1. PICK m \in Statements!Movement :
           /\ m.id = drawn + 1 /\ book' = book \cup {m}
           /\ drawn' = m.id /\ known' = known \cup {m.client}
    BY <1>1 DEF Statements!Write, Statements!Enter
  <2>2. m.id \in Nat /\ m.client \in Buyers
    BY LineFields
  <2>3. \A n \in book : n.id \in Int /\ n.id <= drawn /\ n.client \in known
    BY LineFields DEF LinesInv
  <2>4. \A n \in book : n.id # m.id /\ n.id <= m.id
    BY <2>1, <2>3 DEF LinesInv
  <2>5. \A n \in book' : n.id <= drawn' /\ n.client \in known'
    BY <2>1, <2>2, <2>3, <2>4
  <2>6. \A n, o \in book' : n.id = o.id => n = o
    BY <2>1, <2>4 DEF LinesInv
  <2>7. book' \subseteq Statements!Movement /\ drawn' \in Nat /\ known' \subseteq Buyers
    BY <2>1, <2>2 DEF LinesInv
  <2> QED
    BY <2>5, <2>6, <2>7 DEF LinesInv
<1>2. CASE Statements!Erasure
  BY <1>2 DEF LinesInv, Statements!Erasure, Statements!Erase
<1>3. CASE UNCHANGED <<book, drawn, known>>
  BY <1>3 DEF LinesInv
<1>4. CASE \/ Statements!ReadDebtor \/ Statements!ConsultarFiado
          \/ Statements!OpenTimeline \/ Statements!ReadPage
  BY <1>3, <1>4 DEF Statements!ReadDebtor, Statements!ConsultarFiado, Statements!OpenTimeline,
       Statements!ReadPage, Statements!bookVars
<1> QED
  BY <1>1, <1>2, <1>3, <1>4 DEF Statements!Next, timelinesVars

(* A line that is not in a client's part of the book moves what it adds up *)
(* to by its own amount when it is written.                                *)
LEMMA OneLineMore ==
  ASSUME NEW A, IsFiniteSet(A), A \in SUBSET Statements!Movement,
         NEW m \in Statements!Movement, m \notin A, NEW c
  PROVE  /\ Statements!Sum(Statements!OfClient(A, c)) \in Int
         /\ Statements!Sum(Statements!OfClient(A \cup {m}, c))
              = Statements!Sum(Statements!OfClient(A, c)) + IF m.client = c THEN m.amount ELSE 0
<1> DEFINE O == Statements!OfClient(A, c)
           P == Statements!OfClient(A \cup {m}, c)
<1>1. /\ O \subseteq A /\ m \notin O
      /\ P = IF m.client = c THEN O \cup {m} ELSE O
  BY DEF Statements!OfClient
<1> HIDE DEF O, P
<1>2. IsFiniteSet(O) /\ IsFiniteSet({m}) /\ O \cap {m} = {}
  <2>1. O \in SUBSET A /\ O \cap {m} = {}
    BY <1>1
  <2> QED
    BY <2>1, FS_Subset, FS_Singleton
<1>3. /\ Total(O \cup {m}) = Total(O) + Total({m})
      /\ Total(O) \in Int /\ Total({m}) = m.amount
  BY <1>2, TotalUnion, TotalOne
<1>4. Statements!Sum(O) = Total(O) /\ Statements!Sum(O \cup {m}) = Total(O \cup {m})
  <2>1. O \in SUBSET Statements!Movement /\ O \cup {m} \in SUBSET Statements!Movement
    BY <1>1
  <2> QED
    BY <2>1, SumIsTotal
<1>5. Statements!Sum(O) \in Int
  BY <1>3, <1>4
<1>6. Statements!Sum(P) = Statements!Sum(O) + IF m.client = c THEN m.amount ELSE 0
  <2>1. CASE m.client = c
    BY <1>1, <1>3, <1>4, <2>1
  <2>2. CASE m.client # c
    BY <1>1, <1>5, <2>2
  <2> QED
    BY <2>1, <2>2
<1> QED
  BY <1>5, <1>6 DEF O, P

LEMMA NextKeepsBalance ==
  ASSUME LinesInv, BalanceInv, [Statements!Next]_timelinesVars
  PROVE  BalanceInv'
<1> DEFINE SumOf(A, c) == Statements!Sum(Statements!OfClient(A, c))
<1>1. IsFiniteSet(book) /\ book \in SUBSET Statements!Movement
  BY LinesAreFinite DEF LinesInv
<1>2. /\ balance \in [Buyers -> Int]
      /\ \A c \in Buyers : balance[c] = SumOf(book, c)
  BY DEF BalanceInv
<1>3. ASSUME balance' \in [Buyers -> Int], \A c \in Buyers : balance'[c] = SumOf(book', c)
      PROVE  BalanceInv'
  BY <1>3 DEF BalanceInv
<1> HIDE DEF SumOf
<1>4. CASE Statements!Write
  <2>1. PICK m \in Statements!Movement :
           /\ m \notin book /\ book' = book \cup {m}
           /\ balance' = [balance EXCEPT ![m.client] = @ + m.amount]
    BY <1>4 DEF Statements!Write, Statements!Enter
  <2>2. m.amount \in Int /\ m.client \in Buyers
    BY LineFields
  <2>3. balance' \in [Buyers -> Int]
    BY <1>2, <2>1, <2>2
  <2>4. ASSUME NEW c \in Buyers PROVE balance'[c] = SumOf(book', c)
    <3>1. /\ SumOf(book, c) \in Int
          /\ SumOf(book \cup {m}, c) = SumOf(book, c) + IF m.client = c THEN m.amount ELSE 0
      BY <1>1, <2>1, OneLineMore DEF SumOf
    <3>2. balance'[c] = IF m.client = c THEN balance[c] + m.amount ELSE balance[c]
      BY <1>2, <2>1, <2>2
    <3> QED
      BY <1>2, <2>1, <3>1, <3>2
  <2> QED
    BY <1>3, <2>3, <2>4
<1>5. CASE Statements!Erasure
  <2>1. PICK m \in book :
           /\ book' = book \ {m}
           /\ balance' = [balance EXCEPT ![m.client] = @ - m.amount]
    BY <1>5 DEF Statements!Erasure, Statements!Erase
  <2>2. m \in Statements!Movement /\ m.amount \in Int /\ m.client \in Buyers
    BY <1>1, LineFields
  <2>3. balance' \in [Buyers -> Int]
    BY <1>2, <2>1, <2>2
  <2>4. ASSUME NEW c \in Buyers PROVE balance'[c] = SumOf(book', c)
    <3>1. /\ IsFiniteSet(book') /\ book' \in SUBSET Statements!Movement /\ m \notin book'
          /\ book' \cup {m} = book
      BY <1>1, <2>1, FS_Subset
    <3>2. /\ SumOf(book', c) \in Int
          /\ SumOf(book' \cup {m}, c) = SumOf(book', c) + IF m.client = c THEN m.amount ELSE 0
      BY <2>2, <3>1, OneLineMore DEF SumOf
    <3>3. SumOf(book, c) = SumOf(book', c) + IF m.client = c THEN m.amount ELSE 0
      BY <3>1, <3>2
    <3>4. balance'[c] = IF m.client = c THEN balance[c] - m.amount ELSE balance[c]
      BY <1>2, <2>1, <2>2
    <3>5. balance[c] = SumOf(book, c)
      BY <1>2
    <3>6. CASE m.client = c
      BY <2>2, <3>2, <3>3, <3>4, <3>5, <3>6
    <3>7. CASE m.client # c
      BY <3>2, <3>3, <3>4, <3>5, <3>7
    <3> QED
      BY <3>6, <3>7
  <2> QED
    BY <1>3, <2>3, <2>4
<1>6. CASE UNCHANGED <<book, balance>>
  BY <1>2, <1>3, <1>6
<1>7. CASE \/ Statements!ReadDebtor \/ Statements!ConsultarFiado
          \/ Statements!OpenTimeline \/ Statements!ReadPage
  BY <1>6, <1>7 DEF Statements!ReadDebtor, Statements!ConsultarFiado, Statements!OpenTimeline,
       Statements!ReadPage, Statements!bookVars
<1> QED
  BY <1>4, <1>5, <1>6, <1>7 DEF Statements!Next, timelinesVars

LEMMA NextKeepsAsked ==
  ASSUME LinesInv, BalanceInv, AskedInv, [Statements!Next]_timelinesVars
  PROVE  AskedInv'
<1>1. CASE Statements!ReadDebtor
  <2>1. PICK c \in known :
           /\ reading' = [at |-> "asked", client |-> c, saldo |-> balance[c]]
           /\ calm' = Statements!OfClient(book, c)
    BY <1>1 DEF Statements!ReadDebtor
  <2>2. c \in Buyers /\ balance[c] = Statements!Sum(calm')
    BY <2>1 DEF LinesInv, BalanceInv
  <2>3. calm' \subseteq book /\ calm' \subseteq Statements!Movement /\ IsFiniteSet(calm')
    BY <2>1, LinesAreFinite, FS_Subset DEF LinesInv, Statements!OfClient
  <2> QED
    BY <2>1, <2>2, <2>3 DEF AskedInv
<1>2. CASE Statements!Erasure
  <2>1. reading' = reading /\ (reading.at = "asked" => calm' = calm)
    BY <1>2 DEF Statements!Erasure
  <2> QED
    BY <2>1 DEF AskedInv
<1>3. CASE reading'.at # "asked"
  BY <1>3 DEF AskedInv
<1>4. CASE Statements!ConsultarFiado \/ Statements!OpenTimeline
  BY <1>3, <1>4 DEF Statements!ConsultarFiado, Statements!OpenTimeline, Statements!Unread
<1>5. CASE Statements!ReadPage
  <2>1. reading'.at # "asked"
    BY <1>5 DEF Statements!ReadPage
  <2> QED
    BY <1>3, <2>1
<1>6. CASE UNCHANGED <<reading, calm>>
  BY <1>6 DEF AskedInv
<1>7. CASE Statements!Write
  BY <1>6, <1>7 DEF Statements!Write
<1> QED
  BY <1>1, <1>2, <1>4, <1>5, <1>6, <1>7 DEF Statements!Next, timelinesVars

-----------------------------------------------------------------------------
(* The walk through a timeline.                                            *)

LEMMA StatementPage ==
  ASSUME NEW S, NEW rows \in Seq(S)
  PROVE  LET page == Statements!Page(rows, PageLimit)
         IN  /\ page \in Seq(S)
             /\ Len(page) = IF Len(rows) > PageLimit THEN PageLimit ELSE Len(rows)
             /\ \A k \in 1 .. Len(page) : page[k] = rows[k]
<1>1. PageLimit \in Nat /\ PageLimit > 0 /\ Len(rows) \in Nat
  BY PageLimitAssumption
<1>2. CASE Len(rows) > PageLimit
  <2>1. Statements!Page(rows, PageLimit) = SubSeq(rows, 1, PageLimit)
    BY <1>1, <1>2 DEF Statements!Page
  <2> QED
    BY <1>1, <1>2, <2>1
<1>3. CASE ~(Len(rows) > PageLimit)
  <2>1. Statements!Page(rows, PageLimit) = rows
    BY <1>1, <1>3 DEF Statements!Page
  <2> QED
    BY <1>1, <1>3, <2>1
<1> QED
  BY <1>2, <1>3

(* A line that is ahead is on the page or past its last row.               *)
LEMMA PageShowsTheLine ==
  ASSUME NEW t, NEW cur, NEW rows, NEW S, AllRows(rows, S, t), S \subseteq Statements!Movement,
         NEW more \in Statements!Continues(rows, PageLimit), NEW m \in S
  PROVE  LET page == Statements!Page(rows, PageLimit)
         IN  IF more /\ Statements!Precedes(Statements!Last(page), m, t)
             THEN Never(page, m) ELSE Once(page, m)
<1> DEFINE page == Statements!Page(rows, PageLimit)
           n == Len(rows)
           l == Len(page)
<1>1. /\ PageLimit \in Nat /\ PageLimit > 0 /\ n \in Nat
      /\ rows \in Seq(S)
  BY PageLimitAssumption DEF AllRows
<1>2. /\ page \in Seq(S) /\ l = IF n > PageLimit THEN PageLimit ELSE n
      /\ \A k \in 1 .. l : page[k] = rows[k]
  BY <1>1, StatementPage
<1>3. /\ more => l = PageLimit
      /\ ~more => l = n
  <2>1. (n < PageLimit => more = FALSE) /\ (n > PageLimit => more = TRUE)
    <3>1. /\ n < PageLimit => Statements!Continues(rows, PageLimit) = {FALSE}
          /\ n > PageLimit => Statements!Continues(rows, PageLimit) = {TRUE}
      <4>1. n > PageLimit => ~(n < PageLimit)
        BY <1>1
      <4>2. ASSUME n < PageLimit PROVE Statements!Continues(rows, PageLimit) = {FALSE}
        BY <4>2 DEF Statements!Continues
      <4>3. ASSUME n > PageLimit PROVE Statements!Continues(rows, PageLimit) = {TRUE}
        BY <4>1, <4>3 DEF Statements!Continues
      <4> QED
        BY <4>2, <4>3
    <3> HIDE DEF n
    <3> QED
      BY <3>1
  <2>2. (more => ~(n < PageLimit)) /\ (~more => ~(n > PageLimit))
    <3> HIDE DEF n
    <3> QED
      BY <2>1
  <2> HIDE DEF n, l, page
  <2>3. n < PageLimit \/ n > PageLimit \/ n = PageLimit
    BY <1>1
  <2>4. (~(n < PageLimit) => l = PageLimit) /\ (~(n > PageLimit) => l = n)
    BY <1>1, <1>2, <2>3
  <2> QED
    BY <2>2, <2>4
<1>4. Statements!Last(page) = page[l]
  BY DEF Statements!Last
<1> HIDE DEF page, l, n
<1>5. /\ \A i, j \in 1 .. n : i < j => rows[i] # rows[j] /\ Statements!Precedes(rows[i], rows[j], t)
      /\ \A k \in 1 .. n : rows[k] \in S /\ rows[k] \in Statements!Movement
  BY <1>1 DEF AllRows, n
<1>6. PICK k \in 1 .. n : rows[k] = m
  BY DEF AllRows, n
<1>7. l \in Nat /\ l <= n
  BY <1>1, <1>2
<1>8. \A j \in 1 .. l : page[j] = m <=> j = k
  <2> SUFFICES ASSUME NEW j \in 1 .. l PROVE page[j] = m <=> j = k
    OBVIOUS
  <2>1. j \in 1 .. n /\ page[j] = rows[j]
    <3>1. j \in 1 .. n
      BY <1>1, <1>7
    <3> QED
      BY <1>2, <3>1
  <2>2. j < k \/ k < j \/ j = k
    BY <2>1
  <2> QED
    BY <1>5, <1>6, <2>1, <2>2
<1>9. CASE k <= l
  <2>1. k \in 1 .. l
    BY <1>9
  <2>2. Once(page, m)
    BY <1>8, <2>1 DEF Once, l
  <2>3. ASSUME more PROVE ~Statements!Precedes(page[l], m, t)
    <3>1. l \in 1 .. n /\ page[l] = rows[l]
      BY <1>2, <1>7, <2>1
    <3>2. rows[k] \in Statements!Movement /\ rows[l] \in Statements!Movement
      BY <1>5, <3>1
    <3>3. CASE k = l
      BY <1>6, <3>1, <3>2, <3>3, PrecedesIsAnOrder
    <3>4. CASE k < l
      <4>1. Statements!Precedes(rows[k], rows[l], t)
        BY <1>5, <3>1, <3>4
      <4> QED
        BY <1>6, <3>1, <3>2, <4>1, PrecedesIsAnOrder
    <3> QED
      BY <1>7, <1>9, <3>3, <3>4
  <2> QED
    BY <1>4, <2>2, <2>3 DEF page
<1>10. CASE l < k
  <2>1. Never(page, m)
    <3>1. \A j \in 1 .. l : j # k
      BY <1>7, <1>10
    <3> QED
      BY <1>8, <3>1 DEF Never, l
  <2>2. more /\ l \in 1 .. n
    BY <1>1, <1>3, <1>7, <1>10
  <2>3. Statements!Precedes(page[l], m, t)
    <3>1. l \in 1 .. l
      BY <1>1, <1>3, <2>2
    <3>2. page[l] = rows[l]
      BY <1>2, <3>1
    <3> QED
      BY <1>5, <1>6, <1>10, <2>2, <3>2
  <2> QED
    BY <1>4, <2>1, <2>2, <2>3 DEF page
<1> QED
  BY <1>7, <1>9, <1>10
LEMMA ReadPageKeepsTimeline ==
  ASSUME LinesInv, TimelineInv, Statements!ReadPage
  PROVE  TimelineInv'
<1> DEFINE t    == reading.timeline
           cur  == reading.cursor
           seen == reading.seen
           S    == Past(t, cur)
           rows == Statements!RowsAfter(t, cur)
           page == Statements!Page(rows, PageLimit)
           last == Statements!Last(page)
<1>1. /\ reading.at = "open" /\ calm' = calm /\ book' = book
      /\ DOMAIN reading = {"at", "timeline", "cursor", "seen"}
      /\ t \in Statements!AllTimelines /\ cur \in {Nobody} \cup Statements!Movement
      /\ seen \in Seq(Statements!Movement)
      /\ calm \subseteq Statements!RowsOf(t)
      /\ \A m \in calm : IF Ahead(m) THEN Never(seen, m) ELSE Once(seen, m)
  BY DEF Statements!ReadPage, TimelineInv, Statements!bookVars
<1>2. PICK more \in Statements!Continues(rows, PageLimit) :
         reading' = [reading EXCEPT !.at = IF more THEN "open" ELSE "walked",
                                    !.cursor = IF more THEN last ELSE Nobody,
                                    !.seen = @ \o page]
  BY DEF Statements!ReadPage
<1>3. /\ DOMAIN reading' = {"at", "timeline", "cursor", "seen"}
      /\ reading'.at = IF more THEN "open" ELSE "walked"
      /\ reading'.timeline = t
      /\ reading'.cursor = IF more THEN last ELSE Nobody
      /\ reading'.seen = seen \o page
  BY <1>1, <1>2
<1>4. AllRows(rows, S, t)
  BY RowsAfterMean
<1>5. S \subseteq Statements!Movement /\ calm \subseteq Statements!Movement
  BY <1>1 DEF LinesInv, Past, Statements!RowsOf, Statements!OfClient
<1>6. rows \in Seq(S) /\ page \in Seq(S)
  BY <1>4, StatementPage DEF AllRows
<1>7. page \in Seq(Statements!Movement)
  BY <1>5, <1>6
<1>8. more => last \in S /\ last \in Statements!Movement
  <2>1. PageLimit \in Nat /\ PageLimit > 0 /\ Len(rows) \in Nat
    BY <1>6, PageLimitAssumption
  <2>2. more => Len(rows) >= PageLimit
    <3>1. Len(rows) < PageLimit => more = FALSE
      BY <1>2 DEF Statements!Continues
    <3> HIDE DEF rows
    <3> QED
      BY <2>1, <3>1
  <2>3. Len(page) = IF Len(rows) > PageLimit THEN PageLimit ELSE Len(rows)
    BY <1>6, StatementPage
  <2> HIDE DEF rows, page, S
  <2>4. more => Len(page) \in 1 .. Len(page)
    BY <2>1, <2>2, <2>3
  <2>5. more => page[Len(page)] \in S
    BY <1>6, <2>4
  <2> QED
    BY <1>5, <2>5 DEF Statements!Last, last
<1>9. ASSUME NEW m \in calm
      PROVE  IF more /\ Statements!Precedes(last, m, t)
             THEN Never(seen \o page, m) ELSE Once(seen \o page, m)
  <2>1. m \in Statements!Movement /\ m \in Statements!RowsOf(t)
    BY <1>1, <1>5
  <2>2. CASE Ahead(m)
    <3>1. m \in S /\ Never(seen, m)
      BY <1>1, <2>1, <2>2 DEF Ahead, Past
    <3>2. IF more /\ Statements!Precedes(last, m, t) THEN Never(page, m) ELSE Once(page, m)
      BY <1>4, <1>5, <3>1, PageShowsTheLine
    <3> HIDE DEF page, last, seen
    <3> QED
      BY <1>1, <1>7, <3>1, <3>2, ShowMore
  <2>3. CASE ~Ahead(m)
    <3>1. cur # Nobody /\ ~Statements!Precedes(cur, m, t) /\ Once(seen, m)
      BY <1>1, <2>3 DEF Ahead
    <3>2. Never(page, m)
      <4>1. m \notin S
        BY <3>1 DEF Past
      <4> QED
        BY <1>6, <4>1 DEF Never
    <3>3. ASSUME more PROVE ~Statements!Precedes(last, m, t)
      <4>1. Statements!Precedes(cur, last, t) /\ last \in Statements!Movement
        BY <1>8, <3>1, <3>3 DEF Past
      <4>2. cur \in Statements!Movement
        BY <1>1, <3>1
      <4> HIDE DEF last, cur, t
      <4> QED
        BY <2>1, <3>1, <4>1, <4>2, PrecedesIsAnOrder
    <3>4. Once(seen \o page, m)
      <4> HIDE DEF page, seen
      <4> QED
        BY <1>1, <1>7, <3>1, <3>2, ShowMore
    <3> QED
      BY <3>3, <3>4
  <2> QED
    BY <2>2, <2>3
<1> HIDE DEF t, cur, seen, S, rows, page, last
<1>10. ASSUME more, NEW m \in calm
       PROVE  IF Ahead(m)' THEN Never(seen \o page, m) ELSE Once(seen \o page, m)
  <2>1. Ahead(m)' <=> Statements!Precedes(last, m, t)
    <3>1. last # Nobody
      BY <1>8, <1>10, DeskAssumption DEF Statements!TimelinesAssumption
    <3> QED
      BY <1>3, <1>10, <3>1 DEF Ahead
  <2> QED
    BY <1>9, <1>10, <2>1
<1>11. /\ reading'.cursor \in {Nobody} \cup Statements!Movement
       /\ reading'.seen \in Seq(Statements!Movement)
  BY <1>1, <1>3, <1>7, <1>8
<1>12. (Statements!RowsOf(t))' = Statements!RowsOf(t)
  BY <1>1, <1>3 DEF Statements!RowsOf, t
<1>13. reading'.at \in {"open", "walked"} /\ (reading'.at = "open" <=> more)
  BY <1>3
<1>14. reading'.at = "open" =>
         /\ calm' \subseteq Statements!RowsOf(reading.timeline)'
         /\ \A m \in calm' : IF Ahead(m)' THEN Never(reading'.seen, m) ELSE Once(reading'.seen, m)
  BY <1>1, <1>3, <1>10, <1>12, <1>13 DEF t
<1>15. reading'.at = "walked" => \A m \in calm' : Once(reading'.seen, m)
  BY <1>1, <1>3, <1>9, <1>13
<1> QED
  BY <1>1, <1>3, <1>11, <1>13, <1>14, <1>15 DEF TimelineInv

LEMMA NextKeepsTimeline ==
  ASSUME LinesInv, TimelineInv, [Statements!Next]_timelinesVars
  PROVE  TimelineInv'
<1>1. CASE Statements!OpenTimeline
  <2>1. PICK t \in Statements!AllTimelines :
           /\ reading' = [at |-> "open", timeline |-> t, cursor |-> Nobody, seen |-> <<>>]
           /\ calm' = Statements!RowsOf(t) /\ book' = book
    BY <1>1 DEF Statements!OpenTimeline, Statements!bookVars
  <2>2. \A m \in calm' : Ahead(m)' /\ Never(reading'.seen, m)
    BY <2>1 DEF Ahead, Never
  <2>3. (Statements!RowsOf(reading.timeline))' = calm'
    BY <2>1 DEF Statements!RowsOf, Statements!OfClient
  <2> QED
    BY <2>1, <2>2, <2>3 DEF TimelineInv
<1>2. CASE Statements!Write
  <2>1. book \subseteq book' /\ reading' = reading /\ calm' = calm
    BY <1>2 DEF Statements!Write, Statements!Enter
  <2>2. \A m \in Statements!RowsOf(reading.timeline) : m \in Statements!RowsOf(reading.timeline)'
    BY <2>1 DEF Statements!RowsOf, Statements!OfClient
  <2> QED
    BY <2>1, <2>2 DEF TimelineInv, Ahead
<1>3. CASE Statements!Erasure
  <2>1. PICK m \in book : /\ book' = book \ {m} /\ reading' = reading
                          /\ calm' = IF reading.at = "open" THEN calm \ {m} ELSE calm
    BY <1>3 DEF Statements!Erasure, Statements!Erase
  <2>2. \A n \in Statements!RowsOf(reading.timeline) :
           n # m => n \in Statements!RowsOf(reading.timeline)'
    BY <2>1 DEF Statements!RowsOf, Statements!OfClient
  <2> QED
    BY <2>1, <2>2 DEF TimelineInv, Ahead
<1>4. CASE Statements!ReadDebtor
  BY <1>4 DEF Statements!ReadDebtor, TimelineInv
<1>5. CASE Statements!ConsultarFiado
  BY <1>5 DEF Statements!ConsultarFiado, TimelineInv, Statements!Unread
<1>6. CASE UNCHANGED timelinesVars
  <2>1. book' = book /\ reading' = reading /\ calm' = calm
    BY <1>6 DEF timelinesVars
  <2> QED
    BY <2>1 DEF TimelineInv, Ahead, Statements!RowsOf, Statements!OfClient
<1> QED
  BY <1>1, <1>2, <1>3, <1>4, <1>5, <1>6, ReadPageKeepsTimeline DEF Statements!Next

(* A line that has been shown once is in one place of what was shown.      *)
LEMMA WalkOfTheTimeline ==
  ASSUME TimelineInv
  PROVE  Statements!StatementShowsOnce
<1> SUFFICES ASSUME reading.at \in {"open", "walked"}, NEW m \in calm
             PROVE  LET shown == {n \in DOMAIN reading.seen : reading.seen[n] = m}
                    IN  /\ Statements!Cardinality(shown) <= 1
                        /\ reading.at = "walked" => Statements!Cardinality(shown) = 1
  BY DEF Statements!StatementShowsOnce
<1> DEFINE shown == {n \in DOMAIN reading.seen : reading.seen[n] = m}
<1>1. /\ reading.seen \in Seq(Statements!Movement)
      /\ \/ Never(reading.seen, m) /\ reading.at # "walked"
         \/ Once(reading.seen, m)
  BY DEF TimelineInv
<1>2. DOMAIN reading.seen = 1 .. Len(reading.seen)
  BY <1>1
<1>3. Statements!Cardinality(shown) = Cardinality(shown)
  BY SameCounts
<1>4. CASE Never(reading.seen, m) /\ reading.at # "walked"
  <2>1. shown = {}
    BY <1>2, <1>4 DEF Never
  <2>2. Cardinality(shown) = 0
    BY <2>1, FS_EmptySet
  <2> QED
    BY <1>3, <1>4, <2>2
<1>5. CASE Once(reading.seen, m)
  <2>1. PICK k \in 1 .. Len(reading.seen) :
           \A l \in 1 .. Len(reading.seen) : reading.seen[l] = m <=> l = k
    BY <1>5 DEF Once
  <2>2. shown = {k}
    BY <1>2, <2>1
  <2>3. Cardinality(shown) = 1
    BY <2>2, FS_Singleton
  <2> QED
    BY <1>3, <2>3
<1> QED
  BY <1>1, <1>4, <1>5

LEMMA StepsOfTheStatements ==
  [DeskNext]_deskVars => [Statements!Next]_timelinesVars
<1>1. CASE AtLedger
  BY <1>1 DEF AtLedger
<1>2. CASE AtCatalog
  BY <1>2 DEF AtCatalog
<1>3. CASE AtNames
  BY <1>3 DEF AtNames
<1>4. CASE AtStatements
  BY <1>4 DEF AtStatements
<1>5. CASE AtConversation
  BY <1>5 DEF AtConversation
<1>6. CASE UNCHANGED deskVars
  BY <1>6 DEF deskVars
<1> QED
  BY <1>1, <1>2, <1>3, <1>4, <1>5, <1>6 DEF DeskNext

LEMMA DeskKeepsTheStatements == DeskSpec => []StatementsInv
<1>1. DeskInit => StatementsInv
  <2> SUFFICES ASSUME DeskInit PROVE StatementsInv
    OBVIOUS
  <2>1. /\ book = {} /\ balance = [c \in Buyers |-> 0] /\ drawn = 0 /\ known = {}
        /\ reading = Statements!Unread
    BY DEF DeskInit, Statements!Init, Statements!BookInit
  <2>2. \A c \in Buyers : Statements!Sum(Statements!OfClient(book, c)) = 0
    <3> TAKE c \in Buyers
    <3>1. Statements!OfClient(book, c) = {}
      BY <2>1 DEF Statements!OfClient
    <3> QED
      BY <3>1, SumIsTotal, TotalEmpty
  <2> QED
    BY <2>1, <2>2 DEF StatementsInv, LinesInv, BalanceInv, AskedInv, TimelineInv, Statements!Unread
<1>2. StatementsInv /\ [DeskNext]_deskVars => StatementsInv'
  BY StepsOfTheStatements, NextKeepsLines, NextKeepsBalance, NextKeepsAsked, NextKeepsTimeline
  DEF StatementsInv
<1> QED
  BY <1>1, <1>2, PTL DEF DeskSpec

(* What consultar_fiado answers adds up, however long the history is and   *)
(* whatever is written and erased between its two reads: bought minus paid *)
(* is off the balance by just the movements that came or went between.     *)
THEOREM StatementsAddUp == DeskSpec => []StatementInv
<1>1. StatementsInv => StatementInv
  BY StatementIsRight DEF StatementInv
<1> QED
  BY <1>1, DeskKeepsTheStatements, PTL

(* A statement walked page by page shows each movement that was there all  *)
(* along exactly once, with others written, backdated and deleted between  *)
(* two pages, also where the deleted one was the cursor.                   *)
THEOREM StatementsAreComplete == DeskSpec => []StatementShowsOnce
<1>1. StatementsInv => StatementShowsOnce
  BY WalkOfTheTimeline DEF StatementShowsOnce, StatementsInv
<1> QED
  BY <1>1, DeskKeepsTheStatements, PTL
-----------------------------------------------------------------------------
(* The conversation.  What is stored, and what the model is sent.          *)
StoredTurn == [role : {"user", "assistant"}, text : 1 .. MaxMessages]
ToolNames  == Tools \cup {MadeUp}
Result     == [tool : ToolNames, outcome : {"output", "error"}]
Requests   == [role : {"model"}, calls : Seq(ToolNames)]
Responses  == [role : {"user"}, results : Seq(Result)]
Content    == StoredTurn \cup Requests \cup Responses

AgentInv ==
    /\ stored \in Seq(StoredTurn)
    /\ message \in 1 .. MaxMessages + 1
    /\ tries \in 0 .. MaxTries /\ cuts \in 0 .. tries
    /\ DOMAIN agent = {"at", "contents", "round", "calls", "results"}
    /\ agent.at \in {"rest", "ask", "tools", "spent", "user", "assistant", "reply"}
    /\ agent.round \in 0 .. MaxToolRounds
    /\ agent.at # "spent" => agent.round < MaxToolRounds
    /\ agent.at = "rest" => agent = Conversation!Resting /\ ran = <<>>
    /\ agent.at # "rest" => message <= MaxMessages /\ cuts < tries

(* The places where a conversation has the question that is being answered.*)
AskedAt(s, m) == {k \in 1 .. Len(s) : s[k] = Conversation!Said("user", m)}

(* Nothing is stored ahead of its turn, and an answer follows a question.  *)
Chronicle(s, m) ==
    \A k \in 1 .. Len(s) : /\ s[k].text <= m
                           /\ s[k].role = "assistant" => k > 1 /\ s[k - 1].role = "user"

(* The question is stored as often as turns for it were cut while storing, *)
(* and once more from AppendUser on.                                       *)
StoredInv ==
    /\ Chronicle(stored, message)
    /\ agent.at = "assistant" => Len(stored) > 0 /\ stored[Len(stored)].role = "user"
    /\ Cardinality(AskedAt(stored, message))
          <= IF agent.at \in {"assistant", "reply"} THEN cuts + 1 ELSE cuts

WholeAndWritten ==
    /\ \A k \in DOMAIN stored : ~Conversation!Orphan(k) /\ stored[k].text \notin Blank
    /\ message \notin Blank

TakesTurns(c) == /\ Len(c) > 0 /\ c[1].role = "user" /\ c[Len(c)].role = "user"
                 /\ \A k \in 1 .. Len(c) - 1 : c[k].role # c[k + 1].role

SentInv ==
    agent.at \in {"ask", "tools"} =>
        /\ agent.contents \in Seq(Content)
        /\ Cardinality(AskedAt(agent.contents, message)) <= 1 + cuts
        /\ WholeAndWritten => TakesTurns(agent.contents)

(* A round of the turn: what the model asked for is what it was told, and  *)
(* what ran.                                                               *)
RoundIsAnswered(asked, answered, tools) ==
    /\ asked \in Requests /\ answered \in Responses
    /\ Len(answered.results) = Len(asked.calls)
    /\ \A n \in 1 .. Len(asked.calls) : answered.results[n].tool = asked.calls[n]
    /\ tools = asked.calls

RoundsInv ==
    agent.at \in {"ask", "tools", "spent", "user"} =>
        LET sent == Len(agent.contents) - 2 * agent.round
        IN  /\ agent.contents \in Seq(Content) /\ sent \in Nat
            /\ \A k \in 1 .. sent : agent.contents[k] \in StoredTurn
            /\ ran \in Seq(Seq(ToolNames))
            /\ Len(ran) = IF agent.at = "tools" THEN agent.round + 1 ELSE agent.round
            /\ \A k \in 1 .. agent.round :
                  RoundIsAnswered(agent.contents[sent + 2 * k - 1],
                                  agent.contents[sent + 2 * k], ran[k])

(* The round that is under way.                                            *)
ToolsInv ==
    agent.at = "tools" =>
        /\ agent.calls \in Seq(ToolNames) /\ agent.results \in Seq(Result)
        /\ Len(agent.results) < Len(agent.calls)
        /\ Len(ran[agent.round + 1]) = Len(agent.results)
        /\ \A n \in 1 .. Len(agent.results) :
              /\ agent.results[n].tool = agent.calls[n]
              /\ ran[agent.round + 1][n] = agent.calls[n]

TurnInv == AgentInv /\ StoredInv /\ SentInv /\ RoundsInv /\ ToolsInv

LEMMA ConversationBounds ==
  /\ MaxMessages \in Nat /\ MaxMessages > 0 /\ MaxTries \in Nat /\ MaxTries > 0
  /\ MaxToolRounds \in Nat /\ MaxToolRounds > 0 /\ MaxCallsAtOnce \in Nat
  /\ ShortTermLimit \in Nat /\ ShortTermLimit % 2 = 0
BY DeskAssumption DEF Conversation!AssistantAssumption

(* Numbers that rise and stay within 1 .. n do not skip any.               *)
LEMMA RisingIsIdentity ==
  ASSUME NEW n \in Nat, NEW s \in [1 .. n -> 1 .. n],
         \A i, j \in 1 .. n : i < j => s[i] < s[j]
  PROVE  \A k \in 1 .. n : s[k] = k
<1>1. \A k \in 1 .. n : s[k] \in Nat /\ s[k] \in 1 .. n
  OBVIOUS
<1>2. ASSUME NEW b \in 1 .. n, s[b] < b PROVE FALSE
  <2> DEFINE N == {k \in 1 .. n : s[k] < k}
  <2>1. N \in SUBSET Nat /\ b \in N
    BY <1>2
  <2>2. PICK k \in N : \A l \in N : k <= l
    BY <2>1, LeastNatural
  <2>3. k \in 1 .. n /\ s[k] < k /\ s[k] \in 1 .. n
    BY <1>1, <2>2
  <2>4. k - 1 \in 1 .. n /\ k - 1 < k
    BY <2>3
  <2>5. s[k - 1] < s[k] /\ s[k - 1] \in Nat
    BY <1>1, <2>3, <2>4
  <2>6. s[k - 1] < k - 1
    BY <2>3, <2>5
  <2>7. k - 1 \in N
    BY <2>4, <2>6
  <2>8. k <= k - 1
    BY <2>2, <2>7
  <2> QED
    BY <2>3, <2>8
<1>3. ASSUME NEW b \in 1 .. n, s[b] > b PROVE FALSE
  <2> DEFINE N == {d \in 0 .. n : n - d \in 1 .. n /\ s[n - d] > n - d}
  <2>1. N \in SUBSET Nat /\ n - b \in N
    <3>1. n - (n - b) = b /\ n - b \in 0 .. n
      OBVIOUS
    <3> QED
      BY <1>3, <3>1
  <2>2. PICK d \in N : \A l \in N : d <= l
    BY <2>1, LeastNatural
  <2>3. PICK k \in 1 .. n : k = n - d /\ s[k] > k
    BY <2>2
  <2>4. d \in Nat /\ s[k] \in 1 .. n /\ s[k] \in Nat
    BY <1>1, <2>2
  <2>5. k + 1 \in 1 .. n /\ k < k + 1 /\ n - (d - 1) = k + 1 /\ d - 1 \in 0 .. n
    BY <2>3, <2>4
  <2>6. s[k] < s[k + 1] /\ s[k + 1] \in Nat
    BY <1>1, <2>5
  <2>7. s[k + 1] > k + 1
    BY <2>3, <2>4, <2>6
  <2>8. d - 1 \in N
    BY <2>5, <2>7
  <2>9. d <= d - 1
    BY <2>2, <2>8
  <2> QED
    BY <2>4, <2>9
<1> QED
  BY <1>1, <1>2, <1>3

(* What the provider can represent of some turns: those with something in  *)
(* them, in their order.                                                   *)
LEMMA HistoryMeans ==
  ASSUME NEW turns_ \in Seq(StoredTurn)
  PROVE  LET h == Conversation!historyToContents(turns_)
         IN  /\ h \in Seq(StoredTurn)
             /\ \E s \in [1 .. Len(h) -> 1 .. Len(turns_)] :
                  /\ \A i, j \in 1 .. Len(h) : i # j => s[i] # s[j]
                  /\ \A k \in 1 .. Len(h) : h[k] = turns_[s[k]]
             /\ (\A k \in 1 .. Len(turns_) : turns_[k].text \notin Blank) => h = turns_
<1> DEFINE kept == {k \in DOMAIN turns_ : Conversation!Representable(turns_[k])}
           n == Cardinality(kept)
           R == {p \in kept \X kept : p[1] < p[2]}
           s == Conversation!InOrder(kept, LAMBDA j, k : j < k)
           h == Conversation!historyToContents(turns_)
<1>1. Len(turns_) \in Nat /\ kept \in SUBSET (1 .. Len(turns_))
  OBVIOUS
<1>2. IsFiniteSet(kept) /\ n \in Nat
  <2>1. IsFiniteSet(1 .. Len(turns_))
    BY <1>1, FS_Interval
  <2> QED
    BY <1>1, <2>1, FS_Subset, FS_CardinalityType
<1>3. h = [k \in 1 .. Conversation!Cardinality(kept) |-> turns_[s[k]]]
  BY DEF Conversation!historyToContents
<1>4. Conversation!Cardinality(kept) = n
  BY SameCounts
<1>5. \A x, y \in kept : <<x, y>> \in R <=> x < y
  OBVIOUS
<1>6. \A x \in kept : x \in Nat /\ x \in 1 .. Len(turns_)
  BY <1>1
<1>0. (\A k \in 1 .. Len(turns_) : turns_[k].text \notin Blank) => kept = 1 .. Len(turns_)
  BY DEF Conversation!Representable
<1> HIDE DEF R, kept, h
<1>7. /\ \A x \in kept : <<x, x>> \notin R
      /\ \A x, y, z \in kept : <<x, y>> \in R /\ <<y, z>> \in R => <<x, z>> \in R
      /\ \A x, y, z \in kept : <<x, z>> \in R => <<x, y>> \in R \/ <<y, z>> \in R
  BY <1>5, <1>6
<1>8. PICK r \in [1 .. n -> kept] :
         \A i, j \in 1 .. n : i < j => r[i] # r[j] /\ <<r[j], r[i]>> \notin R
  BY <1>2, <1>7, OrderExists
<1>9. \A i, j \in 1 .. n : i < j => r[i] # r[j] /\ ~(r[j] < r[i])
  BY <1>5, <1>8
<1>10. s = CHOOSE u \in [1 .. n -> kept] :
             \A i, j \in 1 .. n : i < j => u[i] # u[j] /\ ~(u[j] < u[i])
  BY <1>4 DEF Conversation!InOrder
<1>11. /\ s \in [1 .. n -> kept]
       /\ \A i, j \in 1 .. n : i < j => s[i] # s[j] /\ ~(s[j] < s[i])
  BY <1>9, <1>10
<1> HIDE DEF s
<1>12. \A i, j \in 1 .. n : i < j => s[i] < s[j]
  <2> SUFFICES ASSUME NEW i \in 1 .. n, NEW j \in 1 .. n, i < j PROVE s[i] < s[j]
    OBVIOUS
  <2>1. s[i] \in Nat /\ s[j] \in Nat
    BY <1>6, <1>11
  <2> QED
    BY <1>11, <2>1
<1>13. h = [k \in 1 .. n |-> turns_[s[k]]]
  BY <1>3, <1>4
<1>14. \A k \in 1 .. n : s[k] \in 1 .. Len(turns_) /\ turns_[s[k]] \in StoredTurn
  BY <1>6, <1>11
<1> HIDE DEF n
<1>15. h \in Seq(StoredTurn) /\ Len(h) = n /\ \A k \in 1 .. n : h[k] = turns_[s[k]]
  BY <1>2, <1>13, <1>14
<1>16. s \in [1 .. n -> 1 .. Len(turns_)]
  BY <1>11, <1>14
<1>17. \A i, j \in 1 .. n : i # j => s[i] # s[j]
  BY <1>2, <1>11
<1>18. ASSUME \A k \in 1 .. Len(turns_) : turns_[k].text \notin Blank
       PROVE  h = turns_
  <2>1. kept = 1 .. Len(turns_)
    BY <1>0, <1>18
  <2>2. n = Len(turns_)
    <3>1. Cardinality(1 .. Len(turns_)) = Len(turns_)
      <4>1. 1 \in Int /\ Len(turns_) \in Int
        BY <1>1
      <4>2. Cardinality(1 .. Len(turns_)) = IF 1 > Len(turns_) THEN 0 ELSE Len(turns_) - 1 + 1
        BY <4>1, FS_Interval
      <4> QED
        BY <1>1, <4>2
    <3> QED
      BY <2>1, <3>1 DEF n
  <2>3. s \in [1 .. n -> 1 .. n]
    BY <1>16, <2>2
  <2>4. \A k \in 1 .. n : s[k] = k
    BY <1>2, <1>12, <2>3, RisingIsIdentity
  <2>5. \A k \in 1 .. n : h[k] = turns_[k]
    BY <1>15, <2>4
  <2> QED
    BY <1>15, <2>2, <2>5
<1>19. \E r_ \in [1 .. Len(h) -> 1 .. Len(turns_)] :
          /\ \A i, j \in 1 .. Len(h) : i # j => r_[i] # r_[j]
          /\ \A k \in 1 .. Len(h) : h[k] = turns_[r_[k]]
  BY <1>15, <1>16, <1>17
<1> QED
  BY <1>15, <1>18, <1>19 DEF h

(* How often a question is in a conversation.                              *)
LEMMA AskedIsFinite ==
  ASSUME NEW A, NEW s \in Seq(A), NEW m
  PROVE  IsFiniteSet(AskedAt(s, m)) /\ Cardinality(AskedAt(s, m)) \in Nat
<1>1. IsFiniteSet(1 .. Len(s)) /\ AskedAt(s, m) \in SUBSET (1 .. Len(s))
  BY FS_Interval DEF AskedAt
<1>2. IsFiniteSet(AskedAt(s, m))
  BY <1>1, FS_Subset
<1> QED
  BY <1>2, FS_CardinalityType

LEMMA AskedAppend ==
  ASSUME NEW A, NEW s \in Seq(A), NEW e \in A, NEW m
  PROVE  /\ e = Conversation!Said("user", m) =>
              Cardinality(AskedAt(Append(s, e), m)) = Cardinality(AskedAt(s, m)) + 1
         /\ e # Conversation!Said("user", m) => AskedAt(Append(s, e), m) = AskedAt(s, m)
<1> DEFINE n == Len(s)
           u == Append(s, e)
<1>1. n \in Nat /\ Len(u) = n + 1 /\ u[n + 1] = e /\ \A k \in 1 .. n : u[k] = s[k]
  OBVIOUS
<1> HIDE DEF n, u
<1>2. n + 1 \notin AskedAt(s, m)
  BY <1>1 DEF AskedAt, n
<1>3. CASE e = Conversation!Said("user", m)
  <2>1. AskedAt(u, m) = AskedAt(s, m) \cup {n + 1}
    <3>1. 1 .. n + 1 = (1 .. n) \cup {n + 1}
      BY <1>1
    <3> QED
      BY <1>1, <1>3, <3>1 DEF AskedAt, n
  <2>2. Cardinality(AskedAt(s, m) \cup {n + 1}) = Cardinality(AskedAt(s, m)) + 1
    <3>1. IsFiniteSet(AskedAt(s, m))
      BY AskedIsFinite
    <3> QED
      BY <1>2, <3>1, FS_AddElement
  <2> QED
    BY <1>3, <2>1, <2>2 DEF u
<1>4. CASE e # Conversation!Said("user", m)
  <2>1. 1 .. n + 1 = (1 .. n) \cup {n + 1}
    BY <1>1
  <2>2. AskedAt(u, m) = AskedAt(s, m)
    BY <1>1, <1>4, <2>1 DEF AskedAt, n
  <2> QED
    BY <1>4, <2>2 DEF u
<1> QED
  BY <1>3, <1>4

(* Places that are read one by one from other places hold no more.         *)
LEMMA AskedNoOftener ==
  ASSUME NEW A, NEW c \in Seq(A), NEW d \in Seq(A), NEW m,
         NEW f \in [1 .. Len(c) -> 1 .. Len(d)],
         \A i, j \in 1 .. Len(c) : i # j => f[i] # f[j],
         \A k \in 1 .. Len(c) : c[k] = d[f[k]]
  PROVE  Cardinality(AskedAt(c, m)) <= Cardinality(AskedAt(d, m))
<1> DEFINE g == [k \in AskedAt(c, m) |-> f[k]]
<1>1. g \in [AskedAt(c, m) -> AskedAt(d, m)]
  BY DEF AskedAt
<1>2. g \in Injection(AskedAt(c, m), AskedAt(d, m))
  BY <1>1 DEF AskedAt, Injection, IsInjective
<1>3. IsFiniteSet(AskedAt(d, m))
  BY AskedIsFinite
<1> QED
  BY <1>2, <1>3, FS_Injection

-----------------------------------------------------------------------------
(* The stored conversation.                                                *)

LEMMA StoredGrows ==
  ASSUME AgentInv, StoredInv, agent.at \in {"user", "assistant"}
  PROVE  LET s == Append(stored, Conversation!Said(agent.at, message))
         IN  /\ s \in Seq(StoredTurn) /\ s # stored
             /\ Chronicle(s, message)
             /\ Cardinality(AskedAt(s, message)) <= cuts + 1
             /\ s[Len(s)].role = agent.at /\ Len(s) > 0
<1> DEFINE e == Conversation!Said(agent.at, message)
           s == Append(stored, e)
           n == Len(stored)
<1>1. /\ e \in StoredTurn /\ e.role = agent.at /\ e.text = message
      /\ message \in Int /\ cuts \in Int
  BY ConversationBounds DEF AgentInv, StoredTurn, Conversation!Said
<1>2. stored \in Seq(StoredTurn)
  BY DEF AgentInv
<1>3. agent.at = "assistant" <=> e # Conversation!Said("user", message)
  BY <1>1 DEF Conversation!Said
<1> HIDE DEF e
<1>4. /\ n \in Nat /\ s \in Seq(StoredTurn) /\ Len(s) = n + 1
      /\ s[n + 1] = e /\ \A k \in 1 .. n : s[k] = stored[k]
  BY <1>1, <1>2
<1>5. s # stored
  BY <1>4
<1>6. Chronicle(s, message)
  <2> SUFFICES ASSUME NEW k \in 1 .. Len(s)
               PROVE  /\ s[k].text <= message
                      /\ s[k].role = "assistant" => k > 1 /\ s[k - 1].role = "user"
    BY DEF Chronicle
  <2> HIDE DEF s, n
  <2>1. CASE k = n + 1
    <3>1. message <= message
      BY <1>1
    <3>2. agent.at = "assistant" => n > 0 /\ stored[n].role = "user"
      BY DEF StoredInv, n
    <3>3. n > 0 => n \in 1 .. n /\ k > 1 /\ k - 1 = n
      BY <1>4, <2>1
    <3> QED
      BY <1>1, <1>4, <2>1, <3>1, <3>2, <3>3
  <2>2. CASE k # n + 1
    <3>1. k \in 1 .. n /\ (k > 1 => k - 1 \in 1 .. n)
      BY <1>4, <2>2
    <3>2. /\ stored[k].text <= message
          /\ stored[k].role = "assistant" => k > 1 /\ stored[k - 1].role = "user"
      <4>1. Chronicle(stored, message) /\ k \in 1 .. Len(stored)
        BY <3>1 DEF StoredInv, n
      <4> QED
        BY <4>1 DEF Chronicle
    <3> QED
      BY <1>4, <3>1, <3>2
  <2> QED
    BY <2>1, <2>2
<1>7. Cardinality(AskedAt(s, message)) <= cuts + 1
  <2>1. Cardinality(AskedAt(stored, message)) \in Nat
    BY <1>2, AskedIsFinite
  <2>2. CASE agent.at = "user"
    <3>1. Cardinality(AskedAt(s, message)) = Cardinality(AskedAt(stored, message)) + 1
      BY <1>1, <1>2, <1>3, <2>2, AskedAppend
    <3>2. Cardinality(AskedAt(stored, message)) <= cuts
      BY <2>2 DEF StoredInv
    <3> QED
      BY <1>1, <2>1, <3>1, <3>2
  <2>3. CASE agent.at = "assistant"
    <3>1. AskedAt(s, message) = AskedAt(stored, message)
      BY <1>1, <1>2, <1>3, <2>3, AskedAppend
    <3>2. Cardinality(AskedAt(stored, message)) <= cuts + 1
      BY <2>3 DEF StoredInv
    <3> QED
      BY <3>1, <3>2
  <2> QED
    BY <2>2, <2>3
<1> QED
  BY <1>1, <1>4, <1>5, <1>6, <1>7 DEF e

(* Nobody has asked the next question yet.                                 *)
LEMMA NextIsNew ==
  ASSUME NEW s \in Seq(StoredTurn), NEW m \in Nat, Chronicle(s, m)
  PROVE  Chronicle(s, m + 1) /\ Cardinality(AskedAt(s, m + 1)) = 0
<1>1. \A k \in 1 .. Len(s) : s[k].text \in Int /\ s[k].text <= m
  <2> TAKE k \in 1 .. Len(s)
  <2>1. s[k] \in StoredTurn
    OBVIOUS
  <2>2. s[k].text \in 1 .. MaxMessages
    BY <2>1 DEF StoredTurn
  <2>3. s[k].text <= m
    BY DEF Chronicle
  <2> QED
    BY <2>2, <2>3
<1>2. \A k \in 1 .. Len(s) : s[k].text <= m + 1 /\ s[k].text # m + 1
  BY <1>1
<1>3. AskedAt(s, m + 1) = {}
  BY <1>2 DEF AskedAt, Conversation!Said
<1> QED
  BY <1>2, <1>3, FS_EmptySet DEF Chronicle

(* What an error, a deadline or a kill leaves, wherever it comes.          *)
LEMMA FailMeans ==
  ASSUME AgentInv, StoredInv, Conversation!Fail
  PROVE  /\ stored' \in Seq(StoredTurn) /\ Chronicle(stored', message)
         /\ agent' = Conversation!Resting /\ ran' = <<>>
         /\ \/ /\ message' = message /\ tries' = tries /\ cuts' \in 0 .. tries
               /\ Cardinality(AskedAt(stored', message)) <= cuts'
            \/ message' = message + 1 /\ tries' = 0 /\ cuts' = 0
<1>1. /\ stored \in Seq(StoredTurn) /\ Chronicle(stored, message)
      /\ cuts \in Nat /\ tries \in Nat /\ cuts < tries /\ tries <= MaxTries
  BY ConversationBounds DEF AgentInv, StoredInv, Conversation!Fail
<1>2. /\ agent.at # "rest" /\ agent' = Conversation!Resting /\ ran' = <<>>
      /\ \/ stored' = stored
         \/ /\ agent.at \in {"user", "assistant"}
            /\ stored' = Append(stored, Conversation!Said(agent.at, message))
      /\ IF tries < MaxTries
         THEN /\ cuts' = IF stored' # stored \/ agent.at \in {"assistant", "reply"}
                         THEN cuts + 1 ELSE cuts
              /\ message' = message /\ tries' = tries
         ELSE message' = message + 1 /\ tries' = 0 /\ cuts' = 0
  BY DEF Conversation!Fail, Conversation!Ends, Conversation!NextMessage
<1>3. /\ stored' \in Seq(StoredTurn) /\ Chronicle(stored', message)
      /\ Cardinality(AskedAt(stored', message)) <= cuts + 1
      /\ (stored' = stored /\ agent.at \notin {"assistant", "reply"})
            => Cardinality(AskedAt(stored', message)) <= cuts
  <2>1. CASE stored' = stored
    <3>1. Cardinality(AskedAt(stored, message)) \in Nat
      BY <1>1, AskedIsFinite
    <3>2. Cardinality(AskedAt(stored, message))
            <= IF agent.at \in {"assistant", "reply"} THEN cuts + 1 ELSE cuts
      BY DEF StoredInv
    <3>3. Cardinality(AskedAt(stored, message)) <= cuts + 1
      BY <1>1, <3>1, <3>2
    <3> QED
      BY <1>1, <2>1, <3>2, <3>3
  <2>2. CASE stored' # stored
    BY <1>2, <2>2, StoredGrows
  <2> QED
    BY <2>1, <2>2
<1>4. CASE tries < MaxTries
  <2>1. cuts' \in 0 .. tries
    BY <1>1, <1>2, <1>4
  <2>2. Cardinality(AskedAt(stored', message)) <= cuts'
    BY <1>2, <1>3, <1>4
  <2> QED
    BY <1>2, <1>3, <1>4, <2>1, <2>2
<1>5. CASE ~(tries < MaxTries)
  BY <1>2, <1>3, <1>5
<1> QED
  BY <1>4, <1>5

LEMMA NextKeepsStored ==
  ASSUME AgentInv, StoredInv, [Conversation!Next]_assistantVars
  PROVE  StoredInv'
<1>1. stored \in Seq(StoredTurn) /\ message \in Nat /\ Chronicle(stored, message)
  BY ConversationBounds DEF AgentInv, StoredInv
<1>2. CASE UNCHANGED <<stored, message, cuts>>
           /\ \/ agent' = agent
              \/ /\ agent.at \in {"rest", "ask", "tools"}
                 /\ agent'.at \in {"ask", "tools", "spent", "user"}
  BY <1>2 DEF StoredInv
<1>3. DOMAIN agent = {"at", "contents", "round", "calls", "results"}
  BY DEF AgentInv
<1>4. CASE Conversation!Begin
  BY <1>2, <1>3, <1>4 DEF Conversation!Begin
<1>5. CASE Conversation!Generate
  <2>1. agent.at = "ask" /\ agent'.at \in {"tools", "user"} /\ UNCHANGED <<stored, message, cuts>>
    BY <1>3, <1>5 DEF Conversation!Generate
  <2> QED
    BY <1>2, <2>1
<1>6. CASE Conversation!RunTool
  <2>1. agent.at = "tools" /\ UNCHANGED <<stored, message, cuts>>
    BY <1>6 DEF Conversation!RunTool
  <2>2. agent'.at \in {"tools", "ask", "spent"}
    BY <1>3, <1>6, <2>1 DEF Conversation!RunTool
  <2> QED
    BY <1>2, <2>1, <2>2
<1>7. CASE Conversation!AppendUser
  <2>1. /\ agent.at = "user" /\ agent'.at = "assistant" /\ UNCHANGED <<message, cuts>>
        /\ stored' = Append(stored, Conversation!Said(agent.at, message))
    BY <1>3, <1>7 DEF Conversation!AppendUser
  <2> QED
    BY <2>1, StoredGrows DEF StoredInv
<1>8. CASE Conversation!AppendAssistant
  <2>1. /\ agent.at = "assistant" /\ agent'.at = "reply" /\ UNCHANGED <<message, cuts>>
        /\ stored' = Append(stored, Conversation!Said(agent.at, message))
    BY <1>3, <1>8 DEF Conversation!AppendAssistant
  <2> QED
    BY <2>1, StoredGrows DEF StoredInv
<1>9. CASE Conversation!Reply
  <2>1. agent'.at = "rest" /\ stored' = stored /\ message' = message + 1 /\ cuts' = 0
    BY <1>9 DEF Conversation!Reply, Conversation!NextMessage, Conversation!Ends,
                Conversation!Resting
  <2>2. Chronicle(stored, message + 1) /\ Cardinality(AskedAt(stored, message + 1)) = 0
    BY <1>1, NextIsNew
  <2> QED
    BY <2>1, <2>2 DEF StoredInv
<1>10. CASE Conversation!Fail
  <2>1. /\ stored' \in Seq(StoredTurn) /\ Chronicle(stored', message) /\ agent'.at = "rest"
        /\ \/ message' = message /\ Cardinality(AskedAt(stored', message)) <= cuts'
           \/ message' = message + 1 /\ cuts' = 0
    BY <1>10, FailMeans DEF Conversation!Resting
  <2>2. Chronicle(stored', message + 1) /\ Cardinality(AskedAt(stored', message + 1)) = 0
    BY <1>1, <2>1, NextIsNew
  <2> QED
    BY <2>1, <2>2 DEF StoredInv
<1>11. CASE UNCHANGED assistantVars
  BY <1>2, <1>11 DEF assistantVars
<1> QED
  BY <1>4, <1>5, <1>6, <1>7, <1>8, <1>9, <1>10, <1>11 DEF Conversation!Next

LEMMA NextKeepsAgent ==
  ASSUME AgentInv, StoredInv, [Conversation!Next]_assistantVars
  PROVE  AgentInv'
<1>1. /\ stored \in Seq(StoredTurn) /\ message \in 1 .. MaxMessages + 1
      /\ tries \in Nat /\ tries <= MaxTries /\ cuts \in Nat /\ cuts <= tries
      /\ DOMAIN agent = {"at", "contents", "round", "calls", "results"}
      /\ agent.round \in Nat /\ agent.round <= MaxToolRounds
      /\ agent.at # "spent" => agent.round < MaxToolRounds
      /\ agent.at = "rest" => agent = Conversation!Resting /\ ran = <<>>
      /\ agent.at # "rest" => message <= MaxMessages /\ cuts < tries
  BY ConversationBounds DEF AgentInv
<1>2. /\ MaxMessages \in Nat /\ MaxTries \in Nat /\ MaxToolRounds \in Nat /\ MaxToolRounds > 0
  BY ConversationBounds
<1>3. ASSUME stored' \in Seq(StoredTurn), message' = message, tries' = tries, cuts' = cuts,
             DOMAIN agent' = {"at", "contents", "round", "calls", "results"},
             agent'.at \in {"ask", "tools", "spent", "user", "assistant", "reply"},
             agent'.round \in 0 .. MaxToolRounds,
             agent'.at # "spent" => agent'.round < MaxToolRounds,
             agent.at # "rest"
      PROVE  AgentInv'
  BY <1>1, <1>3 DEF AgentInv
<1>4. ASSUME stored' \in Seq(StoredTurn), message' \in 1 .. MaxMessages + 1,
             tries' \in 0 .. MaxTries, cuts' \in 0 .. tries',
             agent' = Conversation!Resting, ran' = <<>>
      PROVE  AgentInv'
  BY <1>2, <1>4 DEF AgentInv, Conversation!Resting
<1>5. CASE Conversation!Begin
  <2>1. /\ agent.at = "rest" /\ tries < MaxTries /\ message <= MaxMessages
        /\ DOMAIN agent' = {"at", "contents", "round", "calls", "results"}
        /\ agent'.at = "ask" /\ agent'.round = agent.round
        /\ tries' = tries + 1 /\ UNCHANGED <<stored, message, cuts>>
    BY <1>1, <1>5 DEF Conversation!Begin
  <2>2. tries' \in 0 .. MaxTries /\ cuts' \in 0 .. tries' /\ cuts' < tries'
    BY <1>1, <1>2, <2>1
  <2>3. agent'.round \in 0 .. MaxToolRounds /\ agent'.round < MaxToolRounds
    BY <1>1, <1>2, <2>1
  <2> QED
    BY <1>1, <2>1, <2>2, <2>3 DEF AgentInv
<1>6. CASE Conversation!Generate
  <2>1. /\ agent.at = "ask" /\ UNCHANGED <<stored, message, tries, cuts>>
        /\ DOMAIN agent' = {"at", "contents", "round", "calls", "results"}
        /\ agent'.at \in {"tools", "user"} /\ agent'.round = agent.round
    BY <1>1, <1>6 DEF Conversation!Generate
  <2> QED
    BY <1>1, <1>2, <1>3, <2>1
<1>7. CASE Conversation!RunTool
  <2>1. agent.at = "tools" /\ UNCHANGED <<stored, message, tries, cuts>>
    BY <1>7 DEF Conversation!RunTool
  <2>2. /\ DOMAIN agent' = {"at", "contents", "round", "calls", "results"}
        /\ \/ agent'.at = "tools" /\ agent'.round = agent.round
           \/ /\ agent'.at = IF agent.round + 1 < MaxToolRounds THEN "ask" ELSE "spent"
              /\ agent'.round = agent.round + 1
    BY <1>1, <1>7, <2>1 DEF Conversation!RunTool
  <2>3. agent'.round \in 0 .. MaxToolRounds /\ (agent'.at # "spent" => agent'.round < MaxToolRounds)
    BY <1>1, <1>2, <2>1, <2>2
  <2> QED
    BY <1>1, <1>3, <2>1, <2>2, <2>3
<1>8. CASE Conversation!AppendUser \/ Conversation!AppendAssistant
  <2>1. /\ agent.at \in {"user", "assistant"} /\ UNCHANGED <<message, tries, cuts>>
        /\ stored' = Append(stored, Conversation!Said(agent.at, message))
        /\ DOMAIN agent' = {"at", "contents", "round", "calls", "results"}
        /\ agent'.at \in {"assistant", "reply"} /\ agent'.round = agent.round
    BY <1>1, <1>8 DEF Conversation!AppendUser, Conversation!AppendAssistant
  <2>2. stored' \in Seq(StoredTurn)
    BY <2>1, StoredGrows
  <2>3. agent'.round \in 0 .. MaxToolRounds /\ agent'.round < MaxToolRounds
    BY <1>1, <1>2, <2>1
  <2> QED
    BY <1>3, <2>1, <2>2, <2>3
<1>9. CASE Conversation!Reply
  <2>1. /\ agent.at = "reply" /\ stored' = stored
        /\ message' = message + 1 /\ tries' = 0 /\ cuts' = 0
        /\ agent' = Conversation!Resting /\ ran' = <<>>
    BY <1>9 DEF Conversation!Reply, Conversation!NextMessage, Conversation!Ends
  <2>2. message' \in 1 .. MaxMessages + 1 /\ tries' \in 0 .. MaxTries /\ cuts' \in 0 .. tries'
    BY <1>1, <1>2, <2>1
  <2> QED
    BY <1>1, <1>4, <2>1, <2>2
<1>10. CASE Conversation!Fail
  <2>1. /\ stored' \in Seq(StoredTurn) /\ agent' = Conversation!Resting /\ ran' = <<>>
        /\ \/ message' = message /\ tries' = tries /\ cuts' \in 0 .. tries
           \/ message' = message + 1 /\ tries' = 0 /\ cuts' = 0
    BY <1>10, FailMeans
  <2>2. agent.at # "rest"
    BY <1>10 DEF Conversation!Fail
  <2>3. message' \in 1 .. MaxMessages + 1 /\ tries' \in 0 .. MaxTries /\ cuts' \in 0 .. tries'
    BY <1>1, <1>2, <2>1, <2>2
  <2> QED
    BY <1>4, <2>1, <2>3
<1>11. CASE UNCHANGED assistantVars
  BY <1>11 DEF assistantVars, AgentInv
<1> QED
  BY <1>5, <1>6, <1>7, <1>8, <1>9, <1>10, <1>11 DEF Conversation!Next

-----------------------------------------------------------------------------
(* What the model is sent.                                                 *)

Window == Conversation!LoadRecent(stored)

(* The first place of the window is an odd one of what is stored, where    *)
(* that is a whole number of exchanges.                                    *)
Cut0 == IF Len(stored) > ShortTermLimit THEN Len(stored) - ShortTermLimit ELSE 0

LEMMA WindowMeans ==
  ASSUME AgentInv
  PROVE  /\ Cut0 \in Nat /\ Cut0 <= Len(stored) /\ Len(stored) \in Nat
         /\ Window \in Seq(StoredTurn) /\ Len(Window) = Len(stored) - Cut0
         /\ \A k \in 1 .. Len(Window) : Window[k] = stored[Cut0 + k]
<1>1. Len(stored) \in Nat /\ ShortTermLimit \in Nat /\ stored \in Seq(StoredTurn)
  BY ConversationBounds DEF AgentInv
<1>2. Cut0 \in Nat /\ Cut0 <= Len(stored)
  BY <1>1 DEF Cut0
<1>3. Window = SubSeq(stored, 1 + Cut0, Len(stored))
  BY DEF Window, Conversation!LoadRecent, Conversation!Newest, Cut0
<1>4. Len(Window) = Len(stored) - Cut0
  BY <1>1, <1>2, <1>3
<1>5. Window \in Seq(StoredTurn)
  BY <1>1, <1>2, <1>3
<1>6. ASSUME NEW k \in 1 .. Len(Window) PROVE Window[k] = stored[Cut0 + k]
  <2>1. Window[k] = stored[1 + Cut0 + k - 1]
    BY <1>1, <1>2, <1>3, <1>4
  <2>2. 1 + Cut0 + k - 1 = Cut0 + k
    BY <1>1, <1>2, <1>4
  <2> QED
    BY <2>1, <2>2
<1> QED
  BY <1>1, <1>2, <1>4, <1>5, <1>6

LEMMA Parity ==
  ASSUME NEW a \in Nat, NEW b \in Nat
  PROVE  /\ a % 2 = 1 <=> ~((a + 1) % 2 = 1)
         /\ a % 2 = 0 <=> ~(a % 2 = 1)
         /\ a % 2 = 0 => (a + b) % 2 = b % 2
         /\ a % 2 = 0 /\ b % 2 = 0 /\ b <= a => (a - b) % 2 = 0
<1>1. a % 2 \in {0, 1} /\ (a + 1) % 2 = 1 - (a % 2)
  OBVIOUS
<1>2. ASSUME a % 2 = 0 PROVE (a + b) % 2 = b % 2
  BY <1>2
<1>3. ASSUME a % 2 = 0, b % 2 = 0, b <= a PROVE (a - b) % 2 = 0
  BY <1>3
<1> QED
  BY <1>1, <1>2, <1>3

(* Whole exchanges: questions at the odd places, answers at the even ones. *)
LEMMA WholeExchanges ==
  ASSUME AgentInv, StoredInv, \A k \in DOMAIN stored : ~Conversation!Orphan(k)
  PROVE  /\ Len(stored) % 2 = 0
         /\ \A k \in 1 .. Len(stored) : stored[k].role = IF k % 2 = 1 THEN "user" ELSE "assistant"
<1> DEFINE n == Len(stored)
           asked(k) == stored[k].role = "user"
<1>1. n \in Nat /\ DOMAIN stored = 1 .. n
  BY DEF AgentInv
<1>2. \A k \in 1 .. n : stored[k].role = IF asked(k) THEN "user" ELSE "assistant"
  <2> TAKE k \in 1 .. n
  <2>1. stored[k] \in StoredTurn
    BY DEF AgentInv
  <2>2. stored[k].role \in {"user", "assistant"}
    BY <2>1 DEF StoredTurn
  <2> QED
    BY <2>2
<1>3. \A k \in 1 .. n : ~asked(k) => k > 1 /\ asked(k - 1)
  <2>1. Chronicle(stored, message)
    BY DEF StoredInv
  <2> QED
    BY <1>2, <2>1 DEF Chronicle
<1>4. \A k \in 1 .. n : asked(k) => k # n /\ ~asked(k + 1)
  BY <1>1 DEF Conversation!Orphan
<1> HIDE DEF n, asked
<1>5. \A k \in 1 .. n : asked(k) <=> k % 2 = 1
  <2> DEFINE N == {k \in 1 .. n : ~(asked(k) <=> k % 2 = 1)}
  <2> SUFFICES ASSUME N # {} PROVE FALSE
    OBVIOUS
  <2>1. N \in SUBSET Nat
    BY <1>1
  <2>2. PICK k \in N : \A l \in N : k <= l
    BY <2>1, LeastNatural
  <2>3. k \in 1 .. n /\ ~(asked(k) <=> k % 2 = 1)
    BY <2>2
  <2>4. k # 1
    <3>1. 1 % 2 = 1
      OBVIOUS
    <3> QED
      BY <1>3, <2>3, <3>1
  <2>5. k - 1 \in 1 .. n /\ k - 1 \notin N /\ k - 1 # n /\ k - 1 + 1 = k
    <3>1. k - 1 \in 1 .. n /\ ~(k <= k - 1) /\ k - 1 # n /\ k - 1 + 1 = k
      BY <1>1, <2>3, <2>4
    <3> QED
      BY <2>2, <3>1
  <2>6. asked(k - 1) <=> (k - 1) % 2 = 1
    BY <2>5
  <2>7. asked(k - 1) <=> ~asked(k)
    <3>1. asked(k - 1) => ~asked(k)
      BY <1>4, <2>5
    <3>2. ~asked(k) => asked(k - 1)
      BY <1>3, <2>3
    <3> QED
      BY <3>1, <3>2
  <2>8. (k - 1) % 2 = 1 <=> ~(k % 2 = 1)
    BY <2>3
  <2> QED
    BY <2>3, <2>6, <2>7, <2>8
<1>6. n % 2 = 0
  <2>1. CASE n = 0
    BY <2>1
  <2>2. CASE n > 0
    <3>1. n \in 1 .. n
      BY <1>1, <2>2
    <3>2. ~(n % 2 = 1)
      BY <1>4, <1>5, <3>1
    <3> QED
      BY <1>1, <3>2
  <2> QED
    BY <1>1, <2>1, <2>2
<1>7. \A k \in 1 .. n : stored[k].role = IF k % 2 = 1 THEN "user" ELSE "assistant"
  BY <1>2, <1>5
<1> QED
  BY <1>6, <1>7 DEF n

(* What Begin sends: the recent turns and the question.                    *)
Opening == Append(Window, Conversation!Said("user", message))

LEMMA OpeningMeans ==
  ASSUME AgentInv, message <= MaxMessages
  PROVE  /\ Opening \in Seq(StoredTurn) /\ Len(Opening) = Len(Window) + 1
         /\ Len(Window) \in Nat
         /\ Opening[Len(Window) + 1] = Conversation!Said("user", message)
         /\ \A k \in 1 .. Len(Window) : Opening[k] = stored[Cut0 + k]
         /\ Cardinality(AskedAt(Opening, message)) <= Cardinality(AskedAt(stored, message)) + 1
<1>1. /\ Cut0 \in Nat /\ Cut0 <= Len(stored) /\ Len(stored) \in Nat
      /\ Window \in Seq(StoredTurn) /\ Len(Window) = Len(stored) - Cut0
      /\ \A k \in 1 .. Len(Window) : Window[k] = stored[Cut0 + k]
  BY WindowMeans
<1>2. Conversation!Said("user", message) \in StoredTurn
  BY ConversationBounds DEF AgentInv, StoredTurn, Conversation!Said
<1>3. stored \in Seq(StoredTurn)
  BY DEF AgentInv
<1>4. Cardinality(AskedAt(Window, message)) <= Cardinality(AskedAt(stored, message))
  <2> DEFINE f == [k \in 1 .. Len(Window) |-> Cut0 + k]
  <2>1. \A k \in 1 .. Len(Window) : Cut0 + k \in 1 .. Len(stored)
    BY <1>1
  <2>2. f \in [1 .. Len(Window) -> 1 .. Len(stored)]
    BY <2>1
  <2>3. \A i, j \in 1 .. Len(Window) : i # j => f[i] # f[j]
    BY <1>1
  <2>4. \A k \in 1 .. Len(Window) : Window[k] = stored[f[k]]
    BY <1>1
  <2> HIDE DEF f
  <2> QED
    BY <1>1, <1>3, <2>2, <2>3, <2>4, AskedNoOftener
<1>5. Cardinality(AskedAt(Opening, message)) = Cardinality(AskedAt(Window, message)) + 1
  BY <1>1, <1>2, AskedAppend DEF Opening
<1>6. /\ Cardinality(AskedAt(Window, message)) \in Nat
      /\ Cardinality(AskedAt(stored, message)) \in Nat
  BY <1>1, <1>3, AskedIsFinite
<1>7. Cardinality(AskedAt(Opening, message)) <= Cardinality(AskedAt(stored, message)) + 1
  BY <1>4, <1>5, <1>6
<1>8. /\ Opening \in Seq(StoredTurn) /\ Len(Opening) = Len(Window) + 1 /\ Len(Window) \in Nat
      /\ Opening[Len(Window) + 1] = Conversation!Said("user", message)
      /\ \A k \in 1 .. Len(Window) : Opening[k] = Window[k]
  BY <1>1, <1>2 DEF Opening
<1> QED
  BY <1>1, <1>7, <1>8

LEMMA OpeningTakesTurns ==
  ASSUME AgentInv, StoredInv, message <= MaxMessages, WholeAndWritten
  PROVE  TakesTurns(Opening) /\ \A k \in 1 .. Len(Opening) : Opening[k].text \notin Blank
<1> DEFINE n == Len(Window)
<1>1. /\ Cut0 \in Nat /\ Cut0 <= Len(stored) /\ Len(stored) \in Nat /\ n = Len(stored) - Cut0
      /\ Opening[n + 1].role = "user" /\ Opening[n + 1].text = message
      /\ Len(Opening) = n + 1 /\ n \in Nat
      /\ \A k \in 1 .. n : Opening[k] = stored[Cut0 + k]
  BY WindowMeans, OpeningMeans DEF Conversation!Said
<1>2. /\ Len(stored) % 2 = 0
      /\ \A k \in 1 .. Len(stored) : stored[k].role = IF k % 2 = 1 THEN "user" ELSE "assistant"
  BY WholeExchanges DEF WholeAndWritten
<1>3. \A k \in 1 .. Len(stored) : stored[k].text \notin Blank
  BY <1>1 DEF WholeAndWritten, AgentInv
<1> HIDE DEF n
<1>4. Cut0 % 2 = 0 /\ n % 2 = 0
  <2>1. Cut0 % 2 = 0
    <3>1. CASE Len(stored) > ShortTermLimit
      <4>1. /\ Cut0 = Len(stored) - ShortTermLimit /\ ShortTermLimit <= Len(stored)
            /\ ShortTermLimit \in Nat /\ ShortTermLimit % 2 = 0
        BY <1>1, <3>1, ConversationBounds DEF Cut0
      <4> QED
        BY <1>1, <1>2, <4>1, Parity
    <3>2. CASE ~(Len(stored) > ShortTermLimit)
      BY <3>2 DEF Cut0
    <3> QED
      BY <3>1, <3>2
  <2> QED
    BY <1>1, <1>2, <2>1, Parity
<1>5. \A k \in 1 .. n : Cut0 + k \in 1 .. Len(stored)
  BY <1>1
<1>6. \A k \in 1 .. n : (Cut0 + k) % 2 = 1 <=> k % 2 = 1
  <2> TAKE k \in 1 .. n
  <2>1. k \in Nat
    OBVIOUS
  <2> QED
    BY <1>1, <1>4, <2>1, Parity
<1>7. \A k \in 1 .. n : Opening[k].role = IF k % 2 = 1 THEN "user" ELSE "assistant"
  <2> TAKE k \in 1 .. n
  <2>1. stored[Cut0 + k].role = IF (Cut0 + k) % 2 = 1 THEN "user" ELSE "assistant"
    BY <1>2, <1>5
  <2> QED
    BY <1>1, <1>6, <2>1
<1>8. (n + 1) % 2 = 1
  BY <1>1, <1>4, Parity
<1>9. \A k \in 1 .. n + 1 : Opening[k].role = IF k % 2 = 1 THEN "user" ELSE "assistant"
  <2> TAKE k \in 1 .. n + 1
  <2>1. k \in 1 .. n \/ k = n + 1
    BY <1>1
  <2> QED
    BY <1>1, <1>7, <1>8, <2>1
<1>10. \A k \in 1 .. n : Opening[k].role # Opening[k + 1].role
  <2> TAKE k \in 1 .. n
  <2>1. k \in 1 .. n + 1 /\ k + 1 \in 1 .. n + 1 /\ (k % 2 = 1 <=> ~((k + 1) % 2 = 1))
    <3>1. k \in Nat /\ k \in 1 .. n + 1 /\ k + 1 \in 1 .. n + 1
      BY <1>1
    <3> QED
      BY <3>1, Parity
  <2> QED
    BY <1>9, <2>1
<1>11. Opening[1].role = "user" /\ Len(Opening) > 0 /\ Len(Opening) - 1 = n
  <2>1. 1 \in 1 .. n + 1 /\ 1 % 2 = 1 /\ n + 1 > 0 /\ n + 1 - 1 = n
    BY <1>1
  <2> QED
    BY <1>1, <1>9, <2>1
<1>12. \A k \in 1 .. n + 1 : Opening[k].text \notin Blank
  <2> TAKE k \in 1 .. n + 1
  <2>1. k \in 1 .. n \/ k = n + 1
    BY <1>1
  <2> QED
    BY <1>1, <1>3, <1>5, <2>1 DEF WholeAndWritten
<1> QED
  BY <1>1, <1>10, <1>11, <1>12 DEF TakesTurns

LEMMA BeginKeepsSent ==
  ASSUME AgentInv, StoredInv, Conversation!Begin
  PROVE  SentInv' /\ RoundsInv' /\ ToolsInv'
<1> DEFINE h == Conversation!historyToContents(Opening)
<1>1. /\ agent.at = "rest" /\ message <= MaxMessages /\ agent.round = 0 /\ ran = <<>>
      /\ agent'.at = "ask" /\ agent'.contents = h /\ agent'.round = agent.round
      /\ UNCHANGED <<stored, message, cuts, ran>>
  BY DEF Conversation!Begin, Opening, Window, AgentInv, Conversation!Resting
<1>2. /\ Opening \in Seq(StoredTurn)
      /\ Cardinality(AskedAt(Opening, message)) <= Cardinality(AskedAt(stored, message)) + 1
  BY <1>1, OpeningMeans
<1>3. /\ h \in Seq(StoredTurn)
      /\ (\A k \in 1 .. Len(Opening) : Opening[k].text \notin Blank) => h = Opening
      /\ \E s \in [1 .. Len(h) -> 1 .. Len(Opening)] :
                  /\ \A i, j \in 1 .. Len(h) : i # j => s[i] # s[j]
                  /\ \A k \in 1 .. Len(h) : h[k] = Opening[s[k]]
  BY <1>2, HistoryMeans
<1> HIDE DEF h
<1>4. Cardinality(AskedAt(h, message)) <= Cardinality(AskedAt(Opening, message))
  <2>1. PICK s \in [1 .. Len(h) -> 1 .. Len(Opening)] :
                  /\ \A i, j \in 1 .. Len(h) : i # j => s[i] # s[j]
                  /\ \A k \in 1 .. Len(h) : h[k] = Opening[s[k]]
    BY <1>3
  <2> QED
    BY <1>2, <1>3, <2>1, AskedNoOftener
<1>5. Cardinality(AskedAt(h, message)) <= 1 + cuts
  <2>1. stored \in Seq(StoredTurn) /\ cuts \in Int
    BY ConversationBounds DEF AgentInv
  <2>2. /\ Cardinality(AskedAt(h, message)) \in Nat
        /\ Cardinality(AskedAt(Opening, message)) \in Nat
        /\ Cardinality(AskedAt(stored, message)) \in Nat
    BY <1>2, <1>3, <2>1, AskedIsFinite
  <2>3. Cardinality(AskedAt(stored, message)) <= cuts
    BY <1>1 DEF StoredInv
  <2> QED
    BY <1>2, <1>4, <2>1, <2>2, <2>3
<1>6. WholeAndWritten => TakesTurns(h)
  BY <1>1, <1>3, OpeningTakesTurns
<1>7. WholeAndWritten' <=> WholeAndWritten
  BY <1>1 DEF WholeAndWritten, Conversation!Orphan
<1>8. h \in Seq(Content)
  BY <1>3 DEF Content
<1>9. SentInv'
  BY <1>1, <1>5, <1>6, <1>7, <1>8 DEF SentInv
<1>10. RoundsInv'
  <2>1. Len(agent'.contents) - 2 * agent'.round = Len(h) /\ Len(h) \in Nat
    BY <1>1, <1>3
  <2>2. \A k \in 1 .. Len(h) : h[k] \in StoredTurn
    BY <1>3
  <2>3. ran' \in Seq(Seq(ToolNames)) /\ Len(ran') = 0 /\ agent'.round = 0
    BY <1>1
  <2> QED
    BY <1>1, <1>8, <2>1, <2>2, <2>3 DEF RoundsInv
<1>11. ToolsInv'
  BY <1>1 DEF ToolsInv
<1> QED
  BY <1>9, <1>10, <1>11

(* What RunTool does with the model's call that is next.                   *)
NextCall == agent.calls[Len(agent.results) + 1]

LEMMA RunToolMeans ==
  ASSUME AgentInv, RoundsInv, ToolsInv, Conversation!RunTool
  PROVE  \E r \in Result :
           LET results == Append(agent.results, r)
               request  == [role |-> "model", calls |-> agent.calls]
               response == [role |-> "user", results |-> results]
           IN  /\ r.tool = NextCall
               /\ ran' = [ran EXCEPT ![agent.round + 1] = Append(@, NextCall)]
               /\ request \in Requests /\ response \in Responses
               /\ UNCHANGED <<stored, message, tries, cuts>>
               /\ agent.at = "tools"
               /\ \/ /\ Len(results) # Len(agent.calls)
                     /\ agent'.at = "tools" /\ agent'.round = agent.round
                     /\ agent'.contents = agent.contents
                     /\ agent'.calls = agent.calls /\ agent'.results = results
                  \/ /\ Len(results) = Len(agent.calls)
                     /\ agent'.at \in {"ask", "spent"} /\ agent'.round = agent.round + 1
                     /\ agent'.contents = Append(Append(agent.contents, request), response)
<1>1. /\ DOMAIN agent = {"at", "contents", "round", "calls", "results"}
      /\ agent.round \in Nat
  BY ConversationBounds DEF AgentInv
<1>2. PICK outcome \in {"output", "error"} :
        LET tool    == agent.calls[Len(agent.results) + 1]
            results == Append(agent.results, [tool |-> tool, outcome |-> outcome])
        IN  /\ ran' = [ran EXCEPT ![Len(ran)] = Append(@, tool)]
            /\ agent' =
                  IF ~Conversation!Answered(results) THEN [agent EXCEPT !.results = results]
                  ELSE [agent EXCEPT
                          !.at = IF agent.round + 1 < MaxToolRounds THEN "ask" ELSE "spent",
                          !.round = @ + 1,
                          !.contents = @ \o << [role |-> "model", calls |-> agent.calls],
                                               [role |-> "user", results |-> results] >>]
  BY DEF Conversation!RunTool
<1> DEFINE r == [tool |-> NextCall, outcome |-> outcome]
           results == Append(agent.results, r)
           request  == [role |-> "model", calls |-> agent.calls]
           response == [role |-> "user", results |-> results]
<1>3. /\ agent.at = "tools" /\ UNCHANGED <<stored, message, tries, cuts>>
  BY DEF Conversation!RunTool
<1>4. /\ agent.calls \in Seq(ToolNames) /\ agent.results \in Seq(Result)
      /\ Len(agent.results) < Len(agent.calls)
  BY <1>3 DEF ToolsInv
<1>5. NextCall \in ToolNames
  <2>1. Len(agent.results) + 1 \in 1 .. Len(agent.calls)
    BY <1>4
  <2> QED
    BY <1>4, <2>1 DEF NextCall
<1>6. r \in Result /\ r.tool = NextCall
  BY <1>5 DEF Result
<1>7. Len(ran) = agent.round + 1 /\ agent.contents \in Seq(Content)
  BY <1>3 DEF RoundsInv
<1>8. ran' = [ran EXCEPT ![agent.round + 1] = Append(@, NextCall)]
  BY <1>2, <1>7 DEF NextCall
<1>9. results \in Seq(Result)
  BY <1>4, <1>6
<1> HIDE DEF results, r
<1>10. request \in Requests /\ response \in Responses
  BY <1>4, <1>9 DEF Requests, Responses
<1>11. agent' = IF Len(results) # Len(agent.calls) THEN [agent EXCEPT !.results = results]
                ELSE [agent EXCEPT
                          !.at = IF agent.round + 1 < MaxToolRounds THEN "ask" ELSE "spent",
                          !.round = @ + 1,
                          !.contents = @ \o <<request, response>>]
  BY <1>2 DEF Conversation!Answered, NextCall, r, results
<1>12. agent.contents \o <<request, response>> = Append(Append(agent.contents, request), response)
  <2>1. request \in Content /\ response \in Content
    BY <1>10 DEF Content
  <2> HIDE DEF request, response
  <2> QED
    BY <1>7, <2>1
<1> HIDE DEF request, response
<1>13. CASE Len(results) # Len(agent.calls)
  <2>1. /\ agent'.at = "tools" /\ agent'.round = agent.round
        /\ agent'.contents = agent.contents
        /\ agent'.calls = agent.calls /\ agent'.results = results
    BY <1>1, <1>3, <1>11, <1>13
  <2> QED
    BY <1>3, <1>6, <1>8, <1>10, <1>13, <2>1 DEF request, response, results
<1>14. CASE Len(results) = Len(agent.calls)
  <2>1. /\ agent'.at \in {"ask", "spent"} /\ agent'.round = agent.round + 1
        /\ agent'.contents = Append(Append(agent.contents, request), response)
    BY <1>1, <1>11, <1>12, <1>14
  <2> QED
    BY <1>3, <1>6, <1>8, <1>10, <1>14, <2>1 DEF request, response, results
<1> QED
  BY <1>13, <1>14

(* A whole round more is no question more, and keeps the turns.            *)
LEMMA RoundMore ==
  ASSUME NEW c \in Seq(Content), NEW q \in Requests, NEW a \in Responses
  PROVE  LET d == Append(Append(c, q), a)
             n == Len(c)
         IN  /\ d \in Seq(Content) /\ n \in Nat /\ Len(d) = n + 2
             /\ d[n + 1] = q /\ d[n + 2] = a /\ \A k \in 1 .. n : d[k] = c[k]
             /\ \A m : AskedAt(d, m) = AskedAt(c, m)
             /\ TakesTurns(c) => TakesTurns(d)
<1> DEFINE b == Append(c, q)
           d == Append(b, a)
           n == Len(c)
<1>1. q \in Content /\ a \in Content /\ q.role = "model" /\ a.role = "user"
  BY DEF Content, Requests, Responses
<1>2. \A m : q # Conversation!Said("user", m) /\ a # Conversation!Said("user", m)
  <2> TAKE m
  <2>1. DOMAIN Conversation!Said("user", m) = {"role", "text"}
    BY DEF Conversation!Said
  <2>2. DOMAIN q = {"role", "calls"} /\ DOMAIN a = {"role", "results"}
    BY DEF Requests, Responses
  <2>3. "text" \notin {"role", "calls"} /\ "text" \notin {"role", "results"}
    OBVIOUS
  <2> QED
    BY <2>1, <2>2, <2>3
<1>3. b \in Seq(Content) /\ d \in Seq(Content)
  BY <1>1
<1>4. \A m : AskedAt(d, m) = AskedAt(c, m)
  <2> TAKE m
  <2>1. AskedAt(b, m) = AskedAt(c, m)
    BY <1>1, <1>2, AskedAppend
  <2> HIDE DEF b
  <2>2. AskedAt(d, m) = AskedAt(b, m)
    BY <1>1, <1>2, <1>3, AskedAppend
  <2> QED
    BY <2>1, <2>2
<1>5. n \in Nat /\ Len(d) = n + 2 /\ d[n + 1] = q /\ d[n + 2] = a /\ \A k \in 1 .. n : d[k] = c[k]
  <2>1. n \in Nat /\ Len(b) = n + 1 /\ b[n + 1] = q /\ \A k \in 1 .. n : b[k] = c[k]
    BY <1>1
  <2> HIDE DEF b
  <2>2. Len(d) = Len(b) + 1 /\ d[Len(b) + 1] = a /\ \A k \in 1 .. Len(b) : d[k] = b[k]
    BY <1>1, <1>3
  <2> HIDE DEF d, n
  <2>3. n + 1 \in 1 .. Len(b) /\ Len(b) + 1 = n + 2 /\ \A k \in 1 .. n : k \in 1 .. Len(b)
    BY <2>1
  <2> QED
    BY <2>1, <2>2, <2>3
<1> HIDE DEF b, d, n
<1>6. ASSUME TakesTurns(c) PROVE TakesTurns(d)
  <2>1. /\ n > 0 /\ c[1].role = "user" /\ c[n].role = "user"
        /\ \A k \in 1 .. n - 1 : c[k].role # c[k + 1].role
    BY <1>6 DEF TakesTurns, n
  <2>2. 1 \in 1 .. n /\ n \in 1 .. n
    BY <1>5, <2>1
  <2>3. d[1].role = "user" /\ d[n].role = "user" /\ d[n + 1].role = "model" /\ d[n + 2].role = "user"
    BY <1>1, <1>5, <2>1, <2>2
  <2>4. ASSUME NEW k \in 1 .. Len(d) - 1 PROVE d[k].role # d[k + 1].role
    <3>1. CASE k \in 1 .. n - 1
      <4>1. k \in 1 .. n /\ k + 1 \in 1 .. n
        BY <1>5, <3>1
      <4> QED
        BY <1>5, <2>1, <3>1, <4>1
    <3>2. CASE k = n
      BY <2>3, <3>2
    <3>3. CASE k = n + 1
      <4>1. k + 1 = n + 2
        BY <1>5, <3>3
      <4> QED
        BY <2>3, <3>3, <4>1
    <3> QED
      BY <1>5, <3>1, <3>2, <3>3
  <2>5. Len(d) > 0 /\ d[Len(d)].role = "user"
    BY <1>5, <2>3
  <2> QED
    BY <2>3, <2>4, <2>5 DEF TakesTurns
<1> QED
  BY <1>3, <1>4, <1>5, <1>6 DEF b, d, n

LEMMA NextKeepsSent ==
  ASSUME AgentInv, StoredInv, SentInv, RoundsInv, ToolsInv, [Conversation!Next]_assistantVars
  PROVE  SentInv'
<1>1. DOMAIN agent = {"at", "contents", "round", "calls", "results"}
  BY DEF AgentInv
<1>2. ASSUME UNCHANGED <<stored, message>> PROVE WholeAndWritten' <=> WholeAndWritten
  BY <1>2 DEF WholeAndWritten, Conversation!Orphan
<1>3. CASE /\ UNCHANGED <<stored, message, cuts>> /\ agent'.contents = agent.contents
           /\ agent.at \in {"ask", "tools"}
  BY <1>2, <1>3 DEF SentInv
<1>4. CASE agent'.at \notin {"ask", "tools"}
  BY <1>4 DEF SentInv
<1>5. CASE Conversation!Begin
  BY <1>5, BeginKeepsSent
<1>6. CASE Conversation!Generate
  <2>1. /\ agent.at = "ask" /\ UNCHANGED <<stored, message, cuts>>
        /\ agent'.contents = agent.contents
    BY <1>1, <1>6 DEF Conversation!Generate
  <2> QED
    BY <1>3, <2>1
<1>7. CASE Conversation!RunTool
  <2>1. PICK r \in Result :
           LET results == Append(agent.results, r)
               request  == [role |-> "model", calls |-> agent.calls]
               response == [role |-> "user", results |-> results]
           IN  /\ request \in Requests /\ response \in Responses
               /\ UNCHANGED <<stored, message, cuts>> /\ agent.at = "tools"
               /\ \/ agent'.at = "tools" /\ agent'.contents = agent.contents
                  \/ /\ agent'.at \in {"ask", "spent"}
                     /\ agent'.contents = Append(Append(agent.contents, request), response)
    BY <1>7, RunToolMeans
  <2> DEFINE request  == [role |-> "model", calls |-> agent.calls]
             response == [role |-> "user", results |-> Append(agent.results, r)]
  <2>2. /\ request \in Requests /\ response \in Responses
        /\ UNCHANGED <<stored, message, cuts>> /\ agent.at = "tools"
        /\ \/ agent'.at = "tools" /\ agent'.contents = agent.contents
           \/ /\ agent'.at \in {"ask", "spent"}
              /\ agent'.contents = Append(Append(agent.contents, request), response)
    BY <2>1
  <2> HIDE DEF request, response
  <2>3. CASE agent'.at = "tools" /\ agent'.contents = agent.contents
    BY <1>3, <2>2, <2>3
  <2>4. CASE agent'.contents = Append(Append(agent.contents, request), response)
    <3>1. /\ agent.contents \in Seq(Content)
          /\ Cardinality(AskedAt(agent.contents, message)) <= 1 + cuts
          /\ WholeAndWritten => TakesTurns(agent.contents)
      BY <2>2 DEF SentInv
    <3>2. /\ agent'.contents \in Seq(Content)
          /\ \A m : AskedAt(agent'.contents, m) = AskedAt(agent.contents, m)
          /\ TakesTurns(agent.contents) => TakesTurns(agent'.contents)
      BY <2>2, <2>4, <3>1, RoundMore
    <3>3. WholeAndWritten' <=> WholeAndWritten
      BY <1>2, <2>2
    <3> QED
      BY <2>2, <3>1, <3>2, <3>3 DEF SentInv
  <2> QED
    BY <2>2, <2>3, <2>4
<1>8. CASE Conversation!AppendUser \/ Conversation!AppendAssistant
  <2>1. agent'.at \in {"assistant", "reply"}
    BY <1>1, <1>8 DEF Conversation!AppendUser, Conversation!AppendAssistant
  <2> QED
    BY <1>4, <2>1
<1>9. CASE Conversation!Reply \/ Conversation!Fail
  <2>1. agent'.at = "rest"
    BY <1>9 DEF Conversation!Reply, Conversation!Fail, Conversation!Ends, Conversation!Resting
  <2> QED
    BY <1>4, <2>1
<1>10. CASE UNCHANGED assistantVars
  <2>1. UNCHANGED <<stored, message, cuts, agent>>
    BY <1>10 DEF assistantVars
  <2> QED
    BY <1>2, <2>1 DEF SentInv
<1> QED
  BY <1>5, <1>6, <1>7, <1>8, <1>9, <1>10 DEF Conversation!Next

-----------------------------------------------------------------------------
(* The rounds of calls.                                                    *)

(* One round of the turn is put in its place.                              *)
LEMMA PutInSeq ==
  ASSUME NEW A, NEW s \in Seq(A), NEW i \in 1 .. Len(s), NEW x \in A
  PROVE  LET t == [s EXCEPT ![i] = x]
         IN  /\ t \in Seq(A) /\ Len(t) = Len(s) /\ t[i] = x
             /\ \A k \in 1 .. Len(s) : k # i => t[k] = s[k]
OBVIOUS

(* Where the rounds are in what the model is sent, s being what came first.*)
LEMMA PlacesOfRounds ==
  ASSUME NEW s \in Nat, NEW r \in Nat, NEW n \in Nat, n = s + 2 * r
  PROVE  /\ n + 2 - 2 * (r + 1) = s
         /\ s + 2 * (r + 1) - 1 = n + 1 /\ s + 2 * (r + 1) = n + 2
         /\ \A k \in 1 .. r : s + 2 * k - 1 \in 1 .. n /\ s + 2 * k \in 1 .. n
OBVIOUS

(* A sequence and one more element.                                        *)
LEMMA OneLonger ==
  ASSUME NEW S, NEW s \in Seq(S), NEW e \in S, NEW m, m = Len(s)
  PROVE  /\ Append(s, e) \in Seq(S) /\ Len(Append(s, e)) = m + 1
         /\ Append(s, e)[m + 1] = e
         /\ \A n \in 1 .. m : Append(s, e)[n] = s[n]
OBVIOUS

(* One more round is two more contents.                                    *)
LEMMA OneRoundMore ==
  ASSUME NEW s \in Nat, NEW r \in Nat, NEW n, NEW l, NEW q,
         n = s + 2 * r, l = n + 2, q = r + 1
  PROVE  l - 2 * q = s
OBVIOUS

LEMMA RunToolKeepsRounds ==
  ASSUME AgentInv, RoundsInv, ToolsInv, Conversation!RunTool
  PROVE  RoundsInv' /\ ToolsInv'
<1> DEFINE sent == Len(agent.contents) - 2 * agent.round
           m == Len(agent.results)
           p == agent.round + 1
<1>1. PICK r \in Result :
           LET results == Append(agent.results, r)
               request  == [role |-> "model", calls |-> agent.calls]
               response == [role |-> "user", results |-> results]
           IN  /\ r.tool = NextCall
               /\ ran' = [ran EXCEPT ![agent.round + 1] = Append(@, NextCall)]
               /\ request \in Requests /\ response \in Responses
               /\ agent.at = "tools"
               /\ \/ /\ Len(results) # Len(agent.calls)
                     /\ agent'.at = "tools" /\ agent'.round = agent.round
                     /\ agent'.contents = agent.contents
                     /\ agent'.calls = agent.calls /\ agent'.results = results
                  \/ /\ Len(results) = Len(agent.calls)
                     /\ agent'.at \in {"ask", "spent"} /\ agent'.round = agent.round + 1
                     /\ agent'.contents = Append(Append(agent.contents, request), response)
  BY RunToolMeans
<1> DEFINE results == Append(agent.results, r)
           request  == [role |-> "model", calls |-> agent.calls]
           response == [role |-> "user", results |-> results]
<1>2. /\ r.tool = NextCall /\ ran' = [ran EXCEPT ![p] = Append(@, NextCall)]
      /\ request \in Requests /\ response \in Responses /\ agent.at = "tools"
      /\ \/ /\ Len(results) # Len(agent.calls)
            /\ agent'.at = "tools" /\ agent'.round = agent.round
            /\ agent'.contents = agent.contents
            /\ agent'.calls = agent.calls /\ agent'.results = results
         \/ /\ Len(results) = Len(agent.calls)
            /\ agent'.at \in {"ask", "spent"} /\ agent'.round = p
            /\ agent'.contents = Append(Append(agent.contents, request), response)
  BY <1>1
<1>3. request.calls = agent.calls /\ response.results = results
  OBVIOUS
<1>4. /\ agent.calls \in Seq(ToolNames) /\ agent.results \in Seq(Result)
      /\ m \in Nat /\ Len(agent.calls) \in Nat /\ m < Len(agent.calls)
      /\ Len(ran[p]) = m
      /\ \A n \in 1 .. m : agent.results[n].tool = agent.calls[n] /\ ran[p][n] = agent.calls[n]
  BY <1>2 DEF ToolsInv
<1>5. /\ agent.contents \in Seq(Content) /\ sent \in Nat /\ agent.round \in Nat
      /\ \A k \in 1 .. sent : agent.contents[k] \in StoredTurn
      /\ ran \in Seq(Seq(ToolNames)) /\ Len(ran) = p
      /\ \A k \in 1 .. agent.round : RoundIsAnswered(agent.contents[sent + 2 * k - 1],
                                         agent.contents[sent + 2 * k], ran[k])
  BY <1>2, ConversationBounds DEF RoundsInv, AgentInv
<1>6. /\ NextCall = agent.calls[m + 1] /\ NextCall \in ToolNames /\ m + 1 \in 1 .. Len(agent.calls)
  BY <1>4 DEF NextCall
<1>7. /\ results \in Seq(Result) /\ Len(results) = m + 1 /\ results[m + 1] = r
      /\ \A n \in 1 .. m : results[n] = agent.results[n]
  BY <1>4
<1>8. \A n \in 1 .. m + 1 : results[n].tool = agent.calls[n]
  <2> HIDE DEF results
  <2> TAKE n \in 1 .. m + 1
  <2>1. n \in 1 .. m \/ n = m + 1
    BY <1>4
  <2> QED
    BY <1>2, <1>4, <1>6, <1>7, <2>1
<1>9. p \in 1 .. Len(ran) /\ ran[p] \in Seq(ToolNames)
  <2>1. p \in 1 .. Len(ran)
    BY <1>5
  <2> QED
    BY <1>5, <2>1
<1>10. /\ ran' \in Seq(Seq(ToolNames)) /\ Len(ran') = p
       /\ ran'[p] = Append(ran[p], NextCall)
       /\ \A k \in 1 .. agent.round : ran'[k] = ran[k]
  <2>1. Append(ran[p], NextCall) \in Seq(ToolNames)
    BY <1>6, <1>9
  <2>2. \A k \in 1 .. agent.round : k \in 1 .. Len(ran) /\ k # p
    <3>1. agent.round \in Nat /\ Len(ran) = agent.round + 1 /\ p = agent.round + 1
      BY <1>5
    <3> HIDE DEF p
    <3> QED
      BY <3>1
  <2> QED
    <3>1. ran' = [ran EXCEPT ![p] = Append(ran[p], NextCall)]
      BY <1>2
    <3> HIDE DEF p
    <3>2. /\ ran' \in Seq(Seq(ToolNames)) /\ Len(ran') = Len(ran)
          /\ ran'[p] = Append(ran[p], NextCall)
          /\ \A k \in 1 .. Len(ran) : k # p => ran'[k] = ran[k]
      BY <1>5, <1>9, <2>1, <3>1, PutInSeq
    <3> QED
      BY <1>5, <2>2, <3>2
<1>11. /\ ran'[p] \in Seq(ToolNames) /\ Len(ran'[p]) = m + 1
       /\ \A n \in 1 .. m + 1 : ran'[p][n] = agent.calls[n]
  <2>1. /\ Append(ran[p], NextCall) \in Seq(ToolNames)
        /\ Len(Append(ran[p], NextCall)) = m + 1
        /\ Append(ran[p], NextCall)[m + 1] = NextCall
        /\ \A n \in 1 .. m : Append(ran[p], NextCall)[n] = ran[p][n]
    <3> HIDE DEF p, m
    <3> QED
      BY <1>4, <1>6, <1>9, OneLonger
  <2>2. \A n \in 1 .. m + 1 : n \in 1 .. m \/ n = m + 1
    BY <1>4
  <2> QED
    BY <1>4, <1>6, <1>10, <2>1, <2>2
<1>12. Len(agent.contents) = sent + 2 * agent.round /\ p = agent.round + 1
  <2>1. Len(agent.contents) \in Nat
    BY <1>5
  <2> QED
    BY <1>5, <2>1
<1> HIDE DEF results, request, response, sent, m, p
<1>13. CASE Len(results) # Len(agent.calls)
  <2>1. /\ agent'.at = "tools" /\ agent'.round = agent.round /\ agent'.contents = agent.contents
        /\ agent'.calls = agent.calls /\ agent'.results = results
    BY <1>2, <1>13
  <2>2. Len(agent'.contents) - 2 * agent'.round = sent
    BY <2>1 DEF sent
  <2>3. RoundsInv'
    <3>1. \A k \in 1 .. agent'.round :
             RoundIsAnswered(agent'.contents[sent + 2 * k - 1],
                             agent'.contents[sent + 2 * k], ran'[k])
      BY <1>5, <1>10, <2>1
    <3> QED
      BY <1>5, <1>10, <1>12, <2>1, <2>2, <3>1 DEF RoundsInv
  <2>4. ToolsInv'
    <3>1. m + 1 < Len(agent.calls)
      BY <1>4, <1>7, <1>13
    <3> QED
      BY <1>4, <1>7, <1>8, <1>11, <1>12, <2>1, <3>1 DEF ToolsInv
  <2> QED
    BY <2>3, <2>4
<1>14. CASE Len(results) = Len(agent.calls)
  <2> DEFINE d == Append(Append(agent.contents, request), response)
             n == Len(agent.contents)
  <2>1. agent'.at \in {"ask", "spent"} /\ agent'.round = p /\ agent'.contents = d
    BY <1>2, <1>14
  <2>2. /\ d \in Seq(Content) /\ n \in Nat /\ Len(d) = n + 2
        /\ d[n + 1] = request /\ d[n + 2] = response /\ \A k \in 1 .. n : d[k] = agent.contents[k]
    BY <1>2, <1>5, RoundMore
  <2> HIDE DEF d, n
  <2>3. n = sent + 2 * agent.round
    BY <1>12 DEF n
  <2>0. /\ n + 2 - 2 * (agent.round + 1) = sent
        /\ sent + 2 * (agent.round + 1) - 1 = n + 1 /\ sent + 2 * (agent.round + 1) = n + 2
        /\ \A k \in 1 .. agent.round : sent + 2 * k - 1 \in 1 .. n /\ sent + 2 * k \in 1 .. n
    <3>1. sent \in Nat /\ agent.round \in Nat /\ n \in Nat
      BY <1>5, <2>2
    <3> QED
      BY <2>3, <3>1, PlacesOfRounds
  <2>4. Len(d) - 2 * p = sent
    <3>1. Len(d) = n + 2 /\ p = agent.round + 1 /\ sent \in Nat /\ agent.round \in Nat
      BY <1>5, <1>12, <2>2
    <3> QED
      BY <2>3, <3>1, OneRoundMore
  <2>5. \A k \in 1 .. sent : d[k] \in StoredTurn
    <3>1. \A k \in 1 .. sent : k \in 1 .. n
      BY <1>5, <2>2, <2>3
    <3> QED
      BY <1>5, <2>2, <3>1
  <2>6. ASSUME NEW k \in 1 .. agent.round
        PROVE  RoundIsAnswered(d[sent + 2 * k - 1], d[sent + 2 * k], ran'[k])
    <3>1. sent + 2 * k - 1 \in 1 .. n /\ sent + 2 * k \in 1 .. n
      BY <2>0
    <3> QED
      BY <1>5, <1>10, <2>2, <3>1
  <2>7. RoundIsAnswered(d[sent + 2 * p - 1], d[sent + 2 * p], ran'[p])
    <3>1. sent + 2 * p - 1 = n + 1 /\ sent + 2 * p = n + 2
      BY <1>12, <2>0
    <3>2. Len(agent.calls) = m + 1
      BY <1>7, <1>14
    <3>3. ran'[p] = agent.calls
      BY <1>4, <1>11, <3>2
    <3>4. RoundIsAnswered(request, response, ran'[p])
      BY <1>2, <1>3, <1>7, <1>8, <1>14, <3>2, <3>3 DEF RoundIsAnswered
    <3> QED
      BY <2>2, <3>1, <3>4
  <2>8. \A k \in 1 .. p : RoundIsAnswered(d[sent + 2 * k - 1], d[sent + 2 * k], ran'[k])
    <3> TAKE k \in 1 .. p
    <3>1. k \in 1 .. agent.round \/ k = p
      BY <1>5, <1>12
    <3> QED
      BY <2>6, <2>7, <3>1
  <2>9. RoundsInv'
    BY <1>5, <1>10, <2>1, <2>2, <2>4, <2>5, <2>8 DEF RoundsInv
  <2>10. ToolsInv'
    BY <2>1 DEF ToolsInv
  <2> QED
    BY <2>9, <2>10
<1> QED
  BY <1>13, <1>14

LEMMA NextKeepsRounds ==
  ASSUME AgentInv, StoredInv, RoundsInv, ToolsInv, [Conversation!Next]_assistantVars
  PROVE  RoundsInv' /\ ToolsInv'
<1>1. DOMAIN agent = {"at", "contents", "round", "calls", "results"} /\ agent.round \in Nat
  BY ConversationBounds DEF AgentInv
<1>2. CASE agent'.at \notin {"ask", "tools", "spent", "user"}
  BY <1>2 DEF RoundsInv, ToolsInv
<1>3. CASE Conversation!Begin
  BY <1>3, BeginKeepsSent
<1>4. CASE Conversation!Generate
  <2>1. agent.at = "ask"
    BY <1>4 DEF Conversation!Generate
  <2>2. /\ agent.contents \in Seq(Content) /\ Len(agent.contents) - 2 * agent.round \in Nat
        /\ ran \in Seq(Seq(ToolNames)) /\ Len(ran) = agent.round
    BY <2>1 DEF RoundsInv
  <2>3. CASE agent' = [agent EXCEPT !.at = "user"] /\ ran' = ran
    <3>1. agent'.at = "user" /\ agent'.contents = agent.contents /\ agent'.round = agent.round
      BY <1>1, <2>3
    <3> QED
      BY <2>1, <2>3, <3>1 DEF RoundsInv, ToolsInv
  <2>4. CASE \E n \in 1 .. MaxCallsAtOnce : \E asked \in [1 .. n -> ToolNames] :
                /\ agent' = [agent EXCEPT !.at = "tools", !.calls = asked, !.results = <<>>]
                /\ ran' = Append(ran, <<>>)
    <3>0. PICK n \in 1 .. MaxCallsAtOnce : \E asked \in [1 .. n -> ToolNames] :
                /\ agent' = [agent EXCEPT !.at = "tools", !.calls = asked, !.results = <<>>]
                /\ ran' = Append(ran, <<>>)
      BY <2>4
    <3>1. PICK asked \in [1 .. n -> ToolNames] :
                /\ agent' = [agent EXCEPT !.at = "tools", !.calls = asked, !.results = <<>>]
                /\ ran' = Append(ran, <<>>)
      BY <3>0
    <3>2. /\ agent'.at = "tools" /\ agent'.contents = agent.contents
          /\ agent'.round = agent.round /\ agent'.calls = asked /\ agent'.results = <<>>
      BY <1>1, <3>1
    <3>3. n \in Nat /\ n > 0
      BY ConversationBounds
    <3>4. asked \in Seq(ToolNames) /\ Len(asked) = n
      BY <3>3
    <3>5. <<>> \in Seq(ToolNames) /\ <<>> \in Seq(Result) /\ Len(<<>>) = 0
      OBVIOUS
    <3>6. /\ ran' \in Seq(Seq(ToolNames)) /\ Len(ran') = agent.round + 1
          /\ ran'[agent.round + 1] = <<>>
          /\ \A k \in 1 .. agent.round : ran'[k] = ran[k]
      BY <1>1, <2>2, <3>1, <3>5
    <3>7. RoundsInv'
      BY <2>1, <3>2, <3>6 DEF RoundsInv
    <3>8. ToolsInv'
      BY <3>2, <3>3, <3>4, <3>5, <3>6 DEF ToolsInv
    <3> QED
      BY <3>7, <3>8
  <2> QED
    BY <1>4, <2>3, <2>4 DEF Conversation!Generate, ToolNames
<1>5. CASE Conversation!RunTool
  BY <1>5, RunToolKeepsRounds
<1>6. CASE Conversation!AppendUser \/ Conversation!AppendAssistant
  <2>1. agent'.at \in {"assistant", "reply"}
    BY <1>1, <1>6 DEF Conversation!AppendUser, Conversation!AppendAssistant
  <2> QED
    BY <1>2, <2>1
<1>7. CASE Conversation!Reply \/ Conversation!Fail
  <2>1. agent'.at = "rest"
    BY <1>7 DEF Conversation!Reply, Conversation!Fail, Conversation!Ends, Conversation!Resting
  <2> QED
    BY <1>2, <2>1
<1>8. CASE UNCHANGED assistantVars
  <2>1. UNCHANGED <<agent, ran>>
    BY <1>8 DEF assistantVars
  <2> QED
    BY <2>1 DEF RoundsInv, ToolsInv
<1> QED
  BY <1>3, <1>4, <1>5, <1>6, <1>7, <1>8 DEF Conversation!Next

LEMMA StepsOfTheConversation ==
  [DeskNext]_deskVars => [Conversation!Next]_assistantVars
<1>1. CASE AtLedger
  BY <1>1 DEF AtLedger
<1>2. CASE AtCatalog
  BY <1>2 DEF AtCatalog
<1>3. CASE AtNames
  BY <1>3 DEF AtNames
<1>4. CASE AtStatements
  BY <1>4 DEF AtStatements
<1>5. CASE AtConversation
  BY <1>5 DEF AtConversation
<1>6. CASE UNCHANGED deskVars
  BY <1>6 DEF deskVars
<1> QED
  BY <1>1, <1>2, <1>3, <1>4, <1>5, <1>6 DEF DeskNext

LEMMA DeskKeepsTheConversation == DeskSpec => []TurnInv
<1>1. DeskInit => TurnInv
  <2> SUFFICES ASSUME DeskInit PROVE TurnInv
    OBVIOUS
  <2>1. /\ stored = <<>> /\ message = 1 /\ tries = 0 /\ cuts = 0 /\ ran = <<>>
        /\ agent = Conversation!Resting
    BY DEF DeskInit, Conversation!Init
  <2>2. AgentInv
    <3>1. /\ 1 \in 1 .. MaxMessages + 1 /\ 0 \in 0 .. MaxTries /\ 0 \in 0 .. 0
          /\ 0 \in 0 .. MaxToolRounds /\ 0 < MaxToolRounds
      BY ConversationBounds
    <3>2. <<>> \in Seq(StoredTurn)
      OBVIOUS
    <3> QED
      BY <2>1, <3>1, <3>2 DEF AgentInv, Conversation!Resting
  <2>3. StoredInv
    <3>1. AskedAt(stored, message) = {} /\ Len(stored) = 0
      BY <2>1 DEF AskedAt
    <3>2. Cardinality(AskedAt(stored, message)) = 0
      BY <3>1, FS_EmptySet
    <3> QED
      BY <2>1, <3>1, <3>2 DEF StoredInv, Chronicle, Conversation!Resting
  <2>4. SentInv /\ RoundsInv /\ ToolsInv
    BY <2>1 DEF SentInv, RoundsInv, ToolsInv, Conversation!Resting
  <2> QED
    BY <2>2, <2>3, <2>4 DEF TurnInv
<1>2. TurnInv /\ [DeskNext]_deskVars => TurnInv'
  BY StepsOfTheConversation, NextKeepsAgent, NextKeepsStored, NextKeepsSent, NextKeepsRounds
  DEF TurnInv
<1> QED
  BY <1>1, <1>2, PTL DEF DeskSpec

(* The model is sent a conversation in which question and answer take      *)
(* turns, and in it the question once, and once more only for each try     *)
(* that was already storing it when it ended: whatever fails, is killed    *)
(* and comes again, at any step (HandleMessage, LoadRecent, Append,        *)
(* historyToContents).                                                     *)
THEOREM ConversationIsSound == DeskSpec => []ConversationInv
<1>1. TurnInv => ConversationInv
  <2> SUFFICES ASSUME TurnInv
               PROVE  Conversation!TypeOK /\ Conversation!WindowTakesTurns /\ Conversation!AskedOnce
    BY DEF ConversationInv, Conversation!ConversationInv
  <2>1. Conversation!TypeOK
    BY DEF TurnInv, AgentInv, StoredTurn, Conversation!TypeOK
  <2>2. ASSUME agent.at = "ask"
        PROVE  /\ agent.contents \in Seq(Content) /\ Len(agent.contents) \in Nat
               /\ Cardinality(AskedAt(agent.contents, message)) <= 1 + cuts
               /\ WholeAndWritten => TakesTurns(agent.contents)
    BY <2>2 DEF TurnInv, SentInv
  <2>3. Conversation!WindowTakesTurns
    <3> SUFFICES ASSUME agent.at = "ask", WholeAndWritten
                 PROVE  /\ agent.contents[1].role = "user"
                        /\ Conversation!Last(agent.contents).role = "user"
                        /\ \A k \in 1 .. Len(agent.contents) - 1 :
                             agent.contents[k].role # agent.contents[k + 1].role
      BY DEF Conversation!WindowTakesTurns, WholeAndWritten
    <3> QED
      BY <2>2 DEF TakesTurns, Conversation!Last
  <2>4. Conversation!AskedOnce
    <3> SUFFICES ASSUME agent.at = "ask"
                 PROVE  Conversation!Cardinality({k \in DOMAIN agent.contents :
                                agent.contents[k] = Conversation!Said("user", message)}) <= 1 + cuts
      BY DEF Conversation!AskedOnce
    <3>1. {k \in DOMAIN agent.contents : agent.contents[k] = Conversation!Said("user", message)}
            = AskedAt(agent.contents, message)
      BY <2>2 DEF AskedAt
    <3> QED
      BY <2>2, <3>1, SameCounts
  <2> QED
    BY <2>1, <2>3, <2>4
<1> QED
  BY <1>1, DeskKeepsTheConversation, PTL

(* Every call of the model is answered in its place, errors and made-up    *)
(* tools included, and nothing runs that the model is not told about, in   *)
(* every round (Generate's loop and runTool).                              *)
THEOREM CallsAreAnswered == DeskSpec => []EveryCallIsAnswered
<1>1. TurnInv => EveryCallIsAnswered
  <2> SUFFICES ASSUME TurnInv, agent.at \in {"ask", "spent", "user"}
               PROVE  LET sent  == Len(agent.contents) - 2 * agent.round
                          asked(k)    == agent.contents[sent + 2 * k - 1]
                          answered(k) == agent.contents[sent + 2 * k]
                      IN  /\ \A k \in 1 .. sent : "text" \in DOMAIN agent.contents[k]
                          /\ Len(ran) = agent.round
                          /\ \A k \in 1 .. agent.round :
                               /\ asked(k).role = "model" /\ answered(k).role = "user"
                               /\ Len(answered(k).results) = Len(asked(k).calls)
                               /\ \A n \in DOMAIN asked(k).calls :
                                    answered(k).results[n].tool = asked(k).calls[n]
                               /\ ran[k] = asked(k).calls
    BY DEF EveryCallIsAnswered, Conversation!EveryCallIsAnswered
  <2> DEFINE sent == Len(agent.contents) - 2 * agent.round
  <2>1. /\ \A k \in 1 .. sent : agent.contents[k] \in StoredTurn
        /\ Len(ran) = agent.round
        /\ \A k \in 1 .. agent.round :
              RoundIsAnswered(agent.contents[sent + 2 * k - 1],
                              agent.contents[sent + 2 * k], ran[k])
    BY DEF TurnInv, RoundsInv
  <2> HIDE DEF sent
  <2>2. \A t \in StoredTurn : "text" \in DOMAIN t
    BY DEF StoredTurn
  <2>3. \A q, a, tools : RoundIsAnswered(q, a, tools) =>
          /\ q.role = "model" /\ a.role = "user" /\ Len(a.results) = Len(q.calls)
          /\ \A n \in DOMAIN q.calls : a.results[n].tool = q.calls[n]
          /\ tools = q.calls
    <3> SUFFICES ASSUME NEW q, NEW a, NEW tools, RoundIsAnswered(q, a, tools)
                 PROVE  /\ q.role = "model" /\ a.role = "user" /\ Len(a.results) = Len(q.calls)
                        /\ \A n \in DOMAIN q.calls : a.results[n].tool = q.calls[n]
                        /\ tools = q.calls
      OBVIOUS
    <3>1. q.role = "model" /\ q.calls \in Seq(ToolNames) /\ a.role = "user"
      BY DEF RoundIsAnswered, Requests, Responses
    <3>2. DOMAIN q.calls = 1 .. Len(q.calls)
      BY <3>1
    <3> QED
      BY <3>1, <3>2 DEF RoundIsAnswered
  <2>4. \A k \in 1 .. sent : "text" \in DOMAIN agent.contents[k]
    BY <2>1, <2>2
  <2>5. ASSUME NEW k \in 1 .. agent.round
        PROVE  LET q == agent.contents[sent + 2 * k - 1]
                   a == agent.contents[sent + 2 * k]
               IN  /\ q.role = "model" /\ a.role = "user" /\ Len(a.results) = Len(q.calls)
                   /\ \A n \in DOMAIN q.calls : a.results[n].tool = q.calls[n]
                   /\ ran[k] = q.calls
    BY <2>1, <2>3
  <2> USE DEF sent
  <2> QED
    BY <2>1, <2>4, <2>5
<1> QED
  BY <1>1, DeskKeepsTheConversation, PTL

-----------------------------------------------------------------------------
(* A finite set has one order under a strict total R.                      *)

Strict(S, R) ==
    /\ \A x \in S : <<x, x>> \notin R
    /\ \A x, y, z \in S : <<x, y>> \in R /\ <<y, z>> \in R => <<x, z>> \in R

Ranked(s, S, R) ==
    /\ s \in Seq(S)
    /\ \A i, j \in 1 .. Len(s) : i < j => <<s[i], s[j]>> \in R
    /\ \A x \in S : \E k \in 1 .. Len(s) : s[k] = x

LEMMA RanksApart ==
  ASSUME NEW S, NEW R, Strict(S, R), NEW s, Ranked(s, S, R)
  PROVE  /\ Len(s) \in Nat
         /\ \A i \in 1 .. Len(s) : s[i] \in S
         /\ \A i, j \in 1 .. Len(s) : <<s[i], s[j]>> \in R <=> i < j
         /\ \A i, j \in 1 .. Len(s) : s[i] = s[j] <=> i = j
<1>1. s \in Seq(S)
  BY DEF Ranked
<1>2. Len(s) \in Nat /\ \A i \in 1 .. Len(s) : s[i] \in S
  BY <1>1
<1>3. \A i, j \in 1 .. Len(s) : i < j => <<s[i], s[j]>> \in R
  BY DEF Ranked
<1>4. ASSUME NEW i \in 1 .. Len(s), NEW j \in 1 .. Len(s)
      PROVE  (<<s[i], s[j]>> \in R <=> i < j) /\ (s[i] = s[j] <=> i = j)
  <2>1. s[i] \in S /\ s[j] \in S /\ <<s[i], s[i]>> \notin R /\ <<s[j], s[j]>> \notin R
    BY <1>2 DEF Strict
  <2>2. ~(<<s[i], s[j]>> \in R /\ <<s[j], s[i]>> \in R)
    BY <2>1 DEF Strict
  <2>3. i < j \/ i = j \/ j < i
    BY <1>2
  <2>4. CASE i < j
    BY <1>2, <1>3, <2>1, <2>2, <2>4
  <2>5. CASE i = j
    BY <1>2, <2>1, <2>5
  <2>6. CASE j < i
    BY <1>2, <1>3, <2>1, <2>2, <2>6
  <2> QED
    BY <2>3, <2>4, <2>5, <2>6
<1> QED
  BY <1>2, <1>4

LEMMA RanksAgree ==
  ASSUME NEW S, NEW R, Strict(S, R), NEW r, NEW s, Ranked(r, S, R), Ranked(s, S, R)
  PROVE  \A k \in 1 .. Len(r) : k <= Len(s) /\ r[k] = s[k]
<1>1. /\ Len(r) \in Nat /\ \A i \in 1 .. Len(r) : r[i] \in S
      /\ \A i, j \in 1 .. Len(r) : <<r[i], r[j]>> \in R <=> i < j
      /\ \A i, j \in 1 .. Len(r) : r[i] = r[j] <=> i = j
  BY RanksApart
<1>2. /\ Len(s) \in Nat /\ \A i \in 1 .. Len(s) : s[i] \in S
      /\ \A i, j \in 1 .. Len(s) : <<s[i], s[j]>> \in R <=> i < j
      /\ \A i, j \in 1 .. Len(s) : s[i] = s[j] <=> i = j
  BY RanksApart
<1>3. /\ \A x \in S : \E k \in 1 .. Len(r) : r[k] = x
      /\ \A x \in S : \E k \in 1 .. Len(s) : s[k] = x
  BY DEF Ranked
<1> DEFINE Wrong == {k \in 1 .. Len(r) : ~(k <= Len(s) /\ r[k] = s[k])}
<1>4. ASSUME Wrong # {}
      PROVE  FALSE
  <2>1. Wrong \in SUBSET Nat
    OBVIOUS
  <2>2. PICK k \in Wrong : \A j \in Wrong : k <= j
    BY <1>4, <2>1, LeastNatural
  <2>3. /\ k \in 1 .. Len(r) /\ ~(k <= Len(s) /\ r[k] = s[k])
        /\ \A j \in 1 .. Len(r) : j < k => j <= Len(s) /\ r[j] = s[j]
    BY <2>2
  <2>4. PICK m \in 1 .. Len(s) : s[m] = r[k]
    BY <1>1, <1>3, <2>3
  <2>5. m > k
    <3>1. CASE m < k
      <4>1. m \in 1 .. Len(r)
        BY <1>1, <1>2, <2>3, <3>1
      <4>2. r[m] = s[m] /\ r[m] # r[k]
        BY <1>1, <2>3, <3>1, <4>1
      <4> QED
        BY <2>4, <4>2
    <3>2. CASE m = k
      BY <2>3, <2>4, <3>2
    <3> QED
      BY <1>1, <1>2, <2>3, <3>1, <3>2
  <2>6. k \in 1 .. Len(s) /\ s[k] # r[k] /\ s[k] \in S /\ <<s[k], r[k]>> \in R
    <3>1. k \in 1 .. Len(s)
      BY <1>1, <1>2, <2>3, <2>5
    <3> QED
      BY <1>2, <2>3, <2>4, <2>5, <3>1
  <2>7. PICK l \in 1 .. Len(r) : r[l] = s[k]
    BY <1>3, <2>6
  <2>8. l < k
    BY <1>1, <2>3, <2>6, <2>7
  <2>9. l \in 1 .. Len(s) /\ r[l] = s[l]
    BY <1>1, <1>2, <2>3, <2>8
  <2>10. l = k
    BY <1>2, <2>6, <2>7, <2>9
  <2> QED
    BY <1>1, <2>3, <2>8, <2>10
<1> QED
  BY <1>4

LEMMA OneRanking ==
  ASSUME NEW S, NEW R, Strict(S, R), NEW r, NEW s, Ranked(r, S, R), Ranked(s, S, R)
  PROVE  r = s
<1>1. \A k \in 1 .. Len(r) : k <= Len(s) /\ r[k] = s[k]
  BY RanksAgree
<1>2. \A k \in 1 .. Len(s) : k <= Len(r) /\ s[k] = r[k]
  BY RanksAgree
<1>3. r \in Seq(S) /\ s \in Seq(S)
  BY DEF Ranked
<1>4. Len(r) \in Nat /\ Len(s) \in Nat
  BY <1>3
<1>5. Len(r) = Len(s)
  <2>1. Len(r) # 0 => Len(r) \in 1 .. Len(r)
    BY <1>4
  <2>2. Len(s) # 0 => Len(s) \in 1 .. Len(s)
    BY <1>4
  <2> QED
    BY <1>1, <1>2, <1>4, <2>1, <2>2
<1> QED
  BY <1>1, <1>3, <1>5

(* InOrder chooses it.                                                     *)
Enumerates(s, S, R) ==
    /\ s \in [1 .. Cardinality(S) -> S]
    /\ \A i, j \in 1 .. Cardinality(S) : i < j => s[i] # s[j] /\ <<s[j], s[i]>> \notin R

LEMMA EnumerationsRank ==
  ASSUME NEW S, IsFiniteSet(S), NEW R, Strict(S, R),
         \A x, y \in S : x # y => <<x, y>> \in R \/ <<y, x>> \in R
  PROVE  LET s == CHOOSE u : Enumerates(u, S, R)
         IN  Ranked(s, S, R) /\ Len(s) = Cardinality(S)
<1> DEFINE n == Cardinality(S)
           s == CHOOSE u : Enumerates(u, S, R)
<1>1. n \in Nat
  BY FS_CardinalityType
<1>2. \A x, y, z \in S : <<x, z>> \in R => <<x, y>> \in R \/ <<y, z>> \in R
  BY DEF Strict
<1>3. \E u \in [1 .. n -> S] : \A i, j \in 1 .. n : i < j => u[i] # u[j] /\ <<u[j], u[i]>> \notin R
  BY <1>2, OrderExists DEF Strict
<1>4. \E u : Enumerates(u, S, R)
  BY <1>3 DEF Enumerates
<1>5. Enumerates(s, S, R)
  BY <1>4
<1> HIDE DEF s
<1>6. /\ s \in [1 .. n -> S]
      /\ \A i, j \in 1 .. n : i < j => s[i] # s[j] /\ <<s[j], s[i]>> \notin R
  BY <1>5 DEF Enumerates
<1>7. \A x \in S : \E k \in 1 .. n : s[k] = x
  <2>1. \A i, j \in 1 .. n : i < j => s[i] # s[j]
    BY <1>6
  <2> QED
    BY <1>6, <2>1, OrderIsOnto
<1> HIDE DEF n
<1>8. s \in Seq(S) /\ Len(s) = n
  BY <1>1, <1>6
<1>9. \A i, j \in 1 .. n : i < j => <<s[i], s[j]>> \in R
  BY <1>6
<1> QED
  BY <1>7, <1>8, <1>9 DEF Ranked, s, n

(* Both stores page alike.                                                 *)
LEMMA OneTimeline ==
  ASSUME NEW S \in SUBSET Statements!Movement, NEW t, NEW r, NEW s,
         AllRows(r, S, t), AllRows(s, S, t)
  PROVE  r = s
<1> DEFINE R == {p \in S \X S : Statements!Precedes(p[1], p[2], t)}
<1>1. \A x, y \in S : <<x, y>> \in R <=> Statements!Precedes(x, y, t)
  OBVIOUS
<1> HIDE DEF R
<1>2. Strict(S, R)
  BY <1>1, PrecedesIsAnOrder DEF Strict
<1>3. ASSUME NEW q, AllRows(q, S, t)
      PROVE  Ranked(q, S, R)
  <2>1. q \in Seq(S)
    BY <1>3 DEF AllRows
  <2>2. \A i \in 1 .. Len(q) : q[i] \in S
    BY <2>1
  <2>3. \A i, j \in 1 .. Len(q) : i < j => <<q[i], q[j]>> \in R
    BY <1>1, <1>3, <2>2 DEF AllRows
  <2>4. \A x \in S : \E k \in 1 .. Len(q) : q[k] = x
    BY <1>3 DEF AllRows
  <2> QED
    BY <2>1, <2>3, <2>4 DEF Ranked
<1>4. Ranked(r, S, R) /\ Ranked(s, S, R)
  BY <1>3
<1> QED
  BY <1>2, <1>4, OneRanking

(* The rows behind one of them are the rest of the sequence.               *)
LEMMA RestOfTimeline ==
  ASSUME LinesInv, NEW t, NEW rows, AllRows(rows, Statements!RowsOf(t), t),
         NEW k \in 1 .. Len(rows)
  PROVE  AllRows(SubSeq(rows, k + 1, Len(rows)), Past(t, rows[k]), t)
<1> DEFINE S == Statements!RowsOf(t)
           n == Len(rows)
           rest == SubSeq(rows, k + 1, n)
           Comes(x, y) == Statements!Precedes(x, y, t)
<1>1. S \subseteq Statements!Movement
  BY DEF LinesInv, Statements!RowsOf, Statements!OfClient
<1>2. /\ \A x \in S : ~Comes(x, x)
      /\ \A x, y, z \in S : Comes(x, y) /\ Comes(y, z) => Comes(x, z)
  BY <1>1, PrecedesIsAnOrder
<1>3. /\ rows \in Seq(S) /\ n \in Nat /\ k \in Nat /\ k >= 1 /\ k <= n
      /\ \A i, j \in 1 .. n : i < j => rows[i] # rows[j] /\ Comes(rows[i], rows[j])
      /\ \A x \in S : \E i \in 1 .. n : rows[i] = x
      /\ \A i \in 1 .. n : rows[i] \in S
  BY DEF AllRows
<1>4. Past(t, rows[k]) = {x \in S : Comes(rows[k], x)}
  <2>1. rows[k] \in Statements!Movement
    BY <1>1, <1>3
  <2>2. rows[k] # Nobody
    BY <2>1, DeskAssumption DEF Statements!TimelinesAssumption
  <2> QED
    BY <2>2 DEF Past
<1>5. /\ Len(rest) = n - k /\ Len(rest) \in Nat
      /\ \A i \in 1 .. n - k : rest[i] = rows[i + k] /\ i + k \in 1 .. n /\ i + k > k
  BY <1>3
<1> HIDE DEF S, Comes
<1>6. \A i \in 1 .. n : Comes(rows[k], rows[i]) <=> i > k
  <2> SUFFICES ASSUME NEW i \in 1 .. n PROVE Comes(rows[k], rows[i]) <=> i > k
    OBVIOUS
  <2>1. CASE i > k
    BY <1>3, <2>1
  <2>2. CASE i = k
    BY <1>2, <1>3, <2>2
  <2>3. CASE i < k
    <3>1. Comes(rows[i], rows[k])
      BY <1>3, <2>3
    <3>2. rows[i] \in S /\ rows[k] \in S
      BY <1>3
    <3> QED
      BY <1>2, <1>3, <2>3, <3>1, <3>2
  <2> QED
    BY <1>3, <2>1, <2>2, <2>3
<1> HIDE DEF rest, n
<1>7. rest \in Seq({x \in S : Comes(rows[k], x)})
  <2>1. \A i \in 1 .. n - k : rest[i] \in {x \in S : Comes(rows[k], x)}
    BY <1>3, <1>5, <1>6
  <2>2. rest \in [1 .. n - k -> {x \in S : Comes(rows[k], x)}]
    <3>1. rest \in Seq(S)
      BY <1>3 DEF rest, n
    <3> QED
      BY <1>5, <2>1, <3>1
  <2> QED
    BY <1>5, <2>2
<1>8. \A i, j \in 1 .. n - k : i < j => rest[i] # rest[j] /\ Comes(rest[i], rest[j])
  BY <1>3, <1>5
<1>9. \A x \in {x \in S : Comes(rows[k], x)} : \E i \in 1 .. n - k : rest[i] = x
  <2> TAKE x \in {y \in S : Comes(rows[k], y)}
  <2>1. PICK j \in 1 .. n : rows[j] = x
    BY <1>3
  <2>2. j > k
    BY <1>6, <2>1
  <2>3. j - k \in 1 .. n - k /\ rest[j - k] = x
    BY <1>3, <1>5, <2>1, <2>2
  <2> QED
    BY <2>3
<1>10. AllRows(rest, {x \in S : Comes(rows[k], x)}, t)
  BY <1>5, <1>7, <1>8, <1>9 DEF AllRows, Comes
<1> QED
  BY <1>4, <1>10 DEF rest, n

LEMMA MemoryFindsTheLine ==
  ASSUME LinesInv, NEW t, NEW cursor \in {Nobody} \cup Statements!RowsOf(t)
  PROVE  LET rows == Statements!MemoryRows(t)
         IN  Statements!RowsAfter(t, cursor)
               = SubSeq(rows, Statements!MemoryStart(t, cursor), Len(rows))
<1> DEFINE S == Statements!RowsOf(t)
           rows == Statements!MemoryRows(t)
<1>1. S \in SUBSET Statements!Movement
  BY DEF LinesInv, Statements!RowsOf, Statements!OfClient
<1>2. Past(t, Nobody) = S
  BY DEF Past
<1>3. rows = Statements!RowsAfter(t, Nobody)
  <2>1. {m \in S : Nobody # Nobody => Statements!Precedes(Nobody, m, t)} = S
    OBVIOUS
  <2> QED
    BY <2>1 DEF Statements!MemoryRows, Statements!RowsAfter
<1>4. AllRows(rows, S, t)
  BY <1>2, <1>3, RowsAfterMean
<1>5. rows \in Seq(S) /\ Len(rows) \in Nat
  <2>1. rows \in Seq(S)
    BY <1>4 DEF AllRows
  <2> QED
    BY <2>1
<1> HIDE DEF rows
<1>6. CASE cursor = Nobody
  <2>1. Statements!MemoryStart(t, cursor) = 1
    BY <1>6 DEF Statements!MemoryStart
  <2>2. SubSeq(rows, 1, Len(rows)) = rows
    BY <1>5
  <2> QED
    BY <1>3, <1>6, <2>1, <2>2 DEF rows
<1>7. CASE cursor # Nobody
  <2>1. cursor \in S
    BY <1>7
  <2>2. PICK k \in 1 .. Len(rows) : rows[k] = cursor
    BY <1>4, <2>1 DEF AllRows
  <2>3. \A i \in 1 .. Len(rows) : rows[i] = cursor <=> i = k
    <3>1. \A i, j \in 1 .. Len(rows) : i < j => rows[i] # rows[j]
      BY <1>4 DEF AllRows
    <3> QED
      BY <1>5, <2>2, <3>1
  <2>4. {i \in 1 .. Len(rows) : rows[i] = cursor} = {k}
    BY <2>2, <2>3
  <2>5. Statements!Min({k}) = k
    <3>1. \A x \in {k} : x = k
      OBVIOUS
    <3>2. \A y \in {k} : k <= y
      BY <1>5, <2>2
    <3> QED
      BY <3>1, <3>2 DEF Statements!Min
  <2>6. Statements!SelectInSeq(rows, LAMBDA m : m = cursor) = k
    BY <2>4, <2>5 DEF Statements!SelectInSeq
  <2>7. Statements!MemoryStart(t, cursor) = k + 1
    BY <1>7, <2>6 DEF Statements!MemoryStart, rows
  <2>8. AllRows(SubSeq(rows, k + 1, Len(rows)), Past(t, cursor), t)
    BY <1>4, <2>2, RestOfTimeline
  <2>9. AllRows(Statements!RowsAfter(t, cursor), Past(t, cursor), t)
    BY RowsAfterMean
  <2>10. Past(t, cursor) \in SUBSET Statements!Movement
    BY <1>1 DEF Past
  <2>11. Statements!RowsAfter(t, cursor) = SubSeq(rows, k + 1, Len(rows))
    BY <2>8, <2>9, <2>10, OneTimeline
  <2> QED
    BY <2>7, <2>11 DEF rows
<1> QED
  BY <1>6, <1>7 DEF rows

-----------------------------------------------------------------------------
(* The days add up to what the clients owe.                                *)

LEMMA TotalIsASum ==
  ASSUME NEW S \in SUBSET Statements!Movement, IsFiniteSet(S),
         NEW f, \A m \in S : f[m] = m.amount
  PROVE  Total(S) = SumOver(f, S)
<1> DEFINE W == {s \in SUBSET S : Total(s) = SumOver(f, s)}
<1>1. {} \in W
  BY TotalEmpty, SumOfNothing
<1>2. ASSUME NEW s \in SUBSET S, NEW m \in s, s \ {m} \in W
      PROVE  s \in W
  <2> DEFINE q == s \ {m}
  <2>1. /\ IsFiniteSet(s) /\ IsFiniteSet(q) /\ IsFiniteSet({m})
        /\ q \cap {m} = {} /\ s = q \cup {m} /\ m \in Statements!Movement
    BY FS_Subset, FS_Singleton
  <2>2. Total(q) = SumOver(f, q)
    BY <1>2
  <2> HIDE DEF q
  <2>3. /\ Total(q \cup {m}) = Total(q) + Total({m})
        /\ Total(q) \in Int /\ Total({m}) = m.amount
    BY <2>1, TotalUnion, TotalOne
  <2>4. \A x \in s : f[x] \in Int
    BY LineFields
  <2>5. SumOver(f, s) = f[m] + SumOver(f, s \ {m})
    BY <2>1, <2>4, SumLess
  <2>6. f[m] = m.amount /\ m.amount \in Int
    BY LineFields
  <2>7. SumOver(f, s) = f[m] + SumOver(f, q)
    BY <2>5 DEF q
  <2>8. Total(s) = SumOver(f, s)
    BY <2>1, <2>2, <2>3, <2>6, <2>7
  <2> QED
    BY <2>8
<1> HIDE DEF W
<1>3. S \in W
  BY <1>1, <1>2, OneByOne
<1> QED
  BY <1>3 DEF W

(* The fold of the community modules is such a sum.                        *)
LEMMA FoldedStatements ==
  ASSUME NEW S, NEW f, f = [d \in S |-> Statements!FiadosDoDia(d).comprado
                                          - Statements!FiadosDoDia(d).pago]
  PROVE  Statements!MapThenSumSet(LAMBDA d : Statements!FiadosDoDia(d).comprado
                                               - Statements!FiadosDoDia(d).pago, S)
           = SumOver(f, S)
<1> DEFINE F(d) == Statements!FiadosDoDia(d).comprado - Statements!FiadosDoDia(d).pago
           Fold(g) == g = [s \in SUBSET S |-> IF s = {} THEN 0
                             ELSE F(CHOOSE x \in s : TRUE) + g[s \ {CHOOSE x \in s : TRUE}]]
<1>1. Statements!MapThenSumSet(F, S) = (CHOOSE g : Fold(g))[S]
  BY DEF Statements!MapThenSumSet, Statements!MapThenFoldSet
<1>2. f = [d \in S |-> F(d)]
  OBVIOUS
<1> HIDE DEF F
<1>3. ASSUME NEW g PROVE Fold(g) <=> Counted(f, S, g)
  <2>1. \A s \in SUBSET S : s # {} => f[First(s)] = F(First(s))
    BY <1>2, FirstIsIn
  <2>2. \A s \in SUBSET S :
           Adds(f, s, g) = IF s = {} THEN 0
                             ELSE F(CHOOSE x \in s : TRUE) + g[s \ {CHOOSE x \in s : TRUE}]
    BY <2>1 DEF Adds, First
  <2> QED
    BY <2>2 DEF Counted
<1> HIDE DEF Fold
<1>4. (CHOOSE g : Fold(g)) = CHOOSE g : Counted(f, S, g)
  BY <1>3
<1>5. Statements!MapThenSumSet(F, S) = SumOver(f, S)
  BY <1>1, <1>4 DEF SumOver
<1> QED
  BY <1>5 DEF F

LEMMA FoldedBalances ==
  ASSUME NEW S, NEW f, f = [c \in S |-> balance[c]]
  PROVE  Statements!MapThenSumSet(LAMBDA c : balance[c], S) = SumOver(f, S)
<1> DEFINE F(c) == balance[c]
           Fold(g) == g = [s \in SUBSET S |-> IF s = {} THEN 0
                             ELSE F(CHOOSE x \in s : TRUE) + g[s \ {CHOOSE x \in s : TRUE}]]
<1>1. Statements!MapThenSumSet(F, S) = (CHOOSE g : Fold(g))[S]
  BY DEF Statements!MapThenSumSet, Statements!MapThenFoldSet
<1>2. f = [c \in S |-> F(c)]
  OBVIOUS
<1> HIDE DEF F
<1>3. ASSUME NEW g PROVE Fold(g) <=> Counted(f, S, g)
  <2>1. \A s \in SUBSET S : s # {} => f[First(s)] = F(First(s))
    BY <1>2, FirstIsIn
  <2>2. \A s \in SUBSET S :
           Adds(f, s, g) = IF s = {} THEN 0
                             ELSE F(CHOOSE x \in s : TRUE) + g[s \ {CHOOSE x \in s : TRUE}]
    BY <2>1 DEF Adds, First
  <2> QED
    BY <2>2 DEF Counted
<1> HIDE DEF Fold
<1>4. (CHOOSE g : Fold(g)) = CHOOSE g : Counted(f, S, g)
  BY <1>3
<1>5. Statements!MapThenSumSet(F, S) = SumOver(f, S)
  BY <1>1, <1>4 DEF SumOver
<1> QED
  BY <1>5 DEF F

(* What is bought and paid on a day, whatever is shown of it.              *)
LEMMA DayIsTotal ==
  ASSUME LinesInv, NEW d
  PROVE  Statements!FiadosDoDia(d).comprado - Statements!FiadosDoDia(d).pago
           = Total({m \in book : m.date = d})
<1> DEFINE t == Statements!DayTimeline(d)
           now == {m \in book : m.date = d}
           rows == Statements!RowsAfter(t, Nobody)
<1>1. now \in SUBSET Statements!Movement
  BY DEF LinesInv
<1>2. Past(t, Nobody) = now
  BY DEF Past, Statements!RowsOf, Statements!DayTimeline
<1>3. AllRows(rows, now, t)
  BY <1>2, RowsAfterMean
<1>4. Statements!Range(rows) = now
  BY <1>3 DEF AllRows, Statements!Range
<1>5. /\ Statements!FiadosDoDia(d).comprado = Statements!Taken(now)
      /\ Statements!FiadosDoDia(d).pago = Statements!Paid(now)
  BY <1>4 DEF Statements!FiadosDoDia, Statements!Detail
<1> HIDE DEF now
<1>6. Statements!Taken(now) - Statements!Paid(now) = Total(now)
  BY <1>1, SumIsTotal
<1> QED
  BY <1>5, <1>6 DEF now

LEMMA DaysAddUp ==
  ASSUME LinesInv, BalanceInv, IsFiniteSet(known)
  PROVE  Statements!MapThenSumSet(LAMBDA d : Statements!FiadosDoDia(d).comprado
                                               - Statements!FiadosDoDia(d).pago, Days)
           = Statements!MapThenSumSet(LAMBDA c : balance[c], known)
<1> DEFINE f == [m \in book |-> m.amount]
           day == [m \in book |-> m.date]
           client == [m \in book |-> m.client]
           perDay == [d \in Days |-> Statements!FiadosDoDia(d).comprado
                                       - Statements!FiadosDoDia(d).pago]
           owed == [c \in known |-> balance[c]]
<1>1. /\ IsFiniteSet(book) /\ book \in SUBSET Statements!Movement
      /\ known \subseteq Buyers /\ \A m \in book : m.client \in known
  BY LinesAreFinite DEF LinesInv
<1>2. IsFiniteSet(Days)
  <2>1. Statements!IsFiniteSet(Days)
    BY DeskAssumption DEF Statements!TimelinesAssumption
  <2> QED
    BY <2>1 DEF Statements!IsFiniteSet, IsFiniteSet
<1>3. \A m \in book : f[m] \in Int /\ f[m] = m.amount /\ day[m] \in Days /\ client[m] \in known
  BY <1>1, LineFields
<1>4. \A d \in Days : perDay[d] = SumOver(f, PartOf(book, day, d))
  <2> TAKE d \in Days
  <2>1. PartOf(book, day, d) = {m \in book : m.date = d}
    BY DEF PartOf
  <2>2. {m \in book : m.date = d} \in SUBSET Statements!Movement
    BY <1>1
  <2>3. IsFiniteSet({m \in book : m.date = d})
    BY <1>1, FS_Subset
  <2>4. \A m \in {n \in book : n.date = d} : f[m] = m.amount
    BY <1>3
  <2>5. perDay[d] = Total({m \in book : m.date = d})
    BY DayIsTotal
  <2> HIDE DEF f, day, perDay
  <2> QED
    BY <2>1, <2>2, <2>3, <2>4, <2>5, TotalIsASum
<1>5. \A c \in known : owed[c] = SumOver(f, PartOf(book, client, c))
  <2> TAKE c \in known
  <2>1. PartOf(book, client, c) = Statements!OfClient(book, c)
    BY DEF PartOf, Statements!OfClient
  <2>2. Statements!OfClient(book, c) \in SUBSET Statements!Movement
    BY <1>1 DEF Statements!OfClient
  <2>3. IsFiniteSet(Statements!OfClient(book, c))
    BY <1>1, FS_Subset DEF Statements!OfClient
  <2>4. \A m \in Statements!OfClient(book, c) : f[m] = m.amount
    BY <1>3 DEF Statements!OfClient
  <2>5. owed[c] = Statements!Sum(Statements!OfClient(book, c))
    BY <1>1 DEF BalanceInv
  <2>6. owed[c] = Total(Statements!OfClient(book, c))
    BY <2>2, <2>5, SumIsTotal
  <2> HIDE DEF f, client, owed
  <2> QED
    BY <2>1, <2>2, <2>3, <2>4, <2>6, TotalIsASum
<1>6. /\ Statements!MapThenSumSet(LAMBDA d : Statements!FiadosDoDia(d).comprado
                                               - Statements!FiadosDoDia(d).pago, Days)
           = SumOver(perDay, Days)
      /\ Statements!MapThenSumSet(LAMBDA c : balance[c], known) = SumOver(owed, known)
  BY FoldedStatements, FoldedBalances
<1> HIDE DEF f, day, client, perDay, owed
<1>7. SumOver(f, book) = SumOver(perDay, Days)
  BY <1>1, <1>2, <1>3, <1>4, SumOfParts
<1>8. SumOver(f, book) = SumOver(owed, known)
  BY <1>1, <1>3, <1>5, SumOfParts
<1> QED
  BY <1>6, <1>7, <1>8

LEMMA TimelinesMean ==
  ASSUME LinesInv, BalanceInv, IsFiniteSet(known)
  PROVE  Statements!TimelinesAgree
<1>1. ASSUME NEW t \in Statements!AllTimelines, NEW limit \in {0, PageLimit},
             NEW cursor \in {Nobody} \cup Statements!RowsOf(t)
      PROVE  Statements!Page(Statements!RowsAfter(t, cursor), limit)
               = Statements!MemoryTimeline(t, cursor, limit)
  BY MemoryFindsTheLine DEF Statements!MemoryTimeline
<1> QED
  BY <1>1, DaysAddUp DEF Statements!TimelinesAgree

(* Accounts are opened one at a time.                                      *)
LEMMA KnownIsFinite == DeskSpec => []IsFiniteSet(known)
<1>1. DeskInit => IsFiniteSet(known)
  BY FS_EmptySet DEF DeskInit, Statements!Init
<1>2. IsFiniteSet(known) /\ [DeskNext]_deskVars => IsFiniteSet(known)'
  <2> SUFFICES ASSUME IsFiniteSet(known), [Statements!Next]_timelinesVars
               PROVE  IsFiniteSet(known')
    BY StepsOfTheStatements
  <2>1. CASE Statements!Write
    <3>1. PICK m \in Statements!Movement : known' = known \cup {m.client}
      BY <2>1 DEF Statements!Write
    <3> QED
      BY <3>1, FS_AddElement
  <2>2. CASE UNCHANGED known
    BY <2>2
  <2>3. CASE \/ Statements!ReadDebtor \/ Statements!ConsultarFiado \/ Statements!Erasure
             \/ Statements!OpenTimeline \/ Statements!ReadPage
    BY <2>2, <2>3 DEF Statements!ReadDebtor, Statements!ConsultarFiado, Statements!Erasure,
         Statements!OpenTimeline, Statements!ReadPage
  <2> QED
    BY <2>1, <2>2, <2>3 DEF Statements!Next, timelinesVars
<1> QED
  BY <1>1, <1>2, PTL DEF DeskSpec

LEMMA TimelinesAlwaysAgree == DeskSpec => []Statements!TimelinesAgree
<1>1. StatementsInv /\ IsFiniteSet(known) => Statements!TimelinesAgree
  BY TimelinesMean DEF StatementsInv
<1> QED
  BY <1>1, DeskKeepsTheStatements, KnownIsFinite, PTL

-----------------------------------------------------------------------------
(* The lists of the caderninho.  Accounts and lines are finite.            *)

AccountsInv ==
    /\ IsFiniteSet(People!InBook) /\ People!InBook \subseteq NameSlugs
    /\ IsFiniteSet(lines) /\ \A l \in lines : l.amount \in Int

LEMMA DeskKeepsTheAccounts == DeskSpec => []AccountsInv
<1>1. DeskInit => AccountsInv
  <2> SUFFICES ASSUME DeskInit PROVE AccountsInv
    OBVIOUS
  <2>1. People!InBook = {} /\ lines = {}
    BY DEF DeskInit, People!Init, People!InBook
  <2> QED
    BY <2>1, FS_EmptySet DEF AccountsInv
<1>2. NamesIInv /\ AccountsInv /\ [DeskNext]_deskVars => AccountsInv'
  <2> SUFFICES ASSUME NamesIInv, AccountsInv, [People!Next]_namesVars
               PROVE  AccountsInv'
    BY StepsOfTheNames
  <2>1. CASE \E t \in Callers : People!Record(t)
    <3>1. PICK t \in Callers : People!Record(t)
      BY <2>1
    <3>2. telling[t] \in Decision
      BY <3>1, DecisionsAreNotSilent DEF People!Record, NamesIInv, DecisionsStand
    <3>3. telling[t].slug \in NameSlugs /\ telling[t].amount \in Int
      BY <3>2 DEF Decision
    <3> DEFINE line == [id     |-> IF lines = {} THEN 1
                                   ELSE 1 + People!Max({l.id : l \in lines}),
                        slug   |-> telling[t].slug,
                        amount |-> telling[t].amount]
    <3>4. lines' = lines \cup {line} /\ line.amount = telling[t].amount
      BY <3>1 DEF People!Record
    <3> HIDE DEF line
    <3>5. People!InBook' = People!InBook \cup {telling[t].slug}
      BY <3>1 DEF People!Record, People!InBook
    <3>6. IsFiniteSet(lines') /\ IsFiniteSet(People!InBook')
      BY <3>4, <3>5, FS_AddElement DEF AccountsInv
    <3> QED
      BY <3>3, <3>4, <3>5, <3>6 DEF AccountsInv
  <2>2. CASE \E t \in Callers : People!ApagarMovimento(t)
    <3>1. lines' \in SUBSET lines /\ People!InBook' = People!InBook
      BY <2>2 DEF People!ApagarMovimento, People!InBook
    <3>2. IsFiniteSet(lines')
      BY <3>1, FS_Subset DEF AccountsInv
    <3> QED
      BY <3>1, <3>2 DEF AccountsInv
  <2>3. CASE UNCHANGED <<accounts, lines>>
    BY <2>3 DEF AccountsInv, People!InBook
  <2>4. CASE \E t \in Callers : \/ People!RecordMovement(t) \/ People!Ask(t) \/ People!Abandon(t)
    BY <2>3, <2>4 DEF People!RecordMovement, People!Ask, People!Abandon
  <2> QED
    BY <2>1, <2>2, <2>3, <2>4 DEF People!Next, People!Step, namesVars
<1>3. DeskSpec => []NamesIInv
  <2>1. People!NamesAssumption
    BY DeskAssumption
  <2> QED
    BY <2>1, TheNamesRun, NamesStart, NamesNext, PTL
<1> QED
  BY <1>1, <1>2, <1>3, PTL DEF DeskSpec

(* A balance is a sum over the lines.                                      *)
LEMMA BalanceIsAnInteger ==
  ASSUME AccountsInv, NEW s
  PROVE  People!Balance(s) \in Int
<1> DEFINE S == {l \in lines : l.slug = s}
           F(l) == l.amount
           f == [l \in S |-> F(l)]
           Fold(g) == g = [q \in SUBSET S |-> IF q = {} THEN 0
                             ELSE F(CHOOSE x \in q : TRUE) + g[q \ {CHOOSE x \in q : TRUE}]]
<1>1. People!Balance(s) = (CHOOSE g : Fold(g))[S]
  BY DEF People!Balance, People!MapThenSumSet, People!MapThenFoldSet
<1>2. IsFiniteSet(S) /\ \A l \in S : f[l] \in Int
  BY FS_Subset DEF AccountsInv
<1>3. \A l \in S : f[l] = F(l)
  OBVIOUS
<1> HIDE DEF F, f, S
<1>4. ASSUME NEW g PROVE Fold(g) <=> Counted(f, S, g)
  <2>1. \A q \in SUBSET S : q # {} => f[First(q)] = F(First(q))
    BY <1>3, FirstIsIn
  <2>2. \A q \in SUBSET S :
           Adds(f, q, g) = IF q = {} THEN 0
                             ELSE F(CHOOSE x \in q : TRUE) + g[q \ {CHOOSE x \in q : TRUE}]
    BY <2>1 DEF Adds, First
  <2> QED
    BY <2>2 DEF Counted
<1> HIDE DEF Fold
<1>5. (CHOOSE g : Fold(g)) = CHOOSE g : Counted(f, S, g)
  BY <1>4
<1>6. People!Balance(s) = SumOver(f, S)
  BY <1>1, <1>5 DEF SumOver
<1> QED
  BY <1>2, <1>6, SumIsAnInteger

(* The two orders: who owes most first, or by name; and places by number.  *)
Richer(s, r) == \/ People!Balance(s) > People!Balance(r)
                \/ People!Balance(s) = People!Balance(r) /\ s < r

ByDebt(S)   == {p \in S \X S : Richer(p[1], p[2])}
ByNumber(S) == {p \in S \X S : p[1] < p[2]}

LEMMA DebtIsAnOrder ==
  ASSUME AccountsInv, NEW S \in SUBSET Nat
  PROVE  /\ \A s, r \in S : <<s, r>> \in ByDebt(S) <=> Richer(s, r)
         /\ Strict(S, ByDebt(S))
         /\ \A s, r \in S : s # r => <<s, r>> \in ByDebt(S) \/ <<r, s>> \in ByDebt(S)
<1>1. \A s, r \in S : <<s, r>> \in ByDebt(S) <=> Richer(s, r)
  BY DEF ByDebt
<1>2. \A s \in S : People!Balance(s) \in Int /\ s \in Int
  BY BalanceIsAnInteger
<1>3. \A s \in S : ~Richer(s, s)
  BY <1>2 DEF Richer
<1>4. \A s, r, q \in S : Richer(s, r) /\ Richer(r, q) => Richer(s, q)
  BY <1>2 DEF Richer
<1>5. \A s, r \in S : s # r => Richer(s, r) \/ Richer(r, s)
  BY <1>2 DEF Richer
<1> HIDE DEF Richer
<1>6. Strict(S, ByDebt(S))
  BY <1>1, <1>3, <1>4 DEF Strict
<1> QED
  BY <1>1, <1>5, <1>6

LEMMA NumberIsAnOrder ==
  ASSUME NEW S \in SUBSET Nat
  PROVE  /\ \A s, r \in S : <<s, r>> \in ByNumber(S) <=> s < r
         /\ Strict(S, ByNumber(S))
         /\ \A s, r \in S : s # r => <<s, r>> \in ByNumber(S) \/ <<r, s>> \in ByNumber(S)
<1>1. \A s, r \in S : <<s, r>> \in ByNumber(S) <=> s < r
  BY DEF ByNumber
<1>2. \A s \in S : s \in Int
  OBVIOUS
<1>3. Strict(S, ByNumber(S))
  BY <1>1, <1>2 DEF Strict
<1> QED
  BY <1>1, <1>2, <1>3

LEMMA PeopleCount == ASSUME NEW S PROVE People!Cardinality(S) = Cardinality(S)
BY DEF People!Cardinality, Cardinality, People!IsFiniteSet, IsFiniteSet

LEMMA ByBalanceRanks ==
  ASSUME AccountsInv, NEW S \in SUBSET Nat, IsFiniteSet(S)
  PROVE  Ranked(People!ByBalance(S), S, ByDebt(S)) /\ Len(People!ByBalance(S)) = Cardinality(S)
<1> DEFINE n == Cardinality(S)
<1>1. /\ \A s, r \in S : <<s, r>> \in ByDebt(S) <=> Richer(s, r)
      /\ Strict(S, ByDebt(S))
      /\ \A s, r \in S : s # r => <<s, r>> \in ByDebt(S) \/ <<r, s>> \in ByDebt(S)
  BY DebtIsAnOrder
<1>2. People!ByBalance(S) = CHOOSE u \in [1 .. n -> S] :
          \A i, j \in 1 .. n : i < j => u[i] # u[j] /\ ~Richer(u[j], u[i])
  BY PeopleCount DEF People!ByBalance, People!InOrder, Richer
<1>3. \A u : Enumerates(u, S, ByDebt(S)) <=>
          /\ u \in [1 .. n -> S]
          /\ \A i, j \in 1 .. n : i < j => u[i] # u[j] /\ ~Richer(u[j], u[i])
  BY <1>1 DEF Enumerates
<1>4. People!ByBalance(S) = CHOOSE u : Enumerates(u, S, ByDebt(S))
  BY <1>2, <1>3
<1> QED
  BY <1>1, <1>4, EnumerationsRank

LEMMA InOrderRanks ==
  ASSUME NEW S \in SUBSET Nat, IsFiniteSet(S)
  PROVE  /\ Ranked(People!InOrder(S, <), S, ByNumber(S))
         /\ Len(People!InOrder(S, <)) = Cardinality(S)
<1> DEFINE n == Cardinality(S)
<1>1. /\ \A s, r \in S : <<s, r>> \in ByNumber(S) <=> s < r
      /\ Strict(S, ByNumber(S))
      /\ \A s, r \in S : s # r => <<s, r>> \in ByNumber(S) \/ <<r, s>> \in ByNumber(S)
  BY NumberIsAnOrder
<1>2. People!InOrder(S, <) = CHOOSE u \in [1 .. n -> S] :
          \A i, j \in 1 .. n : i < j => u[i] # u[j] /\ ~(u[j] < u[i])
  BY PeopleCount DEF People!InOrder
<1>3. \A u : Enumerates(u, S, ByNumber(S)) <=>
          /\ u \in [1 .. n -> S]
          /\ \A i, j \in 1 .. n : i < j => u[i] # u[j] /\ ~(u[j] < u[i])
  BY <1>1 DEF Enumerates
<1>4. People!InOrder(S, <) = CHOOSE u : Enumerates(u, S, ByNumber(S))
  BY <1>2, <1>3
<1> QED
  BY <1>1, <1>4, EnumerationsRank

LEMMA InsertAtMeans ==
  ASSUME NEW q, NEW k, NEW s
  PROVE  People!InsertAt(q, k, s) = SubSeq(q, 1, k - 1) \o <<s>> \o SubSeq(q, k, Len(q))
BY DEF People!InsertAt

(* The handler's insertion keeps the order: the accounts that are already  *)
(* in the list come earlier in the alphabet.                               *)
LEMMA InsertRanks ==
  ASSUME AccountsInv, NEW S \in SUBSET Nat, NEW s \in Nat, \A x \in S : x < s,
         NEW q, Ranked(q, S, ByDebt(S))
  PROVE  Ranked(People!InsertStably(q, s), S \cup {s}, ByDebt(S \cup {s}))
<1> DEFINE n == Len(q)
           bal(x) == People!Balance(x)
           K == {i \in DOMAIN q : bal(q[i]) >= bal(s)}
           c == Cardinality(K)
           e == People!InsertStably(q, s)
           A == S \cup {s}
<1>1. /\ n \in Nat /\ \A i \in 1 .. n : q[i] \in S
      /\ \A i, j \in 1 .. n : <<q[i], q[j]>> \in ByDebt(S) <=> i < j
  BY DebtIsAnOrder, RanksApart
<1>2. q \in Seq(S) /\ \A x \in S : \E k \in 1 .. n : q[k] = x
  BY DEF Ranked
<1>3. DOMAIN q = 1 .. n
  BY <1>2
<1>4. bal(s) \in Int /\ \A x \in S : bal(x) \in Int /\ x \in Int /\ x < s
  BY BalanceIsAnInteger
<1>5. \A x, y \in S : <<x, y>> \in ByDebt(S) <=> Richer(x, y)
  BY DebtIsAnOrder
<1>6. \A x, y \in A : <<x, y>> \in ByDebt(A) <=> Richer(x, y)
  BY DebtIsAnOrder
<1>7. \A x, y \in S : Richer(x, y) => bal(x) >= bal(y)
  BY <1>4 DEF Richer
<1>8. \A x \in S : IF bal(x) >= bal(s) THEN Richer(x, s) ELSE Richer(s, x)
  BY <1>4 DEF Richer
<1> HIDE DEF bal
<1>9. K \in SUBSET (1 .. n) /\ \A i \in 1 .. n : i \in K <=> bal(q[i]) >= bal(s)
  BY <1>3
<1>10. \A i, j \in 1 .. n : i < j /\ j \in K => i \in K
  <2> SUFFICES ASSUME NEW i \in 1 .. n, NEW j \in 1 .. n, i < j, j \in K
               PROVE  i \in K
    OBVIOUS
  <2>1. q[i] \in S /\ q[j] \in S /\ bal(q[i]) >= bal(q[j]) /\ bal(q[j]) >= bal(s)
    BY <1>1, <1>5, <1>7, <1>9
  <2>2. bal(q[i]) \in Int /\ bal(q[j]) \in Int /\ bal(s) \in Int
    BY <1>4, <2>1
  <2>3. bal(q[i]) >= bal(s)
    BY <2>1, <2>2
  <2> QED
    BY <1>9, <2>3
<1>11. e = SubSeq(q, 1, c) \o <<s>> \o SubSeq(q, c + 1, n)
  <2>1. People!Cardinality(K) = c
    BY PeopleCount
  <2>2. e = People!InsertAt(q, c + 1, s)
    BY <2>1 DEF People!InsertStably, bal
  <2>3. c \in Nat
    BY <1>1, <1>9, <1>10, FirstNumbers
  <2> HIDE DEF c, e
  <2>4. (c + 1) - 1 = c
    BY <2>3
  <2>5. People!InsertAt(q, c + 1, s)
          = SubSeq(q, 1, (c + 1) - 1) \o <<s>> \o SubSeq(q, c + 1, Len(q))
    BY InsertAtMeans
  <2>6. SubSeq(q, 1, (c + 1) - 1) = SubSeq(q, 1, c)
    BY <2>4
  <2> QED
    BY <2>2, <2>5, <2>6
<1> HIDE DEF K
<1>12. c \in 0 .. n /\ K = 1 .. c
  BY <1>1, <1>9, <1>10, FirstNumbers
<1> HIDE DEF c, e
<1>13. /\ Len(e) = n + 1 /\ Len(e) \in Nat
       /\ \A i \in 1 .. n + 1 : e[i] = IF i <= c THEN q[i] ELSE IF i = c + 1 THEN s ELSE q[i - 1]
  <2> DEFINE front == SubSeq(q, 1, c)
             back  == SubSeq(q, c + 1, n)
             head  == front \o <<s>>
  <2>1. /\ front \in Seq(S) /\ Len(front) = c
        /\ \A i \in 1 .. c : front[i] = q[i]
    BY <1>1, <1>2, <1>12
  <2>2. /\ back \in Seq(S) /\ Len(back) = n - c
        /\ \A i \in 1 .. n - c : back[i] = q[i + c]
    BY <1>1, <1>2, <1>12
  <2> HIDE DEF front, back
  <2>3. <<s>> \in Seq({s}) /\ Len(<<s>>) = 1 /\ <<s>>[1] = s
    OBVIOUS
  <2>4. /\ head \in Seq(A) /\ Len(head) = c + 1
        /\ \A i \in 1 .. c + 1 : head[i] = IF i <= c THEN q[i] ELSE s
    BY <1>12, <2>1, <2>3
  <2> HIDE DEF head
  <2>5. /\ Len(head \o back) = n + 1
        /\ \A i \in 1 .. n + 1 :
              (head \o back)[i] = IF i <= c + 1 THEN head[i] ELSE back[i - (c + 1)]
    <3>1. back \in Seq(A)
      BY <2>2
    <3>2. /\ Len(head \o back) = Len(head) + Len(back)
          /\ \A i \in 1 .. Len(head) + Len(back) :
                (head \o back)[i] = IF i <= Len(head) THEN head[i] ELSE back[i - Len(head)]
      BY <2>4, <3>1
    <3>3. Len(head) + Len(back) = n + 1
      BY <1>1, <1>12, <2>2, <2>4
    <3> QED
      BY <2>4, <3>2, <3>3
  <2>6. e = head \o back
    BY <1>11 DEF front, back, head
  <2>7. \A i \in 1 .. n + 1 : e[i] = IF i <= c THEN q[i] ELSE IF i = c + 1 THEN s ELSE q[i - 1]
    <3> TAKE i \in 1 .. n + 1
    <3>1. CASE i <= c + 1
      BY <1>1, <1>12, <2>4, <2>5, <2>6, <3>1
    <3>2. CASE i > c + 1
      <4>1. i - (c + 1) \in 1 .. n - c /\ (i - (c + 1)) + c = i - 1
        BY <1>1, <1>12, <3>2
      <4>2. e[i] = back[i - (c + 1)]
        BY <1>1, <1>12, <2>5, <2>6, <3>2
      <4>3. e[i] = q[i - 1]
        BY <2>2, <4>1, <4>2
      <4> QED
        BY <1>1, <1>12, <3>2, <4>3
    <3> QED
      BY <1>1, <1>12, <3>1, <3>2
  <2> QED
    BY <1>1, <2>5, <2>6, <2>7
<1>14. e \in Seq(A)
  <2>1. e \in Seq(A)
    <3>1. SubSeq(q, 1, c) \in Seq(A) /\ SubSeq(q, c + 1, n) \in Seq(A) /\ <<s>> \in Seq(A)
      <4>1. q \in Seq(A)
        BY <1>2
      <4> QED
        BY <1>1, <1>12, <4>1
    <3> QED
      BY <1>11, <3>1
  <2> QED
    BY <2>1
<1>15. \A i, j \in 1 .. n + 1 : i < j => Richer(e[i], e[j])
  <2> SUFFICES ASSUME NEW i \in 1 .. n + 1, NEW j \in 1 .. n + 1, i < j
               PROVE  Richer(e[i], e[j])
    OBVIOUS
  <2>1. \A k \in 1 .. n : IF k <= c THEN Richer(q[k], s) ELSE Richer(s, q[k])
    <3> TAKE k \in 1 .. n
    <3>1. q[k] \in S /\ (bal(q[k]) >= bal(s) <=> k <= c)
      BY <1>1, <1>9, <1>12
    <3> QED
      BY <1>8, <3>1
  <2>2. \A k, l \in 1 .. n : k < l => Richer(q[k], q[l])
    BY <1>1, <1>5
  <2> HIDE DEF Richer
  <2>3. CASE j <= c
    BY <1>1, <1>12, <1>13, <2>2, <2>3
  <2>4. CASE j = c + 1
    BY <1>1, <1>12, <1>13, <2>1, <2>4
  <2>5. CASE j > c + 1
    <3>1. j - 1 \in 1 .. n /\ ~(j - 1 <= c) /\ e[j] = q[j - 1]
      BY <1>1, <1>12, <1>13, <2>5
    <3>2. CASE i <= c
      <4>1. i \in 1 .. n /\ e[i] = q[i] /\ i < j - 1
        BY <1>1, <1>12, <1>13, <2>5, <3>2
      <4> QED
        BY <2>2, <3>1, <4>1
    <3>3. CASE i = c + 1
      <4>1. e[i] = s
        BY <1>1, <1>12, <1>13, <3>3
      <4> QED
        BY <2>1, <3>1, <4>1
    <3>4. CASE i > c + 1
      <4>1. i - 1 \in 1 .. n /\ e[i] = q[i - 1] /\ i - 1 < j - 1
        BY <1>1, <1>12, <1>13, <3>4
      <4> QED
        BY <2>2, <3>1, <4>1
    <3> QED
      BY <1>1, <1>12, <3>2, <3>3, <3>4
  <2> QED
    BY <1>1, <1>12, <2>3, <2>4, <2>5
<1>16. \A x \in A : \E k \in 1 .. n + 1 : e[k] = x
  <2> TAKE x \in A
  <2>1. CASE x = s
    <3>1. c + 1 \in 1 .. n + 1 /\ e[c + 1] = s
      BY <1>1, <1>12, <1>13
    <3> QED
      BY <2>1, <3>1
  <2>2. CASE x \in S
    <3>1. PICK k \in 1 .. n : q[k] = x
      BY <1>2, <2>2
    <3>2. CASE k <= c
      <4>1. k \in 1 .. n + 1 /\ e[k] = x
        BY <1>1, <1>12, <1>13, <3>1, <3>2
      <4> QED
        BY <4>1
    <3>3. CASE k > c
      <4>1. k + 1 \in 1 .. n + 1 /\ ~(k + 1 <= c) /\ k + 1 # c + 1 /\ (k + 1) - 1 = k
        BY <1>1, <1>12, <3>3
      <4>2. e[k + 1] = x
        BY <1>13, <3>1, <4>1
      <4> QED
        BY <4>1, <4>2
    <3> QED
      BY <1>1, <1>12, <3>2, <3>3
  <2> QED
    BY <2>1, <2>2
<1>17. \A i, j \in 1 .. n + 1 : i < j => <<e[i], e[j]>> \in ByDebt(A)
  <2>1. \A i \in 1 .. n + 1 : e[i] \in A
    BY <1>13, <1>14
  <2> HIDE DEF A, ByDebt, Richer
  <2> QED
    BY <1>6, <1>15, <2>1
<1> HIDE DEF A
<1>18. Ranked(e, A, ByDebt(A))
  BY <1>13, <1>14, <1>16, <1>17 DEF Ranked
<1> QED
  BY <1>18 DEF e, A

LEMMA NobodyRanks ==
  ASSUME NEW R
  PROVE  Strict({}, R) /\ \A s : Ranked(s, {}, R) <=> s = <<>>
<1>1. ASSUME NEW s, Ranked(s, {}, R)
      PROVE  s = <<>>
  <2>1. s \in Seq({}) /\ Len(s) \in Nat /\ \A i \in 1 .. Len(s) : s[i] \in {}
    <3>1. s \in Seq({})
      BY <1>1 DEF Ranked
    <3> QED
      BY <3>1
  <2>2. Len(s) = 0
    <3>1. Len(s) # 0 => 1 \in 1 .. Len(s)
      BY <2>1
    <3> QED
      BY <2>1, <3>1
  <2> QED
    BY <2>1, <2>2
<1>2. Ranked(<<>>, {}, R)
  <2>1. <<>> \in Seq({}) /\ Len(<<>>) = 0
    OBVIOUS
  <2> QED
    BY <2>1 DEF Ranked
<1> QED
  BY <1>1, <1>2 DEF Strict

(* GET /fiado: inserted one by one, the accounts are in the order in which *)
(* the tool sorts them.                                                    *)
LEMMA InsertedIsSorted ==
  ASSUME AccountsInv, NameSlugs \subseteq Nat
  PROVE  People!ListHandler.devedores = People!ByBalance(People!InBook)
<1> DEFINE a == People!ListDebtors
           n == Len(a)
           D == 1 .. n
           Of(s) == {a[i] : i \in s}
           Next2(s, g) == People!InsertStably(g[s \ {People!Max(s)}], a[People!Max(s)])
           Fold(g) == g = [s \in SUBSET D |-> IF s = {} THEN <<>> ELSE Next2(s, g)]
           w == [s \in SUBSET D |-> People!ByBalance(Of(s))]
<1>1. /\ IsFiniteSet(People!InBook) /\ People!InBook \in SUBSET Nat
  BY DEF AccountsInv
<1>2. Ranked(a, People!InBook, ByNumber(People!InBook))
  BY <1>1, InOrderRanks DEF People!ListDebtors
<1>3. /\ n \in Nat /\ \A i \in D : a[i] \in People!InBook
      /\ \A i, j \in D : a[i] < a[j] <=> i < j
  <2> DEFINE R == ByNumber(People!InBook)
  <2>1. /\ Strict(People!InBook, R)
        /\ \A s, r \in People!InBook : <<s, r>> \in R <=> s < r
    BY <1>1, NumberIsAnOrder
  <2> HIDE DEF R, a
  <2>2. Ranked(a, People!InBook, R)
    BY <1>2 DEF R
  <2>3. /\ n \in Nat /\ \A i \in D : a[i] \in People!InBook
        /\ \A i, j \in D : <<a[i], a[j]>> \in R <=> i < j
    BY <2>1, <2>2, RanksApart
  <2> QED
    BY <2>1, <2>3
<1>4. DOMAIN a = D /\ Of(D) = People!InBook
  <2>1. a \in Seq(People!InBook) /\ \A x \in People!InBook : \E k \in D : a[k] = x
    BY <1>2 DEF Ranked
  <2> QED
    BY <1>3, <2>1
<1>5. People!ListHandler.devedores = (CHOOSE g : Fold(g))[D]
  BY <1>4 DEF People!ListHandler, People!FoldLeft, People!MapThenFoldSet
<1> HIDE DEF a, n
<1>6. IsFiniteSet(D)
  <2>1. n \in Int /\ 1 \in Int
    BY <1>3
  <2> QED
    BY <2>1, FS_Interval
<1>7. ASSUME NEW s \in SUBSET D
      PROVE  Of(s) \in SUBSET Nat /\ IsFiniteSet(Of(s))
  <2>1. Of(s) \in SUBSET People!InBook
    BY <1>3
  <2> QED
    BY <1>1, <2>1, FS_Subset
<1>8. ASSUME NEW s \in SUBSET D, s # {}
      PROVE  People!Max(s) \in s /\ \A i \in s : People!Max(s) >= i
  <2>1. \E x \in s : \A y \in s : x >= y
    BY <1>3, <1>8, GreatestNatural
  <2> QED
    BY <2>1 DEF People!Max
<1> HIDE DEF D, Of
<1>9. ASSUME NEW s \in SUBSET D, s # {}
      PROVE  People!ByBalance(Of(s))
               = People!InsertStably(People!ByBalance(Of(s \ {People!Max(s)})), a[People!Max(s)])
  <2> DEFINE m == People!Max(s)
             r == s \ {m}
             p == People!ByBalance(Of(r))
             q == People!InsertStably(p, a[m])
  <2>1. m \in s /\ m \in D /\ r \in SUBSET D /\ \A i \in r : i < m
    <3>1. m \in s /\ \A i \in s : m >= i
      BY <1>8, <1>9
    <3>2. \A i \in s : i \in Int
      BY DEF D
    <3> QED
      BY <3>1, <3>2
  <2>2. Of(s) = Of(r) \cup {a[m]}
    BY <2>1 DEF Of
  <2>3. /\ Of(r) \in SUBSET Nat /\ IsFiniteSet(Of(r))
        /\ Of(s) \in SUBSET Nat /\ IsFiniteSet(Of(s))
    BY <1>7, <2>1
  <2>4. a[m] \in Nat /\ \A x \in Of(r) : x < a[m]
    <3>1. a[m] \in Nat
      BY <1>1, <1>3, <2>1
    <3>2. \A i \in r : a[i] < a[m]
      BY <1>3, <2>1
    <3> QED
      BY <3>1, <3>2 DEF Of
  <2> HIDE DEF m, r
  <2>5. Ranked(p, Of(r), ByDebt(Of(r)))
    BY <2>3, ByBalanceRanks
  <2> HIDE DEF p
  <2>6. Ranked(q, Of(r) \cup {a[m]}, ByDebt(Of(r) \cup {a[m]}))
    BY <2>3, <2>4, <2>5, InsertRanks
  <2>7. Ranked(People!ByBalance(Of(s)), Of(s), ByDebt(Of(s)))
    BY <2>3, ByBalanceRanks
  <2>8. Strict(Of(s), ByDebt(Of(s)))
    BY <2>3, DebtIsAnOrder
  <2>9. Ranked(q, Of(s), ByDebt(Of(s)))
    BY <2>2, <2>6
  <2> HIDE DEF q
  <2>10. People!ByBalance(Of(s)) = q
    BY <2>7, <2>8, <2>9, OneRanking
  <2> QED
    BY <2>10 DEF q, p, r, m
<1>10. People!ByBalance(Of({})) = <<>>
  <2>1. Of({}) = {} /\ IsFiniteSet({}) /\ {} \in SUBSET Nat
    BY FS_EmptySet DEF Of
  <2>2. Ranked(People!ByBalance({}), {}, ByDebt({}))
    BY <2>1, ByBalanceRanks
  <2>3. People!ByBalance({}) = <<>>
    BY <2>2, NobodyRanks
  <2> QED
    BY <2>1, <2>3
<1>11. Fold(w)
  <2>1. \A s \in SUBSET D : s # {} => s \ {People!Max(s)} \in SUBSET D
    OBVIOUS
  <2>2. \A s \in SUBSET D : s # {} => People!ByBalance(Of(s)) = Next2(s, w)
    BY <1>9, <2>1
  <2>3. \A s \in SUBSET D : People!ByBalance(Of(s)) = IF s = {} THEN <<>> ELSE Next2(s, w)
    BY <1>10, <2>2
  <2> HIDE DEF Next2
  <2> QED
    BY <2>3
<1>12. ASSUME NEW g, Fold(g)
       PROVE  g[D] = w[D]
  <2> DEFINE W == {s \in SUBSET D : g[s] = w[s]}
  <2>1. {} \in W
    BY <1>11, <1>12
  <2>2. ASSUME NEW s \in SUBSET D, s # {}, \A x \in s : s \ {x} \in W
        PROVE  s \in W
    <3>1. s \ {People!Max(s)} \in W
      BY <1>8, <2>2
    <3>2. g[s \ {People!Max(s)}] = w[s \ {People!Max(s)}]
      BY <3>1
    <3>3. g[s] = Next2(s, g)
      BY <1>12, <2>2
    <3>4. w[s] = Next2(s, w)
      <4> HIDE DEF w, Next2
      <4> QED
        BY <1>11, <2>2
    <3>5. Next2(s, g) = Next2(s, w)
      <4> HIDE DEF w
      <4> QED
        BY <3>2
    <3> QED
      BY <3>3, <3>4, <3>5
  <2> HIDE DEF W
  <2>3. D \in W
    BY <1>6, <2>1, <2>2, PieceByPiece
  <2> QED
    BY <2>3 DEF W
<1> HIDE DEF Fold
<1>13. Fold(CHOOSE g : Fold(g))
  <2>1. \E g : Fold(g)
    BY <1>11
  <2> QED
    BY <2>1
<1>14. (CHOOSE g : Fold(g))[D] = w[D]
  BY <1>12, <1>13
<1>15. w[D] = People!ByBalance(Of(D))
  OBVIOUS
<1> QED
  BY <1>4, <1>5, <1>14, <1>15

(* What is owed, whoever is listed.                                        *)
LEMMA OwedIsASum ==
  ASSUME AccountsInv, NEW S, NEW o,
         o = [s \in S |-> IF People!Balance(s) > 0 THEN People!Balance(s) ELSE 0]
  PROVE  People!Owed(S) = SumOver(o, S)
<1> DEFINE F(s) == IF People!Balance(s) > 0 THEN People!Balance(s) ELSE 0
           Fold(g) == g = [q \in SUBSET S |-> IF q = {} THEN 0
                             ELSE F(CHOOSE x \in q : TRUE) + g[q \ {CHOOSE x \in q : TRUE}]]
<1>1. People!Owed(S) = (CHOOSE g : Fold(g))[S]
  BY DEF People!Owed, People!MapThenSumSet, People!MapThenFoldSet
<1>2. \A s \in S : o[s] = F(s)
  OBVIOUS
<1> HIDE DEF F
<1>3. ASSUME NEW g PROVE Fold(g) <=> Counted(o, S, g)
  <2>1. \A q \in SUBSET S : q # {} => o[First(q)] = F(First(q))
    BY <1>2, FirstIsIn
  <2>2. \A q \in SUBSET S :
           Adds(o, q, g) = IF q = {} THEN 0
                             ELSE F(CHOOSE x \in q : TRUE) + g[q \ {CHOOSE x \in q : TRUE}]
    BY <2>1 DEF Adds, First
  <2> QED
    BY <2>2 DEF Counted
<1> HIDE DEF Fold
<1>4. (CHOOSE g : Fold(g)) = CHOOSE g : Counted(o, S, g)
  BY <1>3
<1> QED
  BY <1>1, <1>4 DEF SumOver

LEMMA BalancesAreASum ==
  ASSUME NEW S, NEW o, o = [s \in S |-> People!Balance(s)]
  PROVE  People!MapThenSumSet(LAMBDA s : People!Balance(s), S) = SumOver(o, S)
<1> DEFINE F(s) == People!Balance(s)
           Fold(g) == g = [q \in SUBSET S |-> IF q = {} THEN 0
                             ELSE F(CHOOSE x \in q : TRUE) + g[q \ {CHOOSE x \in q : TRUE}]]
<1>1. People!MapThenSumSet(F, S) = (CHOOSE g : Fold(g))[S]
  BY DEF People!MapThenSumSet, People!MapThenFoldSet
<1>2. \A s \in S : o[s] = F(s)
  OBVIOUS
<1> HIDE DEF F
<1>3. ASSUME NEW g PROVE Fold(g) <=> Counted(o, S, g)
  <2>1. \A q \in SUBSET S : q # {} => o[First(q)] = F(First(q))
    BY <1>2, FirstIsIn
  <2>2. \A q \in SUBSET S :
           Adds(o, q, g) = IF q = {} THEN 0
                             ELSE F(CHOOSE x \in q : TRUE) + g[q \ {CHOOSE x \in q : TRUE}]
    BY <2>1 DEF Adds, First
  <2> QED
    BY <2>2 DEF Counted
<1> HIDE DEF Fold
<1>4. (CHOOSE g : Fold(g)) = CHOOSE g : Counted(o, S, g)
  BY <1>3
<1>5. People!MapThenSumSet(F, S) = SumOver(o, S)
  BY <1>1, <1>4 DEF SumOver
<1> QED
  BY <1>5 DEF F

LEMMA DebtorsOweItAll ==
  ASSUME AccountsInv, NEW K \in SUBSET People!InBook,
         \A s \in People!InBook : People!Balance(s) > 0 => s \in K
  PROVE  People!Owed(People!InBook)
           = People!MapThenSumSet(LAMBDA s : People!Balance(s),
                {s \in K : People!AccountState(s) = "devendo"})
<1> DEFINE B == People!InBook
           P == {s \in K : People!AccountState(s) = "devendo"}
           Q == B \ P
           o == [s \in B |-> IF People!Balance(s) > 0 THEN People!Balance(s) ELSE 0]
           b == [s \in P |-> People!Balance(s)]
<1>1. /\ IsFiniteSet(B) /\ P \in SUBSET B /\ Q \in SUBSET B
      /\ P \cap Q = {} /\ P \cup Q = B
  BY DEF AccountsInv
<1>2. IsFiniteSet(P) /\ IsFiniteSet(Q)
  BY <1>1, FS_Subset
<1>3. \A s \in B : People!Balance(s) \in Int
  BY BalanceIsAnInteger
<1>4. \A s \in B : s \in P <=> People!Balance(s) > 0
  <2>1. \A s \in B : People!AccountState(s) = "devendo" <=> People!Balance(s) > 0
    BY <1>3 DEF People!AccountState
  <2> QED
    BY <2>1
<1>5. /\ \A s \in B : o[s] \in Int
      /\ \A s \in Q : o[s] = 0
      /\ \A s \in P : b[s] = o[s]
  BY <1>1, <1>3, <1>4
<1>6. People!Owed(B) = SumOver(o, B)
  BY OwedIsASum
<1>7. People!MapThenSumSet(LAMBDA s : People!Balance(s), P) = SumOver(b, P)
  BY BalancesAreASum
<1> HIDE DEF B, P, Q, o, b
<1>8. SumOver(o, P \cup Q) = SumOver(o, P) + SumOver(o, Q)
  <2>1. \A s \in P \cup Q : o[s] \in Int
    BY <1>1, <1>5
  <2> QED
    BY <1>1, <1>2, <2>1, SumOfBoth
<1>9. SumOver(o, Q) = 0
  BY <1>2, <1>5, SumOfZeros
<1>10. \A s \in P : o[s] \in Int
  BY <1>1, <1>5
<1>11. SumOver(o, P) \in Int
  BY <1>2, <1>10, SumIsAnInteger
<1>12. SumOver(b, P) = SumOver(o, P)
  BY <1>2, <1>5, <1>10, SameSum
<1>13. People!Owed(B) = SumOver(b, P)
  BY <1>1, <1>6, <1>8, <1>9, <1>11, <1>12
<1> QED
  BY <1>7, <1>13 DEF B, P

(* The tool's list and the dashboard's.                                    *)
LEMMA ListsMean ==
  ASSUME AccountsInv, People!NamesAssumption
  PROVE  People!ListsAgree
<1> SUFFICES ASSUME NEW all \in BOOLEAN
             PROVE  LET tool  == People!ListarFiados(all)
                        whole == People!ListHandler.devedores
                        shown == People!InOrder({k \in DOMAIN whole : all \/ People!Balance(whole[k]) # 0}, <)
                        page  == [n \in DOMAIN shown |-> whole[shown[n]]]
                    IN  /\ tool.total = People!ListHandler.total
                        /\ People!IsPrefix(tool.devedores, page)
                        /\ tool.clientes = Len(page)
                        /\ tool.truncated <=> Len(tool.devedores) < Len(page)
                        /\ ~tool.truncated =>
                              tool.total = People!MapThenSumSet(LAMBDA s : People!Balance(s),
                                  {s \in People!Range(tool.devedores) : People!AccountState(s) = "devendo"})
  BY DEF People!ListsAgree
<1> DEFINE B     == People!InBook
           tool  == People!ListarFiados(all)
           whole == People!ListHandler.devedores
           P     == {k \in DOMAIN whole : all \/ People!Balance(whole[k]) # 0}
           shown == People!InOrder(P, <)
           page  == [n \in DOMAIN shown |-> whole[shown[n]]]
           K     == {s \in B : People!Balance(s) # 0 \/ all}
           kept  == People!ByBalance(K)
<1>1. /\ B \in SUBSET Nat /\ IsFiniteSet(B) /\ K \in SUBSET Nat /\ IsFiniteSet(K)
      /\ NameSlugs \subseteq Nat /\ K \in SUBSET B
  <2>1. B \in SUBSET Nat /\ IsFiniteSet(B) /\ K \in SUBSET B /\ NameSlugs \subseteq Nat
    BY DEF AccountsInv, People!NamesAssumption
  <2> QED
    BY <2>1, FS_Subset
<1>2. Ranked(kept, K, ByDebt(K)) /\ Strict(K, ByDebt(K))
  BY <1>1, ByBalanceRanks, DebtIsAnOrder
<1>3. Ranked(whole, B, ByDebt(B)) /\ Strict(B, ByDebt(B))
  BY <1>1, ByBalanceRanks, DebtIsAnOrder, InsertedIsSorted
<1>4. /\ \A s, r \in B : <<s, r>> \in ByDebt(B) <=> Richer(s, r)
      /\ \A s, r \in K : <<s, r>> \in ByDebt(K) <=> Richer(s, r)
  BY <1>1, DebtIsAnOrder
<1>5. /\ Len(whole) \in Nat /\ \A i \in 1 .. Len(whole) : whole[i] \in B
      /\ \A i, j \in 1 .. Len(whole) : <<whole[i], whole[j]>> \in ByDebt(B) <=> i < j
  BY <1>3, RanksApart
<1>6. whole \in Seq(B) /\ \A s \in B : \E i \in 1 .. Len(whole) : whole[i] = s
  BY <1>3 DEF Ranked
<1>7. DOMAIN whole = 1 .. Len(whole)
  BY <1>6
<1> HIDE DEF whole, kept
<1>8. /\ P \in SUBSET (1 .. Len(whole)) /\ P \in SUBSET Nat /\ IsFiniteSet(P)
      /\ \A k \in 1 .. Len(whole) : k \in P <=> whole[k] \in K
  <2>1. P \in SUBSET (1 .. Len(whole)) /\ P \in SUBSET Nat
    BY <1>7
  <2>2. IsFiniteSet(1 .. Len(whole))
    <3>1. Len(whole) \in Int /\ 1 \in Int
      BY <1>5
    <3> QED
      BY <3>1, FS_Interval
  <2>3. IsFiniteSet(P)
    BY <2>1, <2>2, FS_Subset
  <2> QED
    BY <1>5, <1>7, <2>1, <2>3
<1> HIDE DEF P, K
<1>9. Ranked(shown, P, ByNumber(P)) /\ Strict(P, ByNumber(P))
  BY <1>8, InOrderRanks, NumberIsAnOrder
<1>10. \A i, j \in P : <<i, j>> \in ByNumber(P) <=> i < j
  BY <1>8, NumberIsAnOrder
<1> HIDE DEF shown
<1>11. /\ Len(shown) \in Nat /\ \A i \in 1 .. Len(shown) : shown[i] \in P
       /\ \A i, j \in 1 .. Len(shown) : <<shown[i], shown[j]>> \in ByNumber(P) <=> i < j
  BY <1>9, RanksApart
<1>12. shown \in Seq(P) /\ \A k \in P : \E i \in 1 .. Len(shown) : shown[i] = k
  BY <1>9 DEF Ranked
<1>13. DOMAIN shown = 1 .. Len(shown)
  BY <1>12
<1>14. page \in Seq(K) /\ Len(page) = Len(shown)
  <2>1. \A n \in 1 .. Len(shown) : whole[shown[n]] \in K
    BY <1>8, <1>11
  <2>2. page \in [1 .. Len(shown) -> K]
    BY <1>13, <2>1
  <2> HIDE DEF page
  <2> QED
    BY <1>11, <2>2
<1>15. \A n \in 1 .. Len(shown) : page[n] = whole[shown[n]]
  BY <1>13
<1> HIDE DEF page
<1>16. Ranked(page, K, ByDebt(K))
  <2>1. ASSUME NEW i \in 1 .. Len(page), NEW j \in 1 .. Len(page), i < j
        PROVE  <<page[i], page[j]>> \in ByDebt(K)
    <3>1. /\ shown[i] \in P /\ shown[j] \in P /\ shown[i] < shown[j]
          /\ shown[i] \in 1 .. Len(whole) /\ shown[j] \in 1 .. Len(whole)
      BY <1>8, <1>10, <1>11, <1>14, <2>1
    <3>2. /\ Richer(whole[shown[i]], whole[shown[j]])
          /\ whole[shown[i]] \in K /\ whole[shown[j]] \in K
      BY <1>4, <1>5, <1>8, <3>1
    <3> QED
      BY <1>4, <1>14, <1>15, <3>2
  <2>2. ASSUME NEW s \in K
        PROVE  \E i \in 1 .. Len(page) : page[i] = s
    <3>1. PICK k \in 1 .. Len(whole) : whole[k] = s
      BY <1>1, <1>6
    <3>2. PICK i \in 1 .. Len(shown) : shown[i] = k
      BY <1>8, <1>12, <3>1
    <3> QED
      BY <1>14, <1>15, <3>1, <3>2
  <2> QED
    BY <1>14, <2>1, <2>2 DEF Ranked
<1>17. page = kept
  BY <1>2, <1>16, OneRanking
<1>18. kept \in Seq(K) /\ Len(kept) \in Nat /\ MaxShown \in Nat
  <2>1. kept \in Seq(K)
    BY <1>2 DEF Ranked
  <2> QED
    BY <2>1 DEF People!NamesAssumption
<1>19. /\ tool.devedores = IF Len(kept) > MaxShown THEN SubSeq(kept, 1, MaxShown) ELSE kept
       /\ tool.total = People!Owed(B)
       /\ tool.clientes = Len(kept)
       /\ tool.truncated = (Len(kept) > MaxShown)
  BY DEF People!ListarFiados, kept, K
<1>20. tool.total = People!ListHandler.total
  BY <1>19 DEF People!ListHandler
<1> HIDE DEF tool
<1>21. /\ People!IsPrefix(tool.devedores, kept)
       /\ tool.truncated <=> Len(tool.devedores) < Len(kept)
  <2>0. tool.truncated <=> Len(kept) > MaxShown
    BY <1>19
  <2>1. CASE Len(kept) > MaxShown
    <3>1. tool.devedores = SubSeq(kept, 1, MaxShown)
      BY <1>19, <2>1
    <3>2. Len(tool.devedores) = MaxShown
      BY <1>18, <2>1, <3>1
    <3>3. SubSeq(SubSeq(kept, 1, MaxShown), 1, MaxShown) = SubSeq(kept, 1, MaxShown)
      BY <1>18, <2>1
    <3>4. Len(tool.devedores) <= Len(kept) /\ Len(tool.devedores) < Len(kept)
      BY <1>18, <2>1, <3>2
    <3>5. People!IsPrefix(tool.devedores, kept)
      BY <3>1, <3>2, <3>3, <3>4 DEF People!IsPrefix
    <3> QED
      BY <2>0, <2>1, <3>4, <3>5
  <2>2. CASE ~(Len(kept) > MaxShown)
    <3>1. tool.devedores = kept
      BY <1>19, <2>2
    <3>2. Len(kept) <= Len(kept) /\ ~(Len(kept) < Len(kept))
      BY <1>18
    <3>3. People!IsPrefix(tool.devedores, kept)
      BY <3>1, <3>2 DEF People!IsPrefix
    <3> QED
      BY <2>0, <2>2, <3>1, <3>2, <3>3
  <2> QED
    BY <2>1, <2>2
<1>22. ASSUME ~tool.truncated
       PROVE  tool.total = People!MapThenSumSet(LAMBDA s : People!Balance(s),
                 {s \in People!Range(tool.devedores) : People!AccountState(s) = "devendo"})
  <2>1. tool.devedores = kept
    BY <1>19, <1>22
  <2>2. People!Range(kept) = K
    <3>1. \A s \in K : \E i \in 1 .. Len(kept) : kept[i] = s
      BY <1>2 DEF Ranked
    <3>2. DOMAIN kept = 1 .. Len(kept) /\ \A i \in 1 .. Len(kept) : kept[i] \in K
      BY <1>18
    <3> QED
      BY <3>1, <3>2 DEF People!Range
  <2>3. \A s \in B : People!Balance(s) > 0 => s \in K
    BY BalanceIsAnInteger DEF K
  <2>4. People!Owed(B) = People!MapThenSumSet(LAMBDA s : People!Balance(s),
           {s \in K : People!AccountState(s) = "devendo"})
    BY <1>1, <2>3, DebtorsOweItAll
  <2> QED
    BY <1>19, <2>1, <2>2, <2>4
<1> QED
  BY <1>17, <1>19, <1>20, <1>21, <1>22 DEF tool, page, shown, P, whole

(* Every view of the desk reads the same in both ways: the listings of     *)
(* StoresAgree, the timelines and the lists of the caderninho.             *)
THEOREM ViewsAlwaysAgree == DeskSpec => []ViewsAgree
<1>1. DeskSpec => []StoresAgree
  BY TheLedgerRuns, StoresListAlike, PTL
<1>2. AccountsInv => People!ListsAgree
  BY ListsMean, DeskAssumption
<1> QED
  BY <1>1, <1>2, DeskKeepsTheAccounts, TimelinesAlwaysAgree, PTL DEF ViewsAgree
=============================================================================
