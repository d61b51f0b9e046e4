--------------------------- MODULE NotifierProofs ---------------------------
(***************************************************************************)
(* Theorems about a day of the notifier, for every set of recipients,      *)
(* bills and concurrent runs, and any number of failures.                  *)
(***************************************************************************)
EXTENDS Notifier, FiniteSetTheorems, TLAPS

-----------------------------------------------------------------------------
(* What a run in the middle of its work looks like.                        *)

Good(run) == Shaped(run) /\ InTurn(run)

LEMMA PartsAreBounded ==
  ASSUME NEW run, run.bills \subseteq DueBills
  PROVE  /\ Parts(run) \in Nat /\ Parts(run) <= Cardinality(DueBills) + 1
         /\ run.bills # {} \/ run.kind = "saidas_tarde" => Parts(run) >= 1
         /\ Cardinality(DueBills) \in Nat
<1>1. /\ IsFiniteSet(run.bills) /\ Cardinality(run.bills) <= Cardinality(DueBills)
      /\ Cardinality(DueBills) \in Nat
  BY NotifierAssumption, FS_Subset, FS_CardinalityType
<1>2. Cardinality(run.bills) \in Nat /\ (Cardinality(run.bills) = 0 <=> run.bills = {})
  BY <1>1, FS_CardinalityType, FS_EmptySet
<1> QED
  BY <1>1, <1>2 DEF Parts

LEMMA OffIsOff == /\ Off.at = "off" /\ ~Good(Off)
                  /\ \A u : ~MayTell(Off, u) /\ ~IsTelling(Off, u)
BY DEF Off, Good, Shaped, MayTell, IsTelling

(* A run that only moves on, in the fields that do not say where its list  *)
(* is.                                                                     *)
LEMMA MovesOn ==
  ASSUME NEW run, Good(run), NEW x, DOMAIN x = DOMAIN run,
         x.kind = run.kind, x.candidates = run.candidates, x.todo \subseteq run.todo,
         x.bills = run.bills, x.part = run.part, x.shown = run.shown, x.errs \in BOOLEAN,
         x.at \in {"next", "record"}, x.at = "record" => x.user \in Users
  PROVE  Good(x)
<1>1. Parts(x) = Parts(run)
  BY DEF Parts
<1> QED
  BY <1>1 DEF Good, Shaped, InTurn

LEMMA StartGives ==
  ASSUME NEW k \in Kinds, phones \subseteq Users
  PROVE  LET x == [at |-> IF phones = {} THEN "end" ELSE "ledger",
                   kind |-> k, todo |-> phones, candidates |-> phones,
                   began |-> window, outside |-> {}, bills |-> {},
                   user |-> None, part |-> 1, shown |-> {}, errs |-> FALSE]
         IN  /\ Good(x) /\ x.kind = k /\ x.at \in {"ledger", "end"}
             /\ x.candidates \ x.todo = {}
<1> DEFINE x == [at |-> IF phones = {} THEN "end" ELSE "ledger",
                 kind |-> k, todo |-> phones, candidates |-> phones,
                 began |-> window, outside |-> {}, bills |-> {},
                 user |-> None, part |-> 1, shown |-> {}, errs |-> FALSE]
<1>1. /\ DOMAIN x = {"at", "kind", "todo", "candidates", "began", "outside", "bills",
                     "user", "part", "shown", "errs"}
      /\ x.at \in {"ledger", "end"} /\ x.kind = k /\ x.todo = phones /\ x.candidates = phones
      /\ x.bills = {} /\ x.part = 1 /\ x.shown = {} /\ x.errs \in BOOLEAN
  OBVIOUS
<1> HIDE DEF x
<1>2. Parts(x) \in Nat
  BY <1>1, PartsAreBounded
<1>3. x.shown = 1 .. x.part - 1
  BY <1>1
<1>5. Shaped(x)
  BY <1>1 DEF Shaped
<1>6. InTurn(x)
  BY <1>1, <1>2, <1>3 DEF InTurn
<1> QED
  BY <1>1, <1>5, <1>6 DEF x, Good

LEMMA ReadLedgerGives ==
  ASSUME NEW run, Good(run), run.at = "ledger", open \subseteq DueBills
  PROVE  LET x == [run EXCEPT !.at = IF run.kind = "digest" THEN "analyse" ELSE "next",
                              !.bills = open]
         IN  /\ Good(x) /\ x.kind = run.kind /\ x.at \in {"analyse", "next"}
             /\ x.candidates = run.candidates /\ x.todo = run.todo
             /\ x.outside = run.outside /\ x.errs = run.errs
<1> DEFINE x == [run EXCEPT !.at = IF run.kind = "digest" THEN "analyse" ELSE "next",
                            !.bills = open]
<1>1. /\ DOMAIN x = DOMAIN run
      /\ x.at \in {"analyse", "next"} /\ x.kind = run.kind
      /\ x.candidates = run.candidates /\ x.todo = run.todo
      /\ x.outside = run.outside /\ x.bills = open /\ x.errs = run.errs
      /\ x.part = run.part /\ x.shown = run.shown
  BY DEF Good, Shaped
<1> HIDE DEF x
<1>2. Parts(x) \in Nat
  BY <1>1, PartsAreBounded
<1>3. x.part = 1 /\ x.shown = 1 .. 0
  BY <1>1 DEF Good, InTurn
<1>4. x.shown \subseteq 1 .. Parts(x) /\ x.shown = 1 .. x.part - 1 /\ x.part <= Parts(x) + 1
  BY <1>2, <1>3
<1>5. Good(x)
  BY <1>1, <1>3, <1>4 DEF Good, Shaped, InTurn
<1> QED
  BY <1>1, <1>5 DEF x

(* A recipient's turn begins.                                              *)
LEMMA TurnGives ==
  ASSUME NEW run, Good(run), run.at = "next", NEW u \in run.todo
  PROVE  LET rest == [run EXCEPT !.todo = @ \ {u}]
             x == [rest EXCEPT !.at = IF rest.kind = "digest" THEN "digest" ELSE "list",
                               !.user = u, !.part = 1, !.shown = {}]
         IN  /\ Good(x) /\ x.kind = run.kind /\ x.user = u
             /\ x.at = (IF run.kind = "digest" THEN "digest" ELSE "list")
             /\ x.candidates = run.candidates /\ x.todo = run.todo \ {u}
             /\ x.outside = run.outside /\ x.errs = run.errs
<1> DEFINE rest == [run EXCEPT !.todo = @ \ {u}]
           x == [rest EXCEPT !.at = IF rest.kind = "digest" THEN "digest" ELSE "list",
                             !.user = u, !.part = 1, !.shown = {}]
<1>1. /\ DOMAIN rest = DOMAIN run /\ rest.todo = run.todo \ {u}
      /\ rest.kind = run.kind /\ rest.candidates = run.candidates
      /\ rest.bills = run.bills /\ rest.outside = run.outside /\ rest.errs = run.errs
  BY DEF Good, Shaped
<1> HIDE DEF rest
<1>2. /\ DOMAIN x = DOMAIN run /\ x.at = (IF run.kind = "digest" THEN "digest" ELSE "list")
      /\ x.user = u /\ x.part = 1 /\ x.shown = {} /\ x.todo = run.todo \ {u}
      /\ x.kind = run.kind /\ x.candidates = run.candidates /\ x.bills = run.bills
      /\ x.outside = run.outside /\ x.errs = run.errs
  BY <1>1 DEF Good, Shaped
<1> HIDE DEF x
<1>3. Parts(x) \in Nat /\ (run.kind = "saidas_tarde" => Parts(x) >= 1)
  BY <1>2, PartsAreBounded DEF Good, Shaped
<1>4. x.shown = 1 .. x.part - 1
  BY <1>2
<1>5. Shaped(x)
  BY <1>2 DEF Good, Shaped
<1>6. InTurn(x)
  BY <1>2, <1>3, <1>4 DEF InTurn, Good, Shaped, Kinds
<1> QED
  BY <1>2, <1>5, <1>6 DEF x, rest, Good

LEMMA DigestGives ==
  ASSUME NEW run, Good(run), run.at = "digest"
  PROVE  LET x == [run EXCEPT !.at = IF run.bills # {} THEN "list" ELSE "record"]
         IN  /\ Good(x) /\ x.kind = "digest" /\ run.kind = "digest" /\ x.user = run.user
             /\ x.at \in {"list", "record"}
             /\ x.candidates = run.candidates /\ x.todo = run.todo
             /\ x.outside = run.outside /\ x.errs = run.errs
<1> DEFINE x == [run EXCEPT !.at = IF run.bills # {} THEN "list" ELSE "record"]
<1>1. /\ DOMAIN x = DOMAIN run /\ x.at = (IF run.bills # {} THEN "list" ELSE "record")
      /\ x.user = run.user /\ x.part = run.part /\ x.shown = run.shown
      /\ x.kind = run.kind /\ x.candidates = run.candidates /\ x.bills = run.bills
      /\ x.outside = run.outside /\ x.errs = run.errs /\ x.todo = run.todo
  BY DEF Good, Shaped
<1> HIDE DEF x
<1>2. Parts(x) = Parts(run) /\ run.part = 1 /\ run.kind = "digest"
  BY <1>1 DEF Parts, Good, InTurn
<1>3. run.bills # {} => Parts(run) >= 1
  BY PartsAreBounded DEF Good, Shaped
<1>4. Good(x)
  BY <1>1, <1>2, <1>3 DEF Good, Shaped, InTurn
<1> QED
  BY <1>1, <1>2, <1>4 DEF x

(* A run that has shown one part more of its list.                         *)
LEMMA ShownGives ==
  ASSUME NEW run, Good(run), run.at = "list", NEW x, DOMAIN x = DOMAIN run,
         x.user = run.user, x.kind = run.kind, x.candidates = run.candidates,
         x.todo = run.todo, x.bills = run.bills, x.errs \in BOOLEAN,
         x.part = run.part + 1, x.shown = run.shown \cup {run.part},
         x.at \in {"next", "list", "record"}, x.at = "list" => run.part # Parts(run)
  PROVE  Good(x)
<1>1. Parts(x) = Parts(run) /\ Parts(run) \in Nat
  BY PartsAreBounded DEF Parts, Good, Shaped
<1>2. run.part \in Nat \ {0} /\ run.part <= Parts(run) /\ run.shown = 1 .. run.part - 1
  BY DEF Good, Shaped, InTurn
<1>3. x.shown = 1 .. x.part - 1 /\ x.shown \subseteq 1 .. Parts(x)
  BY <1>1, <1>2
<1>4. Shaped(x)
  BY <1>2, <1>3 DEF Good, Shaped
<1>5. InTurn(x)
  BY <1>1, <1>2, <1>3 DEF InTurn
<1> QED
  BY <1>4, <1>5 DEF Good

LEMMA PartGives ==
  ASSUME NEW run, Good(run), run.at = "list"
  PROVE  LET last == run.part = Parts(run)
             x == [Shown(run) EXCEPT !.at = IF last THEN "record" ELSE "list"]
         IN  /\ Good(x) /\ x.kind = run.kind /\ x.user = run.user
             /\ x.at = (IF last THEN "record" ELSE "list")
             /\ x.candidates = run.candidates /\ x.todo = run.todo
             /\ x.outside = run.outside /\ x.errs = run.errs
<1> DEFINE last == run.part = Parts(run)
           x == [Shown(run) EXCEPT !.at = IF last THEN "record" ELSE "list"]
<1>1. /\ DOMAIN x = DOMAIN run /\ x.at = (IF last THEN "record" ELSE "list")
      /\ x.user = run.user /\ x.part = run.part + 1 /\ x.shown = run.shown \cup {run.part}
      /\ x.kind = run.kind /\ x.candidates = run.candidates /\ x.bills = run.bills
      /\ x.outside = run.outside /\ x.errs = run.errs /\ x.todo = run.todo
      /\ x.errs \in BOOLEAN
  BY DEF Good, Shaped, Shown
<1> HIDE DEF x
<1>2. Good(x)
  BY <1>1, ShownGives
<1> QED
  BY <1>1, <1>2 DEF x

(* The answer to a part that was delivered is lost.                        *)
LEMMA LostPartGives ==
  ASSUME NEW run, Good(run), run.at = "list"
  PROVE  LET x == FailedPart(Shown(run))
         IN  /\ Good(x) /\ x.kind = run.kind /\ x.user = run.user /\ x.errs = TRUE
             /\ x.at = (IF run.kind = "digest" THEN "record" ELSE "next")
<1> DEFINE x == FailedPart(Shown(run))
<1>1. /\ DOMAIN x = DOMAIN run /\ x.at = (IF run.kind = "digest" THEN "record" ELSE "next")
      /\ x.user = run.user /\ x.part = run.part + 1 /\ x.shown = run.shown \cup {run.part}
      /\ x.kind = run.kind /\ x.candidates = run.candidates /\ x.bills = run.bills
      /\ x.todo = run.todo /\ x.errs = TRUE /\ x.errs \in BOOLEAN
  BY DEF Good, Shaped, Shown, FailedPart
<1> HIDE DEF x
<1>2. Good(x)
  BY <1>1, ShownGives
<1> QED
  BY <1>1, <1>2 DEF x

LEMMA FailedPartGives ==
  ASSUME NEW run, Good(run), run.at = "list"
  PROVE  LET x == FailedPart(run)
         IN  /\ Good(x) /\ x.kind = run.kind /\ x.user = run.user /\ x.errs = TRUE
             /\ x.at = (IF run.kind = "digest" THEN "record" ELSE "next")
             /\ x.candidates = run.candidates /\ x.todo = run.todo
             /\ x.outside = run.outside
<1> DEFINE x == FailedPart(run)
<1>1. /\ DOMAIN x = DOMAIN run /\ x.at = (IF run.kind = "digest" THEN "record" ELSE "next")
      /\ x.user = run.user /\ x.part = run.part /\ x.shown = run.shown
      /\ x.kind = run.kind /\ x.candidates = run.candidates /\ x.bills = run.bills
      /\ x.outside = run.outside /\ x.todo = run.todo
      /\ x.errs = TRUE /\ x.errs \in BOOLEAN
  BY DEF Good, Shaped, FailedPart
<1> HIDE DEF x
<1>2. x.at = "record" => x.user \in Users
  BY <1>1 DEF Good, Shaped
<1>3. Good(x)
  BY <1>1, <1>2, MovesOn
<1> QED
  BY <1>1, <1>3 DEF x

(* On to the next recipient, with or without an error.                     *)
LEMMA ContinueGives ==
  ASSUME NEW run, Good(run), NEW failed \in BOOLEAN
  PROVE  LET x == [run EXCEPT !.at = "next", !.errs = @ \/ failed]
         IN  /\ Good(x) /\ x.kind = run.kind /\ x.at = "next"
             /\ x.candidates = run.candidates /\ x.todo = run.todo
             /\ x.outside = run.outside /\ (x.errs <=> run.errs \/ failed)
<1> DEFINE x == [run EXCEPT !.at = "next", !.errs = @ \/ failed]
<1>1. /\ DOMAIN x = DOMAIN run /\ x.at = "next"
      /\ x.part = run.part /\ x.shown = run.shown
      /\ x.kind = run.kind /\ x.candidates = run.candidates /\ x.bills = run.bills
      /\ x.outside = run.outside /\ x.todo = run.todo
  BY DEF Good, Shaped
<1>2. x.errs \in BOOLEAN /\ (x.errs <=> run.errs \/ failed)
  BY DEF Good, Shaped
<1> HIDE DEF x
<1>3. Good(x)
  BY <1>1, <1>2, MovesOn
<1> QED
  BY <1>1, <1>2, <1>3 DEF x

-----------------------------------------------------------------------------
(* The log and the runs, step by step.                                     *)

Acc(run, t, log) ==
    /\ run.at = "record" \/ (run.at = "list" /\ run.kind = "digest") => t[run.user][run.kind] > 0
    /\ ~run.errs => \A u \in run.candidates \ (run.outside \cup run.todo) :
         <<u, DedupeKey(run.kind)>> \in log
         \/ (run.at \in {"digest", "list", "record"} /\ u = run.user)

RunsInv == \A r \in Runs : runs[r] # Off => InTurn(runs[r]) /\ Accountable(runs[r])

PathInv == TypeOK /\ RunsInv /\ RecordMeansSent

LEMMA AccountableIsAcc ==
  ASSUME NEW run
  PROVE  Accountable(run) <=> Acc(run, told, deliveryLog)
BY DEF Accountable, Acc, AlreadySent

LEMMA KeysDiffer ==
  ASSUME NEW k \in Kinds, NEW l \in Kinds
  PROVE  DedupeKey(k) = DedupeKey(l) <=> k = l
BY DEF Kinds, DedupeKey

(* Nothing that was sent or recorded is undone.                            *)
OnlyMore == /\ told' \in [Users -> [Kinds -> Nat]]
            /\ \A u \in Users, k \in Kinds : told'[u][k] >= told[u][k]
            /\ deliveryLog \subseteq deliveryLog'

LEMMA UntoldIsOnlyMore ==
  ASSUME TypeOK, UNCHANGED <<deliveryLog, told>>
  PROVE  OnlyMore
BY DEF TypeOK, OnlyMore

LEMMA ToldIsOnlyMore ==
  ASSUME TypeOK, NEW u \in Users, NEW k \in Kinds, Told(u, k), UNCHANGED deliveryLog
  PROVE  OnlyMore /\ told'[u][k] = told[u][k] + 1
         /\ \A v \in Users, l \in Kinds : v # u \/ l # k => told'[v][l] = told[v][l]
<1>1. told \in [Users -> [Kinds -> Nat]] /\ told' = [told EXCEPT ![u] = [told[u] EXCEPT ![k] = @ + 1]]
  BY DEF TypeOK, Told
<1>2. /\ [told[u] EXCEPT ![k] = @ + 1] \in [Kinds -> Nat]
      /\ [told[u] EXCEPT ![k] = @ + 1][k] = told[u][k] + 1
      /\ \A l \in Kinds : l # k => [told[u] EXCEPT ![k] = @ + 1][l] = told[u][l]
  BY <1>1
<1>3. /\ told' \in [Users -> [Kinds -> Nat]] /\ told'[u] = [told[u] EXCEPT ![k] = @ + 1]
      /\ \A v \in Users : v # u => told'[v] = told[v]
  BY <1>1, <1>2
<1>4. \A v \in Users, l \in Kinds : told'[v][l] >= told[v][l]
  BY <1>1, <1>2, <1>3
<1> QED
  BY <1>2, <1>3, <1>4 DEF OnlyMore

LEMMA AccIsKept ==
  ASSUME TypeOK, OnlyMore, NEW run, Shaped(run), Acc(run, told, deliveryLog)
  PROVE  Acc(run, told', deliveryLog')
<1>1. ASSUME run.at = "record" \/ (run.at = "list" /\ run.kind = "digest")
      PROVE  told'[run.user][run.kind] > 0
  <2>1. run.user \in Users /\ run.kind \in Kinds /\ told[run.user][run.kind] > 0
    BY <1>1 DEF Shaped, Acc
  <2>2. told'[run.user][run.kind] >= told[run.user][run.kind]
        /\ told'[run.user][run.kind] \in Nat /\ told[run.user][run.kind] \in Nat
    BY <2>1 DEF OnlyMore, TypeOK
  <2> QED
    BY <2>1, <2>2
<1> QED
  BY <1>1 DEF Acc, OnlyMore

(* A step of one run: what it becomes answers for itself, the others still *)
(* do.                                                                     *)
LEMMA RunSteps ==
  ASSUME TypeOK, RunsInv, OnlyMore, NEW r \in Runs, NEW x, Set(r, x),
         x = Off \/ (Good(x) /\ Acc(x, told', deliveryLog'))
  PROVE  /\ DOMAIN runs' = Runs /\ runs'[r] = x
         /\ \A s \in Runs : s # r => runs'[s] = runs[s]
         /\ \A s \in Runs : runs'[s] = Off \/ Shaped(runs'[s])
         /\ RunsInv'
<1>1. /\ DOMAIN runs' = Runs /\ runs'[r] = x
      /\ \A s \in Runs : s # r => runs'[s] = runs[s]
  BY DEF TypeOK, Set
<1>2. ASSUME NEW s \in Runs, runs'[s] # Off
      PROVE  Good(runs'[s]) /\ Acc(runs'[s], told', deliveryLog')
  <2>1. CASE s = r
    BY <1>1, <1>2, <2>1
  <2>2. CASE s # r
    <3>1. runs'[s] = runs[s] /\ Shaped(runs[s]) /\ InTurn(runs[s]) /\ Accountable(runs[s])
      BY <1>1, <1>2, <2>2 DEF TypeOK, RunsInv
    <3> QED
      BY <3>1, AccountableIsAcc, AccIsKept DEF Good
  <2> QED
    BY <2>1, <2>2
<1>3. RunsInv'
  BY <1>2 DEF RunsInv, Good, Accountable, Acc, AlreadySent
<1> QED
  BY <1>1, <1>2, <1>3 DEF Good

LEMMA RunsAreGood ==
  ASSUME TypeOK, RunsInv, NEW r \in Runs, runs[r] # Off
  PROVE  Good(runs[r]) /\ Acc(runs[r], told, deliveryLog)
BY AccountableIsAcc DEF TypeOK, RunsInv, Good

(* What a failure asks of the schedule.                                    *)
LEMMA RetryAsks ==
  ASSUME TypeOK, NEW k \in Kinds, Retry(k) \/ UNCHANGED Schedule
  PROVE  /\ invoked' \in [Kinds -> 0..MaxAttempts] /\ wanted' \in [Kinds -> Nat]
         /\ wanted'[k] = wanted[k] \/ wanted'[k] = wanted[k] + 1
         /\ invoked'[k] >= invoked[k]
         /\ \A l \in Kinds : l # k => wanted'[l] = wanted[l] /\ invoked'[l] = invoked[l]
<1>1. CASE UNCHANGED Schedule
  BY <1>1 DEF Schedule, TypeOK
<1>2. CASE Retry(k) /\ invoked[k] < MaxAttempts
  <2>1. /\ invoked' = [invoked EXCEPT ![k] = @ + 1] /\ wanted' = [wanted EXCEPT ![k] = @ + 1]
        /\ invoked[k] + 1 \in 0 .. MaxAttempts
    BY <1>2, NotifierAssumption DEF Retry, TypeOK
  <2> QED
    BY <2>1 DEF TypeOK
<1>3. CASE Retry(k) /\ ~(invoked[k] < MaxAttempts)
  BY <1>1, <1>3 DEF Retry
<1> QED
  BY <1>1, <1>2, <1>3

Failures == lost' \in Nat /\ faults' \in Nat /\ lost' <= faults' /\ faults' <= MaxFaults

LEMMA FailuresAreCounted ==
  ASSUME TypeOK, Fault \/ Loss \/ NoFault \/ UNCHANGED <<faults, lost>>
  PROVE  Failures /\ (Loss => lost' = lost + 1) /\ (Fault \/ NoFault => lost' = lost)
BY NotifierAssumption DEF TypeOK, Fault, Loss, NoFault, Failures

-----------------------------------------------------------------------------
(* One step of one run, by what it becomes and what it spends.             *)

Weight(b)   == IF b THEN 1 ELSE 0
Heard(t, u) == t[u]["digest"] + t[u]["saidas_tarde"]
Noted(u, k) == <<u, DedupeKey(k)>>

Asked(k) == /\ invoked' \in [Kinds -> 0..MaxAttempts] /\ wanted' \in [Kinds -> Nat]
            /\ invoked'[k] >= invoked[k]
            /\ \A l \in Kinds : l # k => wanted'[l] = wanted[l] /\ invoked'[l] = invoked[l]

(* What u hears and may hear grows by no more than what was lost; and a    *)
(* record leaves only those who are already telling u.                     *)
Balanced(r, x, k) ==
    \A u \in Users :
      /\ Noted(u, k) \notin deliveryLog' =>
           Heard(told', u) - Heard(told, u) + wanted'[k] - wanted[k]
             + Weight(MayTell(x, u)) - Weight(MayTell(runs[r], u)) <= lost' - lost
      /\ Noted(u, k) \in deliveryLog =>
           Heard(told', u) - Heard(told, u)
             + Weight(IsTelling(x, u)) - Weight(IsTelling(runs[r], u)) <= lost' - lost
      /\ Noted(u, k) \in deliveryLog' \ deliveryLog =>
           ~IsTelling(x, u) /\ Heard(told', u) = Heard(told, u) /\ lost' >= lost

RunStep(r, x, k) ==
    /\ Set(r, x)
    /\ x = Off \/ (Good(x) /\ Acc(x, told', deliveryLog') /\ x.kind = k)
    /\ UNCHANGED World /\ snapshot' \in BOOLEAN /\ OnlyMore /\ Failures /\ Asked(k)
    /\ \A u \in Users, l \in Kinds : Noted(u, l) \in deliveryLog' => told'[u][l] > 0
    /\ Balanced(r, x, k)

LEMMA HeardIsNat ==
  ASSUME NEW t \in [Users -> [Kinds -> Nat]], NEW u \in Users
  PROVE  Heard(t, u) \in Nat
BY DEF Heard, Kinds

LEMMA NothingSaid ==
  ASSUME TypeOK, RecordMeansSent, NEW r \in Runs, NEW x, NEW k \in Kinds, Set(r, x),
         UNCHANGED <<World, told, deliveryLog>>, snapshot' \in BOOLEAN,
         x = Off \/ (Good(x) /\ Acc(x, told, deliveryLog) /\ x.kind = k),
         Failures, Asked(k),
         \A u \in Users :
           /\ wanted'[k] - wanted[k]
                + Weight(MayTell(x, u)) - Weight(MayTell(runs[r], u)) <= lost' - lost
           /\ Noted(u, k) \in deliveryLog =>
                Weight(IsTelling(x, u)) - Weight(IsTelling(runs[r], u)) <= lost' - lost
  PROVE  RunStep(r, x, k)
<1>1. OnlyMore
  BY UntoldIsOnlyMore
<1>2. \A u \in Users, l \in Kinds : Noted(u, l) \in deliveryLog' => told'[u][l] > 0
  BY DEF RecordMeansSent, AlreadySent, Noted
<1>3. \A u \in Users : Heard(told', u) = Heard(told, u) /\ Heard(told, u) \in Nat
  BY HeardIsNat DEF TypeOK
<1>4. wanted'[k] \in Int /\ wanted[k] \in Int /\ lost \in Int /\ lost' \in Int
  BY DEF Asked, TypeOK, Failures
<1>5. Balanced(r, x, k)
  <2> SUFFICES ASSUME NEW u \in Users
               PROVE  /\ Heard(told', u) - Heard(told, u) + wanted'[k] - wanted[k]
                           + Weight(MayTell(x, u)) - Weight(MayTell(runs[r], u)) <= lost' - lost
                      /\ Noted(u, k) \in deliveryLog =>
                           Heard(told', u) - Heard(told, u)
                             + Weight(IsTelling(x, u)) - Weight(IsTelling(runs[r], u))
                           <= lost' - lost
    BY DEF Balanced
  <2>1. /\ Weight(MayTell(x, u)) \in Int /\ Weight(MayTell(runs[r], u)) \in Int
        /\ Weight(IsTelling(x, u)) \in Int /\ Weight(IsTelling(runs[r], u)) \in Int
    BY DEF Weight
  <2> QED
    BY <1>3, <1>4, <2>1
<1> QED
  BY <1>1, <1>2, <1>5 DEF RunStep

(* The schedule as it was, or one invocation more.                         *)
LEMMA RetryIsAsked ==
  ASSUME TypeOK, NEW k \in Kinds, Retry(k) \/ UNCHANGED Schedule
  PROVE  Asked(k) /\ wanted'[k] - wanted[k] <= 1 /\ (UNCHANGED Schedule => wanted'[k] - wanted[k] = 0)
<1>1. wanted[k] \in Nat /\ wanted'[k] \in Nat
      /\ (wanted'[k] = wanted[k] \/ wanted'[k] = wanted[k] + 1)
  BY RetryAsks DEF TypeOK
<1>2. UNCHANGED Schedule => wanted' = wanted
  BY DEF Schedule
<1> QED
  BY <1>1, <1>2, RetryAsks DEF Asked

LEMMA StartStep ==
  ASSUME PathInv, NEW r \in Runs, NEW k \in Kinds, Start(r, k)
  PROVE  runs[r] = Off /\ wanted[k] > 0 /\ \E x : RunStep(r, x, k)
<1> DEFINE x == [at |-> IF phones = {} THEN "end" ELSE "ledger",
                 kind |-> k, todo |-> phones, candidates |-> phones,
                 began |-> window, outside |-> {}, bills |-> {},
                 user |-> None, part |-> 1, shown |-> {}, errs |-> FALSE]
<1>1. TypeOK /\ RecordMeansSent /\ phones \subseteq Users
  BY DEF PathInv, TypeOK
<1>2. /\ runs[r] = Off /\ wanted[k] > 0 /\ wanted' = [wanted EXCEPT ![k] = @ - 1]
      /\ Set(r, x) /\ UNCHANGED <<World, snapshot, deliveryLog, invoked, told, faults, lost>>
  BY DEF Start
<1>3. Good(x) /\ x.kind = k /\ x.at \in {"ledger", "end"} /\ x.candidates \ x.todo = {}
  BY <1>1, StartGives
<1> HIDE DEF x
<1>4. Acc(x, told, deliveryLog)
  BY <1>3 DEF Acc
<1>5. Asked(k) /\ wanted'[k] - wanted[k] = -1
  BY <1>1, <1>2, NotifierAssumption DEF Asked, TypeOK
<1>6. Failures /\ lost' - lost = 0
  BY <1>1, <1>2, FailuresAreCounted DEF TypeOK
<1>7. \A u \in Users : ~MayTell(runs[r], u) /\ ~IsTelling(runs[r], u) /\ ~IsTelling(x, u)
  BY <1>2, <1>3, OffIsOff DEF IsTelling
<1>8. UNCHANGED <<World, told, deliveryLog>> /\ snapshot' \in BOOLEAN
  BY <1>1, <1>2 DEF TypeOK
<1>9. \A u \in Users :
        /\ wanted'[k] - wanted[k]
             + Weight(MayTell(x, u)) - Weight(MayTell(runs[r], u)) <= lost' - lost
        /\ Noted(u, k) \in deliveryLog =>
             Weight(IsTelling(x, u)) - Weight(IsTelling(runs[r], u)) <= lost' - lost
  BY <1>5, <1>6, <1>7 DEF Weight
<1>10. RunStep(r, x, k)
  BY <1>1, <1>2, <1>3, <1>4, <1>5, <1>6, <1>8, <1>9, NothingSaid
<1> QED
  BY <1>2, <1>10

(* A run that goes on without having said anything.                        *)
LEMMA GoesOn ==
  ASSUME TypeOK, RecordMeansSent, NEW r \in Runs, NEW x, NEW k \in Kinds, Set(r, x),
         UNCHANGED <<World, Schedule, told, deliveryLog>>, snapshot' \in BOOLEAN,
         Good(x), Acc(x, told, deliveryLog), x.kind = k, Failures,
         lost' = lost \/ lost' = lost + 1,
         \A u \in Users : MayTell(x, u) => MayTell(runs[r], u) \/ lost' = lost + 1,
         \A u \in Users : IsTelling(x, u) =>
                            IsTelling(runs[r], u) \/ Noted(u, k) \notin deliveryLog
  PROVE  RunStep(r, x, k)
<1>1. UNCHANGED Schedule /\ UNCHANGED <<World, told, deliveryLog>>
  OBVIOUS
<1>2. Asked(k) /\ wanted'[k] - wanted[k] = 0
  BY <1>1, RetryIsAsked
<1>3. lost \in Nat
  BY DEF TypeOK
<1>4. \A u \in Users :
        /\ wanted'[k] - wanted[k]
             + Weight(MayTell(x, u)) - Weight(MayTell(runs[r], u)) <= lost' - lost
        /\ Noted(u, k) \in deliveryLog =>
             Weight(IsTelling(x, u)) - Weight(IsTelling(runs[r], u)) <= lost' - lost
  BY <1>2, <1>3 DEF Weight
<1> QED
  BY <1>1, <1>2, <1>4, NothingSaid

(* A run that ends, and may be asked for again.                            *)
LEMMA Ends ==
  ASSUME TypeOK, RecordMeansSent, NEW r \in Runs, NEW k \in Kinds, Set(r, Off),
         UNCHANGED <<World, told, deliveryLog, snapshot>>, Failures,
         Retry(k) \/ UNCHANGED Schedule,
         lost' = lost \/ lost' = lost + 1,
         \A u \in Users : MayTell(runs[r], u) \/ lost' = lost + 1
  PROVE  RunStep(r, Off, k)
<1>1. UNCHANGED <<World, told, deliveryLog>> /\ snapshot' \in BOOLEAN
  BY DEF TypeOK
<1>2. Asked(k) /\ wanted'[k] - wanted[k] <= 1
  BY RetryIsAsked
<1>3. lost \in Nat /\ wanted'[k] - wanted[k] \in Int
  BY <1>2 DEF TypeOK, Asked
<1>4. \A u \in Users :
        /\ wanted'[k] - wanted[k]
             + Weight(MayTell(Off, u)) - Weight(MayTell(runs[r], u)) <= lost' - lost
        /\ Noted(u, k) \in deliveryLog =>
             Weight(IsTelling(Off, u)) - Weight(IsTelling(runs[r], u)) <= lost' - lost
  BY <1>2, <1>3, OffIsOff DEF Weight
<1> QED
  BY <1>1, <1>2, <1>4, NothingSaid

LEMMA PreambleStep ==
  ASSUME PathInv, NEW r \in Runs, ReadLedger(r) \/ Analyse(r) \/ Abort(r)
  PROVE  runs[r] # Off /\ \E x : RunStep(r, x, runs[r].kind)
<1> DEFINE run == runs[r]
           k == run.kind
<1>1. TypeOK /\ RecordMeansSent /\ RunsInv /\ open \subseteq DueBills
  BY DEF PathInv, TypeOK
<1>2. run # Off /\ (run.at = "ledger" \/ run.at = "analyse")
  BY OffIsOff DEF ReadLedger, Analyse, Abort
<1>3. Good(run) /\ Acc(run, told, deliveryLog) /\ k \in Kinds
  BY <1>1, <1>2, RunsAreGood DEF Good, Shaped
<1>4. \A u \in Users : MayTell(run, u)
  BY <1>2 DEF MayTell
<1>5. CASE ReadLedger(r)
  <2> DEFINE x == [run EXCEPT !.at = IF run.kind = "digest" THEN "analyse" ELSE "next",
                              !.bills = open]
  <2>1. /\ run.at = "ledger" /\ Set(r, x)
        /\ UNCHANGED <<World, Schedule, told, deliveryLog>> /\ UNCHANGED <<faults, lost>>
        /\ snapshot' = snapshot
    BY <1>5 DEF ReadLedger
  <2>2. /\ Good(x) /\ x.kind = k /\ x.at \in {"analyse", "next"}
        /\ x.candidates = run.candidates /\ x.todo = run.todo
        /\ x.outside = run.outside /\ x.errs = run.errs
    BY <1>1, <1>3, <2>1, ReadLedgerGives
  <2> HIDE DEF x
  <2>3. Acc(x, told, deliveryLog)
    BY <1>3, <2>1, <2>2 DEF Acc
  <2>4. \A u \in Users : ~IsTelling(x, u)
    BY <2>2 DEF IsTelling
  <2>5. Failures
    BY <1>1, <2>1, FailuresAreCounted
  <2>6. RunStep(r, x, k)
    BY <1>1, <1>3, <1>4, <2>1, <2>2, <2>3, <2>4, <2>5, GoesOn DEF TypeOK
  <2> QED
    BY <1>2, <2>6
<1>6. CASE Analyse(r)
  <2> DEFINE x == [run EXCEPT !.at = "next"]
  <2>1. /\ run.at = "analyse" /\ Set(r, x)
        /\ UNCHANGED <<World, Schedule, told, deliveryLog>> /\ (Fault \/ NoFault)
        /\ snapshot' \in BOOLEAN
    BY <1>1, <1>6 DEF Analyse, TypeOK
  <2>2. /\ DOMAIN x = DOMAIN run /\ x.kind = k /\ x.at = "next"
        /\ x.candidates = run.candidates /\ x.todo = run.todo
        /\ x.bills = run.bills /\ x.part = run.part /\ x.shown = run.shown
        /\ x.outside = run.outside /\ x.errs = run.errs /\ x.errs \in BOOLEAN
    BY <1>3 DEF Good, Shaped
  <2> HIDE DEF x
  <2>3. Good(x)
    BY <1>3, <2>2, MovesOn
  <2>4. Acc(x, told, deliveryLog)
    BY <1>3, <2>1, <2>2 DEF Acc
  <2>5. \A u \in Users : ~IsTelling(x, u)
    BY <2>2 DEF IsTelling
  <2>6. Failures /\ lost' = lost
    BY <1>1, <2>1, FailuresAreCounted
  <2>7. RunStep(r, x, k)
    BY <1>1, <1>3, <1>4, <2>1, <2>2, <2>3, <2>4, <2>5, <2>6, GoesOn
  <2> QED
    BY <1>2, <2>7
<1>7. CASE Abort(r)
  <2>1. /\ Set(r, Off) /\ Retry(k) /\ Fault
        /\ UNCHANGED <<World, told, deliveryLog, snapshot>>
    BY <1>7 DEF Abort
  <2>2. Failures /\ lost' = lost
    BY <1>1, <2>1, FailuresAreCounted
  <2>3. RunStep(r, Off, k)
    BY <1>1, <1>3, <1>4, <2>1, <2>2, Ends
  <2> QED
    BY <1>2, <2>3
<1> QED
  BY <1>5, <1>6, <1>7

LEMMA EndStep ==
  ASSUME PathInv, NEW r \in Runs, Finish(r) \/ Die(r)
  PROVE  runs[r] # Off /\ \E x : RunStep(r, x, runs[r].kind)
<1> DEFINE k == runs[r].kind
<1>1. TypeOK /\ RecordMeansSent /\ RunsInv
  BY DEF PathInv
<1>2. runs[r] # Off
  BY OffIsOff DEF Finish, Die
<1>3. k \in Kinds
  BY <1>1, <1>2, RunsAreGood DEF Good, Shaped
<1>4. /\ Set(r, Off) /\ UNCHANGED <<World, told, deliveryLog, snapshot>>
      /\ Retry(k) \/ UNCHANGED Schedule
      /\ UNCHANGED <<faults, lost>> \/ Loss
  BY DEF Finish, Die
<1>5. Failures /\ (lost' = lost \/ lost' = lost + 1)
  BY <1>1, <1>4, FailuresAreCounted
<1>6. ASSUME NEW u \in Users
      PROVE  MayTell(runs[r], u) \/ lost' = lost + 1
  <2>1. CASE Finish(r)
    BY <1>2, <2>1 DEF Finish, MayTell
  <2>2. CASE Die(r)
    BY <2>2, <1>1, FailuresAreCounted DEF Die
  <2> QED
    BY <2>1, <2>2
<1>7. RunStep(r, Off, k)
  BY <1>1, <1>3, <1>4, <1>5, <1>6, Ends
<1> QED
  BY <1>2, <1>7

LEMMA ConsiderStep ==
  ASSUME PathInv, NEW r \in Runs, Consider(r)
  PROVE  runs[r] # Off /\ \E x : RunStep(r, x, runs[r].kind)
<1> DEFINE run == runs[r]
           k == run.kind
<1>1. TypeOK /\ RecordMeansSent /\ RunsInv
  BY DEF PathInv
<1>2. run # Off /\ run.at = "next" /\ UNCHANGED <<World, Schedule, told, deliveryLog>>
      /\ snapshot' \in BOOLEAN
  BY <1>1, OffIsOff DEF Consider, TypeOK
<1>3. Good(run) /\ Acc(run, told, deliveryLog) /\ k \in Kinds
  BY <1>1, <1>2, RunsAreGood DEF Good, Shaped
<1>4. \A u \in Users : MayTell(run, u)
  BY <1>2 DEF MayTell
<1>5. PICK u \in run.todo :
        LET rest == [run EXCEPT !.todo = @ \ {u}]
        IN  \/ Set(r, [rest EXCEPT !.outside = @ \cup {u}]) /\ NoFault
            \/ AlreadySent(u, rest.kind) /\ Set(r, rest) /\ NoFault
            \/ /\ ~AlreadySent(u, rest.kind)
               /\ Set(r, [rest EXCEPT !.at = IF rest.kind = "digest" THEN "digest" ELSE "list",
                                      !.user = u, !.part = 1, !.shown = {}])
               /\ NoFault
            \/ Set(r, [rest EXCEPT !.errs = TRUE]) /\ Fault
  BY DEF Consider
<1> DEFINE rest == [run EXCEPT !.todo = @ \ {u}]
<1>6. /\ DOMAIN rest = DOMAIN run /\ rest.todo = run.todo \ {u} /\ rest.at = "next"
      /\ rest.kind = k /\ rest.candidates = run.candidates
      /\ rest.bills = run.bills /\ rest.part = run.part /\ rest.shown = run.shown
      /\ rest.outside = run.outside /\ rest.errs = run.errs /\ rest.errs \in BOOLEAN
  BY <1>2, <1>3 DEF Good, Shaped
<1> HIDE DEF rest
<1>7. u \in Users /\ \A v \in run.candidates \ (run.outside \cup (run.todo \ {u})) :
        v = u \/ v \in run.candidates \ (run.outside \cup run.todo)
  BY <1>3 DEF Good, Shaped
<1>8. ASSUME NEW x, Set(r, x), Good(x), Acc(x, told, deliveryLog), x.kind = k,
             NoFault \/ Fault,
             \A v \in Users : ~IsTelling(x, v) \/ Noted(v, k) \notin deliveryLog
      PROVE  \E y : RunStep(r, y, k)
  <2>1. Failures /\ lost' = lost
    BY <1>1, <1>8, FailuresAreCounted
  <2>2. RunStep(r, x, k)
    BY <1>1, <1>2, <1>3, <1>4, <1>8, <2>1, GoesOn
  <2> QED
    BY <2>2
<1>9. CASE Set(r, [rest EXCEPT !.outside = @ \cup {u}]) /\ NoFault
  <2> DEFINE x == [rest EXCEPT !.outside = @ \cup {u}]
  <2>1. /\ DOMAIN x = DOMAIN run /\ x.todo = run.todo \ {u} /\ x.at = "next"
        /\ x.kind = k /\ x.candidates = run.candidates
        /\ x.bills = run.bills /\ x.part = run.part /\ x.shown = run.shown
        /\ x.outside = run.outside \cup {u} /\ x.errs = run.errs /\ x.errs \in BOOLEAN
    BY <1>3, <1>6 DEF Good, Shaped
  <2>2. Set(r, x)
    BY <1>9
  <2> HIDE DEF x
  <2>3. Good(x)
    BY <1>3, <2>1, MovesOn
  <2>4. Acc(x, told, deliveryLog)
    BY <1>2, <1>3, <1>7, <2>1 DEF Acc
  <2>5. \A v \in Users : ~IsTelling(x, v)
    BY <2>1 DEF IsTelling
  <2> QED
    BY <1>2, <1>8, <1>9, <2>1, <2>2, <2>3, <2>4, <2>5
<1>10. CASE AlreadySent(u, rest.kind) /\ Set(r, rest) /\ NoFault
  <2>1. Good(rest)
    BY <1>3, <1>6, MovesOn
  <2>2. Acc(rest, told, deliveryLog)
    BY <1>2, <1>3, <1>6, <1>7, <1>10 DEF Acc, AlreadySent
  <2>3. \A v \in Users : ~IsTelling(rest, v)
    BY <1>6 DEF IsTelling
  <2> QED
    BY <1>2, <1>6, <1>8, <1>10, <2>1, <2>2, <2>3
<1>11. CASE /\ ~AlreadySent(u, rest.kind)
            /\ Set(r, [rest EXCEPT !.at = IF rest.kind = "digest" THEN "digest" ELSE "list",
                                   !.user = u, !.part = 1, !.shown = {}])
            /\ NoFault
  <2> DEFINE x == [rest EXCEPT !.at = IF rest.kind = "digest" THEN "digest" ELSE "list",
                               !.user = u, !.part = 1, !.shown = {}]
  <2>1. /\ Good(x) /\ x.kind = k /\ x.user = u
        /\ x.at = (IF k = "digest" THEN "digest" ELSE "list")
        /\ x.candidates = run.candidates /\ x.todo = run.todo \ {u}
        /\ x.outside = run.outside /\ x.errs = run.errs
    BY <1>2, <1>3, TurnGives DEF rest
  <2>2. Set(r, x)
    BY <1>11
  <2> HIDE DEF x
  <2>3. Acc(x, told, deliveryLog)
    BY <1>2, <1>3, <1>7, <2>1 DEF Acc
  <2>4. \A v \in Users : ~IsTelling(x, v) \/ Noted(v, k) \notin deliveryLog
    BY <1>6, <1>11, <2>1 DEF IsTelling, AlreadySent, Noted
  <2> QED
    BY <1>2, <1>8, <1>11, <2>1, <2>2, <2>3, <2>4
<1>12. CASE Set(r, [rest EXCEPT !.errs = TRUE]) /\ Fault
  <2> DEFINE x == [rest EXCEPT !.errs = TRUE]
  <2>1. /\ DOMAIN x = DOMAIN run /\ x.todo = run.todo \ {u} /\ x.at = "next"
        /\ x.kind = k /\ x.candidates = run.candidates
        /\ x.bills = run.bills /\ x.part = run.part /\ x.shown = run.shown
        /\ x.outside = run.outside /\ x.errs = TRUE /\ x.errs \in BOOLEAN
    BY <1>3, <1>6 DEF Good, Shaped
  <2>2. Set(r, x)
    BY <1>12
  <2> HIDE DEF x
  <2>3. Good(x)
    BY <1>3, <2>1, MovesOn
  <2>4. Acc(x, told, deliveryLog)
    BY <2>1 DEF Acc
  <2>5. \A v \in Users : ~IsTelling(x, v)
    BY <2>1 DEF IsTelling
  <2> QED
    BY <1>2, <1>8, <1>12, <2>1, <2>2, <2>3, <2>4, <2>5
<1> QED
  BY <1>2, <1>5, <1>9, <1>10, <1>11, <1>12 DEF rest

(* What a run says to its user: it will not say it again, or the answer    *)
(* was lost.                                                               *)
LEMMA Says ==
  ASSUME TypeOK, RecordMeansSent, NEW r \in Runs, NEW x, NEW k \in Kinds, NEW u \in Users,
         Set(r, x), UNCHANGED <<World, Schedule, snapshot, deliveryLog>>, Told(u, k),
         Failures, lost' = lost \/ lost' = lost + 1,
         Good(x), Acc(x, told', deliveryLog), x.kind = k,
         runs[r] # Off, IsTelling(runs[r], u), ~MayTell(x, u) \/ lost' = lost + 1,
         \A v \in Users : ~IsTelling(x, v),
         \A v \in Users : v # u => MayTell(runs[r], v)
  PROVE  RunStep(r, x, k)
<1>1. OnlyMore /\ told'[u][k] = told[u][k] + 1
      /\ \A v \in Users, l \in Kinds : v # u \/ l # k => told'[v][l] = told[v][l]
  BY ToldIsOnlyMore
<1>2. UNCHANGED World /\ snapshot' \in BOOLEAN /\ Asked(k) /\ wanted'[k] - wanted[k] = 0
      /\ lost \in Nat /\ (lost' = lost \/ lost' = lost + 1) /\ Failures
  BY RetryIsAsked DEF TypeOK
<1>3. ASSUME NEW v \in Users, NEW l \in Kinds, Noted(v, l) \in deliveryLog'
      PROVE  told'[v][l] > 0
  <2>1. told[v][l] > 0 /\ told[v][l] \in Nat /\ told'[v][l] \in Nat /\ told'[v][l] >= told[v][l]
    BY <1>1, <1>3 DEF RecordMeansSent, AlreadySent, Noted, OnlyMore, TypeOK
  <2> QED
    BY <2>1
<1>4. ASSUME NEW v \in Users
      PROVE  /\ Heard(told, v) \in Nat
             /\ Heard(told', v) = Heard(told, v) + Weight(v = u)
  BY <1>1, HeardIsNat DEF TypeOK, Kinds, Heard, Weight
<1>5. MayTell(runs[r], u)
  BY DEF IsTelling, MayTell, RunsInv
<1>6. ASSUME NEW v \in Users
      PROVE  /\ Heard(told', v) - Heard(told, v) + wanted'[k] - wanted[k]
                  + Weight(MayTell(x, v)) - Weight(MayTell(runs[r], v)) <= lost' - lost
             /\ Heard(told', v) - Heard(told, v)
                  + Weight(IsTelling(x, v)) - Weight(IsTelling(runs[r], v)) <= lost' - lost
  <2>0. wanted'[k] \in Int /\ wanted[k] \in Int
    BY DEF TypeOK, Asked, Schedule
  <2>1. CASE v = u
    <3>1. /\ Heard(told', v) - Heard(told, v) = 1 /\ lost' - lost \in {0, 1}
          /\ Weight(MayTell(runs[r], v)) = 1 /\ Weight(IsTelling(runs[r], v)) = 1
          /\ Weight(IsTelling(x, v)) = 0
          /\ Weight(MayTell(x, v)) = 0 \/ (Weight(MayTell(x, v)) = 1 /\ lost' - lost = 1)
      BY <1>2, <1>4, <1>5, <2>1 DEF Weight
    <3> HIDE DEF Weight
    <3> QED
      BY <1>2, <2>0, <3>1
  <2>2. CASE v # u
    <3>1. Heard(told', v) - Heard(told, v) = 0 /\ lost' - lost \in {0, 1}
      BY <1>2, <1>4, <2>2 DEF Weight
    <3>2. /\ Weight(MayTell(x, v)) \in {0, 1} /\ Weight(MayTell(runs[r], v)) = 1
          /\ Weight(IsTelling(x, v)) = 0 /\ Weight(IsTelling(runs[r], v)) \in {0, 1}
      BY <2>2 DEF Weight
    <3> HIDE DEF Weight
    <3> QED
      BY <1>2, <2>0, <3>1, <3>2
  <2> QED
    BY <2>1, <2>2
<1>7. Balanced(r, x, k)
  BY <1>6 DEF Balanced
<1> QED
  BY <1>1, <1>2, <1>3, <1>7 DEF RunStep

LEMMA DigestStep ==
  ASSUME PathInv, NEW r \in Runs, SendDigest(r)
  PROVE  runs[r] # Off /\ \E x : RunStep(r, x, runs[r].kind)
<1> DEFINE run == runs[r]
           k == run.kind
<1>1. TypeOK /\ RecordMeansSent /\ RunsInv
  BY DEF PathInv
<1>2. run # Off /\ run.at = "digest" /\ UNCHANGED <<World, Schedule, deliveryLog>>
      /\ snapshot' = snapshot /\ snapshot' \in BOOLEAN
  BY <1>1, OffIsOff DEF SendDigest, TypeOK
<1>3. Good(run) /\ Acc(run, told, deliveryLog) /\ k \in Kinds /\ k = "digest" /\ run.user \in Users
  BY <1>1, <1>2, RunsAreGood DEF Good, Shaped, InTurn
<1>4. \A u \in Users : MayTell(run, u)
  BY <1>2 DEF MayTell
<1>5. CASE /\ Told(run.user, "digest")
           /\ Set(r, [run EXCEPT !.at = IF run.bills # {} THEN "list" ELSE "record"])
           /\ NoFault
  <2> DEFINE x == [run EXCEPT !.at = IF run.bills # {} THEN "list" ELSE "record"]
  <2>1. /\ Good(x) /\ x.kind = k /\ x.user = run.user /\ x.at \in {"list", "record"}
        /\ x.candidates = run.candidates /\ x.todo = run.todo
        /\ x.outside = run.outside /\ x.errs = run.errs
    BY <1>2, <1>3, DigestGives
  <2>2. Set(r, x)
    BY <1>5
  <2> HIDE DEF x
  <2>3. told'[run.user]["digest"] = told[run.user]["digest"] + 1
        /\ told[run.user]["digest"] \in Nat
    BY <1>1, <1>2, <1>3, <1>5, ToldIsOnlyMore DEF TypeOK
  <2>4. Acc(x, told', deliveryLog)
    BY <1>2, <1>3, <2>1, <2>3 DEF Acc
  <2>5. IsTelling(run, run.user) /\ ~MayTell(x, run.user) /\ \A v \in Users : ~IsTelling(x, v)
    BY <1>2, <1>3, <2>1 DEF IsTelling, MayTell
  <2>6. Failures /\ lost' = lost
    BY <1>1, <1>5, FailuresAreCounted
  <2>7. RunStep(r, x, k)
    BY <1>1, <1>2, <1>3, <1>4, <1>5, <2>1, <2>2, <2>4, <2>5, <2>6, Says
  <2> QED
    BY <1>2, <2>7
<1>6. CASE /\ Continue(r, TRUE)
           /\ \/ UNCHANGED told /\ (Fault \/ UNCHANGED <<faults, lost>>)
              \/ Told(run.user, "digest") /\ Loss
  <2> DEFINE x == [run EXCEPT !.at = "next", !.errs = @ \/ TRUE]
  <2>1. Good(x) /\ x.kind = k /\ x.at = "next" /\ x.errs
    BY <1>3, ContinueGives
  <2>2. Set(r, x)
    BY <1>6 DEF Continue
  <2> HIDE DEF x
  <2>3. Acc(x, told, deliveryLog) /\ Acc(x, told', deliveryLog)
        /\ \A v \in Users : ~IsTelling(x, v)
    BY <1>3, <2>1 DEF Acc, IsTelling
  <2>4. CASE UNCHANGED told /\ (Fault \/ UNCHANGED <<faults, lost>>)
    <3>1. Failures /\ lost' = lost
      BY <1>1, <2>4, FailuresAreCounted
    <3>2. RunStep(r, x, k)
      BY <1>1, <1>2, <1>3, <1>4, <2>1, <2>2, <2>3, <2>4, <3>1, GoesOn
    <3> QED
      BY <1>2, <3>2
  <2>5. CASE Told(run.user, "digest") /\ Loss
    <3>1. Failures /\ lost' = lost + 1
      BY <1>1, <2>5, FailuresAreCounted
    <3>2. IsTelling(run, run.user)
      BY <1>2, <1>3 DEF IsTelling
    <3>3. RunStep(r, x, k)
      BY <1>1, <1>2, <1>3, <1>4, <2>1, <2>2, <2>3, <2>5, <3>1, <3>2, Says
    <3> QED
      BY <1>2, <3>3
  <2> QED
    BY <1>6, <2>4, <2>5
<1> QED
  BY <1>5, <1>6 DEF SendDigest

LEMMA ListStep ==
  ASSUME PathInv, NEW r \in Runs, SendPart(r)
  PROVE  runs[r] # Off /\ \E x : RunStep(r, x, runs[r].kind)
<1> DEFINE run  == runs[r]
           k    == run.kind
           last == run.part = Parts(run)
<1>1. TypeOK /\ RecordMeansSent /\ RunsInv
  BY DEF PathInv
<1>2. run # Off /\ run.at = "list" /\ UNCHANGED <<World, Schedule, deliveryLog>>
      /\ snapshot' = snapshot /\ snapshot' \in BOOLEAN
  BY <1>1, OffIsOff DEF SendPart, TypeOK
<1>3. Good(run) /\ Acc(run, told, deliveryLog) /\ k \in Kinds /\ run.user \in Users
  BY <1>1, <1>2, RunsAreGood DEF Good, Shaped
<1>4. CASE /\ Set(r, [Shown(run) EXCEPT !.at = IF last THEN "record" ELSE "list"])
           /\ IF last /\ k = "saidas_tarde" THEN Told(run.user, k) ELSE UNCHANGED told
           /\ NoFault
  <2> DEFINE x == [Shown(run) EXCEPT !.at = IF last THEN "record" ELSE "list"]
  <2>1. /\ Good(x) /\ x.kind = k /\ x.user = run.user
        /\ x.at = (IF last THEN "record" ELSE "list")
        /\ x.candidates = run.candidates /\ x.todo = run.todo
        /\ x.outside = run.outside /\ x.errs = run.errs
    BY <1>2, <1>3, PartGives
  <2>2. Set(r, x)
    BY <1>4
  <2>3. Failures /\ lost' = lost
    BY <1>1, <1>4, FailuresAreCounted
  <2> HIDE DEF x
  <2>4. CASE last /\ k = "saidas_tarde"
    <3>1. Told(run.user, k)
      BY <1>4, <2>4
    <3>2. told'[run.user][k] = told[run.user][k] + 1 /\ told[run.user][k] \in Nat
      BY <1>1, <1>2, <1>3, <3>1, ToldIsOnlyMore DEF TypeOK
    <3>3. Acc(x, told', deliveryLog)
      BY <1>2, <1>3, <2>1, <2>4, <3>2 DEF Acc
    <3>4. /\ IsTelling(run, run.user) /\ ~MayTell(x, run.user)
          /\ \A v \in Users : ~IsTelling(x, v)
          /\ \A v \in Users : MayTell(run, v)
      BY <1>2, <1>3, <2>1, <2>4 DEF IsTelling, MayTell
    <3>5. RunStep(r, x, k)
      BY <1>1, <1>2, <1>3, <2>1, <2>2, <2>3, <3>1, <3>3, <3>4, Says
    <3> QED
      BY <1>2, <3>5
  <2>5. CASE ~(last /\ k = "saidas_tarde")
    <3>1. UNCHANGED told
      BY <1>4, <2>5
    <3>2. k # "digest" => k = "saidas_tarde" /\ x.at = "list"
      BY <1>3, <2>1, <2>5 DEF Kinds
    <3>3. Acc(x, told, deliveryLog)
      BY <1>2, <1>3, <2>1, <3>2 DEF Acc
    <3>4. \A v \in Users : /\ MayTell(x, v) => MayTell(run, v)
                           /\ IsTelling(x, v) => IsTelling(run, v)
      BY <1>2, <1>3, <2>1, <3>2 DEF IsTelling, MayTell
    <3>5. RunStep(r, x, k)
      BY <1>1, <1>2, <1>3, <2>1, <2>2, <2>3, <3>1, <3>3, <3>4, GoesOn
    <3> QED
      BY <1>2, <3>5
  <2> QED
    BY <2>4, <2>5
<1>5. ASSUME NEW x, Set(r, x), Good(x), x.kind = k, x.user = run.user, x.errs,
             x.at = (IF k = "digest" THEN "record" ELSE "next"),
             UNCHANGED told, Fault \/ UNCHANGED <<faults, lost>>
      PROVE  RunStep(r, x, k)
  <2>1. Acc(x, told, deliveryLog)
    BY <1>2, <1>3, <1>5 DEF Acc
  <2>2. \A v \in Users : ~IsTelling(x, v) /\ (MayTell(x, v) => MayTell(run, v))
    BY <1>2, <1>3, <1>5 DEF IsTelling, MayTell
  <2>3. Failures /\ lost' = lost
    BY <1>1, <1>5, FailuresAreCounted
  <2> QED
    BY <1>1, <1>2, <1>3, <1>5, <2>1, <2>2, <2>3, GoesOn
<1>6. CASE Set(r, FailedPart(run)) /\ UNCHANGED told /\ (Fault \/ UNCHANGED <<faults, lost>>)
  <2> DEFINE x == FailedPart(run)
  <2>1. /\ Good(x) /\ x.kind = k /\ x.user = run.user /\ x.errs
        /\ x.at = (IF k = "digest" THEN "record" ELSE "next")
    BY <1>2, <1>3, FailedPartGives
  <2>2. Set(r, x)
    BY <1>6
  <2> HIDE DEF x
  <2>3. RunStep(r, x, k)
    BY <1>5, <1>6, <2>1, <2>2
  <2> QED
    BY <1>2, <2>3
<1>7. CASE /\ Set(r, FailedPart(Shown(run)))
           /\ IF last /\ k = "saidas_tarde" THEN Loss ELSE Fault
           /\ IF last /\ k = "saidas_tarde" THEN Told(run.user, k) ELSE UNCHANGED told
  <2> DEFINE x == FailedPart(Shown(run))
  <2>1. /\ Good(x) /\ x.kind = k /\ x.user = run.user /\ x.errs
        /\ x.at = (IF k = "digest" THEN "record" ELSE "next")
    BY <1>2, <1>3, LostPartGives
  <2>2. Set(r, x)
    BY <1>7
  <2> HIDE DEF x
  <2>3. CASE ~(last /\ k = "saidas_tarde")
    <3>1. RunStep(r, x, k)
      BY <1>5, <1>7, <2>1, <2>2, <2>3
    <3> QED
      BY <1>2, <3>1
  <2>4. CASE last /\ k = "saidas_tarde"
    <3>1. Told(run.user, k) /\ Failures /\ lost' = lost + 1
      BY <1>1, <1>7, <2>4, FailuresAreCounted
    <3>2. Acc(x, told', deliveryLog) /\ \A v \in Users : ~IsTelling(x, v)
      BY <2>1, <2>4 DEF Acc, IsTelling
    <3>3. IsTelling(run, run.user) /\ \A v \in Users : MayTell(run, v)
      BY <1>2, <2>4 DEF IsTelling, MayTell
    <3>4. RunStep(r, x, k)
      BY <1>1, <1>2, <1>3, <2>1, <2>2, <3>1, <3>2, <3>3, Says
    <3> QED
      BY <1>2, <3>4
  <2> QED
    BY <2>3, <2>4
<1> QED
  BY <1>4, <1>6, <1>7 DEF SendPart, NoFault

LEMMA RecordStep ==
  ASSUME PathInv, NEW r \in Runs, Record(r)
  PROVE  runs[r] # Off /\ \E x : RunStep(r, x, runs[r].kind)
<1> DEFINE run == runs[r]
           k   == run.kind
<1>1. TypeOK /\ RecordMeansSent /\ RunsInv
  BY DEF PathInv
<1>2. run # Off /\ run.at = "record" /\ UNCHANGED <<World, Schedule, told>>
      /\ snapshot' = snapshot /\ snapshot' \in BOOLEAN
  BY <1>1, OffIsOff DEF Record, TypeOK
<1>3. Good(run) /\ Acc(run, told, deliveryLog) /\ k \in Kinds /\ run.user \in Users
  BY <1>1, <1>2, RunsAreGood DEF Good, Shaped
<1>4. ASSUME deliveryLog' = deliveryLog \cup {<<run.user, DedupeKey(k)>>}, NoFault \/ Fault,
             NEW x, Set(r, x), Good(x), x.kind = k, x.at = "next", run.errs => x.errs,
             x.candidates = run.candidates, x.todo = run.todo, x.outside = run.outside
      PROVE  RunStep(r, x, k)
  <2>3. Noted(run.user, k) \in deliveryLog' /\ deliveryLog \subseteq deliveryLog'
    BY <1>4 DEF Noted
  <2>4. OnlyMore
    BY <1>1, <1>2, <2>3 DEF OnlyMore, TypeOK
  <2>5. Acc(x, told', deliveryLog')
    BY <1>2, <1>3, <1>4, <2>3 DEF Acc, Noted
  <2>6. ASSUME NEW u \in Users, NEW l \in Kinds, Noted(u, l) \in deliveryLog'
        PROVE  told'[u][l] > 0
    <3>1. CASE Noted(u, l) \in deliveryLog
      BY <1>1, <1>2, <3>1 DEF RecordMeansSent, AlreadySent, Noted
    <3>2. CASE Noted(u, l) = <<run.user, DedupeKey(k)>>
      <4>1. u = run.user /\ l = k
        BY <1>3, <3>2, KeysDiffer DEF Noted
      <4> QED
        BY <1>2, <1>3, <4>1 DEF Acc
    <3> QED
      BY <1>4, <2>6, <3>1, <3>2
  <2>7. Failures /\ lost' = lost /\ lost \in Nat
    BY <1>1, <1>4, FailuresAreCounted DEF TypeOK
  <2>8. Asked(k) /\ wanted'[k] = wanted[k] /\ wanted[k] \in Nat
    BY <1>1, <1>2, <1>3, RetryIsAsked DEF Schedule, TypeOK
  <2>9. \A u \in Users : ~IsTelling(x, u) /\ (u # run.user => MayTell(run, u))
    BY <1>2, <1>4 DEF IsTelling, MayTell
  <2>10. \A u \in Users : Heard(told, u) \in Nat /\ Heard(told', u) = Heard(told, u)
    BY <1>1, <1>2, HeardIsNat DEF TypeOK
  <2>11. ASSUME NEW u \in Users
         PROVE  /\ Noted(u, k) \notin deliveryLog' =>
                     Heard(told', u) - Heard(told, u) + wanted'[k] - wanted[k]
                       + Weight(MayTell(x, u)) - Weight(MayTell(run, u)) <= lost' - lost
                /\ Heard(told', u) - Heard(told, u)
                     + Weight(IsTelling(x, u)) - Weight(IsTelling(run, u)) <= lost' - lost
    <3>1. Noted(u, k) \notin deliveryLog' => MayTell(run, u)
      BY <2>3, <2>9
    <3>2. ~IsTelling(x, u)
      BY <2>9
    <3>3. Heard(told, u) \in Nat /\ Heard(told', u) = Heard(told, u)
      BY <2>10
    <3> HIDE DEF run
    <3> QED
      BY <2>7, <2>8, <3>1, <3>2, <3>3 DEF Weight
  <2>12. Balanced(r, x, k)
    BY <2>7, <2>9, <2>10, <2>11 DEF Balanced
  <2> QED
    BY <1>2, <1>4, <2>4, <2>5, <2>6, <2>7, <2>8, <2>12 DEF RunStep
<1>5. CASE Continue(r, TRUE) /\ Loss /\ UNCHANGED deliveryLog
  <2> DEFINE x == [run EXCEPT !.at = "next", !.errs = @ \/ TRUE]
  <2>1. Good(x) /\ x.kind = k /\ x.at = "next" /\ x.errs
    BY <1>3, ContinueGives
  <2>2. Set(r, x)
    BY <1>5 DEF Continue
  <2> HIDE DEF x
  <2>3. Acc(x, told, deliveryLog) /\ \A v \in Users : ~IsTelling(x, v)
    BY <1>3, <2>1 DEF Acc, IsTelling
  <2>4. Failures /\ lost' = lost + 1
    BY <1>1, <1>5, FailuresAreCounted
  <2>5. RunStep(r, x, k)
    BY <1>1, <1>2, <1>3, <1>5, <2>1, <2>2, <2>3, <2>4, GoesOn
  <2> QED
    BY <1>2, <2>5
<1>6. CASE /\ deliveryLog' = deliveryLog \cup {<<run.user, DedupeKey(k)>>}
           /\ (Continue(r, FALSE) /\ NoFault) \/ (Continue(r, TRUE) /\ Fault)
  <2>1. CASE Continue(r, FALSE) /\ NoFault
    <3> DEFINE x == [run EXCEPT !.at = "next", !.errs = @ \/ FALSE]
    <3>1. /\ Good(x) /\ x.kind = k /\ x.at = "next" /\ x.candidates = run.candidates
          /\ x.todo = run.todo /\ x.outside = run.outside /\ (x.errs <=> run.errs)
      BY <1>3, ContinueGives
    <3>2. Set(r, x)
      BY <2>1 DEF Continue
    <3> HIDE DEF x
    <3>3. RunStep(r, x, k)
      BY <1>4, <1>6, <2>1, <3>1, <3>2
    <3> QED
      BY <1>2, <3>3
  <2>2. CASE Continue(r, TRUE) /\ Fault
    <3> DEFINE x == [run EXCEPT !.at = "next", !.errs = @ \/ TRUE]
    <3>1. /\ Good(x) /\ x.kind = k /\ x.at = "next" /\ x.candidates = run.candidates
          /\ x.todo = run.todo /\ x.outside = run.outside /\ x.errs
      BY <1>3, ContinueGives
    <3>2. Set(r, x)
      BY <2>2 DEF Continue
    <3> HIDE DEF x
    <3>3. RunStep(r, x, k)
      BY <1>4, <1>6, <2>2, <3>1, <3>2
    <3> QED
      BY <1>2, <3>3
  <2> QED
    BY <1>6, <2>1, <2>2
<1> QED
  BY <1>5, <1>6 DEF Record

(* The steps of a run that has started.                                    *)
LEMMA RunStepsAre ==
  ASSUME PathInv, NEW r \in Runs, Run(r)
  PROVE  \E x, k : /\ k \in Kinds /\ RunStep(r, x, k)
                   /\ \/ runs[r] = Off /\ wanted[k] > 0
                      \/ runs[r] # Off /\ k = runs[r].kind
<1>1. CASE \E k \in Kinds : Start(r, k)
  BY <1>1, StartStep
<1>2. ASSUME runs[r] # Off /\ \E x : RunStep(r, x, runs[r].kind)
      PROVE  \E x, k : /\ k \in Kinds /\ RunStep(r, x, k)
                       /\ runs[r] # Off /\ k = runs[r].kind
  <2>1. runs[r].kind \in Kinds
    BY <1>2 DEF PathInv, TypeOK, Shaped
  <2> QED
    BY <1>2, <2>1
<1>3. CASE ReadLedger(r) \/ Analyse(r) \/ Abort(r)
  BY <1>2, <1>3, PreambleStep
<1>4. CASE Consider(r) \/ SendDigest(r) \/ SendPart(r) \/ Record(r)
  BY <1>2, <1>4, ConsiderStep, DigestStep, ListStep, RecordStep
<1>5. CASE Finish(r) \/ Die(r)
  BY <1>2, <1>5, EndStep
<1> QED
  BY <1>1, <1>3, <1>4, <1>5 DEF Run

-----------------------------------------------------------------------------
(* LogInv.                                                                 *)

LEMMA PathInit == Init => PathInv
<1> SUFFICES ASSUME Init PROVE PathInv
  OBVIOUS
<1>1. /\ [k \in Kinds |-> 0] \in [Kinds -> 0..MaxAttempts]
      /\ [k \in Kinds |-> 0] \in [Kinds -> Nat]
      /\ told \in [Users -> [Kinds -> Nat]]
  BY NotifierAssumption DEF Init
<1>2. DOMAIN runs = Runs /\ \A r \in Runs : runs[r] = Off
  BY DEF Init
<1>3. lost = 0 /\ faults = 0 /\ 0 <= MaxFaults
  BY NotifierAssumption DEF Init
<1>4. /\ phones \subseteq Users /\ blocked \subseteq Users /\ window \subseteq Users
      /\ open \subseteq DueBills /\ snapshot \in BOOLEAN
  BY DEF Init
<1>5. invoked \in [Kinds -> 0..MaxAttempts] /\ wanted \in [Kinds -> Nat]
  BY <1>1 DEF Init
<1>6. TypeOK
  BY <1>1, <1>2, <1>3, <1>4, <1>5 DEF TypeOK
<1> QED
  BY <1>6 DEF Init, PathInv, RunsInv, RecordMeansSent, AlreadySent

LEMMA RunStepKeepsPath ==
  ASSUME PathInv, NEW r \in Runs, NEW x, NEW k \in Kinds, RunStep(r, x, k)
  PROVE  PathInv'
<1>1. TypeOK /\ RunsInv
  BY DEF PathInv
<1>2. /\ DOMAIN runs' = Runs /\ \A s \in Runs : runs'[s] = Off \/ Shaped(runs'[s])
      /\ RunsInv'
  BY <1>1, RunSteps DEF RunStep
<1>3. phones' = phones /\ blocked' = blocked /\ window' = window /\ open' = open
  BY DEF RunStep, World
<1>4. TypeOK'
  BY <1>1, <1>2, <1>3 DEF RunStep, TypeOK, OnlyMore, Failures, Asked
<1>5. RecordMeansSent'
  BY DEF RunStep, RecordMeansSent, AlreadySent, Noted
<1> QED
  BY <1>2, <1>4, <1>5 DEF PathInv

(* What leaves the runs, the log and what was said as they are.            *)
Aside == UNCHANGED <<runs, told, deliveryLog>>

LEMMA AsideKeepsPath ==
  ASSUME PathInv, Aside,
         phones' \subseteq Users, blocked' \subseteq Users, window' \subseteq Users,
         open' \subseteq DueBills, snapshot' \in BOOLEAN, Failures,
         invoked' \in [Kinds -> 0..MaxAttempts], wanted' \in [Kinds -> Nat]
  PROVE  PathInv'
<1>1. TypeOK'
  BY DEF PathInv, TypeOK, Aside, Failures
<1>2. RunsInv' /\ RecordMeansSent'
  BY DEF PathInv, RunsInv, RecordMeansSent, AlreadySent, Aside, InTurn, Accountable
<1> QED
  BY <1>1, <1>2 DEF PathInv

LEMMA FireStep ==
  ASSUME PathInv, NEW k \in Kinds, Fire(k)
  PROVE  /\ PathInv' /\ Aside /\ UNCHANGED <<faults, lost>>
         /\ invoked'[k] = 1 /\ wanted'[k] = 1
         /\ \A l \in Kinds : l # k => wanted'[l] = wanted[l] /\ invoked'[l] = invoked[l]
<1>1. TypeOK
  BY DEF PathInv
<1>2. /\ UNCHANGED <<World, snapshot>> /\ Aside /\ UNCHANGED <<faults, lost>>
      /\ invoked' = [invoked EXCEPT ![k] = 1] /\ wanted' = [wanted EXCEPT ![k] = 1]
  BY DEF Fire, Aside
<1>3. 1 \in 0 .. MaxAttempts
  BY NotifierAssumption
<1>4. invoked' \in [Kinds -> 0..MaxAttempts] /\ wanted' \in [Kinds -> Nat]
  BY <1>1, <1>2, <1>3 DEF TypeOK
<1>5. Failures
  BY <1>1, <1>2, FailuresAreCounted
<1>6. PathInv'
  BY <1>1, <1>2, <1>4, <1>5, AsideKeepsPath DEF World, TypeOK
<1> QED
  BY <1>1, <1>2, <1>6 DEF TypeOK

LEMMA DuplicateStep ==
  ASSUME PathInv, NEW k \in Kinds, Duplicate(k)
  PROVE  /\ PathInv' /\ Aside /\ lost' = lost + 1 /\ UNCHANGED invoked
         /\ wanted'[k] = wanted[k] + 1
         /\ \A l \in Kinds : l # k => wanted'[l] = wanted[l]
<1>1. TypeOK
  BY DEF PathInv
<1>2. /\ UNCHANGED <<World, snapshot, invoked>> /\ Aside /\ Loss
      /\ wanted' = [wanted EXCEPT ![k] = @ + 1]
  BY DEF Duplicate, Aside
<1>3. wanted' \in [Kinds -> Nat] /\ wanted[k] \in Nat
  BY <1>1, <1>2 DEF TypeOK
<1>4. Failures /\ lost' = lost + 1
  BY <1>1, <1>2, FailuresAreCounted
<1>5. PathInv'
  BY <1>1, <1>2, <1>3, <1>4, AsideKeepsPath DEF World, TypeOK
<1> QED
  BY <1>1, <1>2, <1>4, <1>5 DEF TypeOK

LEMMA WorldStep ==
  ASSUME PathInv,
         \/ \E u \in Users : Register(u) \/ WindowCloses(u)
         \/ \E b \in DueBills : Pay(b)
         \/ Recalculate
         \/ UNCHANGED vars
  PROVE  PathInv' /\ Aside /\ UNCHANGED <<Schedule, lost>>
<1>1. TypeOK
  BY DEF PathInv
<1>2. Aside /\ UNCHANGED <<Schedule, faults, lost>>
  BY DEF Register, WindowCloses, Pay, Recalculate, Change, vars, Aside, Schedule
<1>3. /\ phones' \subseteq Users /\ blocked' \subseteq Users /\ window' \subseteq Users
      /\ open' \subseteq DueBills /\ snapshot' \in BOOLEAN
  BY <1>1 DEF TypeOK, Register, WindowCloses, Pay, Recalculate, Change, vars, World
<1>4. Failures
  BY <1>1, <1>2, FailuresAreCounted
<1>5. PathInv'
  BY <1>1, <1>2, <1>3, <1>4, AsideKeepsPath DEF Schedule, TypeOK
<1> QED
  BY <1>2, <1>5

LEMMA NextKeepsPath ==
  ASSUME PathInv, [Next]_vars
  PROVE  PathInv'
<1>1. ASSUME NEW r \in Runs, Run(r)
      PROVE  PathInv'
  BY <1>1, RunStepsAre, RunStepKeepsPath
<1> QED
  BY <1>1, FireStep, DuplicateStep, WorldStep DEF Next

LEMMA PathInvariant == Spec => []PathInv
<1>1. PathInv /\ [Next]_vars => PathInv'
  BY NextKeepsPath
<1> QED
  BY PathInit, <1>1, PTL DEF Spec

LEMMA PathIsEnough ==
  ASSUME PathInv
  PROVE  LogInv
<1>1. ASSUME NEW r \in Runs, runs[r] # Off
      PROVE  Good(runs[r]) /\ Accountable(runs[r])
  BY <1>1, RunsAreGood DEF PathInv, RunsInv
<1>2. SuccessMeansEveryone
  BY <1>1 DEF SuccessMeansEveryone, Accountable
<1>3. ASSUME NEW r \in Runs, runs[r] # Off
      PROVE  \E n \in 0 .. Cardinality(DueBills) + 1 : runs[r].shown = 1 .. n
  <2>1. /\ runs[r].shown = 1 .. runs[r].part - 1 /\ runs[r].part <= Parts(runs[r]) + 1
        /\ runs[r].part \in Nat \ {0} /\ runs[r].bills \subseteq DueBills
    BY <1>1, <1>3 DEF Good, InTurn, Shaped
  <2>2. /\ Parts(runs[r]) \in Nat /\ Parts(runs[r]) <= Cardinality(DueBills) + 1
        /\ Cardinality(DueBills) \in Nat
    BY <2>1, PartsAreBounded
  <2>3. runs[r].part - 1 \in 0 .. Cardinality(DueBills) + 1
    BY <2>1, <2>2
  <2> QED
    BY <2>1, <2>3
<1> QED
  BY <1>2, <1>3 DEF LogInv, PathInv, RunsInv, ListsHaveNoGaps

(* A record means the message went out, a run that reports success has an  *)
(* answer for everybody, and what a run shows of a list is its beginning:  *)
(* whatever fails, dies, is repeated or overlaps                           *)
(* (RecordNotificationSent only after the send, errors.Join, sendAll).     *)
THEOREM RecordsAreTrue == Spec => []LogInv
<1>1. PathInv => LogInv
  BY PathIsEnough
<1> QED
  BY PathInvariant, <1>1, PTL

-----------------------------------------------------------------------------
(* RepeatsInv.                                                             *)

Tellers(rs, u)  == {r \in Runs : IsTelling(rs[r], u)}
Hopefuls(rs, u) == {r \in Runs : MayTell(rs[r], u)}

Fired == IF Phase = "digest" THEN IF invoked["digest"] = 0 THEN 0 ELSE 1 ELSE 2

Owed(u) == IF Noted(u, Phase) \in deliveryLog
           THEN Cardinality(Tellers(runs, u))
           ELSE wanted[Phase] + Cardinality(Hopefuls(runs, u))

LEMMA BudgetIs == Budget <=> \A u \in Users : Heard(told, u) + Owed(u) <= Fired + lost
BY DEF Budget, Heard, Owed, Fired, Tellers, Hopefuls, AlreadySent, Noted

LEMMA OnlyOneMoves ==
  ASSUME NEW S \in SUBSET Runs, NEW T \in SUBSET Runs, NEW r \in Runs, S \ {r} = T \ {r}
  PROVE  /\ Cardinality(S) \in Nat /\ Cardinality(T) \in Nat
         /\ Cardinality(T) - Cardinality(S) = Weight(r \in T) - Weight(r \in S)
<1>1. IsFiniteSet(S) /\ IsFiniteSet(T)
  BY NotifierAssumption, FS_Subset
<1>2. Cardinality(S) \in Nat /\ Cardinality(T) \in Nat
  BY <1>1, FS_CardinalityType
<1>3. /\ r \in S => Cardinality(S \ {r}) = Cardinality(S) - 1
      /\ r \in T => Cardinality(T \ {r}) = Cardinality(T) - 1
  BY <1>1, FS_RemoveElement
<1>4. /\ r \notin S => S \ {r} = S
      /\ r \notin T => T \ {r} = T
  OBVIOUS
<1>5. Cardinality(S \ {r}) = Cardinality(S) - Weight(r \in S)
  BY <1>2, <1>3, <1>4 DEF Weight
<1>6. Cardinality(T \ {r}) = Cardinality(T) - Weight(r \in T)
  <2>1. CASE r \in T
    <3>1. Weight(r \in T) = 1 /\ Cardinality(T \ {r}) = Cardinality(T) - 1
      BY <1>3, <2>1 DEF Weight
    <3> QED
      BY <3>1
  <2>2. CASE r \notin T
    <3>1. Weight(r \in T) = 0
      BY <2>2 DEF Weight
    <3>2. Cardinality(T \ {r}) = Cardinality(T)
      BY <1>4, <2>2
    <3> QED
      BY <1>2, <3>1, <3>2
  <2> QED
    BY <2>1, <2>2
<1>7. Weight(r \in S) \in Int /\ Weight(r \in T) \in Int
  BY DEF Weight
<1>8. Cardinality(S \ {r}) = Cardinality(T \ {r})
  OBVIOUS
<1> QED
  BY <1>2, <1>5, <1>6, <1>7, <1>8

LEMMA TellersAreHopeful ==
  ASSUME NEW rs, NEW u
  PROVE  /\ Tellers(rs, u) \subseteq Hopefuls(rs, u)
         /\ Cardinality(Tellers(rs, u)) \in Nat /\ Cardinality(Hopefuls(rs, u)) \in Nat
<1>1. Tellers(rs, u) \subseteq Hopefuls(rs, u) /\ Hopefuls(rs, u) \subseteq Runs
  BY DEF Tellers, Hopefuls, IsTelling, MayTell
<1>2. IsFiniteSet(Tellers(rs, u)) /\ IsFiniteSet(Hopefuls(rs, u))
  BY <1>1, NotifierAssumption, FS_Subset
<1> QED
  BY <1>1, <1>2, FS_CardinalityType

LEMMA NobodyIsHopeful ==
  ASSUME \A r \in Runs : runs[r] = Off, NEW u
  PROVE  Cardinality(Tellers(runs, u)) = 0 /\ Cardinality(Hopefuls(runs, u)) = 0
<1>1. Tellers(runs, u) = {} /\ Hopefuls(runs, u) = {}
  BY OffIsOff DEF Tellers, Hopefuls
<1> QED
  BY <1>1, FS_EmptySet

LEMMA PhaseIsAKind == Phase \in Kinds
BY DEF Phase, Kinds

CountInv == PathInv /\ OnePhase /\ Budget

(* The phase, and what has fired, outlive the step of a run.               *)
LEMMA PhaseStays ==
  ASSUME PathInv, OnePhase, NEW r \in Runs, NEW x, NEW k \in Kinds, RunStep(r, x, k),
         \/ runs[r] = Off /\ wanted[k] > 0
         \/ runs[r] # Off /\ k = runs[r].kind
  PROVE  k = Phase /\ Phase' = Phase /\ Fired' = Fired /\ OnePhase'
<1>1. k = Phase
  BY DEF OnePhase
<1>2. /\ \A l \in Kinds : invoked[l] \in Nat /\ invoked'[l] \in Nat
      /\ \A l \in Kinds : wanted[l] \in Nat
      /\ invoked'[k] >= invoked[k]
      /\ \A l \in Kinds : l # k => wanted'[l] = wanted[l] /\ invoked'[l] = invoked[l]
  BY NotifierAssumption DEF PathInv, TypeOK, RunStep, Asked
<1>3. invoked["digest"] > 0
  <2>1. "digest" \in Kinds /\ (Phase = "digest" \/ invoked["saidas_tarde"] # 0)
    BY DEF Kinds, Phase
  <2>2. invoked["digest"] # 0
    <3> SUFFICES ASSUME invoked["digest"] = 0 PROVE FALSE
      OBVIOUS
    <3>1. /\ invoked["saidas_tarde"] = 0 /\ wanted["digest"] = 0
          /\ \A s \in Runs : runs[s] = Off
      BY DEF OnePhase
    <3>2. k = "digest"
      BY <1>1, <3>1 DEF Phase
    <3> QED
      BY <3>1, <3>2
  <2> QED
    BY <1>2, <2>1, <2>2
<1>4. Phase' = Phase /\ invoked'["digest"] > 0
  BY <1>1, <1>2, <1>3 DEF Phase, Kinds
<1>5. Fired' = Fired
  BY <1>2, <1>3, <1>4 DEF Fired, Kinds
<1>6. ASSUME NEW s \in Runs, runs'[s] # Off
      PROVE  runs'[s].kind = Phase
  <2>1. /\ runs'[r] = x /\ (x = Off \/ x.kind = k)
        /\ \A t \in Runs : t # r => runs'[t] = runs[t]
    BY RunSteps DEF RunStep, PathInv
  <2> QED
    BY <1>1, <1>6, <2>1 DEF OnePhase
<1>7. \A l \in Kinds \ {Phase} : wanted'[l] = 0
  BY <1>1, <1>2 DEF OnePhase
<1>8. OnePhase'
  BY <1>2, <1>4, <1>6, <1>7 DEF OnePhase
<1> QED
  BY <1>1, <1>4, <1>5, <1>8

LEMMA RunStepKeepsCount ==
  ASSUME CountInv, NEW r \in Runs, NEW x, NEW k \in Kinds, RunStep(r, x, k),
         \/ runs[r] = Off /\ wanted[k] > 0
         \/ runs[r] # Off /\ k = runs[r].kind
  PROVE  CountInv'
<1>1. PathInv /\ OnePhase /\ PathInv'
  BY RunStepKeepsPath DEF CountInv
<1>2. k = Phase /\ Phase' = Phase /\ Fired' = Fired /\ OnePhase'
  BY <1>1, PhaseStays
<1>3. /\ runs'[r] = x /\ deliveryLog \subseteq deliveryLog'
      /\ \A t \in Runs : t # r => runs'[t] = runs[t]
  BY <1>1, RunSteps DEF RunStep, PathInv, OnlyMore
<1>4. ASSUME NEW u \in Users
      PROVE  Heard(told', u) + Owed(u)' <= Fired + lost'
  <2> DEFINE T  == Tellers(runs, u)   T1 == Tellers(runs', u)
             H  == Hopefuls(runs, u)  H1 == Hopefuls(runs', u)
  <2>1. /\ T \in SUBSET Runs /\ T1 \in SUBSET Runs /\ H \in SUBSET Runs /\ H1 \in SUBSET Runs
        /\ T \ {r} = T1 \ {r} /\ H \ {r} = H1 \ {r}
        /\ (r \in T <=> IsTelling(runs[r], u)) /\ (r \in T1 <=> IsTelling(x, u))
        /\ (r \in H <=> MayTell(runs[r], u)) /\ (r \in H1 <=> MayTell(x, u))
    BY <1>3 DEF Tellers, Hopefuls
  <2>2. T \subseteq H
    BY TellersAreHopeful
  <2>3. Heard(told, u) + Owed(u) <= Fired + lost
    BY BudgetIs DEF CountInv
  <2>4. /\ Heard(told, u) \in Nat /\ Heard(told', u) \in Nat /\ lost \in Nat /\ lost' \in Nat
        /\ wanted[k] \in Nat /\ wanted'[k] \in Nat /\ Fired \in Nat
    BY <1>1, HeardIsNat DEF PathInv, TypeOK, Fired
  <2>5. /\ Owed(u) = IF Noted(u, k) \in deliveryLog
                     THEN Cardinality(T) ELSE wanted[k] + Cardinality(H)
        /\ Owed(u)' = IF Noted(u, k) \in deliveryLog'
                      THEN Cardinality(T1) ELSE wanted'[k] + Cardinality(H1)
    BY <1>2 DEF Owed, Noted, Tellers, Hopefuls
  <2> HIDE DEF T, T1, H, H1
  <2>6. /\ Cardinality(T) \in Nat /\ Cardinality(T1) \in Nat
        /\ Cardinality(T1) - Cardinality(T) = Weight(IsTelling(x, u)) - Weight(IsTelling(runs[r], u))
    BY <2>1, OnlyOneMoves DEF Weight
  <2>7. /\ Cardinality(H) \in Nat /\ Cardinality(H1) \in Nat
        /\ Cardinality(H1) - Cardinality(H) = Weight(MayTell(x, u)) - Weight(MayTell(runs[r], u))
    BY <2>1, OnlyOneMoves DEF Weight
  <2>8. /\ Weight(MayTell(x, u)) \in Int /\ Weight(MayTell(runs[r], u)) \in Int
        /\ Weight(IsTelling(x, u)) \in Int /\ Weight(IsTelling(runs[r], u)) \in Int
    BY DEF Weight
  <2>9. CASE Noted(u, k) \notin deliveryLog'
    <3>1. Noted(u, k) \notin deliveryLog
      BY <1>3, <2>9
    <3>2. Heard(told', u) - Heard(told, u) + wanted'[k] - wanted[k]
            + Weight(MayTell(x, u)) - Weight(MayTell(runs[r], u)) <= lost' - lost
      BY <2>9 DEF RunStep, Balanced
    <3> QED
      BY <2>3, <2>4, <2>5, <2>7, <2>8, <2>9, <3>1, <3>2
  <2>10. CASE Noted(u, k) \in deliveryLog
    <3>1. Noted(u, k) \in deliveryLog'
      BY <1>3, <2>10
    <3>2. Heard(told', u) - Heard(told, u)
            + Weight(IsTelling(x, u)) - Weight(IsTelling(runs[r], u)) <= lost' - lost
      BY <2>10 DEF RunStep, Balanced
    <3> QED
      BY <2>3, <2>4, <2>5, <2>6, <2>8, <2>10, <3>1, <3>2
  <2>11. CASE Noted(u, k) \in deliveryLog' \ deliveryLog
    <3>1. ~IsTelling(x, u) /\ Heard(told', u) = Heard(told, u) /\ lost' >= lost
      BY <2>11 DEF RunStep, Balanced
    <3>2. T1 \subseteq H /\ IsFiniteSet(H)
      BY <2>1, <2>2, <3>1, NotifierAssumption, FS_Subset
    <3>3. Cardinality(T1) <= Cardinality(H)
      BY <3>2, FS_Subset
    <3> QED
      BY <2>3, <2>4, <2>5, <2>6, <2>7, <2>11, <3>1, <3>3
  <2> QED
    BY <2>9, <2>10, <2>11
<1>5. Budget'
  BY <1>2, <1>4, BudgetIs DEF Budget, Heard, Owed, Fired, Tellers, Hopefuls, AlreadySent, Noted
<1> QED
  BY <1>1, <1>2, <1>5 DEF CountInv

LEMMA FireKeepsCount ==
  ASSUME CountInv, NEW k \in Kinds, Fire(k)
  PROVE  CountInv'
<1>1. PathInv' /\ Aside /\ UNCHANGED <<faults, lost>> /\ wanted'[k] = 1 /\ invoked'[k] = 1
      /\ \A l \in Kinds : l # k => wanted'[l] = wanted[l] /\ invoked'[l] = invoked[l]
  BY FireStep DEF CountInv
<1>2. /\ \A r \in Runs : runs[r] = Off
      /\ invoked[k] = 0 /\ (k = "saidas_tarde" => invoked["digest"] # 0)
      /\ Fired = (IF k = "digest" THEN 0 ELSE 1)
      /\ k = "digest" => invoked["saidas_tarde"] = 0
      /\ \A l \in Kinds : l # k => wanted[l] = 0
  <2>1. CASE k = "digest"
    <3>1. invoked["digest"] = 0 /\ invoked["saidas_tarde"] = 0 /\ Phase = "digest"
          /\ \A r \in Runs : runs[r] = Off
      BY <2>1 DEF Fire, CountInv, OnePhase, Phase
    <3> QED
      BY <2>1, <3>1 DEF CountInv, OnePhase, Fired
  <2>2. CASE k = "saidas_tarde"
    <3>1. invoked["saidas_tarde"] = 0 /\ invoked["digest"] > 0 /\ wanted["digest"] = 0
          /\ \A r \in Runs : runs[r] = Off
      BY <2>2 DEF Fire
    <3>2. invoked["digest"] # 0 /\ Phase = "digest"
      BY <3>1 DEF Phase
    <3> QED
      BY <2>2, <3>1, <3>2 DEF Fired, Kinds
  <2> QED
    BY <2>1, <2>2 DEF Kinds
<1>3. Phase' = k /\ Fired' = Fired + 1
  BY <1>1, <1>2 DEF Phase, Fired, Kinds
<1>4. OnePhase'
  BY <1>1, <1>2, <1>3 DEF OnePhase, Aside, Kinds
<1>5. ASSUME NEW u \in Users
      PROVE  Heard(told, u) + Owed(u)' <= Fired' + lost'
  <2>1. Cardinality(Tellers(runs, u)) = 0 /\ Cardinality(Hopefuls(runs, u)) = 0
    BY <1>2, NobodyIsHopeful
  <2>2. Owed(u)' <= 1 /\ Owed(u)' \in Nat
    BY <1>1, <1>3, <2>1 DEF Owed, Tellers, Hopefuls, Aside, Noted
  <2>3. Heard(told, u) + Owed(u) <= Fired + lost
    BY BudgetIs DEF CountInv
  <2>4. Owed(u) \in Nat /\ Heard(told, u) \in Nat /\ Fired \in Nat /\ lost \in Nat
    BY <2>1, HeardIsNat, PhaseIsAKind DEF CountInv, PathInv, TypeOK, Fired, Owed
  <2> QED
    BY <1>1, <1>3, <2>2, <2>3, <2>4
<1>6. told' = told
  BY <1>1 DEF Aside
<1>7. Budget'
  BY <1>5, <1>6 DEF Budget, Heard, Owed, Fired, Tellers, Hopefuls, AlreadySent, Noted
<1> QED
  BY <1>1, <1>4, <1>7 DEF CountInv

LEMMA DuplicateKeepsCount ==
  ASSUME CountInv, NEW k \in Kinds, Duplicate(k)
  PROVE  CountInv'
<1>1. /\ PathInv' /\ Aside /\ lost' = lost + 1 /\ UNCHANGED invoked
      /\ wanted'[k] = wanted[k] + 1 /\ \A l \in Kinds : l # k => wanted'[l] = wanted[l]
  BY DuplicateStep DEF CountInv
<1>2. k = Phase /\ invoked["digest"] # 0
  <2>1. invoked[k] # 0 /\ (k = "digest" => invoked["saidas_tarde"] = 0)
    BY DEF Duplicate
  <2>2. k = Phase
    BY <2>1 DEF Phase, Kinds
  <2> QED
    BY <2>1, <2>2 DEF CountInv, OnePhase, Phase
<1>3. Phase' = Phase /\ Fired' = Fired
  BY <1>1 DEF Phase, Fired
<1>4. OnePhase'
  BY <1>1, <1>2, <1>3 DEF CountInv, OnePhase, Aside
<1>5. ASSUME NEW u \in Users
      PROVE  Heard(told, u) + Owed(u)' <= Fired' + lost'
  <2> DEFINE T == Cardinality(Tellers(runs, u))
             H == Cardinality(Hopefuls(runs, u))
  <2>1. T \in Nat /\ H \in Nat
    BY TellersAreHopeful
  <2>2. /\ Owed(u) = IF Noted(u, k) \in deliveryLog THEN T ELSE wanted[k] + H
        /\ Owed(u)' = IF Noted(u, k) \in deliveryLog THEN T ELSE wanted[k] + 1 + H
    BY <1>1, <1>2, <1>3 DEF Owed, Tellers, Hopefuls, Aside, Noted
  <2>3. Heard(told, u) + Owed(u) <= Fired + lost
    BY BudgetIs DEF CountInv
  <2>4. wanted[k] \in Nat /\ Heard(told, u) \in Nat /\ Fired \in Nat /\ lost \in Nat
    BY HeardIsNat DEF CountInv, PathInv, TypeOK, Fired
  <2> HIDE DEF T, H
  <2> QED
    BY <1>1, <1>3, <2>1, <2>2, <2>3, <2>4
<1>6. told' = told
  BY <1>1 DEF Aside
<1>7. Budget'
  BY <1>5, <1>6 DEF Budget, Heard, Owed, Fired, Tellers, Hopefuls, AlreadySent, Noted
<1> QED
  BY <1>1, <1>4, <1>7 DEF CountInv

LEMMA NextKeepsCount ==
  ASSUME CountInv, [Next]_vars
  PROVE  CountInv'
<1>1. ASSUME NEW r \in Runs, Run(r)
      PROVE  CountInv'
  BY <1>1, RunStepsAre, RunStepKeepsCount DEF CountInv
<1>2. ASSUME PathInv', Aside, UNCHANGED <<Schedule, lost>>
      PROVE  CountInv'
  BY <1>2 DEF CountInv, OnePhase, Budget, Phase, AlreadySent, Aside, Schedule
<1>3. CASE \/ \E u \in Users : Register(u) \/ WindowCloses(u)
           \/ \E b \in DueBills : Pay(b)
           \/ Recalculate
           \/ UNCHANGED vars
  BY <1>2, <1>3, WorldStep DEF CountInv
<1> QED
  BY <1>1, <1>3, FireKeepsCount, DuplicateKeepsCount DEF Next

LEMMA CountInit == Init => CountInv
<1> SUFFICES ASSUME Init PROVE CountInv
  OBVIOUS
<1>1. PathInv
  BY PathInit
<1>2. /\ \A r \in Runs : runs[r] = Off
      /\ \A k \in Kinds : wanted[k] = 0 /\ invoked[k] = 0
      /\ \A u \in Users : Heard(told, u) = 0
      /\ lost = 0
  BY DEF Init, Heard, Kinds
<1>3. Phase = "digest" /\ Fired = 0
  BY <1>2 DEF Phase, Fired, Kinds
<1>4. OnePhase
  BY <1>2 DEF OnePhase, Kinds
<1>5. \A u \in Users : Owed(u) = 0
  BY <1>2, NobodyIsHopeful, PhaseIsAKind DEF Owed
<1>6. Budget
  BY <1>2, <1>3, <1>5, BudgetIs
<1> QED
  BY <1>1, <1>4, <1>6 DEF CountInv

LEMMA CountIsEnough ==
  ASSUME CountInv
  PROVE  RepeatsInv
<1>1. ASSUME NEW u \in Users
      PROVE  Heard(told, u) <= 2 + lost
  <2>1. Cardinality(Tellers(runs, u)) \in Nat /\ Cardinality(Hopefuls(runs, u)) \in Nat
    BY TellersAreHopeful
  <2>2. wanted[Phase] \in Nat /\ Heard(told, u) \in Nat /\ lost \in Nat
    BY PhaseIsAKind, HeardIsNat DEF CountInv, PathInv, TypeOK
  <2>3. Owed(u) \in Nat /\ Fired \in 0 .. 2
    BY <2>1, <2>2 DEF Owed, Fired
  <2>4. Heard(told, u) + Owed(u) <= Fired + lost
    BY BudgetIs DEF CountInv
  <2> QED
    BY <2>2, <2>3, <2>4
<1> QED
  BY <1>1 DEF CountInv, RepeatsInv, RepeatsNeedALoss, Heard

(* A person hears each message of the day once, and once more at most for  *)
(* send whose answer was lost, every record that was lost, every run that  *)
(* died and every invocation too many: a send that delivered nothing, or   *)
(* somebody else's failure and the retries it causes, repeats nothing      *)
(* (NotificationSent, DedupeKey, the loop that goes on after a failed      *)
(* recipient).                                                             *)
THEOREM RepeatsAreAccountedFor == Spec => []RepeatsInv
<1>1. CountInv /\ [Next]_vars => CountInv'
  BY NextKeepsCount
<1>2. CountInv => RepeatsInv
  BY CountIsEnough
<1> QED
  BY CountInit, <1>1, <1>2, PTL DEF Spec
=============================================================================
