------------------------------ MODULE Notifier ------------------------------
(***************************************************************************)
(* One day of the notifier (apps/notifier/internal/notifier/notifier.go):  *)
(* a morning run that sends every recipient a digest and the list of the   *)
(* bills due today, and an afternoon run that sends what is still open.    *)
(* Every request a run makes may fail, a run may die at any step, a run    *)
(* that fails is invoked again, and the scheduler may invoke one twice, so *)
(* runs overlap each other.                                                *)
(*                                                                         *)
(* A bill list of n messages is the parts 1..n; how bills are cut into     *)
(* messages and what the digest says is the module Bills.  The model that  *)
(* rewrites the digest can only fail back to the draft and is left out.    *)
(***************************************************************************)
EXTENDS Integers, FiniteSets

CONSTANTS Users,       \* people with a row of notification preferences
          Runs,        \* invocations that may be alive at the same time
          DueBills,    \* today's bills, each one message long
          MaxAttempts, \* invocations of a schedule: the first and its retries
          MaxFaults,   \* bound: failures, deaths and duplicate invocations
          MaxChanges   \* bound: windows that close, bills paid, registrations

ASSUME NotifierAssumption == /\ Users \subseteq Nat
                             /\ IsFiniteSet(Runs) /\ IsFiniteSet(DueBills)
                             /\ MaxAttempts \in Nat \ {0}
                             /\ MaxFaults \in Nat /\ MaxChanges \in Nat

VARIABLES phones,    \* users whose row has a phone
          blocked,   \* users nothing can be sent to (WhatsApp refuses)
          window,    \* users whose 24-hour window is open
          open,      \* today's bills that are pending
          snapshot,  \* whether today's analysis is stored
          deliveryLog, \* the day's delivery log: user and key
          invoked,   \* invoked[k]: invocations of schedule k so far
          wanted,    \* wanted[k]: invocations that have not started yet
          runs,      \* runs[r]: what run r is in the middle of
          told,      \* history: told[u][k], complete messages that reached u
          faults,    \* failures, deaths and duplicates so far
          changes,   \* changes of the world so far
          lost       \* history: those of them that may repeat a message

vars == <<phones, blocked, window, open, snapshot, deliveryLog, invoked, wanted, runs,
          told, faults, changes, lost>>

Kinds == {"digest", "saidas_tarde"}
None  == "none"   \* no recipient is being served
Off   == [at |-> "off"]

(* Broken variant of DedupeKey: one key for the day.                       *)
DedupeKeyOfTheDay(k) == "today"

(* The afternoon keys a delivery log of its own.                           *)
DedupeKey(k) == IF k = "saidas_tarde" THEN "today#saidas-tarde" ELSE "today"

Init == /\ phones \in SUBSET Users
        /\ blocked \in SUBSET Users
        /\ window \in SUBSET Users
        /\ open \in SUBSET DueBills
        /\ snapshot = FALSE
        /\ deliveryLog = {}
        /\ invoked = [k \in Kinds |-> 0]
        /\ wanted = [k \in Kinds |-> 0]
        /\ runs = [r \in Runs |-> Off]
        /\ told = [u \in Users |-> [k \in Kinds |-> 0]]
        /\ faults = 0
        /\ lost = 0
        /\ changes = 0

(* A failed request, which may have taken effect at the other end, and     *)
(* what leaves a message that went out unrecorded: a send whose answer was *)
(* lost, a record that failed, a run that died, a run too many.            *)
Fault      == faults < MaxFaults /\ faults' = faults + 1 /\ UNCHANGED lost
Loss       == faults < MaxFaults /\ faults' = faults + 1 /\ lost' = lost + 1
NoFault    == UNCHANGED <<faults, lost>>
Set(r, x)  == runs' = [runs EXCEPT ![r] = x]
World      == <<phones, blocked, window, open, changes>>
Schedule   == <<invoked, wanted>>

(* Done with this recipient; a failure is remembered and the loop goes on. *)
(* In the broken variant the first failure ends the loop.                  *)
ContinueUnlessFailed(r, failed) ==
    Set(r, [runs[r] EXCEPT !.at = "next", !.errs = @ \/ failed,
                           !.todo = IF failed THEN {} ELSE @])

Continue(r, failed) == Set(r, [runs[r] EXCEPT !.at = "next", !.errs = @ \/ failed])

-----------------------------------------------------------------------------
(* The schedule: one invocation a day and kind, and again after a failure. *)

(* The two are hours apart, a run takes a minute and an event lives for    *)
(* five, so the morning is over when the afternoon fires.                  *)
Fire(k) == /\ invoked[k] = 0
           /\ k = "saidas_tarde" => /\ invoked["digest"] > 0
                                    /\ wanted["digest"] = 0
                                    /\ \A r \in Runs : runs[r] = Off
           /\ invoked' = [invoked EXCEPT ![k] = 1]
           /\ wanted' = [wanted EXCEPT ![k] = 1]
           /\ UNCHANGED <<World, snapshot, deliveryLog, runs, told, faults, lost>>

(* Invocation is at least once.                                            *)
Duplicate(k) == /\ invoked[k] > 0
                /\ k = "digest" => invoked["saidas_tarde"] = 0
                /\ Loss
                /\ wanted' = [wanted EXCEPT ![k] = @ + 1]
                /\ UNCHANGED <<World, snapshot, deliveryLog, invoked, runs, told>>

(* The end of a run that returned an error or died.                        *)
Retry(k) == IF invoked[k] < MaxAttempts
            THEN /\ invoked' = [invoked EXCEPT ![k] = @ + 1]
                 /\ wanted' = [wanted EXCEPT ![k] = @ + 1]
            ELSE UNCHANGED Schedule

-----------------------------------------------------------------------------
(* Run, up to the loop.                                                    *)

(* ListNotificationPrefs: who is reachable is decided here, and the window *)
(* is later compared with this instant.                                    *)
Start(r, k) == /\ runs[r] = Off
               /\ wanted[k] > 0
               /\ wanted' = [wanted EXCEPT ![k] = @ - 1]
               /\ Set(r, [at |-> IF phones = {} THEN "end" ELSE "ledger",
                          kind |-> k, todo |-> phones, candidates |-> phones,
                          began |-> window, outside |-> {}, bills |-> {},
                          user |-> None, part |-> 1, shown |-> {}, errs |-> FALSE])
               /\ UNCHANGED <<World, snapshot, deliveryLog, invoked, told, faults, lost>>

(* ListEntries: one ledger, read once for every recipient.                 *)
ReadLedger(r) ==
    /\ runs[r].at = "ledger"
    /\ Set(r, [runs[r] EXCEPT !.at = IF runs[r].kind = "digest" THEN "analyse" ELSE "next",
                              !.bills = open])
    /\ UNCHANGED <<World, snapshot, deliveryLog, Schedule, told, faults, lost>>

(* Assemble, and its result as the day's snapshot.  Either may fail, which *)
(* costs the digest a section and the run nothing.                         *)
Analyse(r) ==
    /\ runs[r].at = "analyse"
    /\ Set(r, [runs[r] EXCEPT !.at = "next"])
    /\ \/ snapshot' = TRUE /\ NoFault
       \/ snapshot' \in {snapshot, TRUE} /\ Fault
    /\ UNCHANGED <<World, deliveryLog, Schedule, told>>

(* A read of the preamble fails: the run is over.                          *)
Abort(r) == /\ runs[r].at = "ledger"
            /\ Fault
            /\ Set(r, Off)
            /\ Retry(runs[r].kind)
            /\ UNCHANGED <<World, snapshot, deliveryLog, told>>

-----------------------------------------------------------------------------
(* The loop over the recipients, in the order of the list: by user.        *)

InWindow(r, u) == u \in window \cup runs[r].began

AlreadySent(u, k) == <<u, DedupeKey(k)>> \in deliveryLog

(* ActiveUntil and NotificationSent: outside the window, already told, or  *)
(* the recipient's turn.  A window that has closed since the run began     *)
(* still counts as open.                                                   *)
Consider(r) ==
    /\ runs[r].at = "next"
    /\ \E u \in runs[r].todo :
        /\ \A v \in runs[r].todo : u <= v
        /\ LET run == [runs[r] EXCEPT !.todo = @ \ {u}]
          IN  \/ /\ ~InWindow(r, u)
                 /\ Set(r, [run EXCEPT !.outside = @ \cup {u}])
                 /\ NoFault
              \/ /\ InWindow(r, u)
                 /\ AlreadySent(u, run.kind)
                 /\ Set(r, run)
                 /\ NoFault
              \/ /\ InWindow(r, u)
                 /\ ~AlreadySent(u, run.kind)
                 /\ Set(r, [run EXCEPT !.at = IF run.kind = "digest" THEN "digest" ELSE "list",
                                       !.user = u, !.part = 1, !.shown = {}])
                 /\ NoFault
              \/ Set(r, [run EXCEPT !.errs = TRUE]) /\ Fault
    /\ UNCHANGED <<World, snapshot, deliveryLog, Schedule, told>>

Told(u, k) == told' = [told EXCEPT ![u][k] = @ + 1]

(* SendText of the digest.  The list follows where there is one.  A send   *)
(* that returns an error may have been delivered: WhatsApp took it and its *)
(* answer was lost on the way.                                             *)
SendDigest(r) ==
    LET u == runs[r].user
    IN  /\ runs[r].at = "digest"
        /\ \/ /\ u \notin blocked
              /\ Told(u, "digest")
              /\ Set(r, [runs[r] EXCEPT !.at = IF runs[r].bills # {} THEN "list" ELSE "record"])
              /\ NoFault
           \/ /\ u \in blocked
              /\ Continue(r, TRUE)
              /\ UNCHANGED <<told, faults, lost>>
           \/ /\ Continue(r, TRUE)
              /\ \/ u \notin blocked /\ Told(u, "digest") /\ Loss
                 \/ UNCHANGED told /\ Fault
        /\ UNCHANGED <<World, snapshot, deliveryLog, Schedule>>

(* How many messages the list takes: in the afternoon an empty one is      *)
(* still a message.                                                        *)
Parts(run) == LET n == Cardinality(run.bills)
              IN  IF run.kind = "saidas_tarde" /\ n = 0 THEN 1 ELSE n

(* Broken variant of FailedPart: nothing is recorded.                      *)
FailedPartUnrecorded(run) == [run EXCEPT !.at = "next", !.errs = TRUE]

(* Where a part that fails leaves the run: a digest that lost its list is  *)
(* recorded, a reminder is not.                                            *)
FailedPart(run) ==
    [run EXCEPT !.at = IF run.kind = "digest" THEN "record" ELSE "next", !.errs = TRUE]

(* The run after a part that was delivered.                                *)
Shown(run) == [run EXCEPT !.shown = @ \cup {run.part}, !.part = @ + 1]

(* sendAll, one message at a time, until the first that fails, delivered   *)
(* or not.  The last part of a reminder is what makes it complete.         *)
SendPart(r) ==
    LET run      == runs[r]
        last     == run.part = Parts(run)
        complete == last /\ run.kind = "saidas_tarde"
    IN  /\ run.at = "list"
        /\ \/ /\ run.user \notin blocked
              /\ \/ /\ Set(r, [Shown(run) EXCEPT !.at = IF last THEN "record" ELSE "list"])
                    /\ NoFault
                 \/ /\ Set(r, FailedPart(Shown(run)))
                    /\ IF complete THEN Loss ELSE Fault
              /\ IF complete THEN Told(run.user, run.kind) ELSE UNCHANGED told
           \/ /\ Set(r, FailedPart(run))
              /\ (run.user \in blocked /\ NoFault) \/ Fault
              /\ UNCHANGED told
        /\ UNCHANGED <<World, snapshot, deliveryLog, Schedule>>

(* RecordNotificationSent, only after the send.                            *)
Record(r) ==
    /\ runs[r].at = "record"
    /\ \/ /\ deliveryLog' = deliveryLog \cup {<<runs[r].user, DedupeKey(runs[r].kind)>>}
          /\ (Continue(r, FALSE) /\ NoFault) \/ (Continue(r, TRUE) /\ Fault)
       \/ /\ Continue(r, TRUE)
          /\ Loss
          /\ UNCHANGED deliveryLog
    /\ UNCHANGED <<World, snapshot, Schedule, told>>

(* errors.Join: a run with one failed recipient has failed.                *)
Finish(r) == /\ \/ runs[r].at = "next" /\ runs[r].todo = {}
                \/ runs[r].at = "end"
             /\ IF runs[r].errs THEN Retry(runs[r].kind) ELSE UNCHANGED Schedule
             /\ Set(r, Off)
             /\ UNCHANGED <<World, snapshot, deliveryLog, told, faults, lost>>

(* The Lambda's timeout, at any step.                                      *)
Die(r) == /\ runs[r] # Off
          /\ Loss
          /\ Set(r, Off)
          /\ Retry(runs[r].kind)
          /\ UNCHANGED <<World, snapshot, deliveryLog, told>>

-----------------------------------------------------------------------------
(* The rest of the day.                                                    *)

Change == /\ changes < MaxChanges
          /\ changes' = changes + 1
          /\ UNCHANGED <<blocked, snapshot, deliveryLog, Schedule, runs, told, faults, lost>>

(* GET /notifications registers whoever reads it.                          *)
Register(u) == u \notin phones /\ phones' = phones \cup {u} /\ Change /\ UNCHANGED <<window, open>>

WindowCloses(u) == u \in window /\ window' = window \ {u} /\ Change /\ UNCHANGED <<phones, open>>

Pay(b) == b \in open /\ open' = open \ {b} /\ Change /\ UNCHANGED <<phones, window>>

(* POST /analysis computes the snapshot again.                             *)
Recalculate == /\ snapshot' = TRUE
               /\ UNCHANGED <<World, deliveryLog, Schedule, runs, told, faults, lost>>

Run(r) == \/ \E k \in Kinds : Start(r, k)
          \/ ReadLedger(r) \/ Analyse(r)  \/ Abort(r)
          \/ Consider(r)   \/ SendDigest(r) \/ SendPart(r) \/ Record(r)
          \/ Finish(r)     \/ Die(r)

Next == \/ \E k \in Kinds : Fire(k) \/ Duplicate(k)
        \/ \E r \in Runs : Run(r)
        \/ \E u \in Users : Register(u) \/ WindowCloses(u)
        \/ \E b \in DueBills : Pay(b)
        \/ Recalculate

(* The schedule fires and a run that was invoked goes on; nothing obliges  *)
(* a run to fail, a window to close or anybody to register or pay.         *)
Fairness == /\ \A k \in Kinds : WF_vars(Fire(k))
            /\ \A r \in Runs : WF_vars(Run(r))

Spec == Init /\ [][Next]_vars /\ Fairness
-----------------------------------------------------------------------------
(* The shape of a run, and of the state.                                   *)
Shaped(run) ==
    /\ DOMAIN run = {"at", "kind", "todo", "candidates", "began", "outside", "bills",
                     "user", "part", "shown", "errs"}
    /\ run.at \in {"ledger", "analyse", "next", "digest", "list", "record", "end"}
    /\ run.kind \in Kinds
    /\ run.candidates \subseteq Users /\ run.todo \subseteq run.candidates
    /\ run.bills \subseteq DueBills
    /\ run.at \in {"digest", "list", "record"} => run.user \in Users
    /\ run.part \in Nat \ {0} /\ run.errs \in BOOLEAN
    /\ run.shown \subseteq 1..Parts(run)

TypeOK ==
    /\ phones \subseteq Users /\ blocked \subseteq Users /\ window \subseteq Users
    /\ open \subseteq DueBills
    /\ snapshot \in BOOLEAN
    /\ DOMAIN runs = Runs
    /\ \A r \in Runs : runs[r] = Off \/ Shaped(runs[r])
    /\ invoked \in [Kinds -> 0..MaxAttempts] /\ wanted \in [Kinds -> Nat]
    /\ told \in [Users -> [Kinds -> Nat]]
    /\ lost \in Nat /\ faults \in Nat /\ lost <= faults /\ faults <= MaxFaults

(* What the log says was sent did reach the person: the morning never      *)
(* silences the afternoon, nor a list that broke off its own repeat        *)
(* (dedupeKey, Record only after a successful send).                       *)
RecordMeansSent ==
    \A u \in Users, k \in Kinds : AlreadySent(u, k) => told[u][k] > 0

(* A run that ends without an error has an answer for every recipient:     *)
(* the message is on record, or the window was closed.                     *)
SuccessMeansEveryone ==
    \A r \in Runs :
        runs[r] # Off /\ runs[r].at = "next" /\ runs[r].todo = {} /\ ~runs[r].errs
            => \A u \in runs[r].candidates \ runs[r].outside : AlreadySent(u, runs[r].kind)

(* What a run shows of a list is its beginning, never one with a gap       *)
(* (sendAll).                                                              *)
ListsHaveNoGaps ==
    \A r \in Runs : runs[r] # Off => \E n \in 0..Cardinality(DueBills) + 1 :
                                        runs[r].shown = 1..n

(* Where a run is in the list it sends.                                    *)
InTurn(run) ==
    /\ run.shown = 1..run.part - 1 /\ run.part <= Parts(run) + 1
    /\ run.at = "list" => run.part <= Parts(run)
    /\ run.at \in {"ledger", "analyse", "digest"} => run.part = 1
    /\ run.at = "digest" => run.kind = "digest"

(* A run that is about to record has sent, and one without an error has an *)
(* answer for everybody it is done with.                                   *)
Accountable(run) ==
    /\ run.at = "record" \/ (run.at = "list" /\ run.kind = "digest") =>
         told[run.user][run.kind] > 0
    /\ ~run.errs => \A u \in run.candidates \ (run.outside \cup run.todo) :
         AlreadySent(u, run.kind) \/ (run.at \in {"digest", "list", "record"} /\ u = run.user)

(* The log, the lists and the verdict of a run tell the truth.             *)
LogInv == /\ TypeOK /\ \A r \in Runs : runs[r] # Off => InTurn(runs[r]) /\ Accountable(runs[r])
          /\ RecordMeansSent /\ SuccessMeansEveryone /\ ListsHaveNoGaps

(* A person hears each message of the day once, and once more at most for  *)
(* every loss: an answer of WhatsApp or a record that was lost, a run that *)
(* died, a run too many.  Not for a request that failed and delivered      *)
(* nothing, not for a morning list that broke off, not for anybody else's  *)
(* failure and the retries it causes.  A reminder is heard when it is      *)
(* complete: the beginning of one that broke off comes again ("a resend of *)
(* it is harmless").                                                       *)
RepeatsNeedALoss ==
    \A u \in Users : told[u]["digest"] + told[u]["saidas_tarde"] <= 2 + lost

(* The schedule that is under way: the morning is over when the afternoon  *)
(* fires, so every run and every invocation is of this kind.               *)
Phase == IF invoked["saidas_tarde"] = 0 THEN "digest" ELSE "saidas_tarde"

OnePhase ==
    /\ \A k \in Kinds \ {Phase} : wanted[k] = 0
    /\ \A r \in Runs : runs[r] # Off => runs[r].kind = Phase
    /\ invoked["digest"] = 0 => /\ invoked["saidas_tarde"] = 0 /\ wanted["digest"] = 0
                                /\ \A r \in Runs : runs[r] = Off

(* Runs that may yet tell u, and those of them that are just doing it.     *)
MayTell(run, u) ==
    run # Off /\ ~(/\ run.at = "record" \/ (run.at = "list" /\ run.kind = "digest")
                   /\ run.user = u)
IsTelling(run, u) ==
    run # Off /\ run.at = (IF run.kind = "digest" THEN "digest" ELSE "list") /\ run.user = u

(* What u has heard and may still hear is one message for each schedule    *)
(* that has fired, and one for each loss; a record rules out whoever is    *)
(* not telling u at this very moment.                                      *)
Budget ==
    \A u \in Users :
      LET heard == told[u]["digest"] + told[u]["saidas_tarde"]
          fired == IF Phase = "digest" THEN IF invoked["digest"] = 0 THEN 0 ELSE 1 ELSE 2
      IN  heard + (IF AlreadySent(u, Phase)
                   THEN Cardinality({r \in Runs : IsTelling(runs[r], u)})
                   ELSE wanted[Phase] + Cardinality({r \in Runs : MayTell(runs[r], u)}))
            <= fired + lost

RepeatsInv == OnePhase /\ Budget /\ RepeatsNeedALoss

(* Whoever can be reached hears both messages of the day, as long as the   *)
(* failures are fewer than the attempts: one bad user never blocks the     *)
(* rest.                                                                   *)
EveryoneIsTold ==
    \A u \in Users, k \in Kinds :
        (invoked[k] = 0 /\ u \in phones \ blocked)
            ~> (told[u][k] > 0 \/ u \notin window)
=============================================================================
