--------------------------- MODULE PaymentsImport ---------------------------
(***************************************************************************)
(* Importing a day of acquirer data: packages/payments (Save and its index *)
(* item), packages/payments/importer and apps/payment-importer.            *)
(*                                                                         *)
(* An import is one provider and source day; its envelope lies in S3 and   *)
(* may be dropped again, unchanged or corrected.  Each drop invokes the    *)
(* importer, which replaces what the previous version of the import wrote: *)
(* the rows its index item lists and the new version lacks are deleted,    *)
(* every new row is put, and the index is written last.  The writes go out *)
(* in batches, of which DynamoDB may process any part; a run may fail at   *)
(* any step, is retried twice, and is then forgotten.                      *)
(*                                                                         *)
(* A row is known by its sort key and by the version that wrote it; the    *)
(* amounts in it and the parsing that finds them are left out.             *)
(***************************************************************************)
EXTENDS Integers, Sequences, FiniteSets, SequencesExt

CONSTANTS Imports,     \* (provider, source day) pairs
          Keys,        \* sort keys of sales, receivables and payments
          Versions,    \* envelopes somebody may drop
          Of,          \* Of[v]: the import that v is an envelope of
          KeysOf,      \* KeysOf[v]: the sort keys of v's items
          Malformed,   \* envelopes the parser or ValidateImportResult refuses
          Runs,        \* concurrent invocations of the importer
          BatchSize,   \* maxBatchWriteItems
          MaxTries,    \* maxBatchWriteRetries
          MaxDrops,    \* bound: how many envelopes are dropped
          Redrop,      \* after a failure: the "same" envelope again, or "any"
          Nil

Attempts == 1 .. 3   \* an asynchronous invocation and its two retries

ASSUME VersionsAssumption ==
    /\ Of \in [Versions -> Imports] /\ KeysOf \in [Versions -> SUBSET Keys]
    /\ \A v \in Versions : IsFiniteSet(KeysOf[v])
    /\ Malformed \subseteq Versions /\ Nil \notin Versions
    /\ \A S \in SUBSET Keys : S # Nil
ASSUME BatchAssumption ==
    /\ BatchSize \in Nat \ {0} /\ MaxTries \in Nat \ {0} /\ MaxDrops \in Nat
    /\ Redrop \in {"same", "any"}

VARIABLES object,   \* object[i]: the envelope of i in the bucket
          drops,    \* how many envelopes have been dropped
          events,   \* events[i, n]: invocations waiting for their n-th attempt
          run,      \* run[r]: an invocation's place in Save, and its locals
          rows,     \* rows[k]: the version that wrote the row under k
          index,    \* index[i]: the keys in the index item of i
          dirty     \* history: a run of i has failed since one last finished

vars == <<object, drops, events, run, rows, index, dirty>>

Idle == [step |-> "idle", version |-> Nil, attempt |-> 1, old |-> {},
         from |-> 1, pending |-> {}, tries |-> 0]

(* The puts of a version, in an order of their own.                        *)
Puts == [v \in Versions |-> SetToSeq({[op |-> "put", key |-> k] : k \in KeysOf[v]})]

(* Broken variant of Writes: what is about to be put is deleted first.     *)
WritesAfterWipe(v, old) ==
    SetToSeq({[op |-> "delete", key |-> k] : k \in old})
      \o Puts[v]

(* The write requests of Save: deletes before puts, and never a delete of  *)
(* a key that is about to be put.                                          *)
Writes(v, old) ==
    SetToSeq({[op |-> "delete", key |-> k] : k \in old \ KeysOf[v]})
      \o Puts[v]

TypeOK ==
    /\ object \in [Imports -> Versions \cup {Nil}]
    /\ drops \in 0 .. MaxDrops
    /\ events \in [Imports \X Attempts -> Nat]
    /\ run \in [Runs -> [step : {"idle", "read", "write", "index", "done"},
                         version : Versions \cup {Nil}, attempt : Attempts,
                         old : SUBSET Keys, from : Nat \ {0}, pending : SUBSET Nat,
                         tries : 0 .. MaxTries]]
    /\ rows \in [Keys -> Versions \cup {Nil}]
    /\ index \in [Imports -> (SUBSET Keys) \cup {Nil}]
    /\ dirty \in [Imports -> BOOLEAN]

Init ==
    /\ object = [i \in Imports |-> Nil] /\ drops = 0
    /\ events = [e \in Imports \X Attempts |-> 0]
    /\ run = [r \in Runs |-> Idle]
    /\ rows = [k \in Keys |-> Nil]
    /\ index = [i \in Imports |-> Nil]
    /\ dirty = [i \in Imports |-> FALSE]

-----------------------------------------------------------------------------
RunsOn(i)  == {r \in Runs : run[r].step # "idle" /\ Of[run[r].version] = i}
Quiet(i)   == RunsOn(i) = {} /\ \A n \in Attempts : events[<<i, n>>] = 0

(* An envelope lands in the bucket and invokes the importer.  Under "same" *)
(* an import that is being worked on, or that failed half-way, is only     *)
(* dropped again unchanged: the recovery docs/deploy.md describes.  One    *)
(* that was refused before it wrote anything may be corrected.             *)
Drop(v) ==
    LET i == Of[v]
    IN  /\ drops < MaxDrops
        /\ \/ Redrop = "any" \/ v = object[i]
           \/ Quiet(i) /\ (dirty[i] => object[i] \in Malformed)
        /\ object' = [object EXCEPT ![i] = v]
        /\ drops' = drops + 1
        /\ events' = [events EXCEPT ![<<i, 1>>] = @ + 1]
        /\ UNCHANGED <<run, rows, index, dirty>>

(* The Lambda reads the object as it is now and parses it.                 *)
Invoke(r, i, n) ==
    /\ run[r].step = "idle" /\ events[<<i, n>>] > 0
    /\ events' = [events EXCEPT ![<<i, n>>] = @ - 1]
    /\ run' = [run EXCEPT ![r] = [Idle EXCEPT !.step = "read", !.attempt = n,
                                              !.version = object[i]]]
    /\ UNCHANGED <<object, drops, rows, index, dirty>>

Batch(writes, from) == from .. IF from + BatchSize - 1 < Len(writes)
                               THEN from + BatchSize - 1 ELSE Len(writes)

(* Broken variant of AtBatch: the loop leaves a last, short batch out.     *)
AtBatchShort(c, from) ==
    LET writes == Writes(c.version, c.old)
    IN  IF from + BatchSize - 1 > Len(writes)
        THEN [c EXCEPT !.step = "index", !.pending = {}, !.tries = 0]
        ELSE [c EXCEPT !.step = "write", !.from = from, !.tries = 0,
                       !.pending = Batch(writes, from)]

(* Where batchWrite goes when the batch that starts at from is next.       *)
AtBatch(c, from) ==
    LET writes == Writes(c.version, c.old)
    IN  IF from > Len(writes)
        THEN [c EXCEPT !.step = "index", !.pending = {}, !.tries = 0]
        ELSE [c EXCEPT !.step = "write", !.from = from, !.tries = 0,
                       !.pending = Batch(writes, from)]

(* existingKeys: one consistent read of the index item.                    *)
ExistingKeys(i) == IF index[i] = Nil THEN {} ELSE index[i]

ReadIndex(r) ==
    /\ run[r].step = "read" /\ run[r].version \notin Malformed
    /\ run' = [run EXCEPT ![r] =
                 AtBatch([@ EXCEPT !.old = ExistingKeys(Of[run[r].version])], 1)]
    /\ UNCHANGED <<object, drops, events, rows, index, dirty>>

Apply(ops, v) == [k \in Keys |-> IF [op |-> "put", key |-> k] \in ops THEN v
                                 ELSE IF [op |-> "delete", key |-> k] \in ops THEN Nil
                                 ELSE rows[k]]

TriesLeft(c) == c.tries < MaxTries

(* One BatchWriteItem: any part of the batch is processed, and the rest is *)
(* asked for again until the tries are used up.                            *)
WriteBatch(r) ==
    LET c == run[r]
        writes == Writes(c.version, c.old)
    IN  /\ c.step = "write" /\ TriesLeft(c)
        /\ \E done \in SUBSET c.pending :
             /\ rows' = Apply({writes[n] : n \in done}, c.version)
             /\ run' = [run EXCEPT ![r] =
                          IF done = c.pending THEN AtBatch(c, c.from + BatchSize)
                          ELSE [c EXCEPT !.pending = @ \ done, !.tries = @ + 1]]
        /\ UNCHANGED <<object, drops, events, index, dirty>>

PutIndex(r) ==
    /\ run[r].step = "index"
    /\ index' = [index EXCEPT ![Of[run[r].version]] = KeysOf[run[r].version]]
    /\ run' = [run EXCEPT ![r].step = "done"]
    /\ UNCHANGED <<object, drops, events, rows, dirty>>

Finish(r) ==
    /\ run[r].step = "done"
    /\ dirty' = [dirty EXCEPT ![Of[run[r].version]] = FALSE]
    /\ run' = [run EXCEPT ![r] = Idle]
    /\ UNCHANGED <<object, drops, events, rows, index>>

(* The run ends early, at any step: the envelope does not parse, the tries *)
(* are used up, a request fails or the Lambda is killed, before or after   *)
(* what it asked for was done.  Two retries, and then only the log knows.  *)
Fail(r) ==
    LET i == Of[run[r].version]
        n == run[r].attempt
    IN  /\ run[r].step # "idle"
        /\ events' = IF n + 1 \in Attempts
                     THEN [events EXCEPT ![<<i, n + 1>>] = @ + 1] ELSE events
        /\ dirty' = [dirty EXCEPT ![i] = TRUE]
        /\ run' = [run EXCEPT ![r] = Idle]
        /\ UNCHANGED <<object, drops, rows, index>>

Next == \/ \E v \in Versions : Drop(v)
        \/ \E r \in Runs : \/ \E i \in Imports, n \in Attempts : Invoke(r, i, n)
                           \/ ReadIndex(r) \/ WriteBatch(r) \/ PutIndex(r)
                           \/ Finish(r) \/ Fail(r)

Spec == Init /\ [][Next]_vars

-----------------------------------------------------------------------------
RowsOf(i) == {k \in Keys : rows[k] # Nil /\ Of[rows[k]] = i}

(* An import replaces exactly its own set: once it has run to the end, its *)
(* rows are those of the envelope in the bucket, neither more nor fewer,   *)
(* however many attempts were cut short before.                            *)
ReplaceIsExact ==
    \A i \in Imports :
      Quiet(i) /\ ~dirty[i] /\ object[i] # Nil =>
        /\ RowsOf(i) = KeysOf[object[i]]
        /\ \A k \in RowsOf(i) : rows[k] = object[i]

(* The next run can re-derive the full delete set: a row that no index     *)
(* lists is one that the envelope about to be replayed puts again.         *)
LeftoversAreReplayed ==
    \A i \in Imports :
      RowsOf(i) \subseteq ExistingKeys(i)
                          \cup (IF object[i] = Nil THEN {} ELSE KeysOf[object[i]])

(* What a run finds is what it can replace, and what it leaves is exact.   *)
ReplaceInv == TypeOK /\ LeftoversAreReplayed /\ ReplaceIsExact

(* Re-importing a day never takes a row away that the new version has too: *)
(* a reader of the dashboard may see an old row or a new one, never none.  *)
NothingGoesMissing ==
    [][\A k \in Keys : rows[k] # Nil /\ rows'[k] = Nil =>
         \E r \in Runs : run[r].step = "write" /\ k \notin KeysOf[run[r].version]]_rows
=============================================================================
