--------------------------- MODULE PaymentsProofs ---------------------------
(***************************************************************************)
(* Theorems about replacing a day of payments, for every set of imports,   *)
(* envelopes and concurrent runs, and every size of batch.                 *)
(***************************************************************************)
EXTENDS PaymentsImport, SequenceTheorems, FiniteSetTheorems, TLAPS

-----------------------------------------------------------------------------
(* The write requests of one replacement.                                  *)

LEMMA SetToSeqContents ==
  ASSUME NEW S, IsFiniteSet(S)
  PROVE  /\ SetToSeq(S) \in Seq(S)
         /\ \A x \in S : \E n \in DOMAIN SetToSeq(S) : SetToSeq(S)[n] = x
<1> DEFINE D == 1 .. Cardinality(S)
<1>1. Cardinality(S) \in Nat /\ ExistsBijection(D, S)
  BY FS_CardinalityType
<1>2. \E f \in [D -> S] : IsInjective(f)
  BY <1>1 DEF ExistsBijection, Bijection, Injection
<1>3. SetToSeq(S) \in [D -> S] /\ IsInjective(SetToSeq(S))
  BY <1>2 DEF SetToSeq
<1>4. SetToSeq(S) \in Injection(D, S)
  BY <1>3 DEF Injection
<1>5. Cardinality(D) = Cardinality(S)
  BY <1>1, FS_Interval
<1>6. SetToSeq(S) \in Surjection(D, S)
  BY <1>4, <1>5, FS_Injection
<1>7. \A x \in S : \E n \in D : SetToSeq(S)[n] = x
  BY <1>6 DEF Surjection
<1>8. SetToSeq(S) \in Seq(S)
  BY <1>1, <1>3
<1> QED
  BY <1>3, <1>7, <1>8

LEMMA RequestsAreFinite ==
  ASSUME NEW S, IsFiniteSet(S), NEW o
  PROVE  IsFiniteSet({[op |-> o, key |-> k] : k \in S})
<1> DEFINE T == {[op |-> o, key |-> k] : k \in S}
           f == [k \in S |-> [op |-> o, key |-> k]]
<1>1. f \in Surjection(S, T)
  BY DEF Surjection
<1> QED
  BY <1>1, FS_Surjection

(* The requests that a replacement of old by v may hold.                   *)
Requests(v, old) == {[op |-> "delete", key |-> k] : k \in old \ KeysOf[v]}
                    \cup {[op |-> "put", key |-> k] : k \in KeysOf[v]}

(* Save sends these requests and no others: a delete for each row that the *)
(* new version lacks, a put for each that it has.                          *)
LEMMA WritesAreTheRequests ==
  ASSUME NEW v \in Versions, NEW old, IsFiniteSet(old)
  PROVE  /\ Len(Writes(v, old)) \in Nat
         /\ DOMAIN Writes(v, old) = 1 .. Len(Writes(v, old))
         /\ \A n \in DOMAIN Writes(v, old) : Writes(v, old)[n] \in Requests(v, old)
         /\ \A q \in Requests(v, old) :
              \E n \in DOMAIN Writes(v, old) : Writes(v, old)[n] = q
<1> DEFINE Deletes == {[op |-> "delete", key |-> k] : k \in old \ KeysOf[v]}
           TheirPuts == {[op |-> "put", key |-> k] : k \in KeysOf[v]}
           R == Requests(v, old)
           d == SetToSeq(Deletes)
           p == SetToSeq(TheirPuts)
           w == Writes(v, old)
<1>1. IsFiniteSet(old \ KeysOf[v]) /\ IsFiniteSet(KeysOf[v])
  BY FS_Difference, VersionsAssumption
<1>2. IsFiniteSet(Deletes)
  BY <1>1, RequestsAreFinite
<1>3. IsFiniteSet(TheirPuts)
  BY <1>1, RequestsAreFinite
<1>4. R = Deletes \cup TheirPuts /\ w = d \o p
  BY DEF Requests, Writes, Puts
<1> HIDE DEF R, w, Deletes, TheirPuts
<1>5. /\ d \in Seq(Deletes) /\ \A x \in Deletes : \E n \in DOMAIN d : d[n] = x
      /\ p \in Seq(TheirPuts) /\ \A x \in TheirPuts : \E n \in DOMAIN p : p[n] = x
  BY <1>2, <1>3, SetToSeqContents
<1> HIDE DEF d, p
<1>6. d \in Seq(R) /\ p \in Seq(R)
  BY <1>4, <1>5, SeqMonotonic
<1>7. w \in Seq(R) /\ Len(w) = Len(d) + Len(p)
  BY <1>4, <1>6
<1>8. Len(d) \in Nat /\ Len(p) \in Nat /\ DOMAIN d = 1 .. Len(d) /\ DOMAIN p = 1 .. Len(p)
      /\ Len(w) \in Nat /\ DOMAIN w = 1 .. Len(w)
  BY <1>6, <1>7
<1>9. \A n \in DOMAIN w : w[n] \in R
  BY <1>7
<1>10. \A i \in 1 .. Len(d) + Len(p) : w[i] = IF i <= Len(d) THEN d[i] ELSE p[i - Len(d)]
  BY <1>4, <1>6, ConcatProperties
<1>11. \A n \in DOMAIN d : n \in DOMAIN w /\ w[n] = d[n]
  BY <1>7, <1>8, <1>10
<1>12. \A n \in DOMAIN p : n + Len(d) \in DOMAIN w /\ w[n + Len(d)] = p[n]
  BY <1>7, <1>8, <1>10
<1>13. ASSUME NEW q \in R
       PROVE  \E n \in DOMAIN w : w[n] = q
  <2>1. CASE q \in Deletes
    BY <2>1, <1>5, <1>11
  <2>2. CASE q \in TheirPuts
    BY <2>2, <1>5, <1>12
  <2> QED
    BY <2>1, <2>2, <1>4
<1> QED
  BY <1>8, <1>9, <1>13 DEF R, w

-----------------------------------------------------------------------------
(* Runs and what they were given.                                          *)

Running == [step : {"idle", "read", "write", "index", "done"},
            version : Versions \cup {Nil}, attempt : Attempts,
            old : SUBSET Keys, from : Nat \ {0}, pending : SUBSET Nat,
            tries : 0 .. MaxTries]

(* The index item of an import lists what some version of it wrote.        *)
Known(i, keys) == keys = {} \/ \E w \in Versions : Of[w] = i /\ keys = KeysOf[w]

(* A run holds an envelope, the keys of an earlier one, and a batch of its *)
(* own write requests.                                                     *)
Supplied(c) ==
    c.step # "idle" =>
      /\ c.version \in Versions /\ Known(Of[c.version], c.old)
      /\ c.step = "write" => c.pending \subseteq DOMAIN Writes(c.version, c.old)

(* Nothing is invoked for an import that has no envelope in the bucket.    *)
InBucket ==
    /\ \A i \in Imports : object[i] # Nil => Of[object[i]] = i
    /\ \A i \in Imports, n \in Attempts : events[<<i, n>>] > 0 => object[i] # Nil
    /\ \A r \in Runs : run[r].step # "idle" => object[Of[run[r].version]] # Nil

RunInv ==
    /\ InBucket
    /\ \A i \in Imports : Known(i, ExistingKeys(i))
    /\ \A r \in Runs : Supplied(run[r])

LEMMA KnownAreFinite ==
  ASSUME NEW i, NEW keys, Known(i, keys)
  PROVE  IsFiniteSet(keys) /\ keys \subseteq Keys
BY FS_EmptySet, VersionsAssumption DEF Known

(* Where a run goes at the end of a batch.                                 *)
LEMMA AtBatchFacts ==
  ASSUME NEW c \in Running, c.version \in Versions, IsFiniteSet(c.old),
         NEW from \in Nat \ {0}
  PROVE  LET a == AtBatch(c, from)
             writes == Writes(c.version, c.old)
         IN  /\ a \in Running /\ a.version = c.version /\ a.old = c.old
             /\ a.step \in {"write", "index"}
             /\ a.step = "write" =>
                  /\ a.from = from /\ a.pending \subseteq DOMAIN writes
                  /\ \A n \in DOMAIN writes :
                       n < from + BatchSize /\ n \notin a.pending => n < from
             /\ a.step = "index" => \A n \in DOMAIN writes : n < from
<1> DEFINE writes == Writes(c.version, c.old)
           len == Len(writes)
<1>1. len \in Nat /\ DOMAIN writes = 1 .. len
  BY WritesAreTheRequests
<1>2. BatchSize \in Nat \ {0} /\ MaxTries \in Nat
  BY BatchAssumption
<1>3. AtBatch(c, from) = IF from > len
        THEN [c EXCEPT !.step = "index", !.pending = {}, !.tries = 0]
        ELSE [c EXCEPT !.step = "write", !.from = from, !.tries = 0,
                       !.pending = from .. IF from + BatchSize - 1 < len
                                           THEN from + BatchSize - 1 ELSE len]
  BY DEF AtBatch, Batch
<1> HIDE DEF writes, len
<1>4. CASE from > len
  <2>1. AtBatch(c, from) = [c EXCEPT !.step = "index", !.pending = {}, !.tries = 0]
    BY <1>3, <1>4
  <2>2. AtBatch(c, from) \in Running
    <3>1. AtBatch(c, from) = [step |-> "index", version |-> c.version, attempt |-> c.attempt,
                        old |-> c.old, from |-> c.from, pending |-> {}, tries |-> 0]
      BY <2>1 DEF Running
    <3>2. c.version \in Versions \cup {Nil} /\ c.attempt \in Attempts /\ c.old \in SUBSET Keys
          /\ c.from \in Nat \ {0} /\ 0 \in 0 .. MaxTries
      BY <1>2 DEF Running
    <3> QED
      BY <3>1, <3>2 DEF Running
  <2>3. AtBatch(c, from).step = "index" /\ AtBatch(c, from).version = c.version
        /\ AtBatch(c, from).old = c.old
    BY <2>1 DEF Running
  <2>4. \A n \in DOMAIN writes : n < from
    BY <1>1, <1>4
  <2> QED
    BY <2>2, <2>3, <2>4 DEF writes
<1>5. CASE ~(from > len)
  <2> DEFINE top == IF from + BatchSize - 1 < len THEN from + BatchSize - 1 ELSE len
  <2>1. top \in Nat /\ top <= len /\ (from + BatchSize - 1 <= top \/ top = len)
    BY <1>1, <1>2
  <2>2. AtBatch(c, from) = [c EXCEPT !.step = "write", !.from = from, !.tries = 0,
                                     !.pending = from .. top]
    BY <1>3, <1>5
  <2> HIDE DEF top
  <2>3. from .. top \in SUBSET Nat
    BY <2>1
  <2>4. AtBatch(c, from) \in Running
    <3>1. AtBatch(c, from) = [step |-> "write", version |-> c.version, attempt |-> c.attempt,
                        old |-> c.old, from |-> from, pending |-> from .. top, tries |-> 0]
      BY <2>2 DEF Running
    <3>2. c.version \in Versions \cup {Nil} /\ c.attempt \in Attempts /\ c.old \in SUBSET Keys
          /\ 0 \in 0 .. MaxTries
      BY <1>2 DEF Running
    <3> QED
      BY <2>3, <3>1, <3>2 DEF Running
  <2>5. /\ AtBatch(c, from).step = "write" /\ AtBatch(c, from).version = c.version
        /\ AtBatch(c, from).old = c.old /\ AtBatch(c, from).from = from
        /\ AtBatch(c, from).pending = from .. top
    BY <2>2 DEF Running
  <2>6. from .. top \subseteq DOMAIN writes
    BY <2>1, <1>1
  <2>7. \A n \in DOMAIN writes : n < from + BatchSize /\ n \notin from .. top => n < from
    BY <2>1, <1>1, <1>2
  <2> QED
    BY <2>4, <2>5, <2>6, <2>7 DEF writes
<1> QED
  BY <1>4, <1>5

LEMMA IdleIsSupplied == Idle \in Running /\ Supplied(Idle) /\ Idle.step = "idle"
BY BatchAssumption DEF Idle, Running, Supplied, Attempts

(* What a run becomes, step by step.                                       *)
LEMMA InvokeGives ==
  ASSUME NEW n \in Attempts, NEW v \in Versions
  PROVE  LET c == [Idle EXCEPT !.step = "read", !.attempt = n, !.version = v]
         IN  /\ c \in Running /\ Supplied(c)
             /\ c.step = "read" /\ c.version = v /\ c.attempt = n
<1> DEFINE c == [Idle EXCEPT !.step = "read", !.attempt = n, !.version = v]
<1>1. c = [step |-> "read", version |-> v, attempt |-> n, old |-> {},
           from |-> 1, pending |-> {}, tries |-> 0]
  <2> DEFINE a == [step |-> "read", version |-> Nil, attempt |-> 1, old |-> {},
                   from |-> 1, pending |-> {}, tries |-> 0]
             b == [step |-> "read", version |-> Nil, attempt |-> n, old |-> {},
                   from |-> 1, pending |-> {}, tries |-> 0]
  <2>1. [Idle EXCEPT !.step = "read"] = a
    BY DEF Idle
  <2>2. [a EXCEPT !.attempt = n] = b
    OBVIOUS
  <2>3. [b EXCEPT !.version = v] = [step |-> "read", version |-> v, attempt |-> n, old |-> {},
                                    from |-> 1, pending |-> {}, tries |-> 0]
    OBVIOUS
  <2>4. c = [[[Idle EXCEPT !.step = "read"] EXCEPT !.attempt = n] EXCEPT !.version = v]
    OBVIOUS
  <2> HIDE DEF a, b, c
  <2> QED
    BY <2>1, <2>2, <2>3, <2>4
<1> HIDE DEF c
<1>2. c \in Running
  BY <1>1, BatchAssumption DEF Running
<1>3. Known(Of[v], {})
  BY DEF Known
<1>4. Supplied(c)
  BY <1>1, <1>3 DEF Supplied
<1> QED
  BY <1>1, <1>2, <1>4 DEF c

LEMMA ReadGives ==
  ASSUME NEW c \in Running, Supplied(c), c.step = "read",
         NEW keys, Known(Of[c.version], keys)
  PROVE  LET a == AtBatch([c EXCEPT !.old = keys], 1)
             writes == Writes(c.version, keys)
         IN  /\ a \in Running /\ Supplied(a) /\ a.version = c.version /\ a.old = keys
             /\ a.step \in {"write", "index"}
             /\ a.step = "write" =>
                  \A n \in DOMAIN writes : n < a.from + BatchSize => n \in a.pending
             /\ a.step = "index" => DOMAIN writes = {}
<1> DEFINE d == [c EXCEPT !.old = keys]
           a == AtBatch(d, 1)
           writes == Writes(c.version, keys)
<1>1. IsFiniteSet(keys) /\ keys \subseteq Keys
  BY KnownAreFinite
<1>2. d \in Running /\ d.version = c.version /\ d.old = keys
  <2>1. d = [step |-> c.step, version |-> c.version, attempt |-> c.attempt, old |-> keys,
             from |-> c.from, pending |-> c.pending, tries |-> c.tries]
    BY DEF Running
  <2> HIDE DEF d
  <2>2. d.version = c.version /\ d.old = keys
    BY <2>1
  <2> QED
    BY <2>1, <2>2, <1>1 DEF Running
<1>3. c.version \in Versions
  BY DEF Supplied
<1> HIDE DEF d
<1>4. /\ a \in Running /\ a.version = c.version /\ a.old = keys
      /\ a.step \in {"write", "index"}
      /\ a.step = "write" =>
           /\ a.from = 1 /\ a.pending \subseteq DOMAIN writes
           /\ \A n \in DOMAIN writes : n < 1 + BatchSize /\ n \notin a.pending => n < 1
      /\ a.step = "index" => \A n \in DOMAIN writes : n < 1
  BY <1>1, <1>2, <1>3, AtBatchFacts
<1>5. \A n \in DOMAIN writes : n \in Nat \ {0}
  BY <1>1, <1>3, WritesAreTheRequests
<1> HIDE DEF a, writes
<1>6. a.step = "write" => \A n \in DOMAIN writes : n < a.from + BatchSize => n \in a.pending
  BY <1>4, <1>5
<1>7. a.step = "index" => DOMAIN writes = {}
  BY <1>4, <1>5
<1>8. Supplied(a)
  BY <1>3, <1>4 DEF Supplied, writes
<1> QED
  BY <1>4, <1>6, <1>7, <1>8 DEF a, d, writes

(* What is processed of a batch, and what follows.                         *)
AfterBatch(c, done) ==
    IF done = c.pending THEN AtBatch(c, c.from + BatchSize)
    ELSE [c EXCEPT !.pending = @ \ done, !.tries = @ + 1]

LEMMA WriteGives ==
  ASSUME NEW c \in Running, Supplied(c), c.step = "write", TriesLeft(c),
         NEW done \in SUBSET c.pending
  PROVE  LET a == AfterBatch(c, done)
             writes == Writes(c.version, c.old)
         IN  /\ a \in Running /\ Supplied(a) /\ a.version = c.version /\ a.old = c.old
             /\ a.step \in {"write", "index"}
             /\ a.step = "write" =>
                  \A n \in DOMAIN writes : n < a.from + BatchSize /\ n \notin a.pending =>
                    n \in done \/ (n < c.from + BatchSize /\ n \notin c.pending)
             /\ a.step = "index" =>
                  \A n \in DOMAIN writes :
                    n \in done \/ (n < c.from + BatchSize /\ n \notin c.pending)
<1> DEFINE a == AfterBatch(c, done)
           writes == Writes(c.version, c.old)
           next == c.from + BatchSize
<1>1. c.version \in Versions /\ Known(Of[c.version], c.old) /\ c.pending \subseteq DOMAIN writes
  BY DEF Supplied
<1>2. IsFiniteSet(c.old)
  BY <1>1, KnownAreFinite
<1>3. BatchSize \in Nat \ {0} /\ MaxTries \in Nat /\ c.from \in Nat \ {0}
      /\ next \in Nat \ {0} /\ c.tries \in 0 .. MaxTries /\ c.tries < MaxTries
  BY BatchAssumption DEF Running, TriesLeft
<1>4. \A n \in DOMAIN writes : n \in Nat
  BY <1>1, <1>2, WritesAreTheRequests
<1>5. CASE done = c.pending
  <2>1. a = AtBatch(c, next)
    BY <1>5 DEF AfterBatch
  <2>2. /\ a \in Running /\ a.version = c.version /\ a.old = c.old
        /\ a.step \in {"write", "index"}
        /\ a.step = "write" =>
             /\ a.from = next /\ a.pending \subseteq DOMAIN writes
             /\ \A n \in DOMAIN writes : n < next + BatchSize /\ n \notin a.pending => n < next
        /\ a.step = "index" => \A n \in DOMAIN writes : n < next
    BY <1>1, <1>2, <1>3, <2>1, AtBatchFacts
  <2>3. Supplied(a)
    BY <1>1, <2>2 DEF Supplied
  <2> QED
    BY <1>5, <2>2, <2>3
<1>6. CASE done # c.pending
  <2>1. a = [c EXCEPT !.pending = @ \ done, !.tries = @ + 1]
    BY <1>6 DEF AfterBatch
  <2>2. a = [step |-> "write", version |-> c.version, attempt |-> c.attempt, old |-> c.old,
             from |-> c.from, pending |-> c.pending \ done, tries |-> c.tries + 1]
    BY <2>1 DEF Running
  <2>3. c.tries + 1 \in 0 .. MaxTries
    BY <1>3
  <2> HIDE DEF a
  <2>4. a \in Running
    BY <2>2, <2>3 DEF Running
  <2>5. a.step = "write" /\ a.version = c.version /\ a.old = c.old /\ a.from = c.from
        /\ a.pending = c.pending \ done
    BY <2>2
  <2>6. Supplied(a)
    BY <1>1, <2>5 DEF Supplied
  <2>7. \A n : n < a.from + BatchSize /\ n \notin a.pending =>
               n \in done \/ (n < c.from + BatchSize /\ n \notin c.pending)
    BY <2>5
  <2> QED
    BY <2>4, <2>5, <2>6, <2>7 DEF a
<1> QED
  BY <1>5, <1>6

LEMMA PutIndexGives ==
  ASSUME NEW c \in Running, Supplied(c), c.step = "index"
  PROVE  LET a == [c EXCEPT !.step = "done"]
         IN  /\ a \in Running /\ Supplied(a) /\ a.version = c.version /\ a.old = c.old
             /\ a.step = "done"
<1> DEFINE a == [c EXCEPT !.step = "done"]
<1>1. a = [step |-> "done", version |-> c.version, attempt |-> c.attempt, old |-> c.old,
           from |-> c.from, pending |-> c.pending, tries |-> c.tries]
  BY DEF Running
<1> HIDE DEF a
<1>2. a \in Running
  BY <1>1 DEF Running
<1>3. a.step = "done" /\ a.version = c.version /\ a.old = c.old
  BY <1>1
<1>4. Supplied(a)
  BY <1>3 DEF Supplied
<1> QED
  BY <1>2, <1>3, <1>4 DEF a

LEMMA RunsAreTyped ==
  ASSUME TypeOK, RunInv, NEW r \in Runs
  PROVE  /\ run[r] \in Running /\ Supplied(run[r])
         /\ run[r].step # "idle" => /\ run[r].version \in Versions
                                    /\ Of[run[r].version] \in Imports
         /\ DOMAIN run = Runs
BY VersionsAssumption DEF TypeOK, RunInv, Running, Supplied

(* The actions of a run, by what it becomes.                               *)
Becomes(r, a) == run' = [run EXCEPT ![r] = a]

LEMMA InvokeRun ==
  ASSUME TypeOK, RunInv, NEW r \in Runs, NEW i \in Imports, NEW n \in Attempts, Invoke(r, i, n)
  PROVE  \E a \in Running : /\ Becomes(r, a) /\ Supplied(a) /\ a.step = "read"
                            /\ a.version = object[i] /\ a.version \in Versions
<1> DEFINE a == [Idle EXCEPT !.step = "read", !.attempt = n, !.version = object[i]]
<1>1. object[i] \in Versions
  BY DEF TypeOK, RunInv, InBucket, Invoke
<1>2. \A v \in Versions :
        LET c == [Idle EXCEPT !.step = "read", !.attempt = n, !.version = v]
        IN  c \in Running /\ Supplied(c) /\ c.step = "read" /\ c.version = v
  BY InvokeGives
<1>4. a \in Running /\ Supplied(a) /\ a.step = "read" /\ a.version = object[i]
  BY <1>1, <1>2
<1>3. Becomes(r, a)
  BY DEF Invoke, Becomes
<1> QED
  BY <1>1, <1>3, <1>4

LEMMA ReadRun ==
  ASSUME TypeOK, RunInv, NEW r \in Runs, ReadIndex(r)
  PROVE  \E a \in Running :
           LET c == run[r]
               keys == ExistingKeys(Of[c.version])
               writes == Writes(c.version, keys)
           IN  /\ Becomes(r, a) /\ Supplied(a) /\ a.version = c.version /\ a.old = keys
               /\ a.step \in {"write", "index"}
               /\ a.step = "write" =>
                    \A n \in DOMAIN writes : n < a.from + BatchSize => n \in a.pending
               /\ a.step = "index" => DOMAIN writes = {}
<1> DEFINE c == run[r]
           keys == ExistingKeys(Of[c.version])
           a == AtBatch([c EXCEPT !.old = keys], 1)
<1>1. c \in Running /\ Supplied(c) /\ c.step = "read" /\ Of[c.version] \in Imports
  BY RunsAreTyped DEF ReadIndex
<1>2. Known(Of[c.version], keys)
  BY <1>1 DEF RunInv
<1>3. Becomes(r, a)
  BY DEF ReadIndex, Becomes
<1> HIDE DEF keys, c
<1> QED
  BY <1>1, <1>2, <1>3, ReadGives DEF c, keys

LEMMA WriteRun ==
  ASSUME TypeOK, RunInv, NEW r \in Runs, WriteBatch(r)
  PROVE  \E a \in Running, done \in SUBSET run[r].pending :
           LET c == run[r]
               writes == Writes(c.version, c.old)
           IN  /\ rows' = Apply({writes[n] : n \in done}, c.version)
               /\ Becomes(r, a) /\ Supplied(a) /\ a.version = c.version /\ a.old = c.old
               /\ a.step \in {"write", "index"}
               /\ a.step = "write" =>
                    \A n \in DOMAIN writes : n < a.from + BatchSize /\ n \notin a.pending =>
                      n \in done \/ (n < c.from + BatchSize /\ n \notin c.pending)
               /\ a.step = "index" =>
                    \A n \in DOMAIN writes :
                      n \in done \/ (n < c.from + BatchSize /\ n \notin c.pending)
<1> DEFINE c == run[r]
           writes == Writes(c.version, c.old)
<1>1. c \in Running /\ Supplied(c) /\ c.step = "write" /\ TriesLeft(c)
  BY RunsAreTyped DEF WriteBatch
<1>2. PICK done \in SUBSET c.pending :
        /\ rows' = Apply({writes[n] : n \in done}, c.version)
        /\ Becomes(r, AfterBatch(c, done))
  BY RunsAreTyped DEF WriteBatch, AfterBatch, Becomes
<1> HIDE DEF c
<1>3. /\ AfterBatch(c, done) \in Running /\ Supplied(AfterBatch(c, done))
      /\ AfterBatch(c, done).version = c.version /\ AfterBatch(c, done).old = c.old
      /\ AfterBatch(c, done).step \in {"write", "index"}
      /\ AfterBatch(c, done).step = "write" =>
           \A n \in DOMAIN writes :
             n < AfterBatch(c, done).from + BatchSize /\ n \notin AfterBatch(c, done).pending =>
               n \in done \/ (n < c.from + BatchSize /\ n \notin c.pending)
      /\ AfterBatch(c, done).step = "index" =>
           \A n \in DOMAIN writes :
             n \in done \/ (n < c.from + BatchSize /\ n \notin c.pending)
  BY <1>1, WriteGives
<1> QED
  BY <1>2, <1>3 DEF c

LEMMA PutIndexRun ==
  ASSUME TypeOK, RunInv, NEW r \in Runs, PutIndex(r)
  PROVE  \E a \in Running :
           /\ Becomes(r, a) /\ Supplied(a) /\ a.version = run[r].version
           /\ a.old = run[r].old /\ a.step = "done"
<1>1. Becomes(r, [run[r] EXCEPT !.step = "done"])
  BY DEF PutIndex, Becomes
<1>2. run[r] \in Running /\ Supplied(run[r]) /\ run[r].step = "index"
  BY RunsAreTyped DEF PutIndex
<1> QED
  BY <1>1, <1>2, PutIndexGives

(* A run that goes on with what it was given leaves the others as they are.*)
LEMMA BecomesKeepsRuns ==
  ASSUME TypeOK, RunInv, NEW r \in Runs, NEW a \in Running, Supplied(a), Becomes(r, a)
  PROVE  /\ run' \in [Runs -> Running] /\ \A s \in Runs : Supplied(run'[s])
         /\ run'[r] = a /\ \A s \in Runs \ {r} : run'[s] = run[s]
BY RunsAreTyped DEF TypeOK, Running, Becomes

-----------------------------------------------------------------------------
(* Types, and what runs hold, whatever fails and whoever drops what.       *)

LEMMA InvInit == Init => TypeOK /\ RunInv
<1> SUFFICES ASSUME Init PROVE TypeOK /\ RunInv
  OBVIOUS
<1>1. run = [r \in Runs |-> Idle] /\ run \in [Runs -> Running]
  BY IdleIsSupplied DEF Init
<1>2. TypeOK
  BY <1>1, BatchAssumption DEF Init, TypeOK, Running
<1>3. RunInv
  BY <1>1, IdleIsSupplied DEF Init, RunInv, InBucket, ExistingKeys, Known
<1> QED
  BY <1>2, <1>3

LEMMA InvNext == TypeOK /\ RunInv /\ [Next]_vars => TypeOK' /\ RunInv'
<1> SUFFICES ASSUME TypeOK, RunInv, [Next]_vars PROVE TypeOK' /\ RunInv'
  OBVIOUS
<1> DEFINE Listed == \A i \in Imports : Known(i, ExistingKeys(i))
<1>1. InBucket /\ Listed /\ Attempts \subseteq Nat
  BY DEF RunInv, Attempts
<1>2. ASSUME NEW v \in Versions, Drop(v)
      PROVE  TypeOK' /\ RunInv'
  <2>1. Of[v] \in Imports /\ v # Nil /\ <<Of[v], 1>> \in Imports \X Attempts
    BY VersionsAssumption DEF Attempts
  <2>2. events' \in [Imports \X Attempts -> Nat] /\ object' \in [Imports -> Versions \cup {Nil}]
        /\ drops' \in 0 .. MaxDrops
    BY <1>2, <2>1, BatchAssumption DEF Drop, TypeOK
  <2>3. InBucket'
    BY <1>1, <1>2, <2>1 DEF Drop, TypeOK, InBucket
  <2>4. Listed'
    BY <1>1, <1>2 DEF Drop, ExistingKeys
  <2>5. TypeOK'
    BY <1>2, <2>2 DEF Drop, TypeOK
  <2>6. \A r \in Runs : Supplied(run'[r])
    BY <1>2 DEF Drop, RunInv
  <2> QED
    BY <2>3, <2>4, <2>5, <2>6 DEF RunInv
<1>3. ASSUME NEW r \in Runs, NEW i \in Imports, NEW n \in Attempts, Invoke(r, i, n)
      PROVE  TypeOK' /\ RunInv'
  <2>1. PICK a \in Running : Becomes(r, a) /\ Supplied(a) /\ a.version = object[i]
    BY <1>3, InvokeRun
  <2>7. object[i] # Nil /\ Of[object[i]] = i
    BY <1>1, <1>3 DEF Invoke, InBucket
  <2>2. run' \in [Runs -> Running] /\ \A s \in Runs : Supplied(run'[s])
    BY <2>1, BecomesKeepsRuns
  <2>3. events' \in [Imports \X Attempts -> Nat]
    BY <1>3 DEF Invoke, TypeOK
  <2>4. InBucket'
    <3>1. \A j \in Imports, l \in Attempts : events'[<<j, l>>] > 0 => object[j] # Nil
      BY <1>1, <1>3 DEF Invoke, TypeOK, InBucket
    <3>2. \A s \in Runs : run'[s].step # "idle" => object[Of[run'[s].version]] # Nil
      BY <1>1, <1>3, <2>1, <2>7, BecomesKeepsRuns DEF InBucket
    <3> QED
      BY <1>1, <1>3, <3>1, <3>2 DEF Invoke, InBucket
  <2>5. Listed'
    BY <1>1, <1>3 DEF Invoke, ExistingKeys
  <2>6. TypeOK'
    BY <1>3, <2>2, <2>3 DEF Invoke, TypeOK, Running
  <2> QED
    BY <2>2, <2>4, <2>5, <2>6 DEF RunInv
<1>4. ASSUME NEW r \in Runs, ReadIndex(r)
      PROVE  TypeOK' /\ RunInv'
  <2>1. PICK a \in Running : Becomes(r, a) /\ Supplied(a) /\ a.version = run[r].version
    BY <1>4, ReadRun
  <2>2. run' \in [Runs -> Running] /\ \A s \in Runs : Supplied(run'[s])
    BY <2>1, BecomesKeepsRuns
  <2>5. run[r].step = "read" /\ UNCHANGED <<object, events, index>>
    BY <1>4 DEF ReadIndex
  <2>3. InBucket' /\ Listed'
    BY <1>1, <2>5, <2>1, BecomesKeepsRuns DEF ExistingKeys, InBucket
  <2>4. TypeOK'
    BY <1>4, <2>2 DEF ReadIndex, TypeOK, Running
  <2> QED
    BY <2>2, <2>3, <2>4 DEF RunInv
<1>5. ASSUME NEW r \in Runs, WriteBatch(r)
      PROVE  TypeOK' /\ RunInv'
  <2>1. PICK a \in Running, done \in SUBSET run[r].pending :
          /\ rows' = Apply({Writes(run[r].version, run[r].old)[n] : n \in done}, run[r].version)
          /\ Becomes(r, a) /\ Supplied(a) /\ a.version = run[r].version
    BY <1>5, WriteRun
  <2>2. run' \in [Runs -> Running] /\ \A s \in Runs : Supplied(run'[s])
    BY <2>1, BecomesKeepsRuns
  <2>3. run[r].version \in Versions
    BY <1>5, RunsAreTyped DEF WriteBatch
  <2>4. \A ops : Apply(ops, run[r].version) \in [Keys -> Versions \cup {Nil}]
    BY <2>3 DEF Apply, TypeOK
  <2>5. rows' \in [Keys -> Versions \cup {Nil}]
    BY <2>1, <2>4
  <2>6. UNCHANGED <<object, drops, events, index, dirty>>
    BY <1>5 DEF WriteBatch
  <2>9. run[r].step = "write"
    BY <1>5 DEF WriteBatch
  <2>7. InBucket' /\ Listed'
    BY <1>1, <2>1, <2>6, <2>9, BecomesKeepsRuns DEF ExistingKeys, InBucket
  <2>8. TypeOK'
    BY <2>2, <2>5, <2>6 DEF TypeOK, Running
  <2> QED
    BY <2>2, <2>7, <2>8 DEF RunInv
<1>6. ASSUME NEW r \in Runs, PutIndex(r)
      PROVE  TypeOK' /\ RunInv'
  <2>1. PICK a \in Running : Becomes(r, a) /\ Supplied(a) /\ a.version = run[r].version
    BY <1>6, PutIndexRun
  <2>2. run' \in [Runs -> Running] /\ \A s \in Runs : Supplied(run'[s])
    BY <2>1, BecomesKeepsRuns
  <2>3. run[r].version \in Versions
    BY <1>6, RunsAreTyped DEF PutIndex
  <2>4. index' \in [Imports -> (SUBSET Keys) \cup {Nil}]
    BY <1>6, <2>3, VersionsAssumption DEF PutIndex, TypeOK
  <2>5. InBucket'
    BY <1>1, <1>6, <2>1, BecomesKeepsRuns DEF PutIndex, InBucket
  <2>6. ASSUME NEW i \in Imports
        PROVE  Known(i, ExistingKeys(i)')
    <3>1. CASE i = Of[run[r].version]
      <4>1. index'[i] = KeysOf[run[r].version]
        BY <1>6, <3>1 DEF PutIndex, TypeOK
      <4> QED
        BY <2>3, <3>1, <4>1 DEF ExistingKeys, Known
    <3>2. CASE i # Of[run[r].version]
      <4>1. index'[i] = index[i]
        BY <1>6, <3>2 DEF PutIndex, TypeOK
      <4> QED
        BY <1>1, <4>1 DEF ExistingKeys
    <3> QED
      BY <3>1, <3>2
  <2>7. Listed'
    BY <2>6 DEF ExistingKeys, Known
  <2>8. TypeOK'
    BY <1>6, <2>2, <2>4 DEF PutIndex, TypeOK, Running
  <2> QED
    BY <2>2, <2>5, <2>7, <2>8 DEF RunInv
<1>7. ASSUME NEW r \in Runs, Finish(r) \/ Fail(r)
      PROVE  TypeOK' /\ RunInv'
  <2>1. Becomes(r, Idle)
    BY <1>7 DEF Finish, Fail, Becomes
  <2>2. run' \in [Runs -> Running] /\ \A s \in Runs : Supplied(run'[s])
    BY <2>1, IdleIsSupplied, BecomesKeepsRuns
  <2>3. run[r].step # "idle"
    BY <1>7 DEF Finish, Fail
  <2>4. run[r].version \in Versions /\ Of[run[r].version] \in Imports /\ run[r].attempt \in Nat
    BY <2>3, <1>1, RunsAreTyped DEF Running
  <2>5. dirty' \in [Imports -> BOOLEAN]
    BY <1>7, <2>4 DEF Finish, Fail, TypeOK
  <2>6. events' \in [Imports \X Attempts -> Nat] /\ InBucket'
    <3> DEFINE i == Of[run[r].version]
    <3>1. object[i] # Nil /\ object' = object
      BY <1>1, <1>7, <2>3 DEF InBucket, Finish, Fail
    <3>2. \/ events' = events
          \/ \E n \in Attempts : events' = [events EXCEPT ![<<i, n>>] = @ + 1]
      BY <1>7, <2>4 DEF Finish, Fail
    <3>3. /\ events' \in [Imports \X Attempts -> Nat]
          /\ \A j \in Imports, n \in Attempts :
               events'[<<j, n>>] = events[<<j, n>>] \/ j = i
      <4>1. CASE events' = events
        BY <4>1 DEF TypeOK
      <4>2. ASSUME NEW n \in Attempts, events' = [events EXCEPT ![<<i, n>>] = @ + 1]
            PROVE  /\ events' \in [Imports \X Attempts -> Nat]
                   /\ \A j \in Imports, l \in Attempts :
                        events'[<<j, l>>] = events[<<j, l>>] \/ j = i
        BY <2>4, <4>2 DEF TypeOK
      <4> QED
        BY <3>2, <4>1, <4>2
    <3>4. \A j \in Imports, n \in Attempts : events'[<<j, n>>] > 0 => object[j] # Nil
      BY <1>1, <3>1, <3>3 DEF InBucket
    <3>5. \A s \in Runs : run'[s].step # "idle" => object[Of[run'[s].version]] # Nil
      BY <1>1, <2>1, IdleIsSupplied, BecomesKeepsRuns DEF InBucket
    <3> QED
      BY <1>1, <3>1, <3>3, <3>4, <3>5 DEF InBucket
  <2>7. Listed'
    BY <1>1, <1>7 DEF Finish, Fail, ExistingKeys
  <2>8. TypeOK'
    BY <1>7, <2>2, <2>5, <2>6 DEF Finish, Fail, TypeOK, Running
  <2> QED
    BY <2>2, <2>6, <2>7, <2>8 DEF RunInv
<1>8. CASE UNCHANGED vars
  BY <1>8 DEF vars, TypeOK, RunInv, InBucket, Supplied, ExistingKeys
<1> QED
  BY <1>2, <1>3, <1>4, <1>5, <1>6, <1>7, <1>8 DEF Next

-----------------------------------------------------------------------------
(* What one BatchWriteItem does to the rows.                               *)

Written(q, v) == IF q.op = "put" THEN v ELSE Nil

LEMMA BatchEffect ==
  ASSUME TypeOK, RunInv, NEW r \in Runs, run[r].step = "write",
         NEW done \in SUBSET run[r].pending, NEW k \in Keys
  PROVE  LET c == run[r]
             writes == Writes(c.version, c.old)
             row == Apply({writes[n] : n \in done}, c.version)[k]
         IN  /\ k \in KeysOf[c.version] => row = rows[k] \/ row = c.version
             /\ k \notin KeysOf[c.version] => row = rows[k] \/ (row = Nil /\ k \in c.old)
             /\ \A n \in done : writes[n].key = k => row = Written(writes[n], c.version)
<1> DEFINE c == run[r]
           v == c.version
           writes == Writes(v, c.old)
           ops == {writes[n] : n \in done}
           row == Apply(ops, v)[k]
           put == [op |-> "put", key |-> k]
           delete == [op |-> "delete", key |-> k]
<1>1. v \in Versions /\ Known(Of[v], c.old) /\ done \subseteq DOMAIN writes
  BY RunsAreTyped DEF Supplied
<1>2. IsFiniteSet(c.old)
  BY <1>1, KnownAreFinite
<1>3. ops \subseteq Requests(v, c.old)
  BY <1>1, <1>2, WritesAreTheRequests
<1>4. row = IF put \in ops THEN v ELSE IF delete \in ops THEN Nil ELSE rows[k]
  BY DEF Apply
<1> HIDE DEF c, writes, ops, row
<1>5. put \in Requests(v, c.old) => k \in KeysOf[v]
  BY DEF Requests
<1>6. delete \in Requests(v, c.old) => k \in c.old /\ k \notin KeysOf[v]
  BY DEF Requests
<1>7. ASSUME NEW n \in done, writes[n].key = k
      PROVE  row = Written(writes[n], v)
  <2>1. writes[n] \in ops
    BY DEF ops
  <2>2. writes[n] = put \/ writes[n] = delete
    BY <1>3, <1>7, <2>1 DEF Requests
  <2> QED
    BY <1>3, <1>4, <1>5, <1>6, <2>1, <2>2 DEF Written
<1> QED
  BY <1>3, <1>4, <1>5, <1>6, <1>7 DEF c, v, row, ops, writes

(* A reader of the dashboard never finds a row gone that the version which *)
(* is being imported has too (Save: a delete only of what it lacks).       *)
THEOREM RowsAreNeverMissing == Spec => NothingGoesMissing
<1> DEFINE Inv == TypeOK /\ RunInv
           Step == \A k \in Keys : rows[k] # Nil /\ rows'[k] = Nil =>
                     \E r \in Runs : run[r].step = "write" /\ k \notin KeysOf[run[r].version]
<1>1. Init => Inv
  BY InvInit
<1>2. Inv /\ [Next]_vars => Inv'
  BY InvNext
<1>3. Inv /\ [Next]_vars => [Step]_rows
  <2> SUFFICES ASSUME Inv, Next, NEW k \in Keys, rows[k] # Nil, rows'[k] = Nil
               PROVE  \E r \in Runs : run[r].step = "write" /\ k \notin KeysOf[run[r].version]
    BY DEF vars
  <2>1. PICK r \in Runs : WriteBatch(r)
    BY DEF Next, Drop, Invoke, ReadIndex, PutIndex, Finish, Fail
  <2>2. PICK done \in SUBSET run[r].pending :
          rows' = Apply({Writes(run[r].version, run[r].old)[n] : n \in done}, run[r].version)
    BY <2>1, WriteRun
  <2>3. run[r].step = "write" /\ run[r].version # Nil
    BY <2>1, RunsAreTyped, VersionsAssumption DEF WriteBatch
  <2>4. k \notin KeysOf[run[r].version]
    BY <2>2, <2>3, BatchEffect
  <2> QED
    BY <2>3, <2>4
<1> QED
  BY <1>1, <1>2, <1>3, PTL DEF Spec, NothingGoesMissing

-----------------------------------------------------------------------------
(* Replacing is exact, as long as what failed is replayed.                 *)

(* The recovery that docs/deploy.md describes, and sort keys that belong   *)
(* to one source day (extracts of a whole day, assemble.go).               *)
FailedIsReplayed ==
    /\ Redrop = "same"
    /\ \A v, w \in Versions : Of[v] # Of[w] => KeysOf[v] \cap KeysOf[w] = {}

RowsIn(table, i) == {k \in Keys : table[k] # Nil /\ Of[table[k]] = i}

Exact(table, v) == RowsIn(table, Of[v]) = KeysOf[v] /\ \A k \in KeysOf[v] : table[k] = v

(* How far a run has got with the rows, and with the index item.           *)
GotFar(c, table, listed) ==
    /\ c.step \in {"write", "index", "done"} =>
         /\ c.version \notin Malformed
         /\ RowsIn(table, Of[c.version]) \subseteq c.old \cup KeysOf[c.version]
    /\ c.step = "write" =>
         LET writes == Writes(c.version, c.old)
         IN  \A n \in DOMAIN writes : n < c.from + BatchSize /\ n \notin c.pending =>
               table[writes[n].key] = Written(writes[n], c.version)
    /\ c.step \in {"index", "done"} => Exact(table, c.version)
    /\ c.step = "done" => listed[Of[c.version]] = KeysOf[c.version]

RunsAreCurrent ==
    \A r \in Runs : run[r].step # "idle" => run[r].version = object[Of[run[r].version]]
RowsAreTheirs == \A k \in Keys : rows[k] # Nil => k \in KeysOf[rows[k]]
RefusedIsUntouched ==
    \A i \in Imports : object[i] \in Malformed => RowsOf(i) \subseteq ExistingKeys(i)
QuietIsExact ==
    \A i \in Imports : Quiet(i) /\ ~dirty[i] /\ object[i] # Nil =>
      Exact(rows, object[i]) /\ index[i] = KeysOf[object[i]] /\ object[i] \notin Malformed

ReplayInv == /\ RunsAreCurrent /\ RowsAreTheirs
             /\ LeftoversAreReplayed /\ RefusedIsUntouched
             /\ \A r \in Runs : GotFar(run[r], rows, index)
             /\ QuietIsExact

(* All requests carried out: exactly the new version is there.             *)
LEMMA ExactAtTheEnd ==
  ASSUME NEW v \in Versions, NEW old, IsFiniteSet(old), NEW table,
         RowsIn(table, Of[v]) \subseteq old \cup KeysOf[v],
         \A n \in DOMAIN Writes(v, old) :
           table[Writes(v, old)[n].key] = Written(Writes(v, old)[n], v)
  PROVE  Exact(table, v)
<1> DEFINE writes == Writes(v, old)
<1>1. \A q \in Requests(v, old) : \E n \in DOMAIN writes : writes[n] = q
  BY WritesAreTheRequests
<1>2. \A q \in Requests(v, old) : table[q.key] = Written(q, v)
  BY <1>1
<1>3. v # Nil /\ KeysOf[v] \subseteq Keys
  BY VersionsAssumption
<1>4. ASSUME NEW k \in KeysOf[v]
      PROVE  table[k] = v
  <2>1. [op |-> "put", key |-> k] \in Requests(v, old)
    BY DEF Requests
  <2> QED
    BY <1>2, <2>1 DEF Written
<1>5. ASSUME NEW k \in RowsIn(table, Of[v]), k \notin KeysOf[v]
      PROVE  FALSE
  <2>1. [op |-> "delete", key |-> k] \in Requests(v, old)
    BY <1>5 DEF Requests
  <2>2. table[k] = Nil
    BY <1>2, <2>1 DEF Written
  <2> QED
    BY <2>2 DEF RowsIn
<1> QED
  BY <1>3, <1>4, <1>5 DEF Exact, RowsIn

(* A batch disturbs no other import, and undoes nothing of its own.        *)
LEMMA BatchKeeps ==
  ASSUME FailedIsReplayed, TypeOK, RunInv, RowsAreTheirs,
         NEW r \in Runs, WriteBatch(r)
  PROVE  LET v == run[r].version
         IN  /\ \A k \in Keys : rows'[k] # rows[k] =>
                  rows'[k] = Nil \/ (rows'[k] = v /\ k \in KeysOf[v])
             /\ \A i \in Imports :
                  RowsIn(rows', i) \subseteq
                    RowsIn(rows, i) \cup (IF i = Of[v] THEN KeysOf[v] ELSE {})
             /\ \A w \in Versions : (Of[w] # Of[v] \/ w = v) /\ Exact(rows, w) =>
                  Exact(rows', w)
             /\ \A w \in Versions : Of[w] # Of[v] \/ w = v =>
                  \A old : Known(Of[w], old) =>
                    \A q \in Requests(w, old) :
                      rows[q.key] = Written(q, w) => rows'[q.key] = Written(q, w)
<1> DEFINE v == run[r].version
           old == run[r].old
<1>1. v \in Versions /\ Known(Of[v], old) /\ v # Nil /\ run[r].step = "write"
  BY RunsAreTyped, VersionsAssumption DEF WriteBatch, Supplied
<1>2. PICK done \in SUBSET run[r].pending :
        rows' = Apply({Writes(v, old)[n] : n \in done}, v)
  BY WriteRun
<1>3. ASSUME NEW k \in Keys
      PROVE  /\ k \in KeysOf[v] => rows'[k] = rows[k] \/ rows'[k] = v
             /\ k \notin KeysOf[v] => rows'[k] = rows[k] \/ (rows'[k] = Nil /\ k \in old)
  BY <1>1, <1>2, BatchEffect
<1> HIDE DEF v, old
<1>4. ASSUME NEW k \in Keys, NEW w \in Versions, k \in KeysOf[w], Of[w] # Of[v]
      PROVE  rows'[k] = rows[k]
  <2>1. k \notin KeysOf[v] /\ k \notin old
    BY <1>1, <1>4 DEF FailedIsReplayed, Known
  <2> QED
    BY <1>3, <2>1
<1>5. \A k \in Keys : rows'[k] # rows[k] => rows'[k] = Nil \/ (rows'[k] = v /\ k \in KeysOf[v])
  BY <1>3
<1>6. ASSUME NEW i \in Imports, NEW k \in RowsIn(rows', i), k \notin RowsIn(rows, i)
      PROVE  i = Of[v] /\ k \in KeysOf[v]
  <2>1. k \in Keys /\ rows'[k] # Nil /\ Of[rows'[k]] = i /\ rows'[k] # rows[k]
    BY <1>6 DEF RowsIn
  <2> QED
    BY <1>5, <2>1
<1>7. ASSUME NEW w \in Versions, Of[w] # Of[v] \/ w = v, Exact(rows, w)
      PROVE  Exact(rows', w)
  <2>1. KeysOf[w] \subseteq Keys /\ w # Nil /\ Of[w] \in Imports
    BY VersionsAssumption
  <2>2. \A k \in KeysOf[w] : rows[k] = w
    BY <1>7 DEF Exact
  <2>3. \A k \in KeysOf[w] : rows'[k] = w
    BY <1>3, <1>4, <1>7, <2>1, <2>2
  <2>4. RowsIn(rows, Of[w]) = KeysOf[w]
    BY <1>7 DEF Exact
  <2>5. RowsIn(rows', Of[w]) \subseteq KeysOf[w]
    BY <1>6, <1>7, <2>1, <2>4
  <2>6. KeysOf[w] \subseteq RowsIn(rows', Of[w])
    BY <2>1, <2>3 DEF RowsIn
  <2> QED
    BY <2>3, <2>5, <2>6 DEF Exact
<1>8. ASSUME NEW w \in Versions, Of[w] # Of[v] \/ w = v, NEW o, Known(Of[w], o),
             NEW q \in Requests(w, o), rows[q.key] = Written(q, w)
      PROVE  rows'[q.key] = Written(q, w)
  <2>1. KeysOf[w] \subseteq Keys /\ o \subseteq Keys
    BY <1>8, KnownAreFinite, VersionsAssumption
  <2>2. \/ q.op = "put" /\ q.key \in KeysOf[w]
        \/ q.op = "delete" /\ q.key \in o /\ q.key \notin KeysOf[w]
    BY DEF Requests
  <2>3. CASE w = v
    BY <1>3, <1>8, <2>1, <2>2, <2>3 DEF Written
  <2>4. CASE Of[w] # Of[v]
    <3>1. \E u \in Versions : Of[u] = Of[w] /\ q.key \in KeysOf[u]
      BY <1>8, <2>2 DEF Known
    <3> QED
      BY <1>4, <1>8, <2>1, <2>2, <2>4, <3>1
  <2> QED
    BY <1>8, <2>3, <2>4
<1>9. \A i \in Imports : RowsIn(rows', i) \subseteq
                           RowsIn(rows, i) \cup (IF i = Of[v] THEN KeysOf[v] ELSE {})
  BY <1>6
<1> QED
  BY <1>5, <1>7, <1>8, <1>9 DEF v

-----------------------------------------------------------------------------
(* ReplayInv, action by action.                                            *)

LEMMA RowsOfIsRowsIn == \A i : RowsOf(i) = RowsIn(rows, i)
BY DEF RowsOf, RowsIn

(* An import that falls quiet was worked on by the run that took the step. *)
LEMMA QuietBefore ==
  ASSUME TypeOK, RunInv, NEW r \in Runs, NEW a \in Running, Supplied(a), Becomes(r, a),
         \A i \in Imports, n \in Attempts :
           events'[<<i, n>>] < events[<<i, n>>] =>
             a.step # "idle" /\ Of[a.version] = i,
         \A i \in Imports, n \in Attempts : events'[<<i, n>>] \in Nat,
         NEW j \in Imports, Quiet(j)'
  PROVE  /\ Quiet(j) \/ (run[r].step # "idle" /\ Of[run[r].version] = j)
         /\ ~(a.step # "idle" /\ Of[a.version] = j)
<1>1. /\ run' \in [Runs -> Running] /\ run'[r] = a
      /\ \A s \in Runs \ {r} : run'[s] = run[s]
  BY BecomesKeepsRuns
<1>2. \A s \in Runs : ~(run'[s].step # "idle" /\ Of[run'[s].version] = j)
  BY DEF Quiet, RunsOn
<1>3. ~(a.step # "idle" /\ Of[a.version] = j)
  BY <1>1, <1>2
<1>4. \A n \in Attempts : events'[<<j, n>>] = 0 /\ events[<<j, n>>] \in Nat
  BY DEF Quiet, TypeOK
<1>5. \A n \in Attempts : events[<<j, n>>] = 0
  BY <1>3, <1>4
<1>6. \A s \in Runs \ {r} : ~(run[s].step # "idle" /\ Of[run[s].version] = j)
  BY <1>1, <1>2
<1> QED
  BY <1>3, <1>5, <1>6 DEF Quiet, RunsOn

LEMMA ReplayInit == Init => ReplayInv
<1> SUFFICES ASSUME Init PROVE ReplayInv
  OBVIOUS
<1>1. \A r \in Runs : run[r].step = "idle"
  BY DEF Init, Idle
<1>2. \A i \in Imports : object[i] = Nil /\ RowsOf(i) = {}
  BY DEF Init, RowsOf
<1> QED
  BY <1>1, <1>2, VersionsAssumption
  DEF Init, ReplayInv, RunsAreCurrent, RowsAreTheirs, LeftoversAreReplayed,
      RefusedIsUntouched, GotFar, QuietIsExact

LEMMA DropReplays ==
  ASSUME FailedIsReplayed, TypeOK, RunInv, ReplayInv, NEW v \in Versions, Drop(v)
  PROVE  ReplayInv'
<1> DEFINE i == Of[v]
<1>1. /\ i \in Imports /\ object' = [object EXCEPT ![i] = v]
      /\ UNCHANGED <<run, rows, index, dirty>>
      /\ events' = [events EXCEPT ![<<i, 1>>] = @ + 1]
      /\ v = object[i] \/ (Quiet(i) /\ (dirty[i] => object[i] \in Malformed))
  BY VersionsAssumption DEF Drop, FailedIsReplayed
<1>2. /\ object'[i] = v /\ \A j \in Imports \ {i} : object'[j] = object[j]
      /\ 1 \in Attempts /\ events'[<<i, 1>>] = events[<<i, 1>>] + 1
      /\ \A j \in Imports \ {i}, n \in Attempts : events'[<<j, n>>] = events[<<j, n>>]
  BY <1>1 DEF TypeOK, Attempts
<1> HIDE DEF i
<1>3. \A j : RowsOf(j)' = RowsOf(j) /\ ExistingKeys(j)' = ExistingKeys(j)
  BY <1>1 DEF RowsOf, ExistingKeys
<1>4. v # object[i] => RowsOf(i) \subseteq ExistingKeys(i)
  <2> SUFFICES ASSUME Quiet(i), dirty[i] => object[i] \in Malformed
               PROVE  RowsOf(i) \subseteq ExistingKeys(i)
    BY <1>1
  <2>1. CASE object[i] = Nil
    BY <1>1, <2>1 DEF ReplayInv, LeftoversAreReplayed
  <2>2. CASE object[i] # Nil /\ dirty[i]
    BY <1>1, <2>2 DEF ReplayInv, RefusedIsUntouched
  <2>3. CASE object[i] # Nil /\ ~dirty[i]
    <3>1. Exact(rows, object[i]) /\ index[i] = KeysOf[object[i]]
      BY <1>1, <2>3 DEF ReplayInv, QuietIsExact
    <3>2. Of[object[i]] = i /\ object[i] \in Versions
      BY <1>1, <2>3 DEF RunInv, InBucket, TypeOK
    <3>3. index[i] # Nil
      BY <3>1, <3>2, VersionsAssumption
    <3> QED
      BY <3>1, <3>2, <3>3, RowsOfIsRowsIn DEF Exact, ExistingKeys
  <2> QED
    BY <2>1, <2>2, <2>3
<1>5. ASSUME NEW r \in Runs, run[r].step # "idle"
      PROVE  object'[Of[run[r].version]] = object[Of[run[r].version]]
  <2>1. Of[run[r].version] \in Imports
    BY <1>5, RunsAreTyped
  <2>2. CASE Of[run[r].version] # i
    BY <1>2, <2>1, <2>2
  <2>3. CASE Of[run[r].version] = i
    BY <1>1, <1>2, <1>5, <2>3 DEF Quiet, RunsOn
  <2> QED
    BY <2>2, <2>3
<1>6. RunsAreCurrent'
  BY <1>1, <1>5 DEF ReplayInv, RunsAreCurrent
<1>7. LeftoversAreReplayed'
  <2> SUFFICES ASSUME NEW j \in Imports
               PROVE  RowsOf(j) \subseteq ExistingKeys(j)
                        \cup (IF object'[j] = Nil THEN {} ELSE KeysOf[object'[j]])
    BY <1>3 DEF LeftoversAreReplayed
  <2>1. CASE object'[j] = object[j]
    BY <2>1 DEF ReplayInv, LeftoversAreReplayed
  <2>2. CASE object'[j] # object[j]
    BY <1>2, <1>4, <2>2
  <2> QED
    BY <2>1, <2>2
<1>8. RefusedIsUntouched'
  BY <1>2, <1>3, <1>4 DEF ReplayInv, RefusedIsUntouched
<1>9. RowsAreTheirs' /\ \A r \in Runs : GotFar(run'[r], rows', index')
  BY <1>1 DEF ReplayInv, RowsAreTheirs
<1>10. QuietIsExact'
  <2> SUFFICES ASSUME NEW j \in Imports, Quiet(j)', ~dirty[j], object'[j] # Nil
               PROVE  /\ Exact(rows, object'[j]) /\ index[j] = KeysOf[object'[j]]
                      /\ object'[j] \notin Malformed
    BY <1>1 DEF QuietIsExact
  <2>1. j # i
    BY <1>1, <1>2 DEF Quiet, TypeOK
  <2>2. Quiet(j)
    BY <1>1, <1>2, <2>1 DEF Quiet, RunsOn
  <2> QED
    BY <1>2, <2>1, <2>2 DEF ReplayInv, QuietIsExact
<1> QED
  BY <1>6, <1>7, <1>8, <1>9, <1>10 DEF ReplayInv

(* The actions of a run that leave the bucket and the rows as they are.    *)
LEMMA RunReplays ==
  ASSUME TypeOK, RunInv, ReplayInv, NEW r \in Runs, NEW a \in Running, Supplied(a),
         Becomes(r, a), UNCHANGED <<object, rows>>,
         a.step # "idle" => a.version = object[Of[a.version]],
         GotFar(a, rows, index'),
         \A s \in Runs : s # r => GotFar(run[s], rows, index'),
         LeftoversAreReplayed', RefusedIsUntouched', QuietIsExact'
  PROVE  ReplayInv'
<1>1. run' \in [Runs -> Running] /\ run'[r] = a /\ \A s \in Runs \ {r} : run'[s] = run[s]
  BY BecomesKeepsRuns
<1>2. RunsAreCurrent'
  BY <1>1 DEF ReplayInv, RunsAreCurrent
<1>3. RowsAreTheirs'
  BY DEF ReplayInv, RowsAreTheirs
<1>4. \A s \in Runs : GotFar(run'[s], rows', index')
  BY <1>1
<1> QED
  BY <1>2, <1>3, <1>4 DEF ReplayInv

LEMMA InvokeReplays ==
  ASSUME TypeOK, RunInv, ReplayInv,
         NEW r \in Runs, NEW i \in Imports, NEW n \in Attempts, Invoke(r, i, n)
  PROVE  ReplayInv'
<1>1. PICK a \in Running : /\ Becomes(r, a) /\ Supplied(a) /\ a.step = "read"
                           /\ a.version = object[i] /\ a.version \in Versions
  BY InvokeRun
<1>2. /\ run[r].step = "idle" /\ UNCHANGED <<object, rows, index, dirty>>
      /\ events' = [events EXCEPT ![<<i, n>>] = @ - 1]
  BY DEF Invoke
<1>3. Of[a.version] = i
  BY <1>1, VersionsAssumption DEF RunInv, InBucket
<1>4. \A j : RowsOf(j)' = RowsOf(j) /\ ExistingKeys(j)' = ExistingKeys(j)
  BY <1>2 DEF RowsOf, ExistingKeys
<1>5. LeftoversAreReplayed' /\ RefusedIsUntouched'
  BY <1>2, <1>4 DEF ReplayInv, LeftoversAreReplayed, RefusedIsUntouched
<1>6. QuietIsExact'
  <2> SUFFICES ASSUME NEW j \in Imports, Quiet(j)'
               PROVE  Quiet(j)
    BY <1>2 DEF ReplayInv, QuietIsExact
  <2>1. \A l \in Imports, m \in Attempts :
          events'[<<l, m>>] < events[<<l, m>>] => a.step # "idle" /\ Of[a.version] = l
    BY <1>1, <1>2, <1>3 DEF TypeOK
  <2>2. \A l \in Imports, m \in Attempts : events'[<<l, m>>] \in Nat
    BY InvNext DEF Next, TypeOK
  <2> QED
    BY <1>1, <1>2, <2>1, <2>2, QuietBefore
<1>7. GotFar(a, rows, index')
  BY <1>1 DEF GotFar
<1>8. \A s \in Runs : GotFar(run[s], rows, index')
  BY <1>2 DEF ReplayInv
<1> QED
  BY <1>1, <1>2, <1>3, <1>5, <1>6, <1>7, <1>8, RunReplays

(* Quiet(j)' means Quiet(j) when no event is gone and the run goes on.     *)
LEMMA QuietGoingOn ==
  ASSUME TypeOK, RunInv, NEW r \in Runs, NEW a \in Running, Supplied(a), Becomes(r, a),
         UNCHANGED events, run[r].step # "idle", a.step # "idle", a.version = run[r].version,
         NEW j \in Imports, Quiet(j)'
  PROVE  Quiet(j) /\ j # Of[run[r].version]
<1>1. /\ \A i \in Imports, n \in Attempts : ~(events'[<<i, n>>] < events[<<i, n>>])
      /\ \A i \in Imports, n \in Attempts : events'[<<i, n>>] \in Nat
  BY DEF TypeOK
<1> QED
  BY <1>1, QuietBefore

LEMMA ReadReplays ==
  ASSUME TypeOK, RunInv, ReplayInv, NEW r \in Runs, ReadIndex(r)
  PROVE  ReplayInv'
<1> DEFINE c == run[r]
           v == c.version
           keys == ExistingKeys(Of[v])
           writes == Writes(v, keys)
<1>1. PICK a \in Running :
        /\ Becomes(r, a) /\ Supplied(a) /\ a.version = v /\ a.old = keys
        /\ a.step \in {"write", "index"}
        /\ a.step = "write" =>
             \A n \in DOMAIN writes : n < a.from + BatchSize => n \in a.pending
        /\ a.step = "index" => DOMAIN writes = {}
  BY ReadRun
<1>2. /\ c.step = "read" /\ v \notin Malformed
      /\ UNCHANGED <<object, drops, events, rows, index, dirty>>
  BY DEF ReadIndex
<1>3. v \in Versions /\ Of[v] \in Imports /\ v = object[Of[v]] /\ v # Nil
  BY <1>2, RunsAreTyped, VersionsAssumption DEF ReplayInv, RunsAreCurrent
<1>4. IsFiniteSet(keys)
  BY <1>3, KnownAreFinite DEF RunInv
<1>5. RowsIn(rows, Of[v]) \subseteq keys \cup KeysOf[v]
  BY <1>3, RowsOfIsRowsIn DEF ReplayInv, LeftoversAreReplayed
<1> HIDE DEF keys, v, c
<1>6. GotFar(a, rows, index')
  <2>1. a.step = "index" => Exact(rows, v)
    BY <1>1, <1>3, <1>4, <1>5, ExactAtTheEnd
  <2> QED
    BY <1>1, <1>2, <1>5, <2>1 DEF GotFar
<1>7. \A s \in Runs : GotFar(run[s], rows, index')
  BY <1>2 DEF ReplayInv
<1>8. \A j : RowsOf(j)' = RowsOf(j) /\ ExistingKeys(j)' = ExistingKeys(j)
  BY <1>2 DEF RowsOf, ExistingKeys
<1>9. LeftoversAreReplayed' /\ RefusedIsUntouched'
  BY <1>2, <1>8 DEF ReplayInv, LeftoversAreReplayed, RefusedIsUntouched
<1>10. QuietIsExact'
  <2> SUFFICES ASSUME NEW j \in Imports, Quiet(j)'
               PROVE  Quiet(j)
    BY <1>2 DEF ReplayInv, QuietIsExact
  <2> QED
    BY <1>1, <1>2, QuietGoingOn DEF c, v
<1> QED
  BY <1>1, <1>2, <1>3, <1>6, <1>7, <1>9, <1>10, RunReplays DEF c, v

LEMMA PutIndexReplays ==
  ASSUME TypeOK, RunInv, ReplayInv, NEW r \in Runs, PutIndex(r)
  PROVE  ReplayInv'
<1>0. PICK v \in Versions, i \in Imports : v = run[r].version /\ i = Of[v]
  BY RunsAreTyped DEF PutIndex
<1>1. PICK a \in Running : /\ Becomes(r, a) /\ Supplied(a) /\ a.version = v
                           /\ a.old = run[r].old /\ a.step = "done"
  BY <1>0, PutIndexRun
<1>2. /\ run[r].step = "index" /\ index' = [index EXCEPT ![i] = KeysOf[v]]
      /\ UNCHANGED <<object, drops, events, rows, dirty>>
  BY <1>0 DEF PutIndex
<1>3. v = object[i]
  BY <1>0, <1>2 DEF ReplayInv, RunsAreCurrent
<1>4. GotFar(run[r], rows, index)
  BY DEF ReplayInv
<1>5. index'[i] = KeysOf[v] /\ \A j \in Imports \ {i} : index'[j] = index[j]
  BY <1>2 DEF TypeOK
<1>6. Exact(rows, v) /\ RowsIn(rows, i) = KeysOf[v] /\ KeysOf[v] # Nil /\ v \notin Malformed
      /\ RowsIn(rows, i) \subseteq run[r].old \cup KeysOf[v]
  BY <1>0, <1>2, <1>4, VersionsAssumption DEF GotFar, Exact
<1>7. GotFar(a, rows, index')
  BY <1>0, <1>1, <1>5, <1>6 DEF GotFar
<1>8. ASSUME NEW s \in Runs
      PROVE  GotFar(run[s], rows, index')
  <2>1. GotFar(run[s], rows, index)
    BY DEF ReplayInv
  <2>2. ASSUME run[s].step = "done"
        PROVE  index'[Of[run[s].version]] = KeysOf[run[s].version]
    <3>1. Of[run[s].version] \in Imports /\ run[s].version = object[Of[run[s].version]]
      BY <2>2, RunsAreTyped DEF ReplayInv, RunsAreCurrent
    <3>2. index[Of[run[s].version]] = KeysOf[run[s].version]
      BY <2>1, <2>2 DEF GotFar
    <3> QED
      BY <1>3, <1>5, <3>1, <3>2
  <2> QED
    BY <2>1, <2>2 DEF GotFar
<1>9. ASSUME NEW j \in Imports
      PROVE  /\ RowsOf(j)' = RowsOf(j)
             /\ j # i => ExistingKeys(j)' = ExistingKeys(j)
             /\ RowsOf(i) = KeysOf[v] /\ ExistingKeys(i)' = KeysOf[v]
  BY <1>2, <1>5, <1>6, RowsOfIsRowsIn DEF RowsOf, ExistingKeys
<1>10. LeftoversAreReplayed' /\ RefusedIsUntouched'
  <2>1. ASSUME NEW j \in Imports
        PROVE  /\ RowsOf(j)' \subseteq ExistingKeys(j)'
                    \cup (IF object'[j] = Nil THEN {} ELSE KeysOf[object'[j]])
               /\ object'[j] \in Malformed => RowsOf(j)' \subseteq ExistingKeys(j)'
    <3>1. CASE j = i
      BY <1>9, <3>1
    <3>2. CASE j # i
      BY <1>2, <1>9, <3>2 DEF ReplayInv, LeftoversAreReplayed, RefusedIsUntouched
    <3> QED
      BY <3>1, <3>2
  <2> QED
    BY <2>1 DEF LeftoversAreReplayed, RefusedIsUntouched
<1>11. QuietIsExact'
  <2> SUFFICES ASSUME NEW j \in Imports, Quiet(j)'
               PROVE  Quiet(j) /\ j # i
    BY <1>2, <1>5 DEF ReplayInv, QuietIsExact
  <2> QED
    BY <1>0, <1>1, <1>2, QuietGoingOn
<1> QED
  BY <1>1, <1>2, <1>3, <1>7, <1>8, <1>10, <1>11, <1>0, RunReplays

LEMMA EndReplays ==
  ASSUME TypeOK, RunInv, ReplayInv, NEW r \in Runs, Finish(r) \/ Fail(r)
  PROVE  ReplayInv'
<1>0. PICK v \in Versions, i \in Imports : v = run[r].version /\ i = Of[v]
  BY RunsAreTyped DEF Finish, Fail
<1>1. /\ Becomes(r, Idle) /\ UNCHANGED <<object, drops, rows, index>>
      /\ run[r].step # "idle" /\ v = object[i]
  BY <1>0 DEF Finish, Fail, Becomes, ReplayInv, RunsAreCurrent
<1>2. /\ \A j \in Imports \ {i} : dirty'[j] = dirty[j]
      /\ Fail(r) => dirty'[i] = TRUE
  BY <1>0 DEF Finish, Fail, TypeOK
<1>3. ASSUME NEW j \in Imports, NEW n \in Attempts
      PROVE  ~(events'[<<j, n>>] < events[<<j, n>>])
  <2>1. \/ events' = events
        \/ \E m \in Attempts : events' = [events EXCEPT ![<<i, m>>] = @ + 1]
    BY <1>0, <1>1, RunsAreTyped DEF Finish, Fail, Attempts, Running
  <2>2. CASE events' = events
    BY <2>2 DEF TypeOK
  <2>3. ASSUME NEW m \in Attempts, events' = [events EXCEPT ![<<i, m>>] = @ + 1]
        PROVE  ~(events'[<<j, n>>] < events[<<j, n>>])
    BY <2>3 DEF TypeOK
  <2> QED
    BY <2>1, <2>2, <2>3
<1>4. TypeOK'
  BY InvNext DEF Next
<1>5. \A j : RowsOf(j)' = RowsOf(j) /\ ExistingKeys(j)' = ExistingKeys(j)
  BY <1>1 DEF RowsOf, ExistingKeys
<1>6. LeftoversAreReplayed' /\ RefusedIsUntouched'
  BY <1>1, <1>5 DEF ReplayInv, LeftoversAreReplayed, RefusedIsUntouched
<1>7. QuietIsExact'
  <2> SUFFICES ASSUME NEW j \in Imports, Quiet(j)', ~dirty'[j], object[j] # Nil
               PROVE  /\ Exact(rows, object[j]) /\ index[j] = KeysOf[object[j]]
                      /\ object[j] \notin Malformed
    BY <1>1 DEF QuietIsExact
  <2>1. Quiet(j) \/ j = i
    <3>1. \A l \in Imports, m \in Attempts : ~(events'[<<l, m>>] < events[<<l, m>>])
      BY <1>3
    <3>2. \A l \in Imports, m \in Attempts : events'[<<l, m>>] \in Nat
      BY <1>4 DEF TypeOK
    <3> QED
      BY <1>0, <1>1, <3>1, <3>2, IdleIsSupplied, QuietBefore
  <2>2. CASE j = i
    <3>1. Finish(r) /\ run[r].step = "done"
      BY <1>2, <2>2 DEF Finish
    <3>2. GotFar(run[r], rows, index)
      BY DEF ReplayInv
    <3> QED
      BY <1>0, <1>1, <2>2, <3>1, <3>2 DEF GotFar
  <2>3. CASE j # i
    BY <1>2, <2>1, <2>3 DEF ReplayInv, QuietIsExact
  <2> QED
    BY <2>2, <2>3
<1>8. GotFar(Idle, rows, index')
  BY IdleIsSupplied DEF GotFar
<1>9. \A s \in Runs : GotFar(run[s], rows, index')
  BY <1>1 DEF ReplayInv
<1> QED
  BY <1>1, <1>6, <1>7, <1>8, <1>9, IdleIsSupplied, RunReplays

LEMMA WriteReplays ==
  ASSUME FailedIsReplayed, TypeOK, RunInv, ReplayInv, NEW r \in Runs, WriteBatch(r)
  PROVE  ReplayInv'
<1> DEFINE c == run[r]
           v == c.version
           i == Of[v]
           writes == Writes(v, c.old)
<1>0. v \in Versions /\ i \in Imports
  BY RunsAreTyped DEF WriteBatch
<1>1. /\ c.step = "write" /\ v = object[i] /\ v # Nil
      /\ UNCHANGED <<object, drops, events, index, dirty>>
  BY <1>0, VersionsAssumption DEF WriteBatch, ReplayInv, RunsAreCurrent
<1>2. PICK a \in Running, done \in SUBSET c.pending :
        /\ rows' = Apply({writes[n] : n \in done}, v)
        /\ Becomes(r, a) /\ Supplied(a) /\ a.version = v /\ a.old = c.old
        /\ a.step \in {"write", "index"}
        /\ a.step = "write" =>
             \A n \in DOMAIN writes : n < a.from + BatchSize /\ n \notin a.pending =>
               n \in done \/ (n < c.from + BatchSize /\ n \notin c.pending)
        /\ a.step = "index" =>
             \A n \in DOMAIN writes :
               n \in done \/ (n < c.from + BatchSize /\ n \notin c.pending)
  BY WriteRun
<1>3. RowsAreTheirs
  BY DEF ReplayInv
<1>4. /\ \A k \in Keys : rows'[k] # rows[k] =>
           rows'[k] = Nil \/ (rows'[k] = v /\ k \in KeysOf[v])
      /\ \A j \in Imports :
           RowsIn(rows', j) \subseteq RowsIn(rows, j) \cup (IF j = i THEN KeysOf[v] ELSE {})
      /\ \A w \in Versions : (Of[w] # i \/ w = v) /\ Exact(rows, w) => Exact(rows', w)
      /\ \A w \in Versions : Of[w] # i \/ w = v =>
           \A old : Known(Of[w], old) =>
             \A q \in Requests(w, old) :
               rows[q.key] = Written(q, w) => rows'[q.key] = Written(q, w)
  BY <1>0, <1>3, BatchKeeps
<1>5. /\ GotFar(c, rows, index) /\ Known(i, c.old) /\ IsFiniteSet(c.old)
      /\ c.pending \subseteq DOMAIN writes /\ c.old \subseteq Keys
  BY <1>0, <1>1, RunsAreTyped, KnownAreFinite DEF ReplayInv, Supplied
<1>6. v \notin Malformed /\ RowsIn(rows, i) \subseteq c.old \cup KeysOf[v]
  BY <1>0, <1>1, <1>5 DEF GotFar
<1>7. ASSUME NEW n \in DOMAIN writes, n \in done \/ (n < c.from + BatchSize /\ n \notin c.pending)
      PROVE  rows'[writes[n].key] = Written(writes[n], v)
  <2>1. writes[n] \in Requests(v, c.old)
    BY <1>0, <1>5, <1>7, WritesAreTheRequests
  <2>2. writes[n].key \in Keys
    <3>1. KeysOf[v] \subseteq Keys /\ c.old \subseteq Keys
      BY <1>0, <1>5, VersionsAssumption
    <3>2. \A q \in Requests(v, c.old) : q.key \in Keys
      BY <3>1 DEF Requests
    <3> QED
      BY <2>1, <3>2
  <2>3. CASE n \in done
    <3>1. rows'[writes[n].key] = Apply({writes[m] : m \in done}, v)[writes[n].key]
      BY <1>2
    <3>2. Apply({writes[m] : m \in done}, v)[writes[n].key] = Written(writes[n], v)
      BY <1>1, <2>2, <2>3, BatchEffect
    <3> QED
      BY <3>1, <3>2
  <2>4. CASE n < c.from + BatchSize /\ n \notin c.pending
    <3>1. rows[writes[n].key] = Written(writes[n], v)
      BY <1>0, <1>1, <1>5, <2>4 DEF GotFar
    <3> QED
      BY <1>0, <1>4, <1>5, <2>1, <3>1
  <2> QED
    BY <1>7, <2>3, <2>4
<1>8. /\ run' \in [Runs -> Running] /\ run'[r] = a /\ \A s \in Runs \ {r} : run'[s] = run[s]
  BY <1>2, BecomesKeepsRuns
<1>9. RowsIn(rows', i) \subseteq c.old \cup KeysOf[v]
  <2>1. RowsIn(rows', i) \subseteq RowsIn(rows, i) \cup (IF i = i THEN KeysOf[v] ELSE {})
    BY <1>0, <1>4
  <2> QED
    BY <1>6, <2>1
<1>10. GotFar(a, rows', index')
  <2>1. a.step = "index" => Exact(rows', v)
    <3> HIDE DEF c
    <3> QED
      BY <1>0, <1>2, <1>5, <1>7, <1>9, ExactAtTheEnd
  <2>2. a.step = "write" =>
          \A n \in DOMAIN writes : n < a.from + BatchSize /\ n \notin a.pending =>
            rows'[writes[n].key] = Written(writes[n], v)
    BY <1>2, <1>7
  <2> QED
    BY <1>0, <1>2, <1>6, <1>9, <2>1, <2>2 DEF GotFar
<1>11. ASSUME NEW s \in Runs, s # r
       PROVE  GotFar(run[s], rows', index')
  <2> DEFINE d == run[s]
             w == d.version
             theirs == Writes(w, d.old)
  <2>1. GotFar(d, rows, index) /\ Supplied(d)
    BY RunsAreTyped DEF ReplayInv
  <2>2. CASE d.step = "idle" \/ d.step = "read"
    BY <2>2 DEF GotFar
  <2>3. CASE d.step # "idle" /\ d.step # "read"
    <3>1. w \in Versions /\ Of[w] \in Imports /\ w = object[Of[w]] /\ Known(Of[w], d.old)
          /\ d.step \in {"write", "index", "done"}
      BY <2>1, <2>3, RunsAreTyped DEF ReplayInv, RunsAreCurrent, Supplied, Running
    <3>2. Of[w] # i \/ w = v
      BY <1>1, <3>1
    <3>3. RowsIn(rows', Of[w]) \subseteq d.old \cup KeysOf[w]
      <4>1. RowsIn(rows, Of[w]) \subseteq d.old \cup KeysOf[w]
        BY <2>1, <3>1 DEF GotFar
      <4> QED
        BY <1>4, <3>1, <3>2, <4>1
    <3>4. d.step \in {"index", "done"} => Exact(rows', w)
      BY <1>4, <2>1, <3>1, <3>2 DEF GotFar
    <3>5. ASSUME d.step = "write", NEW n \in DOMAIN theirs,
                 n < d.from + BatchSize, n \notin d.pending
          PROVE  rows'[theirs[n].key] = Written(theirs[n], w)
      <4>1. theirs[n] \in Requests(w, d.old)
        BY <3>1, KnownAreFinite, WritesAreTheRequests
      <4>2. rows[theirs[n].key] = Written(theirs[n], w)
        BY <2>1, <3>5 DEF GotFar
      <4> QED
        BY <1>4, <3>1, <3>2, <4>1, <4>2
    <3> QED
      BY <1>1, <2>1, <3>1, <3>3, <3>4, <3>5 DEF GotFar
  <2> QED
    BY <2>2, <2>3
<1>12. \A s \in Runs : GotFar(run'[s], rows', index')
  BY <1>8, <1>10, <1>11
<1>13. RunsAreCurrent'
  BY <1>0, <1>1, <1>2, <1>8 DEF ReplayInv, RunsAreCurrent
<1>14. RowsAreTheirs'
  BY <1>1, <1>3, <1>4 DEF RowsAreTheirs
<1>15. ASSUME NEW j \in Imports
       PROVE  RowsOf(j)' \subseteq RowsOf(j) \cup (IF j = i THEN KeysOf[v] ELSE {})
  BY <1>4, RowsOfIsRowsIn DEF RowsOf, RowsIn
<1>16. LeftoversAreReplayed' /\ RefusedIsUntouched'
  <2>1. \A j : ExistingKeys(j)' = ExistingKeys(j)
    BY <1>1 DEF ExistingKeys
  <2>2. LeftoversAreReplayed /\ RefusedIsUntouched
    BY DEF ReplayInv
  <2> QED
    BY <1>1, <1>6, <1>15, <2>1, <2>2 DEF LeftoversAreReplayed, RefusedIsUntouched
<1>17. QuietIsExact'
  <2> SUFFICES ASSUME NEW j \in Imports, Quiet(j)', ~dirty[j], object[j] # Nil
               PROVE  /\ Exact(rows', object[j]) /\ index[j] = KeysOf[object[j]]
                      /\ object[j] \notin Malformed
    BY <1>1 DEF QuietIsExact
  <2>1. Quiet(j) /\ j # i
    BY <1>0, <1>1, <1>2, QuietGoingOn
  <2>2. Of[object[j]] = j /\ object[j] \in Versions
    BY DEF RunInv, InBucket, TypeOK
  <2> QED
    BY <1>4, <2>1, <2>2 DEF ReplayInv, QuietIsExact
<1> QED
  BY <1>12, <1>13, <1>14, <1>16, <1>17 DEF ReplayInv

(* What a replacement leaves is exact, however many runs overlap and       *)
(* wherever they were cut short, when an import that failed half-way is    *)
(* replayed unchanged (Save, docs/deploy.md).                              *)
THEOREM ReplacesExactly ==
  ASSUME FailedIsReplayed
  PROVE  Spec => []ReplaceInv
<1> DEFINE Inv == TypeOK /\ RunInv /\ ReplayInv
<1>1. Init => Inv
  BY InvInit, ReplayInit
<1>2. Inv /\ [Next]_vars => Inv'
  <2> SUFFICES ASSUME Inv, [Next]_vars PROVE ReplayInv'
    BY InvNext
  <2>1. CASE UNCHANGED vars
    BY <2>1 DEF vars, ReplayInv, RunsAreCurrent, RowsAreTheirs, LeftoversAreReplayed,
                RefusedIsUntouched, QuietIsExact, Quiet, RunsOn, RowsOf, ExistingKeys
  <2>2. CASE Next
    BY <2>2, DropReplays, InvokeReplays, ReadReplays, WriteReplays, PutIndexReplays,
       EndReplays DEF Next
  <2> QED
    BY <2>1, <2>2
<1>3. Inv => ReplaceInv
  <2> SUFFICES ASSUME Inv, NEW i \in Imports, Quiet(i), ~dirty[i], object[i] # Nil
               PROVE  /\ RowsOf(i) = KeysOf[object[i]]
                      /\ \A k \in RowsOf(i) : rows[k] = object[i]
    BY DEF ReplaceInv, ReplayInv, ReplaceIsExact
  <2>1. Exact(rows, object[i]) /\ Of[object[i]] = i
    BY DEF ReplayInv, QuietIsExact, RunInv, InBucket
  <2> QED
    BY <2>1, RowsOfIsRowsIn DEF Exact
<1> QED
  BY <1>1, <1>2, <1>3, PTL DEF Spec
=============================================================================
