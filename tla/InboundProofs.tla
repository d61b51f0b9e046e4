--------------------------- MODULE InboundProofs ---------------------------
(***************************************************************************)
(* Theorems about the path of a WhatsApp message, for every set of         *)
(* messages, phones, batches and webhook invocations, any number of POSTs  *)
(* and receives, and whatever subset of the faults may strike.             *)
(***************************************************************************)
EXTENDS Inbound, SequenceTheorems, FiniteSetTheorems, TLAPS

-----------------------------------------------------------------------------
(* Sequences.                                                              *)

LEMMA RemoveAtElements ==
  ASSUME NEW S, NEW s \in Seq(S), NEW i \in DOMAIN s
  PROVE  /\ RemoveAt(s, i) \in Seq(S)
         /\ Len(RemoveAt(s, i)) = Len(s) - 1
         /\ \A j \in 1 .. Len(s) - 1 :
              RemoveAt(s, i)[j] = IF j < i THEN s[j] ELSE s[j + 1]
<1>1. /\ Len(s) \in Nat /\ DOMAIN s = 1 .. Len(s) /\ \A n \in 1 .. Len(s) : s[n] \in S
  BY LenProperties, ElementOfSeq
<1>2. i \in 1 .. Len(s)
  BY <1>1
<1> DEFINE a == SubSeq(s, 1, i - 1)
           b == SubSeq(s, i + 1, Len(s))
<1>3. /\ a \in Seq(S) /\ Len(a) = i - 1
      /\ \A n \in 1 .. i - 1 : a[n] = s[n]
  <2>1. \A n \in 1 .. i - 1 : s[n] \in S
    BY <1>1, <1>2
  <2>2. /\ a \in Seq(S) /\ Len(a) = IF 1 <= i - 1 THEN i - 1 - 1 + 1 ELSE 0
        /\ \A n \in 1 .. i - 1 - 1 + 1 : a[n] = s[1 + n - 1]
    BY <1>1, <1>2, <2>1, SubSeqProperties
  <2> QED
    BY <1>1, <1>2, <2>2
<1>4. /\ b \in Seq(S) /\ Len(b) = Len(s) - i
      /\ \A n \in 1 .. Len(s) - i : b[n] = s[i + n]
  <2>1. \A n \in i + 1 .. Len(s) : s[n] \in S
    BY <1>1, <1>2
  <2>2. /\ b \in Seq(S)
        /\ Len(b) = IF i + 1 <= Len(s) THEN Len(s) - (i + 1) + 1 ELSE 0
        /\ \A n \in 1 .. Len(s) - (i + 1) + 1 : b[n] = s[(i + 1) + n - 1]
    BY <1>1, <1>2, <2>1, SubSeqProperties
  <2>3. Len(b) = Len(s) - i
    BY <1>1, <1>2, <2>2
  <2>4. ASSUME NEW n \in 1 .. Len(s) - i
        PROVE  b[n] = s[i + n]
    <3>1. n \in 1 .. Len(s) - (i + 1) + 1 /\ (i + 1) + n - 1 = i + n
      BY <1>1, <1>2
    <3> QED
      BY <2>2, <3>1
  <2> QED
    BY <2>2, <2>3, <2>4
<1> HIDE DEF a, b
<1>5. /\ a \o b \in Seq(S) /\ Len(a \o b) = Len(a) + Len(b)
      /\ \A n \in 1 .. Len(a) + Len(b) :
           (a \o b)[n] = IF n <= Len(a) THEN a[n] ELSE b[n - Len(a)]
  BY <1>3, <1>4, ConcatProperties
<1>6. Len(a) + Len(b) = Len(s) - 1
  BY <1>1, <1>2, <1>3, <1>4
<1>7. ASSUME NEW n \in 1 .. Len(s) - 1
      PROVE  (a \o b)[n] = IF n < i THEN s[n] ELSE s[n + 1]
  <2>1. CASE n < i
    <3>1. n \in 1 .. i - 1 /\ n <= Len(a) /\ n \in 1 .. Len(a) + Len(b)
      BY <1>1, <1>2, <1>3, <1>6, <2>1
    <3> QED
      BY <1>3, <1>5, <2>1, <3>1
  <2>2. CASE ~(n < i)
    <3>1. /\ n - Len(a) \in 1 .. Len(s) - i /\ i + (n - Len(a)) = n + 1
          /\ ~(n <= Len(a)) /\ n \in 1 .. Len(a) + Len(b)
      BY <1>1, <1>2, <1>3, <1>6, <2>2
    <3>2. (a \o b)[n] = b[n - Len(a)]
      BY <1>5, <3>1
    <3>3. b[n - Len(a)] = s[i + (n - Len(a))]
      BY <1>4, <3>1
    <3> QED
      BY <2>2, <3>1, <3>2, <3>3
  <2> QED
    BY <2>1, <2>2
<1>8. RemoveAt(s, i) = a \o b
  BY DEF RemoveAt, a, b
<1> HIDE DEF RemoveAt
<1> QED
  BY <1>5, <1>6, <1>7, <1>8

(* What is said about a message is a number that is never lost.            *)
SaidAt(s, word, m) == {i \in DOMAIN s : s[i] = [word |-> word, msg |-> m]}

LEMMA CountSaid ==
  ASSUME NEW S, NEW s \in Seq(S), NEW word, NEW m
  PROVE  /\ IsFiniteSet(SaidAt(s, word, m))
         /\ Cardinality(SaidAt(s, word, m)) \in Nat
         /\ Cardinality(SaidAt(s, word, m)) > 0 <=>
              \E i \in DOMAIN s : s[i] = [word |-> word, msg |-> m]
<1>1. DOMAIN s = 1 .. Len(s) /\ Len(s) \in Nat
  BY LenProperties
<1>2. IsFiniteSet(1 .. Len(s))
  BY <1>1, FS_Interval
<1>3. IsFiniteSet(SaidAt(s, word, m))
  BY <1>1, <1>2, FS_Subset DEF SaidAt
<1>4. Cardinality(SaidAt(s, word, m)) \in Nat
      /\ (Cardinality(SaidAt(s, word, m)) = 0 <=> SaidAt(s, word, m) = {})
  BY <1>3, FS_CardinalityType, FS_EmptySet
<1> QED
  BY <1>3, <1>4 DEF SaidAt

-----------------------------------------------------------------------------
(* What the steps do to the queue.                                         *)

Entry == [msg : Msgs, receives : 0 .. MaxReceives, step : Steps]
Fresh(m) == [msg |-> m, receives |-> 0, step |-> "wait"]

(* A message m joins at the end; entry i goes to a step; entry i leaves.   *)
Joins(m) == /\ queue' \in Seq(Entry) /\ Len(queue') = Len(queue) + 1
            /\ queue'[Len(queue) + 1] = Fresh(m)
            /\ \A j \in DOMAIN queue : queue'[j] = queue[j]
Moves(i, n, s) == /\ queue' \in Seq(Entry) /\ Len(queue') = Len(queue)
                  /\ queue'[i] = [msg |-> queue[i].msg, receives |-> n, step |-> s]
                  /\ \A j \in DOMAIN queue : j # i => queue'[j] = queue[j]
Leaves(i) == /\ queue' \in Seq(Entry) /\ Len(queue') = Len(queue) - 1
             /\ \A j \in 1 .. Len(queue) - 1 :
                  queue'[j] = IF j < i THEN queue[j] ELSE queue[j + 1]

LEMMA QueueType ==
  ASSUME TypeOK
  PROVE  /\ queue \in Seq(Entry) /\ Len(queue) \in Nat /\ DOMAIN queue = 1 .. Len(queue)
         /\ \A i \in DOMAIN queue :
              /\ queue[i] \in Entry /\ queue[i].msg \in Msgs /\ queue[i].step \in Steps
              /\ queue[i].receives \in 0 .. MaxReceives
              /\ Sender[queue[i].msg] \in Phones
<1>1. queue \in Seq(Entry)
  BY DEF TypeOK, Entry
<1>2. Len(queue) \in Nat /\ DOMAIN queue = 1 .. Len(queue)
      /\ \A i \in 1 .. Len(queue) : queue[i] \in Entry
  BY <1>1, LenProperties, ElementOfSeq
<1> QED
  BY <1>1, <1>2, MessagesAssumption DEF Entry

LEMMA JoinsQueue ==
  ASSUME TypeOK, NEW m \in Msgs, queue' = Append(queue, Fresh(m))
  PROVE  Joins(m)
<1>1. Fresh(m) \in Entry
  BY BoundsAssumption DEF Fresh, Entry, Steps
<1> QED
  BY <1>1, QueueType, AppendProperties DEF Joins

LEMMA MovesInQueue ==
  ASSUME TypeOK, NEW i \in DOMAIN queue, NEW n \in 0 .. MaxReceives, NEW s \in Steps,
         queue' = [queue EXCEPT ![i] = [msg |-> queue[i].msg, receives |-> n, step |-> s]]
  PROVE  Moves(i, n, s)
<1>1. [msg |-> queue[i].msg, receives |-> n, step |-> s] \in Entry
  BY QueueType DEF Entry
<1>2. i \in 1 .. Len(queue)
  BY QueueType
<1>3. /\ queue' \in Seq(Entry) /\ Len(queue') = Len(queue)
      /\ \A j \in 1 .. Len(queue) :
           queue'[j] = IF j = i THEN [msg |-> queue[i].msg, receives |-> n, step |-> s]
                                ELSE queue[j]
  BY <1>1, <1>2, QueueType, ExceptSeq
<1> QED
  BY <1>2, <1>3, QueueType DEF Moves

LEMMA GotoMoves ==
  ASSUME TypeOK, NEW i \in DOMAIN queue, NEW s \in Steps, Goto(i, s)
  PROVE  Moves(i, queue[i].receives, s)
<1>1. queue[i] = [msg |-> queue[i].msg, receives |-> queue[i].receives,
                  step |-> queue[i].step]
  BY QueueType DEF Entry
<1>2. [queue[i] EXCEPT !.step = s]
      = [msg |-> queue[i].msg, receives |-> queue[i].receives, step |-> s]
  BY <1>1
<1>3. queue' = [queue EXCEPT ![i] = [msg |-> queue[i].msg,
                                     receives |-> queue[i].receives, step |-> s]]
  BY <1>2 DEF Goto
<1> QED
  BY <1>3, QueueType, MovesInQueue

LEMMA GiveUpMoves ==
  ASSUME TypeOK, NEW i \in DOMAIN queue, GiveUp(i)
  PROVE  \/ Moves(i, queue[i].receives, "sorry") /\ queue[i].receives >= MaxReceives
         \/ Moves(i, queue[i].receives, "wait")
BY GotoMoves DEF GiveUp, lastAttempt, Steps

LEMMA ReceiveMoves ==
  ASSUME TypeOK, NEW i \in DOMAIN queue, Receive(i)
  PROVE  Moves(i, queue[i].receives + 1, "check")
<1>1. queue[i].receives + 1 \in 0 .. MaxReceives
  BY QueueType, BoundsAssumption DEF Receive, Spent
<1>2. queue[i] = [msg |-> queue[i].msg, receives |-> queue[i].receives,
                  step |-> queue[i].step]
  BY QueueType DEF Entry
<1>3. [queue[i] EXCEPT !.step = "check"]
      = [msg |-> queue[i].msg, receives |-> queue[i].receives, step |-> "check"]
  BY <1>2
<1> DEFINE q1 == [queue EXCEPT ![i].step = "check"]
<1>4. q1[i] = [msg |-> queue[i].msg, receives |-> queue[i].receives, step |-> "check"]
      /\ q1 = [queue EXCEPT ![i] = q1[i]]
  BY <1>3
<1>5. queue' = [q1 EXCEPT ![i].receives = queue[i].receives + 1]
  BY QueueType DEF Receive
<1>6. [q1[i] EXCEPT !.receives = queue[i].receives + 1]
      = [msg |-> queue[i].msg, receives |-> queue[i].receives + 1, step |-> "check"]
  <2> HIDE DEF q1
  <2> QED
    BY <1>4
<1>7. queue' = [queue EXCEPT ![i] = [msg |-> queue[i].msg,
                                     receives |-> queue[i].receives + 1, step |-> "check"]]
  <2> HIDE DEF q1
  <2>1. queue' = [q1 EXCEPT ![i] = [q1[i] EXCEPT !.receives = queue[i].receives + 1]]
    BY <1>5
  <2> QED
    BY <1>4, <1>6, <2>1
<1> QED
  BY <1>1, <1>7, MovesInQueue DEF Steps

LEMMA LeavesQueue ==
  ASSUME TypeOK, NEW i \in DOMAIN queue, queue' = RemoveAt(queue, i)
  PROVE  Leaves(i)
BY QueueType, RemoveAtElements DEF Leaves

(* What a step of the turn on entry i does when it takes the entry to step *)
(* s: which steps lead there, and who may touch the conversation, the      *)
(* replies, the mark and the ledger.                                       *)
InTurn(i) == Process(i) \/ AgentFails(i) \/ Killed(i)

Paths ==
  {<<"check", "ask">>, <<"check", "delete">>, <<"ask", "respond">>, <<"respond", "user">>,
   <<"user", "assistant">>, <<"assistant", "reply">>, <<"reply", "mark">>,
   <<"mark", "delete">>}
  \cup ({"ask", "respond", "user", "assistant"} \X {"sorry"})
  \cup ((Steps \ {"wait"}) \X {"wait"})

TurnStep(i, s) ==
  LET m == queue[i].msg   from == queue[i].step
  IN  /\ Moves(i, queue[i].receives, s) /\ <<from, s>> \in Paths
      /\ UNCHANGED <<webhook, dedup, dlq>>
      /\ s = "sorry" => queue[i].receives >= MaxReceives
      /\ <<from, s>> = <<"check", "delete">> => Marked(m)
      /\ s = "ask" => SeesNone(m)
      /\ <<from, s>> = <<"user", "assistant">> => Store(i, "user")
      /\ \/ UNCHANGED history
         \/ from \in {"user", "assistant"} /\ Store(i, from)
      /\ <<from, s>> = <<"reply", "mark">> => Send(i, "answer")
      /\ \/ UNCHANGED said
         \/ from = "reply" /\ Send(i, "answer") /\ (s = "mark" \/ "reply" \in Faults)
         \/ from = "sorry" /\ Send(i, "fallback")
      /\ from = "mark" /\ s = "wait" => "mark" \in KillAt
      /\ <<from, s>> = <<"mark", "delete">> /\ "mark" \notin Faults =>
           mark' = [mark EXCEPT ![m] = IF @ = "none" THEN Written ELSE @]
      /\ \/ UNCHANGED mark
         \/ /\ <<from, s>> = <<"mark", "delete">>
            /\ mark' = [mark EXCEPT ![m] = IF @ = "none" THEN Written ELSE @]
      /\ \/ UNCHANGED writes
         \/ from = "ask" /\ writes' = [writes EXCEPT ![m] = @ + 1]

LEMMA TurnSteps ==
  ASSUME TypeOK, NEW i \in DOMAIN queue, InTurn(i)
  PROVE  \E s \in Steps : TurnStep(i, s)
<1> DEFINE m == queue[i].msg
<1>1. m \in Msgs /\ Sender[m] \in Phones
  BY QueueType
<1>2. CASE CheckProcessed(i)
  BY <1>2, GotoMoves DEF CheckProcessed, TurnStep, Paths, turn, webhook, Steps
<1>3. CASE CallTools(i)
  <2>1. Moves(i, queue[i].receives, "respond")
    BY <1>3, GotoMoves DEF CallTools, Steps
  <2>2. writes' = writes \/ writes' = [writes EXCEPT ![m] = @ + 1]
    <3>1. [writes EXCEPT ![m] = writes[m]] = writes
      BY <1>1 DEF TypeOK
    <3> QED
      BY <1>3, <3>1 DEF CallTools
  <2> QED
    BY <1>3, <2>1, <2>2 DEF CallTools, TurnStep, Paths, turn, webhook, Steps
<1>4. CASE Respond(i)
  BY <1>4, GotoMoves DEF Respond, TurnStep, Paths, turn, webhook, Steps
<1>5. CASE AppendUser(i)
  <2>1. CASE Store(i, "user") /\ Goto(i, "assistant")
    BY <1>5, <2>1, GotoMoves DEF AppendUser, AppendTurn, TurnStep, Paths, turn, webhook, Steps
  <2>2. CASE GiveUp(i) /\ (Store(i, "user") \/ UNCHANGED history)
    BY <1>5, <2>2, GiveUpMoves DEF AppendUser, AppendTurn, TurnStep, Paths, turn, webhook, Steps
  <2> QED
    BY <1>5, <2>1, <2>2 DEF AppendUser, AppendTurn
<1>6. CASE AppendAssistant(i)
  <2>1. CASE Store(i, "assistant") /\ Goto(i, "reply")
    BY <1>6, <2>1, GotoMoves
       DEF AppendAssistant, AppendTurn, TurnStep, Paths, turn, webhook, Steps
  <2>2. CASE GiveUp(i) /\ (Store(i, "assistant") \/ UNCHANGED history)
    BY <1>6, <2>2, GiveUpMoves
       DEF AppendAssistant, AppendTurn, TurnStep, Paths, turn, webhook, Steps
  <2> QED
    BY <1>6, <2>1, <2>2 DEF AppendAssistant, AppendTurn
<1>7. CASE SendReply(i)
  BY <1>7, GotoMoves DEF SendReply, TurnStep, Paths, turn, webhook, Steps
<1>8. CASE SendFallback(i)
  BY <1>8, GotoMoves DEF SendFallback, TurnStep, Paths, turn, webhook, Steps
<1>9. CASE MarkProcessed(i)
  BY <1>9, GotoMoves DEF MarkProcessed, TurnStep, Paths, turn, webhook, Steps
<1>10. CASE AgentFails(i)
  BY <1>10, GiveUpMoves DEF AgentFails, TurnStep, Paths, turn, webhook, Steps
<1>11. CASE Killed(i)
  <2>1. queue[i].step \in Steps \ {"wait"}
    BY <1>11, FaultsAssumption DEF Killed
  <2> QED
    BY <1>11, <2>1, GotoMoves DEF Killed, TurnStep, Paths, turn, webhook, Steps
<1> QED
  BY <1>2, <1>3, <1>4, <1>5, <1>6, <1>7, <1>8, <1>9, <1>10, <1>11 DEF InTurn, Process

-----------------------------------------------------------------------------
(* The kinds of step.                                                      *)

MarkStates == {"none", "settling", "set", "expired"}

(* Nothing happens to the queue, the conversation or the replies.          *)
QuietStep ==
  /\ UNCHANGED <<queue, dlq, history, said, writes>>
  /\ dedup' \subseteq dedup /\ (dedup' = dedup \/ "dedup" \in Faults)
  /\ mark' \in [Msgs -> MarkStates]
  /\ \A m \in Msgs : /\ mark'[m] # "none" => mark[m] # "none"
                     /\ mark'[m] = "settling" => mark[m] = "settling"
                     /\ mark'[m] = "set" => mark[m] \in {"settling", "set"}
                     /\ mark[m] = "set" /\ "expiry" \notin Faults => mark'[m] = "set"
PublishStep(m) == /\ m \notin dedup /\ dedup' = dedup \cup {m} /\ Joins(m)
                  /\ UNCHANGED <<dlq, turn>>
ReceiveStep(i) == /\ Receivable(i) /\ ~Spent(i)
                  /\ Moves(i, queue[i].receives + 1, "check")
                  /\ UNCHANGED <<webhook, dedup, dlq, turn>>
RedriveStep(i) == /\ Receivable(i) /\ Leaves(i) /\ dlq' = dlq \cup {queue[i].msg}
                  /\ UNCHANGED <<webhook, dedup, turn>>
DeleteStep(i)  == /\ queue[i].step = "delete" /\ Leaves(i)
                  /\ UNCHANGED <<webhook, dedup, dlq, turn>>

QueueStep(i) == ReceiveStep(i) \/ RedriveStep(i) \/ DeleteStep(i)
                \/ \E s \in Steps : TurnStep(i, s)

StepKinds == \/ QuietStep
             \/ \E m \in Msgs : PublishStep(m)
             \/ \E i \in DOMAIN queue : QueueStep(i)

WebhookStep == \E h \in Hooks : Webhook(h) \/ LosePost(h)
MarkStep == \E m \in Msgs : MarkSettles(m) \/ MarkExpires(m)

LEMMA PostedMessages ==
  ASSUME TypeOK, NEW h \in Hooks
  PROVE  /\ hook[h].batch \in Seq(Msgs) /\ hook[h].next \in Nat /\ hook[h].retry \in BOOLEAN
         /\ DOMAIN hook[h].batch = 1 .. Len(hook[h].batch)
         /\ \A i \in DOMAIN hook[h].batch : hook[h].batch[i] \in Msgs
<1>1. /\ hook[h].batch \in Batches \cup {<<>>} /\ hook[h].next \in Nat
      /\ hook[h].retry \in BOOLEAN
  <2>1. hook[h] \in [batch : Batches, next : Nat \ {0}, retry : BOOLEAN] \cup {NoPost}
    BY DEF TypeOK
  <2>2. CASE hook[h] = NoPost
    BY <2>2 DEF NoPost
  <2>3. CASE hook[h] \in [batch : Batches, next : Nat \ {0}, retry : BOOLEAN]
    BY <2>3
  <2> QED
    BY <2>1, <2>2, <2>3
<1>2. hook[h].batch \in Seq(Msgs)
  BY <1>1, MessagesAssumption, EmptySeq
<1>3. DOMAIN hook[h].batch = 1 .. Len(hook[h].batch)
      /\ \A i \in 1 .. Len(hook[h].batch) : hook[h].batch[i] \in Msgs
  BY <1>2, LenProperties, ElementOfSeq
<1> QED
  BY <1>1, <1>2, <1>3

LEMMA WebhookKinds ==
  ASSUME TypeOK, WebhookStep
  PROVE  UNCHANGED <<dlq, turn>> /\ (QuietStep \/ \E m \in Msgs : PublishStep(m))
<1>1. mark \in [Msgs -> MarkStates]
  BY DEF TypeOK, MarkStates
<1>2. ASSUME UNCHANGED <<queue, dlq, turn, dedup>>
      PROVE  QuietStep
  BY <1>1, <1>2 DEF QuietStep, turn
<1>3. ASSUME NEW m \in Msgs, Enqueue(m), UNCHANGED <<dlq, turn>>
      PROVE  QuietStep \/ PublishStep(m)
  <2>1. CASE m \in dedup
    <3>1. queue' = queue /\ dedup' = dedup
      BY <1>3, <2>1 DEF Enqueue
    <3> QED
      BY <1>2, <1>3, <3>1 DEF turn
  <2>2. CASE m \notin dedup
    <3>1. queue' = Append(queue, Fresh(m)) /\ dedup' = dedup \cup {m}
      BY <1>3, <2>2 DEF Enqueue, Fresh
    <3> QED
      BY <1>3, <2>2, <3>1, JoinsQueue DEF PublishStep
  <2> QED
    BY <2>1, <2>2
<1>4. PICK h \in Hooks : Webhook(h) \/ LosePost(h)
  BY DEF WebhookStep
<1>5. CASE \/ \E b \in Batches : Post(h, b)
           \/ HandleUndated(h) \/ AnswerMeta(h) \/ LosePost(h)
  BY <1>2, <1>5 DEF Post, HandleUndated, AnswerMeta, LosePost, turn
<1>6. CASE Handle(h)
  <2> DEFINE m == hook[h].batch[hook[h].next]
  <2>1. m \in Msgs
    BY <1>6, PostedMessages DEF Handle
  <2>2. UNCHANGED <<dlq, turn>> /\ (Enqueue(m) \/ UNCHANGED <<dedup, queue>>)
    BY <1>6 DEF Handle
  <2> QED
    BY <1>2, <1>3, <2>1, <2>2 DEF turn
<1> QED
  BY <1>4, <1>5, <1>6 DEF Webhook

LEMMA MarkKinds ==
  ASSUME TypeOK, MarkStep
  PROVE  QuietStep /\ UNCHANGED <<webhook, dedup>>
<1>1. mark \in [Msgs -> MarkStates]
  BY DEF TypeOK, MarkStates
<1>2. PICK m \in Msgs : MarkSettles(m) \/ MarkExpires(m)
  BY DEF MarkStep
<1>3. UNCHANGED <<webhook, dedup, queue, dlq, history, said, writes>>
  BY <1>2 DEF MarkSettles, MarkExpires
<1>4. \/ mark[m] = "settling" /\ mark' = [mark EXCEPT ![m] = "set"]
      \/ mark[m] = "set" /\ mark' = [mark EXCEPT ![m] = "expired"] /\ "expiry" \in Faults
      \/ mark[m] = "expired" /\ mark' = [mark EXCEPT ![m] = "none"]
  BY <1>2 DEF MarkSettles, MarkExpires
<1>5. mark' \in [Msgs -> MarkStates]
  BY <1>1, <1>4 DEF MarkStates
<1>6. \A n \in Msgs : /\ mark'[n] # "none" => mark[n] # "none"
                      /\ mark'[n] = "settling" => mark[n] = "settling"
                      /\ mark'[n] = "set" => mark[n] \in {"settling", "set"}
                      /\ mark[n] = "set" /\ "expiry" \notin Faults => mark'[n] = "set"
  BY <1>1, <1>4
<1> QED
  BY <1>3, <1>5, <1>6 DEF QuietStep

LEMMA NextKinds ==
  ASSUME TypeOK, [Next]_vars
  PROVE  /\ StepKinds
         /\ WebhookStep \/ (UNCHANGED webhook /\ dedup' \subseteq dedup)
<1>1. CASE WebhookStep
  BY <1>1, WebhookKinds DEF StepKinds
<1>2. CASE MarkStep
  BY <1>2, MarkKinds DEF StepKinds
<1>3. CASE \E m \in Msgs : DedupExpires(m)
  BY <1>3 DEF DedupExpires, StepKinds, QuietStep, turn, TypeOK, MarkStates
<1>4. ASSUME NEW i \in DOMAIN queue, Deliver(i) \/ AgentFails(i) \/ Killed(i)
      PROVE  QueueStep(i) /\ UNCHANGED <<webhook, dedup>>
  <2>1. CASE InTurn(i)
    BY <2>1, TurnSteps DEF QueueStep, TurnStep
  <2>2. CASE Receive(i)
    BY <2>2, ReceiveMoves DEF Receive, QueueStep, ReceiveStep
  <2>3. CASE Redrive(i)
    BY <2>3, LeavesQueue DEF Redrive, QueueStep, RedriveStep, webhook
  <2>4. CASE DeleteEntry(i)
    BY <2>4, LeavesQueue DEF DeleteEntry, QueueStep, DeleteStep
  <2> QED
    BY <1>4, <2>1, <2>2, <2>3, <2>4 DEF Deliver, InTurn
<1>5. CASE UNCHANGED vars
  BY <1>5 DEF vars, StepKinds, QuietStep, TypeOK, MarkStates, webhook
<1> QED
  BY <1>1, <1>2, <1>3, <1>4, <1>5
     DEF Next, WebhookStep, MarkStep, StepKinds, DedupExpires, webhook, MarkSettles, MarkExpires

-----------------------------------------------------------------------------
(* The state keeps its shape.                                              *)

Turn  == [role : {"user", "assistant"}, msg : Msgs]
Reply == [word : {"answer", "fallback"}, msg : Msgs]

(* Sequence s of a family gets one more element.                           *)
Grows(s, t, e) == /\ Len(t) = Len(s) + 1 /\ t[Len(s) + 1] = e
                  /\ \A k \in DOMAIN s : t[k] = s[k]

LEMMA AppendGrows ==
  ASSUME NEW S, NEW s \in Seq(S), NEW e \in S
  PROVE  /\ Append(s, e) \in Seq(S) /\ Grows(s, Append(s, e), e)
         /\ Len(s) \in Nat /\ DOMAIN s = 1 .. Len(s)
         /\ DOMAIN Append(s, e) = 1 .. Len(s) + 1
BY AppendProperties, LenProperties DEF Grows

LEMMA StoreAppends ==
  ASSUME TypeOK, NEW i \in DOMAIN queue, NEW role \in {"user", "assistant"}, Store(i, role)
  PROVE  LET m == queue[i].msg   p == Sender[queue[i].msg]
         IN  /\ history' \in [Phones -> Seq(Turn)]
             /\ Grows(history[p], history'[p], [role |-> role, msg |-> m])
             /\ \A q \in Phones : q # p => history'[q] = history[q]
<1> DEFINE m == queue[i].msg   p == Sender[queue[i].msg]
           e == [role |-> role, msg |-> m]
<1>1. m \in Msgs /\ p \in Phones /\ e \in Turn /\ history \in [Phones -> Seq(Turn)]
  BY QueueType DEF TypeOK, Turn
<1>2. history' = [history EXCEPT ![p] = Append(history[p], e)]
  BY DEF Store
<1>3. Append(history[p], e) \in Seq(Turn) /\ Grows(history[p], Append(history[p], e), e)
  BY <1>1, AppendGrows
<1> QED
  BY <1>1, <1>2, <1>3

LEMMA SendAppends ==
  ASSUME TypeOK, NEW i \in DOMAIN queue, NEW word \in {"answer", "fallback"}, Send(i, word)
  PROVE  LET m == queue[i].msg   p == Sender[queue[i].msg]
         IN  /\ said' \in [Phones -> Seq(Reply)]
             /\ Grows(said[p], said'[p], [word |-> word, msg |-> m])
             /\ \A q \in Phones : q # p => said'[q] = said[q]
<1> DEFINE m == queue[i].msg   p == Sender[queue[i].msg]
           e == [word |-> word, msg |-> m]
<1>1. m \in Msgs /\ p \in Phones /\ e \in Reply /\ said \in [Phones -> Seq(Reply)]
  BY QueueType DEF TypeOK, Reply
<1>2. said' = [said EXCEPT ![p] = Append(said[p], e)]
  BY DEF Send
<1>3. Append(said[p], e) \in Seq(Reply) /\ Grows(said[p], Append(said[p], e), e)
  BY <1>1, AppendGrows
<1> QED
  BY <1>1, <1>2, <1>3

LEMMA WebhookTypes ==
  ASSUME TypeOK, WebhookStep
  PROVE  /\ hook' \in [Hooks -> [batch : Batches, next : Nat \ {0}, retry : BOOLEAN]
                              \cup {NoPost}]
         /\ posts' \in [Batches -> 0 .. MaxPosts]
         /\ acked' \subseteq Batches
         /\ session' \in [Phones -> Nat]
         /\ dedup' \subseteq Msgs
<1> DEFINE H == [batch : Batches, next : Nat \ {0}, retry : BOOLEAN] \cup {NoPost}
<1>1. PICK h \in Hooks : Webhook(h) \/ LosePost(h)
  BY DEF WebhookStep
<1>2. hook \in [Hooks -> H] /\ hook[h] \in H /\ posts \in [Batches -> 0 .. MaxPosts]
      /\ acked \subseteq Batches /\ session \in [Phones -> Nat] /\ dedup \subseteq Msgs
  BY DEF TypeOK
<1>3. ASSUME NEW r \in BOOLEAN, Advance(h, r), hook[h] # NoPost
      PROVE  hook' \in [Hooks -> H]
  <2> DEFINE b == hook[h].batch   n == hook[h].next   t == hook[h].retry
  <2>1. hook[h] = [batch |-> b, next |-> n, retry |-> t]
        /\ b \in Batches /\ n \in Nat \ {0} /\ t \in BOOLEAN
    BY <1>2, <1>3
  <2>2. [hook[h] EXCEPT !.next = n + 1] = [batch |-> b, next |-> n + 1, retry |-> t]
    BY <2>1
  <2> DEFINE k1 == [hook EXCEPT ![h].next = n + 1]
  <2>3. k1 = [hook EXCEPT ![h] = [batch |-> b, next |-> n + 1, retry |-> t]]
    BY <2>2
  <2>4. hook' = [k1 EXCEPT ![h].retry = t \/ r]
    BY <1>2, <1>3 DEF Advance
  <2>5. k1[h] = [batch |-> b, next |-> n + 1, retry |-> t] /\ k1 \in [Hooks -> H]
    <3> HIDE DEF k1, b, n, t
    <3>1. [batch |-> b, next |-> n + 1, retry |-> t] \in H
      BY <2>1
    <3> HIDE DEF H
    <3> QED
      BY <1>2, <2>3, <3>1
  <2>6. [k1[h] EXCEPT !.retry = t \/ r] = [batch |-> b, next |-> n + 1, retry |-> t \/ r]
    <3> HIDE DEF k1
    <3> QED
      BY <2>5
  <2> HIDE DEF k1, b, n, t
  <2>7. hook' = [k1 EXCEPT ![h] = [batch |-> b, next |-> n + 1, retry |-> t \/ r]]
    BY <2>4, <2>6
  <2>8. [batch |-> b, next |-> n + 1, retry |-> t \/ r] \in H
    BY <2>1
  <2> HIDE DEF H
  <2> QED
    BY <2>5, <2>7, <2>8
<1>4. CASE \E b \in Batches : Post(h, b)
  BY <1>2, <1>4, BoundsAssumption DEF Post
<1>5. CASE HandleUndated(h)
  <2>1. hook[h] # NoPost
    BY <1>5, EmptySeq DEF HandleUndated, NoPost
  <2> QED
    BY <1>2, <1>3, <1>5, <2>1 DEF HandleUndated
<1>6. CASE Handle(h)
  <2> DEFINE m == hook[h].batch[hook[h].next]
  <2>1. m \in Msgs /\ Sender[m] \in Phones /\ SentAt[m] \in Nat
    BY <1>6, PostedMessages, MessagesAssumption DEF Handle
  <2>2. hook' \in [Hooks -> H]
    <3>1. hook[h] # NoPost
      BY <1>6, EmptySeq DEF Handle, NoPost
    <3> QED
      BY <1>3, <1>6, <3>1 DEF Handle
  <2>3. session' \in [Phones -> Nat]
    BY <1>2, <1>6, <2>1 DEF Handle, RecordInbound
  <2>4. dedup' \subseteq Msgs
    BY <1>2, <1>6, <2>1 DEF Handle, Enqueue
  <2> QED
    BY <1>2, <1>6, <2>2, <2>3, <2>4 DEF Handle
<1>7. CASE AnswerMeta(h) \/ LosePost(h)
  <2>1. NoPost \in H /\ hook[h].batch \in Batches
    BY <1>2, <1>7 DEF AnswerMeta, LosePost
  <2>2. hook' = [hook EXCEPT ![h] = NoPost]
    BY <1>7 DEF AnswerMeta, LosePost
  <2>3. hook' \in [Hooks -> H]
    BY <1>2, <2>1, <2>2
  <2>4. acked' \subseteq Batches
    BY <1>2, <1>7, <2>1 DEF AnswerMeta, LosePost
  <2> QED
    BY <1>2, <1>7, <2>3, <2>4 DEF AnswerMeta, LosePost
<1> QED
  BY <1>1, <1>4, <1>5, <1>6, <1>7 DEF Webhook

LEMMA TypeNext ==
  ASSUME TypeOK, [Next]_vars
  PROVE  TypeOK'
<1>1. /\ hook' \in [Hooks -> [batch : Batches, next : Nat \ {0}, retry : BOOLEAN]
                             \cup {NoPost}]
      /\ posts' \in [Batches -> 0 .. MaxPosts] /\ acked' \subseteq Batches
      /\ session' \in [Phones -> Nat]
  <2>1. CASE WebhookStep
    BY <2>1, WebhookTypes
  <2>2. CASE UNCHANGED webhook
    BY <2>2 DEF webhook, TypeOK
  <2> QED
    BY <2>1, <2>2, NextKinds
<1> DEFINE Kept ==
      /\ dedup' \subseteq Msgs /\ queue' \in Seq(Entry) /\ dlq' \subseteq Msgs
      /\ mark' \in [Msgs -> MarkStates] /\ history' \in [Phones -> Seq(Turn)]
      /\ said' \in [Phones -> Seq(Reply)] /\ writes' \in [Msgs -> Nat]
<1>2. Kept
  <2>1. /\ dedup \subseteq Msgs /\ queue \in Seq(Entry) /\ dlq \subseteq Msgs
        /\ mark \in [Msgs -> MarkStates] /\ history \in [Phones -> Seq(Turn)]
        /\ said \in [Phones -> Seq(Reply)] /\ writes \in [Msgs -> Nat]
    BY DEF TypeOK, Entry, MarkStates, Turn, Reply
  <2>2. CASE QuietStep
    BY <2>1, <2>2 DEF QuietStep
  <2>3. CASE \E m \in Msgs : PublishStep(m)
    BY <2>1, <2>3 DEF PublishStep, Joins, turn
  <2>4. ASSUME NEW i \in DOMAIN queue, ReceiveStep(i)
        PROVE  Kept
    BY <2>1, <2>4 DEF ReceiveStep, Moves, turn
  <2>5. ASSUME NEW i \in DOMAIN queue, RedriveStep(i) \/ DeleteStep(i)
        PROVE  Kept
    BY <2>1, <2>5, QueueType DEF RedriveStep, DeleteStep, Leaves, turn
  <2>6. ASSUME NEW i \in DOMAIN queue, NEW s \in Steps, TurnStep(i, s)
        PROVE  Kept
    <3>1. queue' \in Seq(Entry) /\ UNCHANGED <<dedup, dlq>>
      BY <2>6 DEF TurnStep, Moves
    <3>2. history' \in [Phones -> Seq(Turn)]
      BY <2>1, <2>6, StoreAppends DEF TurnStep
    <3>3. said' \in [Phones -> Seq(Reply)]
      BY <2>1, <2>6, SendAppends DEF TurnStep
    <3>4. mark' \in [Msgs -> MarkStates]
      BY <2>1, <2>6 DEF TurnStep, Written, MarkStates
    <3>5. writes' \in [Msgs -> Nat]
      <4>1. writes' = writes \/ writes' = [writes EXCEPT ![queue[i].msg] = @ + 1]
        BY <2>6 DEF TurnStep
      <4> QED
        BY <2>1, <4>1
    <3> QED
      BY <2>1, <3>1, <3>2, <3>3, <3>4, <3>5
  <2> HIDE DEF Kept
  <2> QED
    BY <2>2, <2>3, <2>4, <2>5, <2>6, NextKinds DEF StepKinds, QueueStep
<1> QED
  BY <1>1, <1>2 DEF TypeOK, Entry, MarkStates, Turn, Reply

-----------------------------------------------------------------------------
(* What was said stays said, and what is accounted for stays so.           *)

(* w was said about m, in the replies f.                                   *)
SaidIn(f, w, m) == \E k \in DOMAIN f[Sender[m]] : f[Sender[m]][k] = [word |-> w, msg |-> m]

LEMMA AnsweredMeans ==
  ASSUME NEW m \in Msgs
  PROVE  /\ TypeOK => (Answered(m) <=> SaidIn(said, "answer", m))
         /\ TypeOK' => (Answered(m)' <=> SaidIn(said', "answer", m))
<1>1. Sender[m] \in Phones
  BY MessagesAssumption
<1>2. ASSUME TypeOK
      PROVE  Answered(m) <=> SaidIn(said, "answer", m)
  <2>1. said[Sender[m]] \in Seq(Reply)
    BY <1>1, <1>2 DEF TypeOK, Reply
  <2>2. Answered(m) <=> Cardinality(SaidAt(said[Sender[m]], "answer", m)) > 0
    BY DEF Answered, Times, SaidAt
  <2> QED
    BY <2>1, <2>2, CountSaid DEF SaidIn
<1>3. ASSUME TypeOK'
      PROVE  Answered(m)' <=> SaidIn(said', "answer", m)
  <2>1. said'[Sender[m]] \in Seq(Reply)
    BY <1>1, <1>3 DEF TypeOK, Reply
  <2>2. Answered(m)' <=> Cardinality(SaidAt(said'[Sender[m]], "answer", m)) > 0
    BY DEF Answered, Times, SaidAt
  <2> QED
    BY <2>1, <2>2, CountSaid DEF SaidIn
<1> QED
  BY <1>2, <1>3

(* The replies of a step: none, or one more to the sender of entry i.      *)
LEMMA NextSaid ==
  ASSUME TypeOK, [Next]_vars
  PROVE  \/ UNCHANGED said
         \/ \E i \in DOMAIN queue : \E s \in Steps :
              /\ TurnStep(i, s)
              /\ \/ queue[i].step = "reply" /\ Send(i, "answer")
                 \/ queue[i].step = "sorry" /\ Send(i, "fallback")
<1>1. CASE QuietStep \/ \E m \in Msgs : PublishStep(m)
  BY <1>1 DEF QuietStep, PublishStep, turn
<1>2. CASE \E i \in DOMAIN queue : ReceiveStep(i) \/ RedriveStep(i) \/ DeleteStep(i)
  BY <1>2 DEF ReceiveStep, RedriveStep, DeleteStep, turn
<1>3. ASSUME NEW i \in DOMAIN queue, NEW s \in Steps, TurnStep(i, s)
      PROVE  \/ UNCHANGED said
             \/ queue[i].step = "reply" /\ Send(i, "answer")
             \/ queue[i].step = "sorry" /\ Send(i, "fallback")
  BY <1>3 DEF TurnStep
<1> QED
  BY <1>1, <1>2, <1>3, NextKinds DEF StepKinds, QueueStep

LEMMA SaidStays ==
  ASSUME TypeOK, [Next]_vars, NEW p \in Phones, NEW k \in DOMAIN said[p]
  PROVE  k \in DOMAIN said'[p] /\ said'[p][k] = said[p][k]
<1>1. said[p] \in Seq(Reply) /\ TypeOK'
  BY TypeNext DEF TypeOK, Reply
<1>2. said'[p] \in Seq(Reply)
  BY <1>1 DEF TypeOK, Reply
<1>3. /\ DOMAIN said[p] = 1 .. Len(said[p]) /\ Len(said[p]) \in Nat
      /\ DOMAIN said'[p] = 1 .. Len(said'[p])
  BY <1>1, <1>2, LenProperties
<1>4. CASE UNCHANGED said
  BY <1>4
<1>5. ASSUME NEW i \in DOMAIN queue, NEW w \in {"answer", "fallback"}, Send(i, w)
      PROVE  k \in DOMAIN said'[p] /\ said'[p][k] = said[p][k]
  <2>1. CASE p = Sender[queue[i].msg]
    <3>1. Len(said'[p]) = Len(said[p]) + 1 /\ said'[p][k] = said[p][k]
      BY <1>5, <2>1, SendAppends DEF Grows
    <3> QED
      BY <1>3, <3>1
  <2>2. CASE p # Sender[queue[i].msg]
    BY <1>5, <2>2, SendAppends
  <2> QED
    BY <2>1, <2>2
<1> QED
  BY <1>4, <1>5, NextSaid

LEMMA AnsweredStays ==
  ASSUME TypeOK, [Next]_vars, NEW m \in Msgs, Answered(m)
  PROVE  Answered(m)'
BY SaidStays, TypeNext, AnsweredMeans, MessagesAssumption DEF SaidIn

LEMMA SendAnswers ==
  ASSUME TypeOK, [Next]_vars, NEW i \in DOMAIN queue, Send(i, "answer"),
         NEW m \in Msgs, m = queue[i].msg
  PROVE  Answered(m)'
<1> DEFINE p == Sender[m]
<1>1. p \in Phones /\ TypeOK' /\ said[p] \in Seq(Reply)
  BY QueueType, TypeNext DEF TypeOK, Reply
<1>2. said'[p] \in Seq(Reply)
  BY <1>1 DEF TypeOK, Reply
<1>3. Len(said[p]) \in Nat /\ DOMAIN said'[p] = 1 .. Len(said'[p])
  BY <1>1, <1>2, LenProperties
<1>4. /\ Len(said'[p]) = Len(said[p]) + 1
      /\ said'[p][Len(said[p]) + 1] = [word |-> "answer", msg |-> m]
  BY SendAppends DEF Grows
<1>5. SaidIn(said', "answer", m)
  BY <1>3, <1>4 DEF SaidIn
<1> QED
  BY <1>1, <1>5, AnsweredMeans

-----------------------------------------------------------------------------
(* One phone, one turn at a time.                                          *)

LEMMA FirstNext ==
  ASSUME TypeOK, FirstInFlight, [Next]_vars
  PROVE  FirstInFlight'
<1> SUFFICES ASSUME NEW j \in DOMAIN queue', queue'[j].step # "wait", NEW i \in 1 .. j - 1
             PROVE  Sender[queue'[i].msg] # Sender[queue'[j].msg]
  BY DEF FirstInFlight
<1>1. DOMAIN queue = 1 .. Len(queue) /\ Len(queue) \in Nat
  BY QueueType
<1>2. queue' \in Seq(Entry) /\ DOMAIN queue' = 1 .. Len(queue')
  BY TypeNext, LenProperties DEF TypeOK, Entry
<1>3. CASE QuietStep
  BY <1>3 DEF QuietStep, FirstInFlight
<1>4. ASSUME NEW m \in Msgs, Joins(m)
      PROVE  Sender[queue'[i].msg] # Sender[queue'[j].msg]
  <2>1. j # Len(queue) + 1
    BY <1>4 DEF Joins, Fresh
  <2>2. j \in DOMAIN queue /\ i \in DOMAIN queue
    BY <1>1, <1>2, <1>4, <2>1 DEF Joins
  <2> QED
    BY <1>4, <2>2 DEF Joins, FirstInFlight
<1>5. ASSUME NEW k \in DOMAIN queue, NEW n, NEW s, Moves(k, n, s),
             s # "wait" => queue[k].step # "wait" \/ Receivable(k)
      PROVE  Sender[queue'[i].msg] # Sender[queue'[j].msg]
  <2>1. j \in DOMAIN queue /\ i \in DOMAIN queue
    BY <1>1, <1>2, <1>5 DEF Moves
  <2>2. queue'[i].msg = queue[i].msg /\ queue'[j].msg = queue[j].msg
    BY <1>5, <2>1 DEF Moves
  <2>3. CASE queue[j].step # "wait"
    BY <2>1, <2>2, <2>3 DEF FirstInFlight
  <2>4. CASE queue[j].step = "wait"
    <3>1. j = k /\ Receivable(k)
      BY <1>5, <2>1, <2>4 DEF Moves
    <3> QED
      BY <2>2, <3>1 DEF Receivable, MessageGroupId
  <2> QED
    BY <2>3, <2>4
<1>6. ASSUME NEW k \in DOMAIN queue, Leaves(k)
      PROVE  Sender[queue'[i].msg] # Sender[queue'[j].msg]
  <2> DEFINE src(n) == IF n < k THEN n ELSE n + 1
  <2>1. j \in 1 .. Len(queue) - 1 /\ i \in 1 .. Len(queue) - 1
    BY <1>1, <1>2, <1>6 DEF Leaves
  <2>2. queue'[j] = queue[src(j)] /\ queue'[i] = queue[src(i)]
    BY <1>6, <2>1 DEF Leaves
  <2>3. src(j) \in DOMAIN queue /\ src(i) \in 1 .. src(j) - 1
    BY <1>1, <2>1
  <2> HIDE DEF src
  <2> QED
    BY <2>2, <2>3 DEF FirstInFlight
<1>7. ASSUME NEW k \in DOMAIN queue, NEW s \in Steps, TurnStep(k, s)
      PROVE  Moves(k, queue[k].receives, s) /\ queue[k].step # "wait"
  BY <1>7 DEF TurnStep, Paths
<1> QED
  BY <1>3, <1>4, <1>5, <1>6, <1>7, NextKinds
     DEF StepKinds, QueueStep, PublishStep, ReceiveStep, RedriveStep, DeleteStep

-----------------------------------------------------------------------------
(* The mark means that the message was answered.                           *)

(* An entry of the next state: a new one, one that stayed, the one that    *)
(* moved, or one that moved up behind an entry that left.                  *)
LEMMA NextEntries ==
  ASSUME TypeOK, [Next]_vars, NEW j \in DOMAIN queue'
  PROVE  \/ \E k \in DOMAIN queue : queue'[j] = queue[k]
         \/ \E m \in Msgs : PublishStep(m) /\ queue'[j] = Fresh(m)
         \/ /\ j \in DOMAIN queue
            /\ \/ ReceiveStep(j) \/ \E s \in Steps : TurnStep(j, s)
            /\ queue'[j].msg = queue[j].msg
<1>1. DOMAIN queue = 1 .. Len(queue) /\ Len(queue) \in Nat
  BY QueueType
<1>2. queue' \in Seq(Entry) /\ DOMAIN queue' = 1 .. Len(queue')
  BY TypeNext, LenProperties DEF TypeOK, Entry
<1>3. CASE QuietStep
  BY <1>3 DEF QuietStep
<1>4. ASSUME NEW m \in Msgs, PublishStep(m)
      PROVE  (\E k \in DOMAIN queue : queue'[j] = queue[k])
             \/ (PublishStep(m) /\ queue'[j] = Fresh(m))
  <2>1. j = Len(queue) + 1 \/ j \in DOMAIN queue
    BY <1>1, <1>2, <1>4 DEF PublishStep, Joins
  <2> QED
    BY <1>4, <2>1 DEF PublishStep, Joins
<1>5. ASSUME NEW k \in DOMAIN queue, NEW n, NEW s, Moves(k, n, s), j # k
      PROVE  \E l \in DOMAIN queue : queue'[j] = queue[l]
  <2>1. j \in DOMAIN queue
    BY <1>1, <1>2, <1>5 DEF Moves
  <2> QED
    BY <1>5, <2>1 DEF Moves
<1>6. ASSUME NEW k \in DOMAIN queue, Leaves(k)
      PROVE  \E l \in DOMAIN queue : queue'[j] = queue[l]
  <2>1. j \in 1 .. Len(queue) - 1
    BY <1>1, <1>2, <1>6 DEF Leaves
  <2>2. /\ queue'[j] = queue[IF j < k THEN j ELSE j + 1]
        /\ (IF j < k THEN j ELSE j + 1) \in DOMAIN queue
    BY <1>1, <1>6, <2>1 DEF Leaves
  <2> QED
    BY <2>2
<1>7. ASSUME NEW k \in DOMAIN queue, ReceiveStep(k) \/ \E s \in Steps : TurnStep(k, s)
      PROVE  (\E l \in DOMAIN queue : queue'[j] = queue[l])
             \/ (j = k /\ queue'[j].msg = queue[j].msg)
  <2>1. PICK n, s : Moves(k, n, s)
    BY <1>7 DEF ReceiveStep, TurnStep
  <2>2. CASE j = k
    BY <2>1, <2>2 DEF Moves
  <2> QED
    BY <1>5, <2>1, <2>2
<1>8. ASSUME NEW k \in DOMAIN queue, QueueStep(k)
      PROVE  \/ \E l \in DOMAIN queue : queue'[j] = queue[l]
             \/ /\ j = k /\ queue'[j].msg = queue[j].msg
                /\ ReceiveStep(k) \/ \E s \in Steps : TurnStep(k, s)
  BY <1>6, <1>7, <1>8 DEF QueueStep, RedriveStep, DeleteStep
<1> QED
  BY <1>3, <1>4, <1>8, NextKinds DEF StepKinds

LEMMA MarkNext ==
  ASSUME TypeOK, FirstInFlight, DoneIsAnswered, MarkMeansAnswered, [Next]_vars
  PROVE  DoneIsAnswered' /\ MarkMeansAnswered'
<1>1. ASSUME NEW j \in DOMAIN queue', queue'[j].step \in {"mark", "delete"}, NEW m \in Msgs,
             queue'[j].msg = m
      PROVE  Answered(m)'
  <2>1. CASE \E k \in DOMAIN queue : queue'[j] = queue[k]
    BY <1>1, <2>1, AnsweredStays DEF DoneIsAnswered
  <2>2. CASE \E n \in Msgs : PublishStep(n) /\ queue'[j] = Fresh(n)
    BY <1>1, <2>2 DEF Fresh
  <2>3. CASE j \in DOMAIN queue /\ ReceiveStep(j)
    BY <1>1, <2>3 DEF ReceiveStep, Moves
  <2>4. ASSUME j \in DOMAIN queue, NEW s \in Steps, TurnStep(j, s), queue[j].msg = m
        PROVE  Answered(m)'
    <3>1. queue'[j].step = s
      BY <2>4 DEF TurnStep, Moves
    <3>2. \/ <<queue[j].step, s>> = <<"reply", "mark">>
          \/ <<queue[j].step, s>> = <<"check", "delete">>
          \/ <<queue[j].step, s>> = <<"mark", "delete">>
      BY <1>1, <2>4, <3>1 DEF TurnStep, Paths
    <3>3. CASE <<queue[j].step, s>> = <<"reply", "mark">>
      BY <2>4, <3>3, SendAnswers DEF TurnStep
    <3>4. CASE <<queue[j].step, s>> = <<"check", "delete">>
      <4>1. mark[m] # "none"
        BY <2>4, <3>4 DEF TurnStep, Marked
      <4> QED
        BY <4>1, AnsweredStays DEF MarkMeansAnswered
    <3>5. CASE <<queue[j].step, s>> = <<"mark", "delete">>
      BY <2>4, <3>5, AnsweredStays DEF DoneIsAnswered
    <3> QED
      BY <3>2, <3>3, <3>4, <3>5
  <2> QED
    BY <1>1, <2>1, <2>2, <2>3, <2>4, NextEntries
<1>2. DoneIsAnswered'
  <2>1. \A j \in DOMAIN queue' : queue'[j].msg \in Msgs
    <3>1. queue' \in Seq(Entry)
      BY TypeNext DEF TypeOK, Entry
    <3>2. \A j \in DOMAIN queue' : queue'[j] \in Entry
      BY <3>1, LenProperties, ElementOfSeq
    <3> QED
      BY <3>2 DEF Entry
  <2> QED
    BY <1>1, <2>1 DEF DoneIsAnswered
<1>3. ASSUME NEW m \in Msgs, mark'[m] # "none"
      PROVE  Answered(m)'
  <2>1. CASE mark[m] # "none"
    BY <2>1, AnsweredStays DEF MarkMeansAnswered
  <2>2. CASE mark[m] = "none"
    <3>1. PICK i \in DOMAIN queue, s \in Steps :
            TurnStep(i, s) /\ queue[i].step = "mark" /\ queue[i].msg = m
      <4>1. ~QuietStep /\ ~UNCHANGED mark
        BY <1>3, <2>2 DEF QuietStep
      <4>2. PICK i \in DOMAIN queue, s \in Steps : TurnStep(i, s)
        BY <4>1, NextKinds
           DEF StepKinds, QueueStep, PublishStep, ReceiveStep, RedriveStep, DeleteStep, turn
      <4>3. queue[i].step = "mark"
            /\ mark' = [mark EXCEPT ![queue[i].msg] = IF @ = "none" THEN Written ELSE @]
        BY <4>1, <4>2 DEF TurnStep
      <4>4. queue[i].msg = m
        BY <1>3, <2>2, <4>3 DEF TypeOK
      <4> QED
        BY <4>2, <4>3, <4>4
    <3> QED
      BY <3>1, AnsweredStays DEF DoneIsAnswered
  <2> QED
    BY <2>1, <2>2
<1> QED
  BY <1>2, <1>3 DEF MarkMeansAnswered

-----------------------------------------------------------------------------
(* The stored conversation.                                                *)

Asked(s, m) == s # <<>> /\ s[Len(s)] = [role |-> "user", msg |-> m]

LEMMA OneInFlight ==
  ASSUME TypeOK, FirstInFlight, NEW i \in DOMAIN queue, NEW j \in DOMAIN queue,
         queue[i].step # "wait", queue[j].step # "wait",
         Sender[queue[i].msg] = Sender[queue[j].msg]
  PROVE  i = j
<1>1. i \in Nat /\ j \in Nat /\ i >= 1 /\ j >= 1
  BY QueueType
<1>2. ~(i < j)
  BY <1>1 DEF FirstInFlight
<1>3. ~(j < i)
  BY <1>1 DEF FirstInFlight
<1> QED
  BY <1>1, <1>2, <1>3

(* Only the one turn of a phone that is storing its exchange touches the   *)
(* phone's conversation.                                                   *)
LEMMA NextHistory ==
  ASSUME TypeOK, [Next]_vars
  PROVE  \/ UNCHANGED history
         \/ \E i \in DOMAIN queue : \E s \in Steps :
              /\ TurnStep(i, s) /\ queue[i].step \in {"user", "assistant"}
              /\ Store(i, queue[i].step)
<1>1. CASE QuietStep \/ \E m \in Msgs : PublishStep(m)
  BY <1>1 DEF QuietStep, PublishStep, turn
<1>2. CASE \E i \in DOMAIN queue : ReceiveStep(i) \/ RedriveStep(i) \/ DeleteStep(i)
  BY <1>2 DEF ReceiveStep, RedriveStep, DeleteStep, turn
<1>3. ASSUME NEW i \in DOMAIN queue, NEW s \in Steps, TurnStep(i, s)
      PROVE  \/ UNCHANGED history
             \/ queue[i].step \in {"user", "assistant"} /\ Store(i, queue[i].step)
  BY <1>3 DEF TurnStep
<1> QED
  BY <1>1, <1>2, <1>3, NextKinds DEF StepKinds, QueueStep

LEMMA HistoryNext ==
  ASSUME TypeOK, FirstInFlight, QuestionIsStored, AnswerFollowsQuestion, [Next]_vars
  PROVE  QuestionIsStored' /\ AnswerFollowsQuestion'
<1>1. TypeOK' /\ history \in [Phones -> Seq(Turn)] /\ history' \in [Phones -> Seq(Turn)]
  BY TypeNext DEF TypeOK, Turn
<1>2. ASSUME NEW p \in Phones
      PROVE  /\ Len(history[p]) \in Nat /\ DOMAIN history[p] = 1 .. Len(history[p])
             /\ Len(history'[p]) \in Nat /\ DOMAIN history'[p] = 1 .. Len(history'[p])
             /\ history[p] \in Seq(Turn) /\ history'[p] \in Seq(Turn)
  BY <1>1, LenProperties
<1>3. ASSUME NEW m \in Msgs, NEW j \in DOMAIN queue,
             queue[j].step = "assistant", queue[j].msg = m
      PROVE  Asked(history[Sender[m]], m)
  BY <1>3 DEF QuestionIsStored, Asked
<1>4. ASSUME NEW j \in DOMAIN queue', queue'[j].step = "assistant", NEW m \in Msgs,
             queue'[j].msg = m
      PROVE  Asked(history'[Sender[m]], m)
  <2> DEFINE p == Sender[m]
  <2>1. p \in Phones
    BY MessagesAssumption
  <2>2. CASE \E k \in DOMAIN queue : queue'[j] = queue[k]
    <3>1. PICK k \in DOMAIN queue : queue'[j] = queue[k]
      BY <2>2
    <3>2. Asked(history[p], m)
      BY <1>3, <1>4, <3>1
    <3>3. CASE history'[p] = history[p]
      BY <3>2, <3>3
    <3>4. CASE history'[p] # history[p]
      <4>1. PICK i \in DOMAIN queue, s \in Steps :
              TurnStep(i, s) /\ queue[i].step \in {"user", "assistant"}
              /\ Store(i, queue[i].step)
        BY <3>4, NextHistory
      <4>2. Sender[queue[i].msg] = p
        BY <2>1, <3>4, <4>1, StoreAppends
      <4>3. i = k
        BY <1>4, <3>1, <4>1, <4>2, OneInFlight
      <4>4. queue'[i].step = s /\ s \notin {"assistant"}
        BY <1>4, <3>1, <4>1, <4>3 DEF TurnStep, Moves, Paths
      <4>5. \A l \in DOMAIN queue : l # i => queue'[l] = queue[l]
        BY <4>1 DEF TurnStep, Moves
      <4>6. j \in DOMAIN queue /\ j # i
        <5>1. Len(queue') = Len(queue) /\ queue' \in Seq(Entry)
          BY <4>1 DEF TurnStep, Moves
        <5>2. DOMAIN queue' = DOMAIN queue
          BY <5>1, QueueType, LenProperties
        <5> QED
          BY <1>4, <4>4, <5>2
      <4>7. queue[j].step = "assistant" /\ queue[j].msg = m
        BY <1>4, <4>5, <4>6
      <4> QED
        BY <4>1, <4>2, <4>6, <4>7, OneInFlight
    <3> QED
      BY <3>3, <3>4
  <2>3. CASE \E n \in Msgs : PublishStep(n) /\ queue'[j] = Fresh(n)
    BY <1>4, <2>3 DEF Fresh
  <2>4. CASE j \in DOMAIN queue /\ ReceiveStep(j)
    BY <1>4, <2>4 DEF ReceiveStep, Moves
  <2>5. ASSUME j \in DOMAIN queue, NEW s \in Steps, TurnStep(j, s), queue[j].msg = m
        PROVE  Asked(history'[p], m)
    <3>1. queue'[j].step = s
      BY <2>5 DEF TurnStep, Moves
    <3>2. <<queue[j].step, s>> = <<"user", "assistant">>
      BY <1>4, <2>5, <3>1 DEF TurnStep, Paths
    <3>3. Store(j, "user")
      BY <2>5, <3>2 DEF TurnStep
    <3>4. Grows(history[p], history'[p], [role |-> "user", msg |-> m])
      BY <2>5, <3>3, StoreAppends
    <3>5. history'[p] # <<>> /\ history'[p][Len(history'[p])] = [role |-> "user", msg |-> m]
      BY <1>2, <2>1, <3>4, EmptySeq DEF Grows
    <3> QED
      BY <3>5 DEF Asked
  <2> QED
    BY <1>4, <2>2, <2>3, <2>4, <2>5, NextEntries
<1>5. QuestionIsStored'
  <2>1. \A j \in DOMAIN queue' : queue'[j].msg \in Msgs
    <3>1. queue' \in Seq(Entry)
      BY <1>1 DEF TypeOK, Entry
    <3>2. \A j \in DOMAIN queue' : queue'[j] \in Entry
      BY <3>1, LenProperties, ElementOfSeq
    <3> QED
      BY <3>2 DEF Entry
  <2> QED
    BY <1>4, <2>1 DEF QuestionIsStored, Asked
<1>6. ASSUME NEW p \in Phones, NEW k \in DOMAIN history'[p],
             history'[p][k].role = "assistant"
      PROVE  k > 1 /\ history'[p][k - 1] = [role |-> "user", msg |-> history'[p][k].msg]
  <2>1. CASE history'[p] = history[p]
    BY <1>6, <2>1 DEF AnswerFollowsQuestion
  <2>2. CASE history'[p] # history[p]
    <3>1. PICK i \in DOMAIN queue, s \in Steps :
            TurnStep(i, s) /\ queue[i].step \in {"user", "assistant"}
            /\ Store(i, queue[i].step)
      BY <2>2, NextHistory
    <3>2. Sender[queue[i].msg] = p
      BY <2>2, <3>1, StoreAppends
    <3> DEFINE n == Len(history[p])   m == queue[i].msg
    <3>3. Grows(history[p], history'[p], [role |-> queue[i].step, msg |-> m])
      BY <3>1, <3>2, StoreAppends
    <3>4. CASE k = n + 1
      <4>1. history'[p][k] = [role |-> queue[i].step, msg |-> m]
        BY <3>3, <3>4 DEF Grows
      <4>2. queue[i].step = "assistant"
        BY <1>6, <4>1
      <4>3. Asked(history[p], m)
        BY <1>3, <3>2, <4>2, QueueType
      <4>4. n \in 1 .. n /\ k > 1 /\ k - 1 = n
        BY <1>2, <3>4, <4>3, EmptySeq DEF Asked
      <4>5. history'[p][n] = history[p][n]
        BY <1>2, <3>3, <4>4 DEF Grows
      <4> QED
        BY <4>1, <4>3, <4>4, <4>5 DEF Asked
    <3>5. CASE k # n + 1
      <4>1. k \in DOMAIN history[p]
        BY <1>2, <3>3, <3>5 DEF Grows
      <4>2. history'[p][k] = history[p][k]
        BY <3>3, <4>1 DEF Grows
      <4>3. k > 1 /\ history[p][k - 1] = [role |-> "user", msg |-> history[p][k].msg]
        BY <1>6, <4>1, <4>2 DEF AnswerFollowsQuestion
      <4>4. k - 1 \in DOMAIN history[p]
        BY <1>2, <4>1, <4>3
      <4> QED
        BY <3>3, <4>2, <4>3, <4>4 DEF Grows
    <3> QED
      BY <3>4, <3>5
  <2> QED
    BY <2>1, <2>2
<1>7. AnswerFollowsQuestion'
  BY <1>6 DEF AnswerFollowsQuestion
<1> QED
  BY <1>5, <1>7

-----------------------------------------------------------------------------
(* A 200 means that no message of the batch is lost.                       *)

LEMMA AccountedStays ==
  ASSUME TypeOK, DoneIsAnswered, [Next]_vars, NEW m \in Msgs, Accounted(m)
  PROVE  Accounted(m)'
<1>1. DOMAIN queue = 1 .. Len(queue) /\ Len(queue) \in Nat
  BY QueueType
<1>2. queue' \in Seq(Entry) /\ DOMAIN queue' = 1 .. Len(queue')
  BY TypeNext, LenProperties DEF TypeOK, Entry
<1>3. CASE Answered(m)
  BY <1>3, AnsweredStays DEF Accounted
<1>4. CASE m \in dlq
  <2>1. dlq \subseteq dlq'
    BY NextKinds DEF StepKinds, QueueStep, QuietStep, PublishStep, ReceiveStep,
                     RedriveStep, DeleteStep, TurnStep
  <2> QED
    BY <1>4, <2>1 DEF Accounted
<1>5. CASE Queued(m)
  <2>1. PICK k \in DOMAIN queue : queue[k].msg = m
    BY <1>5 DEF Queued
  <2>2. ASSUME k \in DOMAIN queue', queue'[k].msg = m
        PROVE  Accounted(m)'
    BY <2>2 DEF Accounted, Queued
  <2>3. CASE QuietStep
    BY <2>1, <2>2, <2>3 DEF QuietStep
  <2>4. CASE \E n \in Msgs : PublishStep(n)
    BY <1>1, <1>2, <2>1, <2>2, <2>4 DEF PublishStep, Joins
  <2>5. ASSUME NEW i \in DOMAIN queue, NEW n, NEW s, Moves(i, n, s)
        PROVE  Accounted(m)'
    <3>1. k \in DOMAIN queue'
      BY <1>1, <1>2, <2>1, <2>5 DEF Moves
    <3>2. queue'[k].msg = m
      BY <2>1, <2>5 DEF Moves
    <3> QED
      BY <2>2, <3>1, <3>2
  <2>6. ASSUME NEW i \in DOMAIN queue, Leaves(i), i # k
        PROVE  Accounted(m)'
    <3> DEFINE l == IF k < i THEN k ELSE k - 1
    <3>1. l \in 1 .. Len(queue) - 1 /\ k = (IF l < i THEN l ELSE l + 1)
      BY <1>1, <2>1, <2>6
    <3>2. l \in DOMAIN queue' /\ queue'[l] = queue[k]
      BY <1>1, <1>2, <2>6, <3>1 DEF Leaves
    <3> QED
      BY <2>1, <3>2 DEF Accounted, Queued
  <2>7. CASE RedriveStep(k)
    BY <2>1, <2>7 DEF RedriveStep, Accounted
  <2>8. CASE DeleteStep(k)
    BY <2>1, <2>8, AnsweredStays DEF DeleteStep, DoneIsAnswered, Accounted
  <2>9. ASSUME NEW i \in DOMAIN queue, QueueStep(i)
        PROVE  Accounted(m)'
    BY <2>1, <2>5, <2>6, <2>7, <2>8, <2>9
       DEF QueueStep, ReceiveStep, RedriveStep, DeleteStep, TurnStep
  <2> QED
    BY <2>3, <2>4, <2>9, NextKinds DEF StepKinds
<1> QED
  BY <1>3, <1>4, <1>5 DEF Accounted

LEMMA JoinedIsQueued ==
  ASSUME TypeOK, NEW m \in Msgs, Joins(m)
  PROVE  Accounted(m)'
<1>1. Len(queue) + 1 \in DOMAIN queue'
  BY QueueType, LenProperties DEF Joins
<1> QED
  BY <1>1 DEF Joins, Fresh, Accounted, Queued

LEMMA DedupNext ==
  ASSUME TypeOK, DoneIsAnswered, DedupIsAccountedFor, [Next]_vars
  PROVE  DedupIsAccountedFor'
<1> SUFFICES ASSUME NEW m \in dedup' PROVE Accounted(m)'
  BY DEF DedupIsAccountedFor
<1>1. m \in Msgs
  BY TypeNext DEF TypeOK
<1>2. m \in dedup \/ PublishStep(m)
  BY NextKinds, QueueType DEF StepKinds, QueueStep, QuietStep, PublishStep, ReceiveStep,
                   RedriveStep, DeleteStep, TurnStep
<1> QED
  BY <1>1, <1>2, AccountedStays, JoinedIsQueued DEF DedupIsAccountedFor, PublishStep

LEMMA AdvanceFields ==
  ASSUME TypeOK, NEW h \in Hooks, NEW r \in BOOLEAN, Advance(h, r),
         hook[h].next \in DOMAIN hook[h].batch
  PROVE  /\ hook'[h].batch = hook[h].batch /\ hook'[h].next = hook[h].next + 1
         /\ hook'[h].retry = (hook[h].retry \/ r)
         /\ \A g \in Hooks : g # h => hook'[g] = hook[g]
<1> DEFINE H == [batch : Batches, next : Nat \ {0}, retry : BOOLEAN]
           b == hook[h].batch   n == hook[h].next   t == hook[h].retry
<1>1. hook \in [Hooks -> H \cup {NoPost}] /\ hook[h] # NoPost
  BY EmptySeq DEF TypeOK, NoPost
<1>2. hook[h] = [batch |-> b, next |-> n, retry |-> t]
  BY <1>1
<1> DEFINE k1 == [hook EXCEPT ![h].next = n + 1]
<1>3. k1[h] = [batch |-> b, next |-> n + 1, retry |-> t]
      /\ \A g \in Hooks : g # h => k1[g] = hook[g]
  <2>1. [hook[h] EXCEPT !.next = n + 1] = [batch |-> b, next |-> n + 1, retry |-> t]
    BY <1>2
  <2> HIDE DEF b, n, t, H
  <2> QED
    BY <1>1, <2>1
<1>4. DOMAIN k1 = Hooks /\ hook' = [k1 EXCEPT ![h].retry = t \/ r]
  BY <1>1 DEF Advance
<1>5. [k1[h] EXCEPT !.retry = t \/ r] = [batch |-> b, next |-> n + 1, retry |-> t \/ r]
  <2> HIDE DEF k1
  <2> QED
    BY <1>3
<1>6. hook'[h] = [batch |-> b, next |-> n + 1, retry |-> t \/ r]
      /\ \A g \in Hooks : g # h => hook'[g] = hook[g]
  <2> HIDE DEF k1, b, n, t
  <2> QED
    BY <1>3, <1>4, <1>5
<1> HIDE DEF b, n, t
<1>7. hook'[h].batch = b /\ hook'[h].next = n + 1 /\ hook'[h].retry = (t \/ r)
  BY <1>6
<1> QED
  BY <1>6, <1>7 DEF b, n, t

(* What a step does to an invocation h: nothing, a new POST, the next      *)
(* message of the batch, or the end.                                       *)
HookStep(h) ==
  \/ hook'[h] = hook[h]
  \/ hook'[h].next = 1
  \/ /\ hook[h].next \in DOMAIN hook[h].batch
     /\ hook'[h].batch = hook[h].batch /\ hook'[h].next = hook[h].next + 1
     /\ \/ HandleUndated(h) /\ hook'[h].retry = hook[h].retry
        \/ /\ Handle(h)
           /\ ~hook'[h].retry => ~hook[h].retry /\ Enqueue(hook[h].batch[hook[h].next])
  \/ hook'[h] = NoPost

LEMMA HookSteps ==
  ASSUME TypeOK, [Next]_vars, NEW h \in Hooks
  PROVE  HookStep(h)
<1>1. CASE UNCHANGED webhook
  BY <1>1 DEF webhook, HookStep
<1>2. ASSUME NEW g \in Hooks, Webhook(g) \/ LosePost(g)
      PROVE  HookStep(h)
  <2>1. hook[h].retry \in BOOLEAN /\ hook[g].retry \in BOOLEAN
        /\ DOMAIN hook = Hooks
    BY PostedMessages DEF TypeOK
  <2>2. CASE \E b \in Batches : Post(g, b)
    <3>1. PICK b \in Batches : Post(g, b)
      BY <2>2
    <3>2. hook' = [hook EXCEPT ![g] = [batch |-> b, next |-> 1, retry |-> FALSE]]
      BY <3>1 DEF Post
    <3>3. CASE g = h
      <4>1. hook'[h] = [batch |-> b, next |-> 1, retry |-> FALSE]
        BY <2>1, <3>2, <3>3
      <4> QED
        BY <4>1 DEF HookStep
    <3> QED
      BY <2>1, <3>2, <3>3 DEF HookStep
  <2>3. CASE HandleUndated(g)
    <3>1. Advance(g, FALSE) /\ hook[g].next \in DOMAIN hook[g].batch
      BY <2>3 DEF HandleUndated
    <3> QED
      BY <2>1, <2>3, <3>1, AdvanceFields DEF HookStep
  <2>4. CASE Handle(g)
    <3>1. hook[g].next \in DOMAIN hook[g].batch
      BY <2>4 DEF Handle
    <3>2. \/ Enqueue(hook[g].batch[hook[g].next]) /\ Advance(g, FALSE)
          \/ Advance(g, TRUE)
      BY <2>4 DEF Handle
    <3> QED
      BY <2>1, <2>4, <3>1, <3>2, AdvanceFields DEF HookStep
  <2>5. CASE AnswerMeta(g) \/ LosePost(g)
    <3>1. hook' = [hook EXCEPT ![g] = NoPost]
      BY <2>5 DEF AnswerMeta, LosePost
    <3> QED
      BY <2>1, <3>1 DEF HookStep
  <2> QED
    BY <1>2, <2>2, <2>3, <2>4, <2>5 DEF Webhook
<1> QED
  BY <1>1, <1>2, NextKinds DEF WebhookStep

LEMMA AckedSteps ==
  ASSUME TypeOK, [Next]_vars, NEW b \in acked'
  PROVE  b \in acked \/ \E h \in Hooks : /\ hook[h].batch = b /\ ~hook[h].retry
                                         /\ hook[h].next > Len(hook[h].batch)
BY NextKinds
   DEF webhook, WebhookStep, Webhook, LosePost, Post, HandleUndated, Handle, AnswerMeta

LEMMA PostNext ==
  ASSUME TypeOK, DoneIsAnswered, NothingIsDropped, [Next]_vars
  PROVE  PostIsAccountedFor' /\ AckedIsAccountedFor'
<1>1. ASSUME NEW h \in Hooks, ~hook'[h].retry, NEW i \in DOMAIN hook'[h].batch,
             i < hook'[h].next, NEW m, Deliverable(m), m = hook'[h].batch[i]
      PROVE  Accounted(m)'
  <2>1. hook'[h].batch \in Seq(Msgs) \cup {<<>>}
    <3>1. hook'[h] \in [batch : Batches, next : Nat \ {0}, retry : BOOLEAN] \cup {NoPost}
      BY TypeNext DEF TypeOK
    <3>2. CASE hook'[h] = NoPost
      BY <3>2 DEF NoPost
    <3>3. CASE hook'[h] \in [batch : Batches, next : Nat \ {0}, retry : BOOLEAN]
      BY <3>3, MessagesAssumption
    <3> QED
      BY <3>1, <3>2, <3>3
  <2>2. i \in Nat /\ i >= 1 /\ hook[h].next \in Nat
    <3>1. hook'[h].batch \in Seq(Msgs)
      BY <2>1, EmptySeq
    <3>2. DOMAIN hook'[h].batch = 1 .. Len(hook'[h].batch)
      BY <3>1, LenProperties
    <3> QED
      BY <3>2, PostedMessages
  <2>3. ASSUME i \in DOMAIN hook[h].batch, i < hook[h].next, ~hook[h].retry,
               m = hook[h].batch[i]
        PROVE  Accounted(m)'
    <3>1. m \in Msgs
      BY <2>3, PostedMessages
    <3>2. Accounted(m)
      BY <1>1, <2>3 DEF NothingIsDropped, PostIsAccountedFor
    <3> QED
      BY <3>1, <3>2, AccountedStays
  <2>4. CASE hook'[h] = hook[h]
    BY <1>1, <2>3, <2>4
  <2>5. CASE hook'[h].next = 1
    BY <1>1, <2>2, <2>5
  <2>6. CASE hook'[h] = NoPost
    BY <1>1, <2>6 DEF NoPost
  <2>7. CASE /\ hook[h].next \in DOMAIN hook[h].batch
             /\ hook'[h].batch = hook[h].batch /\ hook'[h].next = hook[h].next + 1
             /\ HandleUndated(h) /\ hook'[h].retry = hook[h].retry
    <3>1. i # hook[h].next
      BY <1>1, <2>7 DEF HandleUndated, Deliverable
    <3> QED
      BY <1>1, <2>2, <2>3, <2>7, <3>1
  <2>8. CASE /\ hook[h].next \in DOMAIN hook[h].batch
             /\ hook'[h].batch = hook[h].batch /\ hook'[h].next = hook[h].next + 1
             /\ ~hook[h].retry /\ Enqueue(hook[h].batch[hook[h].next])
    <3>1. CASE i = hook[h].next
      <4>1. m \in Msgs /\ Enqueue(m)
        BY <1>1, <2>8, <3>1, PostedMessages
      <4>2. CASE m \in dedup
        BY <4>1, <4>2, AccountedStays DEF NothingIsDropped, DedupIsAccountedFor
      <4>3. CASE m \notin dedup
        BY <4>1, <4>3, JoinsQueue, JoinedIsQueued DEF Enqueue, Fresh
      <4> QED
        BY <4>2, <4>3
    <3>2. CASE i # hook[h].next
      BY <1>1, <2>2, <2>3, <2>8, <3>2
    <3> QED
      BY <3>1, <3>2
  <2> QED
    BY <1>1, <2>4, <2>5, <2>6, <2>7, <2>8, HookSteps DEF HookStep
<1>2. ASSUME NEW b \in acked', NEW i \in DOMAIN b, NEW m, Deliverable(m), m = b[i]
      PROVE  Accounted(m)'
  <2>1. b \in Seq(Msgs)
    BY TypeNext, MessagesAssumption DEF TypeOK
  <2>2. m \in Msgs /\ DOMAIN b = 1 .. Len(b) /\ Len(b) \in Nat
    BY <1>2, <2>1, LenProperties, ElementOfSeq
  <2>3. CASE b \in acked
    <3>1. Accounted(m)
      BY <1>2, <2>3 DEF NothingIsDropped, AckedIsAccountedFor
    <3> QED
      BY <2>2, <3>1, AccountedStays
  <2>4. ASSUME NEW h \in Hooks, hook[h].batch = b, ~hook[h].retry,
               hook[h].next > Len(hook[h].batch)
        PROVE  Accounted(m)'
    <3>1. i < hook[h].next
      BY <1>2, <2>2, <2>4, PostedMessages
    <3>2. Accounted(m)
      BY <1>2, <2>4, <3>1 DEF NothingIsDropped, PostIsAccountedFor
    <3> QED
      BY <2>2, <3>2, AccountedStays
  <2> QED
    BY <2>3, <2>4, AckedSteps
<1>3. PostIsAccountedFor'
  BY <1>1 DEF PostIsAccountedFor
<1>4. AckedIsAccountedFor'
  BY <1>2 DEF AckedIsAccountedFor
<1> QED
  BY <1>3, <1>4

-----------------------------------------------------------------------------
(* The theorems.                                                           *)

PathInv == MarkInv /\ QuestionIsStored /\ AnswerFollowsQuestion /\ NothingIsDropped

LEMMA PathInit ==
  ASSUME Init
  PROVE  PathInv
<1>1. TypeOK
  BY MessagesAssumption, BoundsAssumption, EmptySeq DEF Init, TypeOK, NoPost
<1>2. DOMAIN queue = {} /\ \A p \in Phones : DOMAIN history[p] = {}
  BY DEF Init
<1>3. \A h \in Hooks : DOMAIN hook[h].batch = {}
  BY DEF Init, NoPost
<1> QED
  BY <1>1, <1>2, <1>3
     DEF Init, PathInv, MarkInv, DoneIsAnswered, FirstInFlight, MarkMeansAnswered,
         QuestionIsStored, AnswerFollowsQuestion, NothingIsDropped, AckedIsAccountedFor,
         PostIsAccountedFor, DedupIsAccountedFor

LEMMA PathNext ==
  ASSUME PathInv, [Next]_vars
  PROVE  PathInv'
BY TypeNext, FirstNext, MarkNext, HistoryNext, DedupNext, PostNext
   DEF PathInv, MarkInv, NothingIsDropped

(* Whatever fails, is killed or is redelivered: every invariant of the     *)
(* path at once.  Each of them needs the others.                           *)
THEOREM PathIsInvariant == Spec => []PathInv
<1>1. Init => PathInv
  BY PathInit
<1>2. PathInv /\ [Next]_vars => PathInv'
  BY PathNext
<1> QED
  BY <1>1, <1>2, PTL DEF Spec

(* A message whose batch got a 200 is in the queue, in the dead-letter     *)
(* queue or answered (HandleWebhookHTTP, Process, the redrive policy).     *)
THEOREM NothingIsEverDropped == Spec => []NothingIsDropped
<1>1. PathInv => NothingIsDropped
  BY DEF PathInv
<1> QED
  BY <1>1, PathIsInvariant, PTL

(* A processed mark is only ever seen on a message that was answered, and  *)
(* one phone's turns exclude each other (MarkProcessed, MessageGroupId).   *)
THEOREM MarksTellTheTruth == Spec => []MarkInv
<1>1. PathInv => MarkInv
  BY DEF PathInv
<1> QED
  BY <1>1, PathIsInvariant, PTL

(* Every stored answer comes right after its question, in any conversation *)
(* and after any failure (HandleMessage's two Appends).                    *)
THEOREM ConversationsAreInOrder == Spec => [](AnswerFollowsQuestion /\ QuestionIsStored)
<1>1. PathInv => AnswerFollowsQuestion /\ QuestionIsStored
  BY DEF PathInv
<1> QED
  BY <1>1, PathIsInvariant, PTL

-----------------------------------------------------------------------------
(* The replies of the next state: those of this one, and at most one more, *)
(* the last, by a turn that is in flight.                                  *)

NewReply(p, k, i, w) ==
  /\ queue[i].step = (IF w = "answer" THEN "reply" ELSE "sorry")
  /\ Sender[queue[i].msg] = p /\ Send(i, w) /\ k = Len(said[p]) + 1
  /\ said'[p][k] = [word |-> w, msg |-> queue[i].msg]

LEMMA NextReplies ==
  ASSUME TypeOK, [Next]_vars, NEW p \in Phones, NEW k \in DOMAIN said'[p]
  PROVE  \/ k \in DOMAIN said[p] /\ said'[p][k] = said[p][k]
         \/ \E i \in DOMAIN queue, s \in Steps, w \in {"answer", "fallback"} :
              TurnStep(i, s) /\ NewReply(p, k, i, w)
<1>1. said[p] \in Seq(Reply) /\ said'[p] \in Seq(Reply)
  <2>1. said \in [Phones -> Seq(Reply)] /\ said' \in [Phones -> Seq(Reply)]
    BY TypeNext DEF TypeOK, Reply
  <2> QED
    BY <2>1
<1>2. /\ DOMAIN said[p] = 1 .. Len(said[p]) /\ Len(said[p]) \in Nat
      /\ DOMAIN said'[p] = 1 .. Len(said'[p])
  BY <1>1, LenProperties
<1>3. CASE UNCHANGED said
  BY <1>3
<1>4. ASSUME NEW i \in DOMAIN queue, NEW s \in Steps, NEW w \in {"answer", "fallback"},
             TurnStep(i, s), Send(i, w),
             queue[i].step = (IF w = "answer" THEN "reply" ELSE "sorry")
      PROVE  \/ k \in DOMAIN said[p] /\ said'[p][k] = said[p][k]
             \/ NewReply(p, k, i, w)
  <2>1. CASE p # Sender[queue[i].msg]
    BY <1>4, <2>1, SendAppends
  <2>2. CASE p = Sender[queue[i].msg]
    <3>1. Grows(said[p], said'[p], [word |-> w, msg |-> queue[i].msg])
      BY <1>4, <2>2, SendAppends
    <3>2. k \in DOMAIN said[p] \/ k = Len(said[p]) + 1
      BY <1>2, <3>1 DEF Grows
    <3> QED
      BY <1>4, <2>2, <3>1, <3>2 DEF Grows, NewReply
  <2> QED
    BY <2>1, <2>2
<1>5. CASE \E i \in DOMAIN queue : \E s \in Steps :
             TurnStep(i, s) /\ queue[i].step = "reply" /\ Send(i, "answer")
  <2>1. PICK i \in DOMAIN queue, s \in Steps :
          TurnStep(i, s) /\ queue[i].step = "reply" /\ Send(i, "answer")
    BY <1>5
  <2> QED
    BY <2>1, <1>4
<1>6. CASE \E i \in DOMAIN queue : \E s \in Steps :
             TurnStep(i, s) /\ queue[i].step = "sorry" /\ Send(i, "fallback")
  <2>1. PICK i \in DOMAIN queue, s \in Steps :
          TurnStep(i, s) /\ queue[i].step = "sorry" /\ Send(i, "fallback")
    BY <1>6
  <2> QED
    BY <2>1, <1>4
<1> QED
  BY <1>3, <1>5, <1>6, NextSaid

-----------------------------------------------------------------------------
(* Nobody is told twice that a turn failed, and never about a question     *)
(* that is still to be answered, as long as SQS remembers its ids.         *)

(* While ids are remembered, a message has one entry at most, its apology  *)
(* is said on the last attempt, and nothing is said about it afterwards.   *)
ApologyInv ==
  /\ \A i, j \in DOMAIN queue : queue[i].msg = queue[j].msg => i = j
  /\ \A i \in DOMAIN queue :
       /\ queue[i].msg \in dedup
       /\ queue[i].step = "sorry" => queue[i].receives >= MaxReceives
  /\ \A p \in Phones : \A k \in DOMAIN said[p] :
       /\ said[p][k].msg \in dedup
       /\ said[p][k].word = "fallback" =>
            \A i \in DOMAIN queue : queue[i].msg = said[p][k].msg =>
              queue[i].step = "wait" /\ queue[i].receives >= MaxReceives
  /\ ApologyIsFinal

LEMMA OneEntryNext ==
  ASSUME TypeOK, [Next]_vars, NEW i \in DOMAIN queue', NEW j \in DOMAIN queue',
         \A k, l \in DOMAIN queue : queue[k].msg = queue[l].msg => k = l,
         \A k \in DOMAIN queue : queue[k].msg \in dedup,
         queue'[i].msg = queue'[j].msg
  PROVE  i = j
<1>1. DOMAIN queue = 1 .. Len(queue) /\ Len(queue) \in Nat
  BY QueueType
<1>2. queue' \in Seq(Entry) /\ DOMAIN queue' = 1 .. Len(queue')
  BY TypeNext, LenProperties DEF TypeOK, Entry
<1>3. CASE QuietStep
  BY <1>3 DEF QuietStep
<1>4. ASSUME NEW m \in Msgs, PublishStep(m)
      PROVE  i = j
  <2>1. \A k \in DOMAIN queue' :
          \/ k \in DOMAIN queue /\ queue'[k].msg = queue[k].msg
          \/ k = Len(queue) + 1 /\ queue'[k].msg = m
    BY <1>1, <1>2, <1>4 DEF PublishStep, Joins, Fresh
  <2> QED
    BY <1>4, <2>1 DEF PublishStep
<1>5. ASSUME NEW k \in DOMAIN queue, NEW n, NEW s, Moves(k, n, s)
      PROVE  i = j
  <2>1. \A l \in DOMAIN queue' : l \in DOMAIN queue /\ queue'[l].msg = queue[l].msg
    BY <1>1, <1>2, <1>5 DEF Moves
  <2> QED
    BY <2>1
<1>6. ASSUME NEW k \in DOMAIN queue, Leaves(k)
      PROVE  i = j
  <2> DEFINE src(n) == IF n < k THEN n ELSE n + 1
  <2>1. \A l \in DOMAIN queue' : src(l) \in DOMAIN queue /\ queue'[l] = queue[src(l)]
    BY <1>1, <1>2, <1>6 DEF Leaves
  <2>2. src(i) = src(j)
    BY <2>1
  <2> QED
    BY <1>1, <1>2, <2>2
<1> QED
  BY <1>3, <1>4, <1>5, <1>6, NextKinds
     DEF StepKinds, QueueStep, ReceiveStep, RedriveStep, DeleteStep, TurnStep

LEMMA DedupGrows ==
  ASSUME TypeOK, [Next]_vars, "dedup" \notin Faults
  PROVE  dedup \subseteq dedup'
BY NextKinds, QueueType
   DEF StepKinds, QueueStep, QuietStep, PublishStep, ReceiveStep, RedriveStep, DeleteStep,
       TurnStep

LEMMA ApologyNext ==
  ASSUME TypeOK, ApologyInv, [Next]_vars, "dedup" \notin Faults
  PROVE  ApologyInv'
<1>1. TypeOK' /\ dedup \subseteq dedup'
  BY TypeNext, DedupGrows
<1>2. ASSUME NEW i \in DOMAIN queue', NEW j \in DOMAIN queue', queue'[i].msg = queue'[j].msg
      PROVE  i = j
  BY <1>2, OneEntryNext DEF ApologyInv
<1>3. ASSUME NEW i \in DOMAIN queue'
      PROVE  /\ queue'[i].msg \in dedup'
             /\ queue'[i].step = "sorry" => queue'[i].receives >= MaxReceives
  <2>1. CASE \E k \in DOMAIN queue : queue'[i] = queue[k]
    BY <1>1, <2>1 DEF ApologyInv
  <2>2. ASSUME NEW m \in Msgs, PublishStep(m), queue'[i] = Fresh(m)
        PROVE  queue'[i].msg \in dedup' /\ queue'[i].step = "wait"
    BY <2>2 DEF PublishStep, Fresh
  <2>3. CASE i \in DOMAIN queue /\ queue'[i].msg = queue[i].msg /\ ReceiveStep(i)
    BY <1>1, <2>3 DEF ApologyInv, ReceiveStep, Moves
  <2>4. ASSUME i \in DOMAIN queue, NEW s \in Steps, TurnStep(i, s)
        PROVE  /\ queue'[i].msg = queue[i].msg
               /\ queue'[i].step = "sorry" => queue'[i].receives >= MaxReceives
    BY <2>4 DEF TurnStep, Moves
  <2> QED
    BY <1>1, <2>1, <2>2, <2>3, <2>4, NextEntries DEF ApologyInv
<1>4. ASSUME NEW i \in DOMAIN queue, NEW s \in Steps, TurnStep(i, s),
             NEW p \in Phones, NEW k \in DOMAIN said[p], said[p][k].word = "fallback"
      PROVE  said[p][k].msg # queue[i].msg
  BY <1>4 DEF ApologyInv, TurnStep, Paths
<1>5. ASSUME NEW p \in Phones, NEW k \in DOMAIN said'[p]
      PROVE  /\ said'[p][k].msg \in dedup'
             /\ said'[p][k].word = "fallback" =>
                  \A j \in DOMAIN queue' : queue'[j].msg = said'[p][k].msg =>
                    queue'[j].step = "wait" /\ queue'[j].receives >= MaxReceives
  <2>1. CASE k \in DOMAIN said[p] /\ said'[p][k] = said[p][k]
    <3>1. said'[p][k].msg \in dedup
      BY <2>1 DEF ApologyInv
    <3>2. ASSUME said'[p][k].word = "fallback", NEW j \in DOMAIN queue',
                 queue'[j].msg = said'[p][k].msg
          PROVE  queue'[j].step = "wait" /\ queue'[j].receives >= MaxReceives
      <4>1. CASE \E l \in DOMAIN queue : queue'[j] = queue[l]
        BY <2>1, <3>2, <4>1 DEF ApologyInv
      <4>2. ~\E n \in Msgs : PublishStep(n) /\ queue'[j] = Fresh(n)
        BY <3>1, <3>2 DEF PublishStep, Fresh
      <4>3. CASE j \in DOMAIN queue /\ ReceiveStep(j) /\ queue'[j].msg = queue[j].msg
        <5>1. queue[j].receives >= MaxReceives
          <6>1. said[p][k].word = "fallback" /\ queue[j].msg = said[p][k].msg
            BY <2>1, <3>2, <4>3
          <6> QED
            BY <2>1, <4>3, <6>1 DEF ApologyInv
        <5> QED
          BY <4>3, <5>1 DEF ReceiveStep, Spent
      <4>4. ASSUME j \in DOMAIN queue, queue'[j].msg = queue[j].msg,
                   NEW s \in Steps, TurnStep(j, s)
            PROVE  FALSE
        BY <1>4, <2>1, <3>2, <4>4
      <4> QED
        BY <4>1, <4>2, <4>3, <4>4, NextEntries
    <3> QED
      BY <1>1, <3>1, <3>2
  <2>2. ASSUME NEW i \in DOMAIN queue, NEW s \in Steps, NEW w \in {"answer", "fallback"},
               TurnStep(i, s), NewReply(p, k, i, w)
        PROVE  /\ said'[p][k].msg \in dedup'
               /\ said'[p][k].word = "fallback" =>
                    \A j \in DOMAIN queue' : queue'[j].msg = said'[p][k].msg =>
                      queue'[j].step = "wait" /\ queue'[j].receives >= MaxReceives
    <3>1. said'[p][k].msg = queue[i].msg /\ said'[p][k].word = w
          /\ queue[i].step = (IF w = "answer" THEN "reply" ELSE "sorry")
      BY <2>2 DEF NewReply
    <3>2. said'[p][k].msg \in dedup'
      BY <1>1, <3>1 DEF ApologyInv
    <3>3. ASSUME w = "fallback", NEW j \in DOMAIN queue', queue'[j].msg = queue[i].msg
          PROVE  queue'[j].step = "wait" /\ queue'[j].receives >= MaxReceives
      <4>1. queue[i].step = "sorry" /\ queue[i].receives >= MaxReceives
        BY <3>1, <3>3 DEF ApologyInv
      <4>2. s = "wait" /\ Moves(i, queue[i].receives, s)
        BY <2>2, <4>1 DEF TurnStep, Paths
      <4>3. i \in DOMAIN queue' /\ queue'[i].msg = queue[i].msg
            /\ queue'[i].step = "wait" /\ queue'[i].receives = queue[i].receives
        <5>1. queue' \in Seq(Entry) /\ Len(queue') = Len(queue)
          BY <4>2 DEF Moves
        <5>2. DOMAIN queue' = DOMAIN queue
          BY <5>1, QueueType, LenProperties
        <5> QED
          BY <4>2, <5>2 DEF Moves
      <4>4. j = i
        BY <1>2, <3>3, <4>3
      <4> QED
        BY <4>1, <4>3, <4>4
    <3> QED
      BY <3>1, <3>2, <3>3
  <2> QED
    BY <2>1, <2>2, NextReplies
<1>6. ASSUME NEW p \in Phones, NEW i \in DOMAIN said'[p], NEW j \in DOMAIN said'[p],
             i < j, said'[p][i].word = "fallback"
      PROVE  said'[p][j].msg # said'[p][i].msg
  <2>1. DOMAIN said[p] = 1 .. Len(said[p]) /\ Len(said[p]) \in Nat
    <3>1. said[p] \in Seq(Reply)
      BY DEF TypeOK, Reply
    <3> QED
      BY <3>1, LenProperties
  <2>2. \A k \in DOMAIN said'[p] :
          \/ k \in DOMAIN said[p] /\ said'[p][k] = said[p][k]
          \/ k = Len(said[p]) + 1 /\ \E q \in DOMAIN queue, s \in Steps :
               TurnStep(q, s) /\ said'[p][k].msg = queue[q].msg
    <3>1. ASSUME NEW k \in DOMAIN said'[p], NEW q \in DOMAIN queue,
                 NEW w \in {"answer", "fallback"}, NewReply(p, k, q, w)
          PROVE  k = Len(said[p]) + 1 /\ said'[p][k].msg = queue[q].msg
      BY <3>1 DEF NewReply
    <3> QED
      BY <3>1, NextReplies
  <2>3. i \in DOMAIN said[p] /\ said'[p][i] = said[p][i]
    BY <1>6, <2>1, <2>2
  <2>4. CASE j \in DOMAIN said[p] /\ said'[p][j] = said[p][j]
    BY <1>6, <2>3, <2>4 DEF ApologyInv, ApologyIsFinal
  <2>5. ASSUME NEW q \in DOMAIN queue, NEW s \in Steps,
               TurnStep(q, s), said'[p][j].msg = queue[q].msg
        PROVE  said'[p][j].msg # said'[p][i].msg
    BY <1>4, <1>6, <2>3, <2>5
  <2> QED
    BY <2>2, <2>4, <2>5
<1>7. ApologyIsFinal'
  BY <1>6 DEF ApologyIsFinal
<1> QED
  BY <1>2, <1>3, <1>5, <1>7 DEF ApologyInv

(* An apology is the last word about a message, whatever else fails: the   *)
(* one thing it needs is that SQS still remembers the id when Meta posts   *)
(* the message again (lastAttempt, MessageDeduplicationId).                *)
THEOREM ApologiesAreFinal ==
  ASSUME "dedup" \notin Faults
  PROVE  Spec => []ApologyIsFinal
<1>1. Init => TypeOK /\ ApologyInv
  <2>1. Init => TypeOK
    BY PathInit DEF PathInv, MarkInv
  <2>2. Init => DOMAIN queue = {} /\ \A p \in Phones : DOMAIN said[p] = {}
    BY DEF Init
  <2> QED
    BY <2>1, <2>2 DEF ApologyInv, ApologyIsFinal
<1>2. TypeOK /\ ApologyInv /\ [Next]_vars => TypeOK' /\ ApologyInv'
  BY TypeNext, ApologyNext
<1>3. ApologyInv => ApologyIsFinal
  BY DEF ApologyInv
<1> QED
  BY <1>1, <1>2, <1>3, PTL DEF Spec

-----------------------------------------------------------------------------
(* What is settled stays settled.                                          *)

(* The 24h window only extends, whatever is redelivered, and in whatever   *)
(* order (the condition of RecordInbound).                                 *)
THEOREM WindowOnlyEverExtends == Spec => WindowOnlyExtends
<1>1. ASSUME TypeOK, [Next]_vars, NEW p \in Phones
      PROVE  session'[p] >= session[p]
  <2>1. session \in [Phones -> Nat]
    BY <1>1 DEF TypeOK
  <2>2. ASSUME NEW m, m \in Msgs, RecordInbound(m)
        PROVE  session'[p] >= session[p]
    BY <2>1, <2>2, MessagesAssumption DEF RecordInbound
  <2>3. CASE UNCHANGED session
    BY <2>1, <2>3
  <2>4. ASSUME NEW h \in Hooks, Handle(h)
        PROVE  session'[p] >= session[p]
    BY <1>1, <2>2, <2>3, <2>4, PostedMessages DEF Handle
  <2> QED
    BY <1>1, <2>3, <2>4, NextKinds
       DEF WebhookStep, Webhook, webhook, Post, HandleUndated, AnswerMeta, LosePost
<1>2. TypeOK /\ [Next]_vars => [\A p \in Phones : session'[p] >= session[p]]_session
  BY <1>1
<1>3. Init => TypeOK
  BY PathInit DEF PathInv, MarkInv
<1>4. TypeOK /\ [Next]_vars => TypeOK'
  BY TypeNext
<1> QED
  BY <1>2, <1>3, <1>4, PTL DEF Spec, WindowOnlyExtends

LEMMA NextMark ==
  ASSUME TypeOK, [Next]_vars, NEW m \in Msgs, mark'[m] # mark[m]
  PROVE  \/ QuietStep
         \/ \E i \in DOMAIN queue :
              /\ TurnStep(i, "delete") /\ queue[i].step = "mark" /\ queue[i].msg = m
              /\ mark[m] = "none" /\ mark'[m] = Written
<1>1. CASE \E i \in DOMAIN queue, s \in Steps : TurnStep(i, s)
  <2>1. PICK i \in DOMAIN queue, s \in Steps : TurnStep(i, s)
    BY <1>1
  <2>2. /\ <<queue[i].step, s>> = <<"mark", "delete">>
        /\ mark' = [mark EXCEPT ![queue[i].msg] = IF @ = "none" THEN Written ELSE @]
    BY <2>1 DEF TurnStep
  <2>3. queue[i].msg = m /\ mark[m] = "none" /\ mark'[m] = Written
    BY <2>2, QueueType DEF TypeOK
  <2> QED
    BY <2>1, <2>2, <2>3
<1> QED
  BY <1>1, NextKinds
     DEF StepKinds, QueueStep, PublishStep, ReceiveStep, RedriveStep, DeleteStep, turn

(* The steps of a turn that has asked for the mark and is not yet to write *)
(* it, an apology included.                                                *)
Working == {"ask", "respond", "user", "assistant", "reply", "sorry"}

(* A turn that got as far as the model has seen no mark.                   *)
AskInv ==
  /\ \A m \in Msgs : mark[m] # "settling"
  /\ \A i \in DOMAIN queue : queue[i].step \in Working => mark[queue[i].msg] # "set"

LEMMA AskNext ==
  ASSUME TypeOK, FirstInFlight, AskInv, [Next]_vars, {"check", "stale"} \cap Faults = {}
  PROVE  AskInv'
<1>1. Written = "set"
  BY DEF Written
<1>2. ASSUME NEW m \in Msgs
      PROVE  mark'[m] # "settling"
  BY <1>1, NextMark DEF AskInv, QuietStep
<1>3. ASSUME NEW j \in DOMAIN queue', queue'[j].step \in Working, NEW m \in Msgs,
             queue'[j].msg = m
      PROVE  mark'[m] # "set"
  <2>1. CASE \E k \in DOMAIN queue : queue'[j] = queue[k]
    <3>1. PICK k \in DOMAIN queue : queue'[j] = queue[k]
      BY <2>1
    <3>2. mark[m] # "set" /\ mark[m] # "settling"
      BY <1>3, <3>1 DEF AskInv
    <3>3. CASE QuietStep
      BY <3>2, <3>3 DEF QuietStep
    <3>4. ASSUME NEW i \in DOMAIN queue, queue[i].step = "mark", queue[i].msg = m
          PROVE  FALSE
      BY <1>3, <3>1, <3>4, OneInFlight DEF Working
    <3> QED
      BY <3>2, <3>3, <3>4, NextMark
  <2>2. CASE \E n \in Msgs : PublishStep(n) /\ queue'[j] = Fresh(n)
    BY <1>3, <2>2 DEF Fresh, Working
  <2>3. CASE j \in DOMAIN queue /\ ReceiveStep(j)
    BY <1>3, <2>3 DEF ReceiveStep, Moves, Working
  <2>4. ASSUME j \in DOMAIN queue, NEW s \in Steps, TurnStep(j, s), queue[j].msg = m
        PROVE  mark'[m] # "set"
    <3>1. s \in Working /\ <<queue[j].step, s>> \in Paths /\ UNCHANGED mark
      BY <1>3, <2>4 DEF TurnStep, Moves, Working
    <3>2. CASE s = "ask"
      <4>1. SeesNone(m)
        BY <2>4, <3>2 DEF TurnStep
      <4> QED
        BY <3>1, <4>1 DEF SeesNone, Marked
    <3>3. CASE s # "ask"
      <4>1. queue[j].step \in Working
        BY <3>1, <3>3 DEF Paths, Working
      <4> QED
        BY <2>4, <3>1, <4>1 DEF AskInv
    <3> QED
      BY <3>2, <3>3
  <2> QED
    BY <1>3, <2>1, <2>2, <2>3, <2>4, NextEntries
<1>4. \A j \in DOMAIN queue' : queue'[j].msg \in Msgs
  <2>1. queue' \in Seq(Entry)
    BY TypeNext DEF TypeOK, Entry
  <2>2. \A j \in DOMAIN queue' : queue'[j] \in Entry
    BY <2>1, LenProperties, ElementOfSeq
  <2> QED
    BY <2>2 DEF Entry
<1> QED
  BY <1>2, <1>3, <1>4 DEF AskInv

LEMMA AskWrites ==
  ASSUME TypeOK, AskInv, [Next]_vars, NEW m \in Msgs, mark[m] = "set"
  PROVE  writes'[m] = writes[m]
<1>1. CASE UNCHANGED writes
  BY <1>1
<1>2. ASSUME NEW i \in DOMAIN queue, NEW s \in Steps, TurnStep(i, s)
      PROVE  writes'[m] = writes[m]
  <2>1. CASE /\ queue[i].step = "ask"
             /\ writes' = [writes EXCEPT ![queue[i].msg] = @ + 1]
    <3>1. queue[i].msg # m
      BY <2>1 DEF AskInv, Working
    <3> QED
      BY <2>1, <3>1 DEF TypeOK
  <2> QED
    BY <1>2, <1>1, <2>1 DEF TurnStep
<1> QED
  BY <1>1, <1>2, NextKinds
     DEF StepKinds, QueueStep, QuietStep, PublishStep, ReceiveStep, RedriveStep,
         DeleteStep, turn

LEMMA AskStores ==
  ASSUME TypeOK, AskInv, [Next]_vars, NEW m \in Msgs, mark[m] = "set",
         NEW p \in Phones, NEW k \in DOMAIN history'[p] \ DOMAIN history[p]
  PROVE  history'[p][k].msg # m
<1>1. PICK i \in DOMAIN queue, s \in Steps :
        TurnStep(i, s) /\ queue[i].step \in {"user", "assistant"} /\ Store(i, queue[i].step)
  BY NextHistory
<1>2. /\ history' \in [Phones -> Seq(Turn)]
      /\ Grows(history[Sender[queue[i].msg]], history'[Sender[queue[i].msg]],
               [role |-> queue[i].step, msg |-> queue[i].msg])
      /\ \A q \in Phones : q # Sender[queue[i].msg] => history'[q] = history[q]
  BY <1>1, StoreAppends
<1>3. p = Sender[queue[i].msg]
  BY <1>2
<1>4. history[p] \in Seq(Turn) /\ history'[p] \in Seq(Turn)
  BY <1>2 DEF TypeOK, Turn
<1>5. /\ DOMAIN history[p] = 1 .. Len(history[p]) /\ Len(history[p]) \in Nat
      /\ DOMAIN history'[p] = 1 .. Len(history'[p])
  BY <1>4, LenProperties
<1>6. k = Len(history[p]) + 1
  BY <1>2, <1>3, <1>5 DEF Grows
<1>7. history'[p][k].msg = queue[i].msg
  BY <1>2, <1>3, <1>6 DEF Grows
<1>8. queue[i].msg # m
  BY <1>1 DEF AskInv, Working
<1> QED
  BY <1>7, <1>8

LEMMA AskSays ==
  ASSUME TypeOK, AskInv, [Next]_vars, NEW m \in Msgs, mark[m] = "set",
         NEW p \in Phones, NEW k \in DOMAIN said'[p] \ DOMAIN said[p]
  PROVE  said'[p][k].msg # m
<1>1. PICK i \in DOMAIN queue, s \in Steps, w \in {"answer", "fallback"} :
        TurnStep(i, s) /\ NewReply(p, k, i, w)
  BY NextReplies
<1>2. said'[p][k].msg = queue[i].msg /\ queue[i].step \in {"reply", "sorry"}
  BY <1>1 DEF NewReply
<1>3. queue[i].msg # m
  BY <1>2 DEF AskInv, Working
<1> QED
  BY <1>2, <1>3

(* Nothing is done again for a message that is marked, however often it is *)
(* redelivered, as long as the worker's question for the mark is answered  *)
(* and not stale (Processed before HandleMessage): no tool writes to the   *)
(* ledger, no turn is stored, no reply and no apology is sent.             *)
THEOREM MarkedStaysDone ==
  ASSUME {"check", "stale"} \cap Faults = {}
  PROVE  Spec => MarkedIsDone
<1> DEFINE Inv == TypeOK /\ FirstInFlight /\ AskInv
<1>1. Init => Inv
  <2>1. Init => TypeOK /\ FirstInFlight
    BY PathInit DEF PathInv, MarkInv
  <2>2. Init => DOMAIN queue = {} /\ \A m \in Msgs : mark[m] = "none"
    BY DEF Init
  <2> QED
    BY <2>1, <2>2 DEF AskInv
<1>2. Inv /\ [Next]_vars => Inv'
  BY TypeNext, FirstNext, AskNext
<1>3. ASSUME Inv, [Next]_vars, NEW m \in Msgs, mark[m] = "set"
      PROVE  LET p == Sender[m]
             IN  /\ writes'[m] = writes[m]
                 /\ \A i \in DOMAIN history'[p] \ DOMAIN history[p] : history'[p][i].msg # m
                 /\ \A i \in DOMAIN said'[p] \ DOMAIN said[p] : said'[p][i].msg # m
  <2>1. Sender[m] \in Phones
    BY MessagesAssumption
  <2> QED
    BY <1>3, <2>1, AskWrites, AskStores, AskSays
<1>4. Inv /\ [Next]_vars =>
        [\A m \in Msgs : mark[m] = "set" =>
           LET p == Sender[m]
           IN  /\ writes'[m] = writes[m]
               /\ \A i \in DOMAIN history'[p] \ DOMAIN history[p] : history'[p][i].msg # m
               /\ \A i \in DOMAIN said'[p] \ DOMAIN said[p] : said'[p][i].msg # m
        ]_<<writes, history, said>>
  BY <1>3
<1> QED
  BY <1>1, <1>2, <1>4, PTL DEF Spec, MarkedIsDone

(* Nobody is answered twice: while an answer is not marked yet, its turn   *)
(* is about to write the mark, and a turn that is still working towards an *)
(* answer has none to repeat.                                              *)
Answering == {"ask", "respond", "user", "assistant", "reply"}

OnceInv ==
  /\ \A m \in Msgs : mark[m] \in {"none", "set"}
  /\ \A m \in Msgs : Answered(m) =>
       mark[m] = "set" \/ \E i \in DOMAIN queue : queue[i].step = "mark" /\ queue[i].msg = m
  /\ \A i \in DOMAIN queue : queue[i].step \in Answering => ~Answered(queue[i].msg)
  /\ AnsweredOnce

LEMMA NextAnswers ==
  ASSUME TypeOK, [Next]_vars, NEW m \in Msgs, Answered(m)', ~Answered(m)
  PROVE  \E i \in DOMAIN queue, s \in Steps :
           TurnStep(i, s) /\ queue[i].step = "reply" /\ queue[i].msg = m
           /\ (s = "mark" \/ "reply" \in Faults)
<1>1. TypeOK' /\ Sender[m] \in Phones
  BY TypeNext, MessagesAssumption
<1>2. PICK k \in DOMAIN said'[Sender[m]] :
        said'[Sender[m]][k] = [word |-> "answer", msg |-> m]
  BY <1>1, AnsweredMeans DEF SaidIn
<1>3. ~(k \in DOMAIN said[Sender[m]] /\ said'[Sender[m]][k] = said[Sender[m]][k])
  BY <1>2, AnsweredMeans DEF SaidIn
<1>4. PICK i \in DOMAIN queue, s \in Steps, w \in {"answer", "fallback"} :
        TurnStep(i, s) /\ NewReply(Sender[m], k, i, w)
  BY <1>1, <1>3, NextReplies
<1>5. [word |-> w, msg |-> queue[i].msg] = [word |-> "answer", msg |-> m]
  BY <1>2, <1>4 DEF NewReply
<1>6. w = "answer" /\ queue[i].msg = m
  BY <1>5
<1>7. queue[i].step = "reply"
  BY <1>4, <1>6 DEF NewReply
<1>8. said' # said
  BY <1>2, <1>3
<1>9. s = "mark" \/ "reply" \in Faults
  BY <1>4, <1>7, <1>8 DEF TurnStep
<1> QED
  BY <1>4, <1>6, <1>7, <1>9

LEMMA OnceCount ==
  ASSUME TypeOK, OnceInv, [Next]_vars, NEW m \in Msgs
  PROVE  Times("answer", m)' <= 1
<1> DEFINE p == Sender[m]
<1>1. p \in Phones /\ said[p] \in Seq(Reply) /\ TypeOK'
  BY TypeNext, MessagesAssumption DEF TypeOK, Reply
<1>2. said'[p] \in Seq(Reply)
  BY <1>1 DEF TypeOK, Reply
<1>3. /\ Times("answer", m) = Cardinality(SaidAt(said[p], "answer", m))
      /\ Times("answer", m)' = Cardinality(SaidAt(said'[p], "answer", m))
  BY DEF Times, SaidAt
<1>4. ASSUME NEW k \in SaidAt(said'[p], "answer", m)
      PROVE  \/ k \in SaidAt(said[p], "answer", m)
             \/ k = Len(said[p]) + 1 /\ ~Answered(m)
  <2>1. k \in DOMAIN said'[p] /\ said'[p][k] = [word |-> "answer", msg |-> m]
    BY <1>4 DEF SaidAt
  <2>2. CASE k \in DOMAIN said[p] /\ said'[p][k] = said[p][k]
    BY <2>1, <2>2 DEF SaidAt
  <2>3. ASSUME NEW i \in DOMAIN queue, NEW w \in {"answer", "fallback"},
               NewReply(p, k, i, w)
        PROVE  k = Len(said[p]) + 1 /\ ~Answered(m)
    <3>1. [word |-> w, msg |-> queue[i].msg] = [word |-> "answer", msg |-> m]
      BY <2>1, <2>3 DEF NewReply
    <3>2. w = "answer" /\ queue[i].msg = m
      BY <3>1
    <3>3. queue[i].step = "reply"
      BY <2>3, <3>2 DEF NewReply
    <3> QED
      BY <2>3, <3>2, <3>3 DEF NewReply, OnceInv, Answering
  <2> QED
    BY <1>1, <2>1, <2>2, <2>3, NextReplies
<1>5. CASE Answered(m)
  <2>1. SaidAt(said'[p], "answer", m) \subseteq SaidAt(said[p], "answer", m)
    BY <1>4, <1>5
  <2>2. /\ IsFiniteSet(SaidAt(said[p], "answer", m))
        /\ Cardinality(SaidAt(said[p], "answer", m)) \in Nat
        /\ Cardinality(SaidAt(said'[p], "answer", m)) \in Nat
    BY <1>1, <1>2, CountSaid
  <2>3. Cardinality(SaidAt(said'[p], "answer", m))
          <= Cardinality(SaidAt(said[p], "answer", m))
    BY <2>1, <2>2, FS_Subset
  <2>4. Cardinality(SaidAt(said[p], "answer", m)) <= 1
    BY <1>3 DEF OnceInv, AnsweredOnce
  <2> QED
    BY <1>3, <2>2, <2>3, <2>4
<1>6. CASE ~Answered(m)
  <2>1. SaidAt(said[p], "answer", m) = {}
    BY <1>1, <1>6, AnsweredMeans DEF SaidAt, SaidIn
  <2>2. SaidAt(said'[p], "answer", m) \subseteq {Len(said[p]) + 1}
    BY <1>4, <2>1
  <2>3. Cardinality({Len(said[p]) + 1}) = 1 /\ IsFiniteSet({Len(said[p]) + 1})
    BY FS_Singleton
  <2>4. Cardinality(SaidAt(said'[p], "answer", m)) <= 1
    BY <2>2, <2>3, FS_Subset
  <2> QED
    BY <1>3, <2>4
<1> QED
  BY <1>5, <1>6

(* The faults that make an answer come twice: the mark is missed, not      *)
(* written, or lost, or the reply is sent and reported as failed.          *)
NothingBlursTheMark ==
  {"check", "stale", "mark", "expiry", "reply"} \cap Faults = {} /\ "mark" \notin KillAt

LEMMA OnceNext ==
  ASSUME TypeOK, FirstInFlight, OnceInv, [Next]_vars, NothingBlursTheMark
  PROVE  OnceInv'
<1>1. Written = "set"
  BY DEF Written, NothingBlursTheMark
<1>2. ASSUME NEW m \in Msgs
      PROVE  mark'[m] \in {"none", "set"} /\ (mark[m] = "set" => mark'[m] = "set")
  <2>1. CASE QuietStep
    <3>1. mark'[m] \in MarkStates
      BY <2>1 DEF QuietStep
    <3> QED
      BY <2>1, <3>1 DEF QuietStep, OnceInv, NothingBlursTheMark, MarkStates
  <2> QED
    BY <1>1, <2>1, NextMark DEF OnceInv
<1>3. DOMAIN queue' = 1 .. Len(queue') /\ \A j \in DOMAIN queue' : queue'[j].msg \in Msgs
  <2>1. queue' \in Seq(Entry)
    BY TypeNext DEF TypeOK, Entry
  <2>2. \A j \in 1 .. Len(queue') : queue'[j] \in Entry
    BY <2>1, ElementOfSeq, LenProperties
  <2> QED
    BY <2>1, <2>2, LenProperties DEF Entry
<1>4. ASSUME NEW m \in Msgs, Answered(m)'
      PROVE  \/ mark'[m] = "set"
             \/ \E i \in DOMAIN queue' : queue'[i].step = "mark" /\ queue'[i].msg = m
  <2>1. ASSUME NEW i \in DOMAIN queue, NEW s \in Steps, TurnStep(i, s)
        PROVE  i \in DOMAIN queue' /\ queue'[i].step = s /\ queue'[i].msg = queue[i].msg
    <3>1. Moves(i, queue[i].receives, s)
      BY <2>1 DEF TurnStep
    <3> QED
      BY <1>3, <3>1, QueueType DEF Moves
  <2>2. CASE ~Answered(m)
    <3>1. PICK i \in DOMAIN queue, s \in Steps :
            TurnStep(i, s) /\ queue[i].msg = m /\ (s = "mark" \/ "reply" \in Faults)
      BY <1>4, <2>2, NextAnswers
    <3> QED
      BY <2>1, <3>1 DEF NothingBlursTheMark
  <2>3. CASE mark[m] = "set"
    BY <1>2, <2>3
  <2>4. ASSUME NEW i \in DOMAIN queue, queue[i].step = "mark", queue[i].msg = m
        PROVE  \/ mark'[m] = "set"
               \/ \E j \in DOMAIN queue' : queue'[j].step = "mark" /\ queue'[j].msg = m
    <3>1. CASE QuietStep
      BY <2>4, <3>1 DEF QuietStep
    <3>2. CASE \E n \in Msgs : PublishStep(n)
      <4>1. i \in DOMAIN queue' /\ queue'[i] = queue[i]
        BY <1>3, <3>2, QueueType DEF PublishStep, Joins
      <4> QED
        BY <2>4, <4>1
    <3>3. ASSUME NEW k \in DOMAIN queue, NEW n, NEW s, Moves(k, n, s), k # i
          PROVE  \E j \in DOMAIN queue' : queue'[j].step = "mark" /\ queue'[j].msg = m
      <4>1. i \in DOMAIN queue' /\ queue'[i] = queue[i]
        BY <1>3, <3>3, QueueType DEF Moves
      <4> QED
        BY <2>4, <4>1
    <3>4. ASSUME NEW k \in DOMAIN queue, Leaves(k), k # i
          PROVE  \E j \in DOMAIN queue' : queue'[j].step = "mark" /\ queue'[j].msg = m
      <4> DEFINE l == IF i < k THEN i ELSE i - 1
      <4>1. l \in 1 .. Len(queue) - 1 /\ i = (IF l < k THEN l ELSE l + 1)
        BY <3>4, QueueType
      <4>2. l \in DOMAIN queue' /\ queue'[l] = queue[i]
        BY <1>3, <3>4, <4>1, QueueType DEF Leaves
      <4> QED
        BY <2>4, <4>2
    <3>5. ASSUME NEW s \in Steps, TurnStep(i, s)
          PROVE  mark'[m] = "set"
      <4>1. s = "delete"
        BY <2>4, <3>5 DEF TurnStep, Paths, NothingBlursTheMark
      <4>2. mark' = [mark EXCEPT ![m] = IF @ = "none" THEN Written ELSE @]
        BY <2>4, <3>5, <4>1 DEF TurnStep, NothingBlursTheMark
      <4> QED
        BY <1>1, <4>2 DEF TypeOK, OnceInv
    <3>6. ASSUME NEW k \in DOMAIN queue, QueueStep(k)
          PROVE  \/ mark'[m] = "set"
                 \/ \E j \in DOMAIN queue' : queue'[j].step = "mark" /\ queue'[j].msg = m
      <4>1. CASE k = i
        BY <2>4, <3>5, <3>6, <4>1
           DEF QueueStep, ReceiveStep, RedriveStep, DeleteStep, Receivable
      <4>2. CASE k # i
        BY <3>3, <3>4, <3>6, <4>2
           DEF QueueStep, ReceiveStep, RedriveStep, DeleteStep, TurnStep
      <4> QED
        BY <4>1, <4>2
    <3> QED
      BY <3>1, <3>2, <3>6, NextKinds DEF StepKinds
  <2> QED
    BY <2>2, <2>3, <2>4 DEF OnceInv
<1>5. ASSUME NEW j \in DOMAIN queue', queue'[j].step \in Answering, NEW m \in Msgs,
             queue'[j].msg = m
      PROVE  ~Answered(m)'
  <2>1. ASSUME NEW k \in DOMAIN queue, queue[k].msg = m, queue[k].step # "wait",
               ~Answered(m), Answered(m)'
        PROVE  TurnStep(k, "mark")
    <3>1. PICK i \in DOMAIN queue, s \in Steps :
            /\ TurnStep(i, s) /\ queue[i].step = "reply" /\ queue[i].msg = m
            /\ s = "mark" \/ "reply" \in Faults
      BY <2>1, NextAnswers
    <3>2. i = k
      BY <2>1, <3>1, OneInFlight
    <3> QED
      BY <3>1, <3>2 DEF NothingBlursTheMark
  <2>2. CASE \E k \in DOMAIN queue : queue'[j] = queue[k]
    <3>1. PICK k \in DOMAIN queue : queue'[j] = queue[k]
      BY <2>2
    <3>2. queue[k].msg = m /\ queue[k].step \in Answering /\ ~Answered(m)
      BY <1>5, <3>1 DEF OnceInv
    <3>3. CASE TurnStep(k, "mark")
      <4>1. Moves(k, queue[k].receives, "mark")
        BY <3>3 DEF TurnStep
      <4>2. j \in DOMAIN queue /\ j # k /\ queue'[j] = queue[j]
        BY <1>3, <1>5, <4>1, QueueType DEF Moves, Answering
      <4>3. queue[j].step \in Answering /\ queue[j].msg = m
        BY <1>5, <4>2
      <4> QED
        BY <3>2, <4>2, <4>3, OneInFlight DEF Answering
    <3> QED
      BY <2>1, <3>2, <3>3 DEF Answering
  <2>3. CASE \E n \in Msgs : PublishStep(n) /\ queue'[j] = Fresh(n)
    BY <1>5, <2>3 DEF Fresh, Answering
  <2>4. CASE j \in DOMAIN queue /\ ReceiveStep(j)
    BY <1>5, <2>4 DEF ReceiveStep, Moves, Answering
  <2>5. ASSUME j \in DOMAIN queue, NEW s \in Steps, TurnStep(j, s), queue[j].msg = m
        PROVE  ~Answered(m)'
    <3>1. s \in Answering /\ queue'[j].step = s
      BY <1>5, <2>5 DEF TurnStep, Moves
    <3>2. queue[j].step \in Answering \/ s = "ask"
      BY <2>5, <3>1 DEF TurnStep, Paths, Answering
    <3>3. queue[j].step # "wait"
      BY <2>5 DEF TurnStep, Paths
    <3>4. ~Answered(m)
      <4>1. CASE queue[j].step \in Answering
        BY <2>5, <4>1 DEF OnceInv
      <4>2. CASE s = "ask" /\ Answered(m)
        <5>1. SeesNone(m) /\ queue[j].step = "check"
          BY <2>5, <4>2 DEF TurnStep, Paths
        <5>2. mark[m] # "set"
          BY <5>1 DEF SeesNone, Marked, NothingBlursTheMark
        <5>3. PICK i \in DOMAIN queue : queue[i].step = "mark" /\ queue[i].msg = m
          BY <4>2, <5>2 DEF OnceInv
        <5>4. i = j
          BY <2>5, <5>1, <5>3, OneInFlight
        <5> QED
          BY <5>1, <5>3, <5>4
      <4> QED
        BY <3>2, <4>1, <4>2
    <3>5. ASSUME TurnStep(j, "mark")
          PROVE  FALSE
      <4>1. queue'[j].step = "mark"
        BY <3>5 DEF TurnStep, Moves
      <4> QED
        BY <1>5, <4>1 DEF Answering
    <3> QED
      BY <2>1, <2>5, <3>3, <3>4, <3>5
  <2> QED
    BY <1>5, <2>2, <2>3, <2>4, <2>5, NextEntries
<1>6. AnsweredOnce'
  BY OnceCount DEF AnsweredOnce
<1>7. \A j \in DOMAIN queue' : queue'[j].step \in Answering => ~Answered(queue[j].msg)'
  BY <1>3, <1>5
<1> QED
  BY <1>2, <1>4, <1>6, <1>7 DEF OnceInv

(* What is settled stays settled (Processed, MarkProcessed,                *)
(* RecordInbound), whatever else fails or is killed on the way.            *)
THEOREM SettledStays ==
  ASSUME NothingBlursTheMark
  PROVE  Spec => SettledStaysSettled
<1> DEFINE Inv == TypeOK /\ FirstInFlight /\ OnceInv
<1>1. Init => Inv
  <2> SUFFICES ASSUME Init PROVE Inv
    OBVIOUS
  <2>1. TypeOK /\ FirstInFlight
    BY PathInit DEF PathInv, MarkInv
  <2>2. DOMAIN queue = {} /\ (\A m \in Msgs : mark[m] = "none")
        /\ \A p \in Phones : said[p] = <<>>
    BY DEF Init
  <2>3. ASSUME NEW m \in Msgs
        PROVE  Times("answer", m) = 0
    <3>1. {i \in DOMAIN said[Sender[m]] :
             said[Sender[m]][i] = [word |-> "answer", msg |-> m]} = {}
      BY <2>2, MessagesAssumption
    <3> QED
      BY <3>1, FS_EmptySet DEF Times
  <2> QED
    BY <2>1, <2>2, <2>3 DEF OnceInv, Answered, AnsweredOnce
<1>2. Inv /\ [Next]_vars => Inv'
  BY TypeNext, FirstNext, OnceNext
<1>3. Inv => AnsweredOnce
  BY DEF OnceInv
<1>4. {"check", "stale"} \cap Faults = {}
  BY DEF NothingBlursTheMark
<1>5. Spec => MarkedIsDone
  BY <1>4, MarkedStaysDone
<1>6. Spec => []AnsweredOnce
  BY <1>1, <1>2, <1>3, PTL DEF Spec
<1> QED
  BY <1>5, <1>6, WindowOnlyEverExtends DEF SettledStaysSettled

-----------------------------------------------------------------------------
(* Answers in the order of the questions.                                  *)

(* What the environment owes: Meta posts the messages of one phone in one  *)
(* batch, in the order they were sent, and every message that normalises   *)
(* gets through to SQS, which remembers it.                                *)
PostedInOrder ==
  /\ {"dedup", "publish"} \cap Faults = {}
  /\ \A b, c \in Batches : \A i \in DOMAIN b : \A j \in DOMAIN c :
       Deliverable(b[i]) /\ Deliverable(c[j]) /\ Sender[b[i]] = Sender[c[j]] =>
         /\ b = c /\ (b[i] = c[j] => i = j)
         /\ i < j => SentAt[b[i]] <= SentAt[c[j]]

(* What has reached the queue is the beginning of its batch; it is queued  *)
(* in order, and nothing that was said is younger than what is queued.     *)
InOrderInv ==
  /\ \A h \in Hooks : \A i \in DOMAIN hook[h].batch :
       i < hook[h].next /\ Deliverable(hook[h].batch[i]) => hook[h].batch[i] \in dedup
  /\ \A m \in dedup : Deliverable(m) /\ \E b \in Batches : \E i \in DOMAIN b : b[i] = m
  /\ \A b \in Batches : \A i, j \in DOMAIN b :
       i < j /\ Deliverable(b[i]) /\ b[j] \in dedup => b[i] \in dedup
  /\ \A j \in DOMAIN queue :
       /\ queue[j].msg \in dedup
       /\ \A i \in DOMAIN queue :
            i < j /\ Sender[queue[i].msg] = Sender[queue[j].msg] =>
              SentAt[queue[i].msg] <= SentAt[queue[j].msg]
  /\ \A p \in Phones : \A k \in DOMAIN said[p] :
       /\ said[p][k].msg \in dedup /\ Sender[said[p][k].msg] = p
       /\ \A j \in DOMAIN queue :
            Sender[queue[j].msg] = p => SentAt[said[p][k].msg] <= SentAt[queue[j].msg]
  /\ SentOrder

LEMMA PublishedFrom ==
  ASSUME TypeOK, [Next]_vars, NEW m \in dedup', m \notin dedup
  PROVE  \E h \in Hooks : /\ hook[h].next \in DOMAIN hook[h].batch
                          /\ hook[h].batch[hook[h].next] = m
                          /\ hook[h].batch \in Batches /\ Deliverable(m)
<1>1. PICK h \in Hooks : Webhook(h) \/ LosePost(h)
  BY NextKinds DEF WebhookStep
<1>2. Handle(h)
  BY <1>1 DEF Webhook, Post, HandleUndated, AnswerMeta, LosePost
<1>3. /\ hook[h].next \in DOMAIN hook[h].batch
      /\ hook[h].batch[hook[h].next] = m /\ Deliverable(m)
  BY <1>2 DEF Handle, Enqueue, Deliverable
<1>4. hook[h].batch \in Batches
  <2>1. hook[h] # NoPost
    BY <1>3, EmptySeq DEF NoPost
  <2> QED
    BY <2>1 DEF TypeOK
<1> QED
  BY <1>3, <1>4

LEMMA YoungerThanRemembered ==
  ASSUME TypeOK, [Next]_vars, PostedInOrder, InOrderInv, NEW m \in dedup', m \notin dedup,
         NEW n \in dedup, Sender[n] = Sender[m]
  PROVE  SentAt[n] <= SentAt[m]
<1>1. PICK h \in Hooks : /\ hook[h].next \in DOMAIN hook[h].batch
                         /\ hook[h].batch[hook[h].next] = m
                         /\ hook[h].batch \in Batches /\ Deliverable(m)
  BY PublishedFrom
<1> DEFINE b == hook[h].batch   k == hook[h].next
<1>2. Deliverable(n) /\ \E c \in Batches : \E l \in DOMAIN c : c[l] = n
  BY DEF InOrderInv
<1>3. PICK c \in Batches : \E l \in DOMAIN c : c[l] = n
  BY <1>2
<1>4. PICK l \in DOMAIN c : c[l] = n
  BY <1>3
<1>5. b = c
  BY <1>1, <1>2, <1>4 DEF PostedInOrder
<1>6. k \in Nat /\ l \in Nat
  BY <1>4, <1>5, PostedMessages
<1>7. l # k /\ ~(k < l)
  BY <1>1, <1>4, <1>5 DEF InOrderInv
<1>8. l < k
  BY <1>6, <1>7
<1> QED
  BY <1>1, <1>2, <1>4, <1>5, <1>8 DEF PostedInOrder

LEMMA QueuedInOrder ==
  ASSUME TypeOK, [Next]_vars, PostedInOrder, InOrderInv,
         NEW i \in DOMAIN queue', NEW j \in DOMAIN queue', i < j,
         Sender[queue'[i].msg] = Sender[queue'[j].msg]
  PROVE  SentAt[queue'[i].msg] <= SentAt[queue'[j].msg]
<1>1. DOMAIN queue = 1 .. Len(queue) /\ Len(queue) \in Nat
  BY QueueType
<1>2. queue' \in Seq(Entry) /\ DOMAIN queue' = 1 .. Len(queue')
  BY TypeNext, LenProperties DEF TypeOK, Entry
<1>3. ASSUME NEW k \in DOMAIN queue, NEW l \in DOMAIN queue, k < l,
             queue'[i].msg = queue[k].msg, queue'[j].msg = queue[l].msg
      PROVE  SentAt[queue'[i].msg] <= SentAt[queue'[j].msg]
  BY <1>3 DEF InOrderInv
<1>4. CASE QuietStep
  BY <1>3, <1>4 DEF QuietStep
<1>5. ASSUME NEW m \in Msgs, PublishStep(m)
      PROVE  SentAt[queue'[i].msg] <= SentAt[queue'[j].msg]
  <2>1. i \in DOMAIN queue /\ queue'[i] = queue[i]
    BY <1>1, <1>2, <1>5 DEF PublishStep, Joins
  <2>2. CASE j \in DOMAIN queue
    <3>1. queue'[j] = queue[j]
      BY <1>5, <2>2 DEF PublishStep, Joins
    <3> QED
      BY <1>3, <2>1, <2>2, <3>1
  <2>3. CASE j \notin DOMAIN queue
    <3>1. j = Len(queue) + 1
      BY <1>1, <1>2, <1>5, <2>3 DEF PublishStep, Joins
    <3>2. queue'[j].msg = m
      BY <1>5, <3>1 DEF PublishStep, Joins, Fresh
    <3>3. queue[i].msg \in dedup /\ m \in dedup' /\ m \notin dedup
      BY <1>5, <2>1 DEF PublishStep, InOrderInv
    <3> QED
      BY <2>1, <3>2, <3>3, YoungerThanRemembered
  <2> QED
    BY <2>2, <2>3
<1>6. ASSUME NEW k \in DOMAIN queue, NEW n, NEW s, Moves(k, n, s)
      PROVE  SentAt[queue'[i].msg] <= SentAt[queue'[j].msg]
  <2>1. \A l \in DOMAIN queue' : l \in DOMAIN queue /\ queue'[l].msg = queue[l].msg
    BY <1>1, <1>2, <1>6 DEF Moves
  <2> QED
    BY <1>3, <2>1
<1>7. ASSUME NEW k \in DOMAIN queue, Leaves(k)
      PROVE  SentAt[queue'[i].msg] <= SentAt[queue'[j].msg]
  <2> DEFINE src(n) == IF n < k THEN n ELSE n + 1
  <2>1. \A l \in DOMAIN queue' : src(l) \in DOMAIN queue /\ queue'[l] = queue[src(l)]
    BY <1>1, <1>2, <1>7 DEF Leaves
  <2>2. src(i) < src(j)
    BY <1>1, <1>2
  <2> HIDE DEF src
  <2> QED
    BY <1>3, <2>1, <2>2
<1> QED
  BY <1>4, <1>5, <1>6, <1>7, NextKinds
     DEF StepKinds, QueueStep, ReceiveStep, RedriveStep, DeleteStep, TurnStep

LEMMA InOrderNext ==
  ASSUME TypeOK, FirstInFlight, InOrderInv, [Next]_vars, PostedInOrder
  PROVE  InOrderInv'
<1>1. /\ TypeOK' /\ dedup \subseteq dedup' /\ dedup \subseteq Msgs /\ dedup' \subseteq Msgs
      /\ \A m \in Msgs : SentAt[m] \in Nat
  <2>1. TypeOK' /\ dedup \subseteq dedup'
    BY TypeNext, DedupGrows DEF PostedInOrder
  <2> QED
    BY <2>1, MessagesAssumption DEF TypeOK
<1>2. ASSUME NEW h \in Hooks, NEW i \in DOMAIN hook'[h].batch, i < hook'[h].next,
             Deliverable(hook'[h].batch[i])
      PROVE  hook'[h].batch[i] \in dedup'
  <2>1. ASSUME i \in DOMAIN hook[h].batch, i < hook[h].next,
               hook'[h].batch[i] = hook[h].batch[i]
        PROVE  hook'[h].batch[i] \in dedup'
    BY <1>1, <1>2, <2>1 DEF InOrderInv
  <2>2. CASE hook'[h] = hook[h]
    BY <1>2, <2>1, <2>2
  <2>3. CASE hook'[h] = NoPost
    BY <1>2, <2>3 DEF NoPost
  <2>4. i \in Nat /\ i >= 1 /\ hook[h].next \in Nat
    <3>1. hook'[h] \in [batch : Batches, next : Nat \ {0}, retry : BOOLEAN] \cup {NoPost}
      BY <1>1 DEF TypeOK
    <3>2. hook'[h].batch \in Seq(Msgs)
      BY <2>3, <3>1, <1>2, MessagesAssumption DEF NoPost
    <3>3. DOMAIN hook'[h].batch = 1 .. Len(hook'[h].batch)
      BY <3>2, LenProperties
    <3> QED
      BY <3>3, PostedMessages
  <2>5. CASE hook'[h].next = 1
    BY <1>2, <2>4, <2>5
  <2>6. CASE /\ hook[h].next \in DOMAIN hook[h].batch
             /\ hook'[h].batch = hook[h].batch /\ hook'[h].next = hook[h].next + 1
             /\ HandleUndated(h) \/ Handle(h)
    <3>1. CASE i = hook[h].next
      <4>1. Handle(h)
        BY <1>2, <2>6, <3>1 DEF HandleUndated, Deliverable
      <4>2. Enqueue(hook[h].batch[i])
        BY <1>2, <2>6, <3>1, <4>1 DEF Handle, Deliverable, PostedInOrder
      <4> QED
        BY <2>6, <4>2 DEF Enqueue
    <3>2. CASE i # hook[h].next
      BY <1>2, <2>1, <2>4, <2>6, <3>2
    <3> QED
      BY <3>1, <3>2
  <2> QED
    BY <2>2, <2>3, <2>5, <2>6, HookSteps DEF HookStep
<1>3. ASSUME NEW m \in dedup'
      PROVE  Deliverable(m) /\ \E b \in Batches : \E i \in DOMAIN b : b[i] = m
  BY PublishedFrom DEF InOrderInv
<1>4. ASSUME NEW b \in Batches, NEW i \in DOMAIN b, NEW j \in DOMAIN b,
             i < j, Deliverable(b[i]), b[j] \in dedup'
      PROVE  b[i] \in dedup'
  <2>1. CASE b[j] \in dedup
    BY <1>1, <1>4, <2>1 DEF InOrderInv
  <2>2. CASE b[j] \notin dedup
    <3>1. PICK h \in Hooks : /\ hook[h].next \in DOMAIN hook[h].batch
                             /\ hook[h].batch[hook[h].next] = b[j]
                             /\ hook[h].batch \in Batches /\ Deliverable(b[j])
      BY <1>4, <2>2, PublishedFrom
    <3>2. hook[h].batch = b /\ hook[h].next = j
      BY <3>1 DEF PostedInOrder
    <3> QED
      BY <1>1, <1>4, <3>2 DEF InOrderInv
  <2> QED
    BY <2>1, <2>2
<1>5. ASSUME NEW j \in DOMAIN queue'
      PROVE  queue'[j].msg \in dedup'
  <2>1. CASE \E k \in DOMAIN queue : queue'[j] = queue[k]
    BY <1>1, <2>1 DEF InOrderInv
  <2>2. ASSUME NEW m \in Msgs, PublishStep(m), queue'[j] = Fresh(m)
        PROVE  queue'[j].msg \in dedup'
    BY <2>2 DEF PublishStep, Fresh
  <2>3. CASE j \in DOMAIN queue /\ queue'[j].msg = queue[j].msg
    BY <1>1, <2>3 DEF InOrderInv
  <2> QED
    BY <2>1, <2>2, <2>3, NextEntries
<1>6. ASSUME NEW p \in Phones, NEW k \in DOMAIN said[p], NEW j \in DOMAIN queue',
             Sender[queue'[j].msg] = p
      PROVE  SentAt[said[p][k].msg] <= SentAt[queue'[j].msg]
  <2>1. CASE \E l \in DOMAIN queue : queue'[j] = queue[l]
    BY <1>6, <2>1 DEF InOrderInv
  <2>2. ASSUME NEW m \in Msgs, PublishStep(m), queue'[j] = Fresh(m)
        PROVE  SentAt[said[p][k].msg] <= SentAt[queue'[j].msg]
    <3>1. queue'[j].msg = m /\ m \in dedup' /\ m \notin dedup
      BY <2>2 DEF PublishStep, Fresh
    <3>2. said[p][k].msg \in dedup /\ Sender[said[p][k].msg] = p
      BY DEF InOrderInv
    <3> QED
      BY <1>6, <3>1, <3>2, YoungerThanRemembered
  <2>3. CASE j \in DOMAIN queue /\ queue'[j].msg = queue[j].msg
    BY <1>6, <2>3 DEF InOrderInv
  <2> QED
    BY <2>1, <2>2, <2>3, NextEntries
<1>7. ASSUME NEW p \in Phones, NEW k \in DOMAIN said'[p], NEW i \in DOMAIN queue,
             NEW s \in Steps, NEW w \in {"answer", "fallback"},
             TurnStep(i, s), NewReply(p, k, i, w)
      PROVE  /\ k = Len(said[p]) + 1 /\ said'[p][k].msg = queue[i].msg
             /\ Sender[queue[i].msg] = p /\ queue[i].msg \in dedup
             /\ \A j \in DOMAIN queue' :
                  Sender[queue'[j].msg] = p => SentAt[queue[i].msg] <= SentAt[queue'[j].msg]
  <2>1. /\ k = Len(said[p]) + 1 /\ said'[p][k].msg = queue[i].msg
        /\ Sender[queue[i].msg] = p /\ queue[i].msg \in dedup
    BY <1>7 DEF NewReply, InOrderInv
  <2>2. queue[i].step # "wait" /\ Moves(i, queue[i].receives, s)
    BY <1>7 DEF TurnStep, Paths
  <2>3. ASSUME NEW j \in DOMAIN queue', Sender[queue'[j].msg] = p
        PROVE  SentAt[queue[i].msg] <= SentAt[queue'[j].msg]
    <3>1. j \in DOMAIN queue /\ queue'[j].msg = queue[j].msg
      <4>1. Len(queue') = Len(queue) /\ queue' \in Seq(Entry)
        BY <2>2 DEF Moves
      <4>2. DOMAIN queue' = DOMAIN queue
        BY <4>1, QueueType, LenProperties
      <4> QED
        BY <2>2, <4>2 DEF Moves
    <3>2. i \in Nat /\ j \in Nat /\ j >= 1
      BY <3>1, QueueType
    <3>3. ~(j < i)
      BY <2>1, <2>2, <2>3, <3>1, <3>2 DEF FirstInFlight
    <3>4. CASE i = j
      BY <1>1, <2>1, <3>1, <3>4
    <3>5. CASE i < j
      BY <2>1, <2>3, <3>1, <3>5 DEF InOrderInv
    <3> QED
      BY <3>2, <3>3, <3>4, <3>5
  <2> QED
    BY <2>1, <2>3
<1>8. ASSUME NEW p \in Phones, NEW k \in DOMAIN said'[p]
      PROVE  /\ said'[p][k].msg \in dedup' /\ Sender[said'[p][k].msg] = p
             /\ \A j \in DOMAIN queue' :
                  Sender[queue'[j].msg] = p => SentAt[said'[p][k].msg] <= SentAt[queue'[j].msg]
  <2>1. CASE k \in DOMAIN said[p] /\ said'[p][k] = said[p][k]
    BY <1>1, <1>6, <2>1 DEF InOrderInv
  <2> QED
    BY <1>1, <1>7, <2>1, NextReplies
<1>9. ASSUME NEW p \in Phones, NEW i \in DOMAIN said'[p], NEW j \in DOMAIN said'[p], i < j
      PROVE  SentAt[said'[p][i].msg] <= SentAt[said'[p][j].msg]
  <2>1. DOMAIN said[p] = 1 .. Len(said[p]) /\ Len(said[p]) \in Nat
    <3>1. said[p] \in Seq(Reply)
      BY DEF TypeOK, Reply
    <3> QED
      BY <3>1, LenProperties
  <2>2. \A k \in DOMAIN said'[p] :
          \/ k \in DOMAIN said[p] /\ said'[p][k] = said[p][k]
          \/ k = Len(said[p]) + 1 /\ \E q \in DOMAIN queue :
               said'[p][k].msg = queue[q].msg /\ Sender[queue[q].msg] = p
    BY <1>7, NextReplies
  <2>3. i \in DOMAIN said[p] /\ said'[p][i] = said[p][i]
    BY <1>9, <2>1, <2>2
  <2>4. CASE j \in DOMAIN said[p] /\ said'[p][j] = said[p][j]
    BY <1>9, <2>3, <2>4 DEF InOrderInv, SentOrder
  <2>5. ASSUME NEW q \in DOMAIN queue, said'[p][j].msg = queue[q].msg,
               Sender[queue[q].msg] = p
        PROVE  SentAt[said'[p][i].msg] <= SentAt[said'[p][j].msg]
    BY <2>3, <2>5 DEF InOrderInv
  <2> QED
    BY <2>2, <2>4, <2>5
<1>10. SentOrder'
  BY <1>9 DEF SentOrder
<1>11. \A j \in DOMAIN queue' :
         /\ queue'[j].msg \in dedup'
         /\ \A i \in DOMAIN queue' :
              i < j /\ Sender[queue'[i].msg] = Sender[queue'[j].msg] =>
                SentAt[queue'[i].msg] <= SentAt[queue'[j].msg]
  BY <1>5, QueuedInOrder
<1> QED
  BY <1>2, <1>3, <1>4, <1>8, <1>10, <1>11 DEF InOrderInv

(* Two messages of one phone are answered in the order they were sent, and *)
(* stored without running into each other, whatever fails in the worker,   *)
(* as long as Meta posts in order and SQS takes and remembers what it is   *)
(* sent (MessageGroupId).                                                  *)
THEOREM AnsweredInOrder ==
  ASSUME PostedInOrder
  PROVE  Spec => []OrderInv
<1> DEFINE Inv == TypeOK /\ FirstInFlight /\ InOrderInv
<1>1. Init => Inv
  <2>1. Init => TypeOK /\ FirstInFlight
    BY PathInit DEF PathInv, MarkInv
  <2>2. Init => /\ DOMAIN queue = {} /\ dedup = {} /\ \A p \in Phones : DOMAIN said[p] = {}
                /\ \A h \in Hooks : DOMAIN hook[h].batch = {}
    BY DEF Init, NoPost
  <2> QED
    BY <2>1, <2>2 DEF InOrderInv, SentOrder
<1>2. Inv /\ [Next]_vars => Inv'
  BY TypeNext, FirstNext, InOrderNext
<1>3. Inv => SentOrder
  BY DEF InOrderInv
<1>4. Spec => []SentOrder
  BY <1>1, <1>2, <1>3, PTL DEF Spec
<1>5. SentOrder /\ AnswerFollowsQuestion /\ QuestionIsStored => OrderInv
  BY DEF OrderInv
<1> QED
  BY <1>4, <1>5, ConversationsAreInOrder, PTL
=============================================================================
