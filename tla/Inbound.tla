------------------------------- MODULE Inbound -------------------------------
(***************************************************************************)
(* One WhatsApp message, from Meta's POST to the answer: the webhook       *)
(* (apps/webhook/internal/app), the FIFO queue between the two Lambdas     *)
(* (packages/wainbound, infra), the worker's turn (packages/waturn), the   *)
(* stored conversation (packages/orchestrator, packages/conversation) and  *)
(* the session table that holds the 24h window and the processed marks     *)
(* (packages/wasession).                                                   *)
(*                                                                         *)
(* Meta posts a batch until it gets a 200.  Each deliverable message of    *)
(* the batch is published; SQS drops a message id it remembers, hands out  *)
(* one entry of a group at a time, in order, and moves an entry that was   *)
(* received MaxReceives times to the dead-letter queue.  The worker asks   *)
(* for the mark before the turn and writes it after.                       *)
(*                                                                         *)
(* What can go wrong is in Faults, one name per request that can fail, and *)
(* in KillAt, the steps at which the worker's Lambda may be killed.  A     *)
(* request that fails may still have taken effect at the other end.        *)
(***************************************************************************)
EXTENDS Integers, Sequences, FiniteSets, SequencesExt

CONSTANTS Msgs,         \* Meta's message ids
          Phones,       \* the people who write
          Sender,       \* Sender[m]: who wrote m
          SentAt,       \* SentAt[m]: Meta's timestamp of m
          Batches,      \* the POSTs Meta makes, as sequences of messages
          Undated,      \* messages whose timestamp does not parse
          Refused,      \* messages whose envelope does not validate (no id)
          Writers,      \* messages whose turn writes to the ledger
          Hooks,        \* concurrent invocations of the webhook
          MaxPosts,     \* bound: how often Meta posts one batch
          MaxReceives,  \* maxReceiveCount of the redrive policy
          Faults,       \* the requests that may fail
          KillAt        \* the steps at which the worker may be killed

ASSUME MessagesAssumption ==
    /\ Sender \in [Msgs -> Phones] /\ SentAt \in [Msgs -> Nat \ {0}]
    /\ Batches \subseteq Seq(Msgs) /\ (Undated \cup Refused \cup Writers) \subseteq Msgs
ASSUME BoundsAssumption == MaxPosts \in Nat /\ MaxReceives \in Nat \ {0}

Steps == {"wait", "check", "ask", "respond", "user", "assistant", "reply",
          "sorry", "mark", "delete"}

ASSUME FaultsAssumption ==
    /\ Faults \subseteq {"session", "publish", "ack", "webhook", "dedup", "check",
                         "agent", "append", "reply", "mark", "stale", "expiry"}
    /\ KillAt \subseteq Steps \ {"wait"}

VARIABLES hook,     \* hook[h]: the POST a webhook invocation is working through
          posts,    \* posts[b]: how often Meta has posted b
          acked,    \* the batches Meta has got a 200 for
          session,  \* session[p]: when p last wrote, as the table has it; 0 is none
          dedup,    \* the message ids that SQS remembers
          queue,    \* the entries of the FIFO queue, in flight ones included
          dlq,      \* the messages in the dead-letter queue
          mark,     \* mark[m]: the processed mark
          history,  \* history[p]: the stored turns of p's conversation
          said,     \* said[p]: what p was sent
          writes    \* writes[m]: how many turns have written to the ledger for m

webhook == <<hook, posts, acked, session>>
turn    == <<mark, history, said, writes>>
vars    == <<hook, posts, acked, session, dedup, queue, dlq, mark, history, said, writes>>

NoPost == [batch |-> <<>>, next |-> 0, retry |-> FALSE]

TypeOK ==
    /\ hook \in [Hooks -> [batch : Batches, next : Nat \ {0}, retry : BOOLEAN] \cup {NoPost}]
    /\ posts \in [Batches -> 0 .. MaxPosts]
    /\ acked \subseteq Batches
    /\ session \in [Phones -> Nat]
    /\ dedup \subseteq Msgs
    /\ queue \in Seq([msg : Msgs, receives : 0 .. MaxReceives, step : Steps])
    /\ dlq \subseteq Msgs
    /\ mark \in [Msgs -> {"none", "settling", "set", "expired"}]
    /\ history \in [Phones -> Seq([role : {"user", "assistant"}, msg : Msgs])]
    /\ said \in [Phones -> Seq([word : {"answer", "fallback"}, msg : Msgs])]
    /\ writes \in [Msgs -> Nat]

Init ==
    /\ hook = [h \in Hooks |-> NoPost]
    /\ posts = [b \in Batches |-> 0]
    /\ acked = {} /\ dedup = {} /\ queue = <<>> /\ dlq = {}
    /\ session = [p \in Phones |-> 0]
    /\ mark = [m \in Msgs |-> "none"]
    /\ history = [p \in Phones |-> <<>>] /\ said = [p \in Phones |-> <<>>]
    /\ writes = [m \in Msgs |-> 0]

-----------------------------------------------------------------------------
(* The webhook.                                                            *)

(* Meta posts a batch it has no 200 for, also while an earlier POST of it  *)
(* is still being worked through.                                          *)
Post(h, b) ==
    /\ hook[h] = NoPost
    /\ b \notin acked /\ posts[b] < MaxPosts
    /\ hook' = [hook EXCEPT ![h] = [batch |-> b, next |-> 1, retry |-> FALSE]]
    /\ posts' = [posts EXCEPT ![b] = @ + 1]
    /\ UNCHANGED <<acked, session, dedup, queue, dlq, turn>>

(* The conditional write of RecordInbound: only ever extend the window.    *)
RecordInbound(m) ==
    session' = [session EXCEPT ![Sender[m]] = IF SentAt[m] > @ THEN SentAt[m] ELSE @]

(* Broken variant of MessageGroupId: a group for each message.             *)
MessageGroupPerMessage(m) == m

(* The group that SQS serialises.                                          *)
MessageGroupId(m) == Sender[m]

(* SendMessage: an id that SQS remembers is accepted and dropped.          *)
Enqueue(m) ==
    /\ dedup' = dedup \cup {m}
    /\ queue' = IF m \in dedup THEN queue
                ELSE Append(queue, [msg |-> m, receives |-> 0, step |-> "wait"])

(* Broken variant of Advance: the last message decides on the status.      *)
AdvanceLastWins(h, retry) == hook' = [hook EXCEPT ![h].next = @ + 1, ![h].retry = retry]

Advance(h, retry) == hook' = [hook EXCEPT ![h].next = @ + 1, ![h].retry = @ \/ retry]

(* Handle and its place in the loop of HandleWebhookHTTP.  A message that  *)
(* does not normalise is a 400 and is not asked for again; one that did    *)
(* not reach the queue makes the whole POST a 500.                         *)
HandleUndated(h) ==
    /\ hook[h].next \in DOMAIN hook[h].batch
    /\ hook[h].batch[hook[h].next] \in Undated
    /\ Advance(h, FALSE)
    /\ UNCHANGED <<posts, acked, session, dedup, queue, dlq, turn>>

Handle(h) ==
    /\ hook[h].next \in DOMAIN hook[h].batch
    /\ LET m == hook[h].batch[hook[h].next]
       IN  /\ m \notin Undated
           /\ RecordInbound(m) \/ ("session" \in Faults /\ UNCHANGED session)
           /\ \/ m \notin Refused /\ Enqueue(m) /\ Advance(h, FALSE)
              \/ m \in Refused /\ UNCHANGED <<dedup, queue>> /\ Advance(h, TRUE)
              \/ /\ "publish" \in Faults /\ m \notin Refused
                 /\ Enqueue(m) \/ UNCHANGED <<dedup, queue>>
                 /\ Advance(h, TRUE)
    /\ UNCHANGED <<posts, acked, dlq, turn>>

(* The one status that Meta gets for the batch; a 200 can be lost.         *)
AnswerMeta(h) ==
    /\ hook[h] # NoPost /\ hook[h].next > Len(hook[h].batch)
    /\ hook' = [hook EXCEPT ![h] = NoPost]
    /\ acked' = IF hook[h].retry THEN acked ELSE acked \cup {hook[h].batch}
    /\ UNCHANGED <<posts, session, dedup, queue, dlq, turn>>

(* The webhook's Lambda is killed, or its answer does not arrive in time.  *)
LosePost(h) ==
    /\ hook[h] # NoPost
    /\ \/ "webhook" \in Faults
       \/ "ack" \in Faults /\ hook[h].next > Len(hook[h].batch)
    /\ hook' = [hook EXCEPT ![h] = NoPost]
    /\ UNCHANGED <<posts, acked, session, dedup, queue, dlq, turn>>

-----------------------------------------------------------------------------
(* The queue.                                                              *)

DedupExpires(m) ==
    /\ "dedup" \in Faults /\ m \in dedup
    /\ dedup' = dedup \ {m}
    /\ UNCHANGED <<webhook, queue, dlq, turn>>

(* One entry of a group is in flight at a time, and the first one first.   *)
Receivable(i) ==
    /\ queue[i].step = "wait"
    /\ \A j \in 1 .. i - 1 : MessageGroupId(queue[j].msg) # MessageGroupId(queue[i].msg)

Spent(i) == queue[i].receives >= MaxReceives

Receive(i) ==
    /\ Receivable(i) /\ ~Spent(i)
    /\ queue' = [queue EXCEPT ![i].step = "check", ![i].receives = @ + 1]
    /\ UNCHANGED <<webhook, dedup, dlq, turn>>

(* Broken variant of Redrive: no dead-letter queue.                        *)
RedriveToNowhere(i) ==
    /\ Receivable(i) /\ Spent(i)
    /\ queue' = RemoveAt(queue, i)
    /\ UNCHANGED <<webhook, dedup, dlq, turn>>

(* The redrive policy.                                                     *)
Redrive(i) ==
    /\ Receivable(i) /\ Spent(i)
    /\ queue' = RemoveAt(queue, i)
    /\ dlq' = dlq \cup {queue[i].msg}
    /\ UNCHANGED <<webhook, dedup, turn>>

-----------------------------------------------------------------------------
(* The worker's turn, on entry i of the queue.                             *)

Goto(i, step) == queue' = [queue EXCEPT ![i].step = step]

lastAttemptEarly(i) == queue[i].receives >= MaxReceives - 1   \* broken variant
lastAttempt(i) == queue[i].receives >= MaxReceives

(* The error path of Process: the fallback on the last attempt, then the   *)
(* error, which leaves the entry in the queue.                             *)
GiveUp(i) == Goto(i, IF lastAttempt(i) THEN "sorry" ELSE "wait")

Store(i, role) ==
    LET m == queue[i].msg
    IN  history' = [history EXCEPT ![Sender[m]] = Append(@, [role |-> role, msg |-> m])]

Send(i, word) ==
    LET m == queue[i].msg
    IN  said' = [said EXCEPT ![Sender[m]] = Append(@, [word |-> word, msg |-> m])]

(* Processed: an eventually consistent read, and one that a failure turns  *)
(* into "not yet".                                                         *)
Marked(m)    == mark[m] \in {"settling", "set"}
SeesNone(m)  == \/ ~Marked(m)
                \/ mark[m] = "settling" /\ "stale" \in Faults
                \/ "check" \in Faults

(* Broken variant of CheckProcessed: the mark is a reservation.            *)
CheckAndReserve(i) ==
    /\ queue[i].step = "check"
    /\ mark' = [mark EXCEPT ![queue[i].msg] = "set"]
    /\ Goto(i, IF Marked(queue[i].msg) THEN "delete" ELSE "ask")
    /\ UNCHANGED <<webhook, dedup, dlq, history, said, writes>>

(* Broken variant of CheckProcessed: nobody asks for the mark.             *)
CheckSkipped(i) ==
    /\ queue[i].step = "check"
    /\ Goto(i, "ask")
    /\ UNCHANGED <<webhook, dedup, dlq, turn>>

CheckProcessed(i) ==
    /\ queue[i].step = "check"
    /\ \/ Marked(queue[i].msg) /\ Goto(i, "delete")
       \/ SeesNone(queue[i].msg) /\ Goto(i, "ask")
    /\ UNCHANGED <<webhook, dedup, dlq, turn>>

(* HandleMessage loads the history and asks the model, whose tool calls    *)
(* write to the ledger before there is a text to answer with.              *)
CallTools(i) ==
    /\ queue[i].step = "ask"
    /\ writes' = [writes EXCEPT ![queue[i].msg] = IF queue[i].msg \in Writers
                                                  THEN @ + 1 ELSE @]
    /\ Goto(i, "respond")
    /\ UNCHANGED <<webhook, dedup, dlq, mark, history, said>>

Respond(i) ==
    /\ queue[i].step = "respond"
    /\ Goto(i, "user")
    /\ UNCHANGED <<webhook, dedup, dlq, turn>>

AgentFails(i) ==
    /\ "agent" \in Faults
    /\ queue[i].step \in {"ask", "respond"}
    /\ GiveUp(i)
    /\ UNCHANGED <<webhook, dedup, dlq, turn>>

(* The two Appends that persist the exchange.                              *)
AppendTurn(i, step, role, next) ==
    /\ queue[i].step = step
    /\ \/ Store(i, role) /\ Goto(i, next)
       \/ /\ "append" \in Faults
          /\ Store(i, role) \/ UNCHANGED history
          /\ GiveUp(i)
    /\ UNCHANGED <<webhook, dedup, dlq, mark, said, writes>>

AppendUser(i)      == AppendTurn(i, "user", "user", "assistant")
AppendAssistant(i) == AppendTurn(i, "assistant", "assistant", "reply")

SendReply(i) ==
    /\ queue[i].step = "reply"
    /\ \/ Send(i, "answer") /\ Goto(i, "mark")
       \/ /\ "reply" \in Faults
          /\ Send(i, "answer") \/ UNCHANGED said
          /\ Goto(i, "wait")
    /\ UNCHANGED <<webhook, dedup, dlq, mark, history, writes>>

SendFallback(i) ==
    /\ queue[i].step = "sorry"
    /\ Send(i, "fallback") \/ ("reply" \in Faults /\ UNCHANGED said)
    /\ Goto(i, "wait")
    /\ UNCHANGED <<webhook, dedup, dlq, mark, history, writes>>

(* The conditional write of the mark, which reads may miss for a moment.   *)
(* An expired item that the TTL has not deleted yet still fails the        *)
(* condition, and a failed write is only logged.                           *)
Written == IF "stale" \in Faults THEN "settling" ELSE "set"

MarkProcessed(i) ==
    LET m == queue[i].msg
    IN  /\ queue[i].step = "mark"
        /\ \/ mark' = [mark EXCEPT ![m] = IF @ = "none" THEN Written ELSE @]
           \/ "mark" \in Faults /\ UNCHANGED mark
        /\ Goto(i, "delete")
        /\ UNCHANGED <<webhook, dedup, dlq, history, said, writes>>

(* The handler returned nil: the event source mapping deletes the entry.   *)
DeleteEntry(i) ==
    /\ queue[i].step = "delete"
    /\ queue' = RemoveAt(queue, i)
    /\ UNCHANGED <<webhook, dedup, dlq, turn>>

(* Killed at its timeout, or the deletion lost: the visibility timeout     *)
(* returns the entry to the queue.                                         *)
Killed(i) ==
    /\ queue[i].step \in KillAt
    /\ Goto(i, "wait")
    /\ UNCHANGED <<webhook, dedup, dlq, turn>>

-----------------------------------------------------------------------------
(* The mark becomes visible to eventually consistent reads, reaches its    *)
(* ExpiresAt, and is deleted by the TTL.                                   *)
MarkSettles(m) ==
    /\ mark[m] = "settling"
    /\ mark' = [mark EXCEPT ![m] = "set"]
    /\ UNCHANGED <<webhook, dedup, queue, dlq, history, said, writes>>

MarkExpires(m) ==
    /\ "expiry" \in Faults
    /\ \/ mark[m] = "set" /\ mark' = [mark EXCEPT ![m] = "expired"]
       \/ mark[m] = "expired" /\ mark' = [mark EXCEPT ![m] = "none"]
    /\ UNCHANGED <<webhook, dedup, queue, dlq, history, said, writes>>

-----------------------------------------------------------------------------
Webhook(h) == \/ \E b \in Batches : Post(h, b)
              \/ HandleUndated(h) \/ Handle(h) \/ AnswerMeta(h)

Process(i) == \/ CheckProcessed(i) \/ CallTools(i) \/ Respond(i)
              \/ AppendUser(i) \/ AppendAssistant(i)
              \/ SendReply(i) \/ SendFallback(i) \/ MarkProcessed(i)

Deliver(i) == Receive(i) \/ Redrive(i) \/ Process(i) \/ DeleteEntry(i)

Next == \/ \E h \in Hooks : Webhook(h) \/ LosePost(h)
        \/ \E i \in DOMAIN queue : Deliver(i) \/ AgentFails(i) \/ Killed(i)
        \/ \E m \in Msgs : DedupExpires(m) \/ MarkSettles(m) \/ MarkExpires(m)

Spec == Init /\ [][Next]_vars

(* Meta posts until it gets a 200, and an invocation runs to its end or is *)
(* killed; the event source mapping keeps polling, and a turn that has     *)
(* begun runs on or is killed.  No fault has to happen.                    *)
FairSpec == /\ Spec
            /\ \A h \in Hooks : WF_vars(Webhook(h))
            /\ WF_vars(\E i \in DOMAIN queue : Deliver(i))

-----------------------------------------------------------------------------
Queued(m)  == \E i \in DOMAIN queue : queue[i].msg = m
Times(word, m) == Cardinality({i \in DOMAIN said[Sender[m]] :
                                 said[Sender[m]][i] = [word |-> word, msg |-> m]})
Answered(m) == Times("answer", m) > 0
Deliverable(m) == m \notin Undated /\ m \notin Refused

(* Where a message can be that is not lost: in the queue, in the           *)
(* dead-letter queue, or answered.                                         *)
Accounted(m) == Queued(m) \/ m \in dlq \/ Answered(m)

(* A 200 means that no message of the batch is lost, whatever was killed   *)
(* on the way.                                                             *)
AckedIsAccountedFor ==
    \A b \in acked : \A i \in DOMAIN b : Deliverable(b[i]) => Accounted(b[i])

(* What lets the webhook answer 200: every deliverable message that a POST *)
(* has got past without an error is accounted for, and so is every id that *)
(* SQS drops because it remembers it (Handle, SendMessage).                *)
PostIsAccountedFor ==
    \A h \in Hooks : ~hook[h].retry =>
      \A i \in DOMAIN hook[h].batch :
        i < hook[h].next /\ Deliverable(hook[h].batch[i]) => Accounted(hook[h].batch[i])
DedupIsAccountedFor == \A m \in dedup : Accounted(m)

(* No message is dropped between Meta's POST and its answer.               *)
NothingIsDropped == AckedIsAccountedFor /\ PostIsAccountedFor /\ DedupIsAccountedFor

(* Of one phone's entries only the first can be in flight.                 *)
FirstInFlight ==
    \A j \in DOMAIN queue : queue[j].step # "wait" =>
      \A i \in 1 .. j - 1 : Sender[queue[i].msg] # Sender[queue[j].msg]

(* A turn that reaches its last steps has answered its message.            *)
DoneIsAnswered ==
    \A i \in DOMAIN queue : queue[i].step \in {"mark", "delete"} => Answered(queue[i].msg)

(* The mark is the fact that the message was answered, not a reservation.  *)
MarkMeansAnswered == \A m \in Msgs : mark[m] # "none" => Answered(m)

(* Turns of one conversation never run into each other: every stored       *)
(* answer comes right after the question it answers.                       *)
AnswerFollowsQuestion ==
    \A p \in Phones : \A i \in DOMAIN history[p] :
      history[p][i].role = "assistant" =>
        i > 1 /\ history[p][i - 1] = [role |-> "user", msg |-> history[p][i].msg]

(* While a turn stores its answer, the last stored turn is its question.   *)
QuestionIsStored ==
    \A i \in DOMAIN queue : queue[i].step = "assistant" =>
      LET turns == history[Sender[queue[i].msg]]
      IN  turns # <<>> /\ turns[Len(turns)] = [role |-> "user", msg |-> queue[i].msg]

(* A redelivered older message never moves the 24h window backwards.       *)
WindowOnlyExtends == [][\A p \in Phones : session'[p] >= session[p]]_session

(* Nobody is answered twice.                                               *)
AnsweredOnce == \A m \in Msgs : Times("answer", m) <= 1

(* "Two messages from the same phone are processed in the order they were  *)
(* sent": the answers follow the order of the questions.                   *)
SentOrder ==
    \A p \in Phones : \A i, j \in DOMAIN said[p] :
      i < j => SentAt[said[p][i].msg] <= SentAt[said[p][j].msg]

(* Nobody is told that a turn failed when its answer is still to come, or  *)
(* told so twice.                                                          *)
ApologyIsFinal ==
    \A p \in Phones : \A i, j \in DOMAIN said[p] :
      i < j /\ said[p][i].word = "fallback" => said[p][j].msg # said[p][i].msg

(* A turn that was marked as answered is never run again: whatever is      *)
(* redelivered, and also from a second entry of the message, after the     *)
(* mark no tool writes to the ledger for it, no turn of it is stored and   *)
(* nothing is sent for it.                                                 *)
MarkedIsDone ==
    [][\A m \in Msgs : mark[m] = "set" =>
         LET p == Sender[m]
         IN  /\ writes'[m] = writes[m]
             /\ \A i \in DOMAIN history'[p] \ DOMAIN history[p] : history'[p][i].msg # m
             /\ \A i \in DOMAIN said'[p] \ DOMAIN said[p] : said'[p][i].msg # m
      ]_<<writes, history, said>>

(* What is settled stays settled, whatever is redelivered: one answer,     *)
(* nothing done after the mark, and a window that only extends (Processed, *)
(* MarkProcessed, RecordInbound).                                          *)
SettledStaysSettled == []AnsweredOnce /\ MarkedIsDone /\ WindowOnlyExtends

(* The marks tell the truth, because a turn is over only when its message  *)
(* was answered and nobody else is in flight for the phone.                *)
MarkInv == TypeOK /\ MarkMeansAnswered /\ DoneIsAnswered /\ FirstInFlight

(* A phone's messages are taken one at a time, first come first served: it *)
(* shows in its replies and in its stored history (MessageGroupId).        *)
OrderInv == SentOrder /\ AnswerFollowsQuestion /\ QuestionIsStored

(* A question that reached the queue is answered, or ends up where the     *)
(* failure is visible; it does not block its phone for ever.               *)
QuestionsEnd ==
    \A m \in Msgs : Queued(m) ~> (~Queued(m) /\ (Answered(m) \/ m \in dlq))
=============================================================================
