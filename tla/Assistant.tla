----------------------------- MODULE Assistant -----------------------------
(***************************************************************************)
(* A turn of the assistant from inside: HandleMessage                      *)
(* (packages/orchestrator/service.go), the loop of the agent that asks the *)
(* model and runs its tools (internal/gemini/agent.go), and the stored     *)
(* conversation (packages/conversation).                                   *)
(*                                                                         *)
(* One person's messages, numbered as they are sent: the queue hands out   *)
(* one at a time, and a turn that fails or is killed is run again, from    *)
(* the start, until the tries run out (module Inbound).  The model may     *)
(* answer, call any tools, also one that does not exist, or say nothing.   *)
(***************************************************************************)
EXTENDS Orders, SequencesExt

CONSTANTS Tools,          \* the tools the agent declares
          MadeUp,         \* a tool the model calls and nobody declared
          Blank,          \* the messages with nothing in them but space
          ShortTermLimit, \* shortTermLimit
          MaxToolRounds,  \* maxToolRounds
          MaxMessages,    \* bound: messages of the conversation
          MaxTries,       \* bound: turns for one message
          MaxCallsAtOnce  \* bound: calls in one answer of the model

AssistantAssumption ==
    /\ MadeUp \notin Tools
    /\ ShortTermLimit \in Nat /\ ShortTermLimit % 2 = 0
    /\ {MaxToolRounds, MaxMessages, MaxTries, MaxCallsAtOnce} \subseteq Nat \ {0}

VARIABLES stored,   \* the turns of the conversation, in the order of their keys
          message,  \* the message whose turn it is
          tries,    \* turns begun for it
          agent,    \* where the turn is, and its locals
          cuts,     \* history: turns for it that ended after their first Append
          ran       \* history: the tools this turn has run, round by round

assistantVars == <<stored, message, tries, agent, cuts, ran>>

Resting == [at |-> "rest", contents |-> <<>>, round |-> 0, calls |-> <<>>, results |-> <<>>]

Said(role, m) == [role |-> role, text |-> m]

Init == /\ stored = <<>>
        /\ message = 1 /\ tries = 0
        /\ agent = Resting
        /\ cuts = 0 /\ ran = <<>>

Newest(rows, n) == SubSeq(rows, 1 + IF Len(rows) > n THEN Len(rows) - n ELSE 0, Len(rows))

(* The newest turns, oldest first.                                         *)
LoadRecent(rows) == Newest(rows, ShortTermLimit)

(* What the provider can represent: a turn with something in it.  A reply  *)
(* has, whatever it answers, for an answer without text is an error.       *)
Representable(turn) == turn.role = "user" => turn.text \notin Blank

historyToContents(turns) ==
    LET kept == {k \in DOMAIN turns : Representable(turns[k])}
    IN  [n \in 1 .. Cardinality(kept) |-> turns[InOrder(kept, LAMBDA j, k : j < k)[n]]]

Ends == /\ agent' = Resting
        /\ ran' = <<>>

(* Broken variant of Begin: the message is stored before it is answered.   *)
BeginStored ==
    LET turns == Append(stored, Said("user", message))
    IN  /\ agent.at = "rest" /\ tries < MaxTries /\ message <= MaxMessages
        /\ agent' = [agent EXCEPT !.at = "ask",
                                  !.contents = historyToContents(LoadRecent(turns))]
        /\ stored' = turns
        /\ tries' = tries + 1
        /\ UNCHANGED <<message, cuts, ran>>

(* HandleMessage up to the first request to the model.                     *)
Begin ==
    /\ agent.at = "rest" /\ tries < MaxTries /\ message <= MaxMessages
    /\ agent' = [agent EXCEPT
                   !.at = "ask",
                   !.contents = historyToContents(Append(LoadRecent(stored),
                                                         Said("user", message)))]
    /\ tries' = tries + 1
    /\ UNCHANGED <<stored, message, cuts, ran>>

(* GenerateContent.  An answer with calls in it is worked through, also    *)
(* where it has text beside them; text alone is the reply.  Nothing to     *)
(* send, and an answer without either, are errors.                         *)
Generate ==
    /\ agent.at = "ask" /\ agent.contents # <<>>
    /\ \/ \E n \in 1 .. MaxCallsAtOnce : \E calls \in [1..n -> Tools \cup {MadeUp}] :
            /\ agent' = [agent EXCEPT !.at = "tools", !.calls = calls, !.results = <<>>]
            /\ ran' = Append(ran, <<>>)
       \/ /\ agent' = [agent EXCEPT !.at = "user"]
          /\ UNCHANGED ran
    /\ UNCHANGED <<stored, message, tries, cuts>>

(* Broken variant of Answered: the first error ends the round.             *)
AnsweredAtError(results) ==
    Len(results) = Len(agent.calls) \/ Last(results).outcome = "error"

Answered(results) == Len(results) = Len(agent.calls)

(* runTool: an error is a result like any other.  After the last call the  *)
(* model's calls and their results join what it is sent next, unless the   *)
(* rounds are over.                                                        *)
RunTool ==
    /\ agent.at = "tools"
    /\ \E outcome \in {"output", "error"} :
         LET tool    == agent.calls[Len(agent.results) + 1]
             results == Append(agent.results, [tool |-> tool, outcome |-> outcome])
         IN  /\ tool = MadeUp => outcome = "error"
             /\ ran' = [ran EXCEPT ![Len(ran)] = Append(@, tool)]
             /\ agent' =
                  IF ~Answered(results) THEN [agent EXCEPT !.results = results]
                  ELSE [agent EXCEPT
                          !.at = IF agent.round + 1 < MaxToolRounds THEN "ask" ELSE "spent",
                          !.round = @ + 1,
                          !.contents = @ \o << [role |-> "model", calls |-> agent.calls],
                                               [role |-> "user", results |-> results] >>]
    /\ UNCHANGED <<stored, message, tries, cuts>>

(* The exchange is stored as a pair once there is an answer.               *)
AppendUser ==
    /\ agent.at = "user"
    /\ stored' = Append(stored, Said("user", message))
    /\ agent' = [agent EXCEPT !.at = "assistant"]
    /\ UNCHANGED <<message, tries, cuts, ran>>

AppendAssistant ==
    /\ agent.at = "assistant"
    /\ stored' = Append(stored, Said("assistant", message))
    /\ agent' = [agent EXCEPT !.at = "reply"]
    /\ UNCHANGED <<message, tries, cuts, ran>>

NextMessage == message' = message + 1 /\ tries' = 0 /\ cuts' = 0

(* The reply is sent and the message marked: module Inbound.               *)
Reply ==
    /\ agent.at = "reply"
    /\ NextMessage
    /\ Ends
    /\ UNCHANGED stored

(* An error, a deadline or a kill, at any step, a reply that could not be  *)
(* sent included; the message comes again, or goes to the dead-letter      *)
(* queue.  An Append that failed may have been stored.  A turn that has    *)
(* spent its rounds ends here, with all that its tools did in place.       *)
Fail ==
    /\ agent.at # "rest"
    /\ \/ stored' = stored
       \/ agent.at \in {"user", "assistant"} /\ stored' = Append(stored, Said(agent.at, message))
    /\ IF tries < MaxTries
       THEN /\ cuts' = IF stored' # stored \/ agent.at \in {"assistant", "reply"}
                       THEN cuts + 1 ELSE cuts
            /\ UNCHANGED <<message, tries>>
       ELSE NextMessage
    /\ Ends

Next == \/ Begin \/ Generate \/ RunTool
        \/ AppendUser \/ AppendAssistant \/ Reply \/ Fail

Spec == Init /\ [][Next]_assistantVars

-----------------------------------------------------------------------------
(* The shape of the state.                                                 *)
TypeOK == /\ stored \in Seq([role : {"user", "assistant"}, text : 1 .. MaxMessages])
          /\ message \in 1 .. MaxMessages + 1
          /\ tries \in 0 .. MaxTries /\ cuts \in 0 .. tries
          /\ agent.at \in {"rest", "ask", "tools", "spent", "user", "assistant", "reply"}
          /\ agent.round \in 0 .. MaxToolRounds

Orphan(k) == stored[k].role = "user" /\ (k = Len(stored) \/ stored[k + 1].role = "user")

(* The model is sent a conversation that starts with a question and in     *)
(* which the two take turns: the window never cuts an exchange in half, as *)
(* long as every exchange was stored whole and nobody sent a blank, whose  *)
(* question would be dropped and its answer kept.                          *)
WindowTakesTurns ==
    /\ agent.at = "ask"
    /\ \A k \in DOMAIN stored : ~Orphan(k) /\ stored[k].text \notin Blank
    /\ message \notin Blank
    => /\ agent.contents[1].role = "user"
       /\ Last(agent.contents).role = "user"
       /\ \A k \in 1 .. Len(agent.contents) - 1 :
            agent.contents[k].role # agent.contents[k + 1].role

(* "A failed turn can't leave a duplicate": however often a message is     *)
(* tried, the model finds it once in what it is sent, and once more only   *)
(* for each try that was already being stored when it ended.               *)
AskedOnce ==
    agent.at = "ask" =>
        Cardinality({k \in DOMAIN agent.contents : agent.contents[k] = Said("user", message)})
            <= 1 + cuts

(* What the model is sent is a conversation.                               *)
ConversationInv == TypeOK /\ WindowTakesTurns /\ AskedOnce

(* Every call of the model is answered in its place, errors and made-up    *)
(* tools included, and nothing runs that the model is not told about: the  *)
(* results it has been sent are the tools that ran, round by round.        *)
EveryCallIsAnswered ==
    LET sent  == Len(agent.contents) - 2 * agent.round
        asked(k)    == agent.contents[sent + 2 * k - 1]
        answered(k) == agent.contents[sent + 2 * k]
    IN  agent.at \in {"ask", "spent", "user"} =>
          /\ \A k \in 1 .. sent : "text" \in DOMAIN agent.contents[k]
          /\ Len(ran) = agent.round
          /\ \A k \in 1 .. agent.round :
               /\ asked(k).role = "model" /\ answered(k).role = "user"
               /\ Len(answered(k).results) = Len(asked(k).calls)
               /\ \A n \in DOMAIN asked(k).calls :
                    answered(k).results[n].tool = asked(k).calls[n]
               /\ ran[k] = asked(k).calls
=============================================================================
