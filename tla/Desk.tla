-------------------------------- MODULE Desk --------------------------------
(***************************************************************************)
(* The pharmacy's desk: everything handlers and agent turns write by hand, *)
(* and the turn of the assistant itself.  The ledger, the catalog and the  *)
(* conversation live under different keys, and no request touches two of   *)
(* them; the names and the statements of the caderninho are two questions  *)
(* about one book, whose store is the module Fiado.  So a behaviour        *)
(* chooses at the start which of the five it is about; any behaviour of    *)
(* them together is an interleaving of such.                               *)
(***************************************************************************)
EXTENDS LedgerPages

CONSTANTS DefaultCategories, AskedCategories, Months, Targets, MaxUserCategories,
          NameSlugs, Tokens, NoSlug, Values, MaxShown, MaxLines, MaxTells,
          Buyers, SignedAmounts, MaxAmount, MaxDetail,
          Tools, MadeUp, Blank, ShortTermLimit, MaxToolRounds, MaxMessages,
          MaxTries, MaxCallsAtOnce

VARIABLES cats, goals, turns, added, begun,   \* Catalog
          accounts, lines, telling, told,     \* FiadoNames
          book, balance, drawn, known,        \* Timelines
          reading, calm,
          stored, message, tries, agent,      \* Assistant
          cuts, ran,
          desk                                \* what the behaviour is about

Shelf == INSTANCE Catalog WITH
            Turns <- Callers, Asked <- AskedCategories, Absent <- Nobody,
            MaxTurns <- MaxTells

People == INSTANCE FiadoNames WITH Tellers <- Callers

Statements == INSTANCE Timelines WITH
                 Clients <- Buyers, Amounts <- SignedAmounts, lines <- book,
                 MaxMovements <- MaxLines, Nil <- Nobody, Nowhere <- Nobody

Conversation == INSTANCE Assistant

ASSUME DeskAssumption ==
    /\ Shelf!CatalogAssumption
    /\ People!NamesAssumption
    /\ Statements!TimelinesAssumption /\ Statements!DaysAssumption
    /\ Statements!AmountsAssumption /\ Statements!MaxAmountAssumption
    /\ Statements!MaxMovementsAssumption
    /\ Conversation!AssistantAssumption

catalogVars == <<cats, goals, turns, added, begun>>
namesVars   == <<accounts, lines, telling, told>>
timelinesVars == <<book, balance, drawn, known, reading, calm>>
assistantVars == <<stored, message, tries, agent, cuts, ran>>
deskVars    == <<vars, catalogVars, namesVars, timelinesVars, assistantVars, desk>>

DeskInit == /\ PagesInit
            /\ Shelf!Init
            /\ People!Init
            /\ Statements!Init
            /\ Conversation!Init
            /\ desk \in {"ledger", "catalog", "names", "statements",
                         "conversation"}

AtLedger       == /\ desk = "ledger" /\ PagesNext
                  /\ UNCHANGED <<catalogVars, namesVars, timelinesVars, assistantVars, desk>>
AtCatalog      == /\ desk = "catalog" /\ Shelf!Next
                  /\ UNCHANGED <<vars, namesVars, timelinesVars, assistantVars, desk>>
AtNames        == /\ desk = "names" /\ People!Next
                  /\ UNCHANGED <<vars, catalogVars, timelinesVars, assistantVars, desk>>
AtStatements   == /\ desk = "statements" /\ Statements!Next
                  /\ UNCHANGED <<vars, catalogVars, namesVars, assistantVars, desk>>
AtConversation == /\ desk = "conversation" /\ Conversation!Next
                  /\ UNCHANGED <<vars, catalogVars, namesVars, timelinesVars, desk>>

DeskNext == AtLedger \/ AtCatalog \/ AtNames \/ AtStatements \/ AtConversation

DeskSpec == DeskInit /\ [][DeskNext]_deskVars

-----------------------------------------------------------------------------
(* The properties of the other four, see their modules:                    *)
(* the categories settle, within their cap;                                *)
CatalogInv == Shelf!CatalogInv
(* nobody gets an account by accident;                                     *)
NamesInv == People!NamesInv
(* what consultar_fiado answers adds up;                                   *)
StatementInv == Statements!StatementInv
(* a statement walked page by page shows each movement once;               *)
StatementShowsOnce == Statements!StatementShowsOnce
(* the model is sent whole exchanges, and each question once;              *)
ConversationInv == Conversation!ConversationInv
(* every call of the model is answered.                                    *)
EveryCallIsAnswered == Conversation!EveryCallIsAnswered

(* What can be read in two ways reads the same: a listing (of a day, of    *)
(* everything, or from a cursor) and a timeline in the store of the tests  *)
(* and in DynamoDB, the book of the caderninho in the assistant's list and *)
(* on the dashboard.                                                       *)
ViewsAgree == StoresAgree /\ Statements!TimelinesAgree /\ People!ListsAgree

(* The handlers read, decide and write back.  What somebody else had       *)
(* written is lost to that only if it was written in between: a field that *)
(* an edit did not name, a category of the user's own, the target that a   *)
(* call to definir_meta left out.                                          *)
LossNeedsConcurrency == /\ FieldsAreLostToConcurrencyOnly
                        /\ Shelf!OwnCategoriesArePreserved
                        /\ Shelf!OtherTargetIsKept
=============================================================================
