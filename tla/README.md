# Emerbot, specified

TLA+ modules, TLC runs and TLAPS proofs kept beside emerbot, the WhatsApp bot
and the ledger of a small pharmacy. Paths are relative to the repository; in
`PROJECT.json` they carry the prefix `src/`, and `map` names for every
definition the lines it stands for.

## 1. The system

Emerbot is a set of AWS Lambda functions in Go over DynamoDB, SQS and S3. No
function keeps state between invocations: all state is in tables, in a queue, in
a bucket, and in the retry counters of the services in between. So the hard
behaviour is of two kinds. Between the functions: two invocations that read and
write one row, an invocation that ends half-way, a service that delivers twice,
a fact that is cached in one row while its source moves in another. And in the
numbers: many readers fold one ledger, each on its own path, over calendars with
short months and days that are not over.

| Part | State | Operations | Talks to |
| --- | --- | --- | --- |
| **fiado store** `packages/fiado` | movements under a day key and a client key; one row per client with the balance and "desde" | Record, Delete, Totals, two timelines | the agent's tools and the dashboard's API, from many invocations |
| **fiado tools and API** `packages/fiado/tools.go`, `apps/dashboard-api/internal/fiado` | none | register, pay, delete, list debtors, statement, day | fiado store |
| **webhook** `apps/webhook` | none; it writes the 24h window | one POST per batch, one status | Meta, the session table, the queue |
| **inbound queue** `packages/wainbound`, `infra/modules/api_gateway_lambda` | FIFO entries, deduplication ids, receive counts, dead letters | publish, receive, delete, redrive | webhook, worker |
| **worker turn** `packages/waturn` | none | check the mark, run the turn, reply or apologise, mark | queue, session table, orchestrator, WhatsApp |
| **session table** `packages/wasession` | last inbound message of a phone; processed marks with an expiry | RecordInbound, Active, Processed, MarkProcessed | webhook, worker, notifier |
| **orchestrator and conversation** `packages/orchestrator`, `packages/conversation` | stored turns of a phone | HandleMessage, the rounds of the agent, Append, LoadRecent | the model, the tools |
| **payment import** `packages/payments`, `apps/payment-importer` | rows of sales, receivables and payments; an index item for each (provider, source day) | Save | S3 events, the dashboard's read side |
| **PagBank parser and assembler** `packages/payments/pagbank` | none | assemble files to an envelope, parse it | the importer |
| **payments read side** `apps/dashboard-api/internal/payments` | none | three range lists, totals, forecast | payment rows, ledger |
| **financial ledger** `packages/finance`, `packages/domain`, `apps/dashboard-api/internal/finance/entries.go` | entries under the transaction date and three date indexes | create, edit, delete, find, list page by page | tools, dashboard, notifier |
| **catalog and goals** `categories.go`, `goals.go`, `packages/finance/tools.go` | categories of a user, goals of a month | list with reconciliation, create, set targets | tools, dashboard |
| **summaries and analytics** `packages/finance`, `packages/finance/analytics` | none; a snapshot of the insights for each day | month summaries, projection, plan, cash, health, comparison, history | ledger, goals |
| **notifier** `apps/notifier`, `packages/notifications` | none; it writes the delivery log | the digest and the bill reminder, one scheduled run each | scheduler, WhatsApp, ledger, session table |
| auth, HTTP plumbing, model client, CLI, simulator, web | none of their own | routing, presentation | all of the above |

What makes each part correct, and what makes that hard:

- **fiado store.** The balance is the sum of the movements although nobody
  reads before adding; both copies of a movement exist or neither does;
  "desde" is there exactly while money is owed, and is the day the debt began.
  Hard: "desde" is repaired *after* the transaction, by a read, a decision and a
  conditional write, with other callers in between and a Lambda that may die.
- **fiado tools.** One person has one account; a payment never opens an account in
  credit unasked; a statement adds up and shows each line once. Hard: names are
  compared with a book that another turn is writing, a balance and a history
  are two reads, and a cursor names a line that may be deleted.
- **webhook, queue, worker.** A message that Meta got a 200 for is not lost;
  nobody is answered twice; answers come in the order of the questions; a message
  that cannot be answered ends where somebody sees it. Hard: Meta re-posts, SQS
  redelivers, the deduplication window and the mark end at different times, and
  each request of the turn can fail after it took effect.
- **assistant.** The model is sent whole exchanges, the question once, and an
  answer to each call it made. Hard: the window is cut by a count, a turn is run
  again from the start, tools fail or do not exist.
- **payment import and read side.** A replayed day replaces its own rows exactly;
  every line of an extract is counted once; the forecast keeps the ledger's curve.
  Hard: one replacement is many batches plus an index item, without a
  transaction; a sale has one line for each parcela.
- **ledger.** One row per id, whatever day it moves to; a deleted entry stays
  deleted; every stored row can be read; a walk through pages shows each entry once.
  Hard: a patch is a read, a change and a write of the whole row, a changed
  date is a delete and a put, and reads and indexes lag.
- **catalog.** A category of the user's own survives; the target that was not named is
  kept. Hard: a GET writes, and every write is unconditional.
- **summaries and analytics.** All paths agree on a month; parts add up; a plan
  closes the month; what is booked for later does not judge what has passed; the past is
  judged by what was known then. Hard: three dates, running and closed months,
  rounding day by day.
- **notifier.** One digest and one list for each person and day; whoever can be told is
  told. Hard: the log is written after the send, the whole run is the unit of
  retry, and the schedule may fire twice.

`PROJECT.json` lists all components with their status and all hazards with the
line at which each of them bites.

## 2. Modules

    FiadoMovements --- Caderninho --- Timelines      (movements; the abstract book; statements)
          \------------- Fiado                       (the store; Book == INSTANCE Caderninho)
                           \-- FiadoReplay           (the loops of fiado.go)
                                 |-- MCFiado
                                 \-- FiadoProofs     theorems
    Inbound -------------- MCInbound, InboundProofs  (webhook + queue + worker + tables)
    PaymentsImport ------- PaymentsProofs            theorems
           \---------\
    Months - Extracts - PaymentsReadings - MCPaymentsImport
    Table
      \------- Ledger --\
    Entries ---/         LedgerPages --- Desk --- MCDesk
      |-- Listing ------/                 |  INSTANCE Catalog, FiadoNames, Timelines, Assistant
      |     (Orders: Listing, Timelines, FiadoNames and Assistant put a set in order with it)
      |-- LedgerBook (INSTANCE)
      \-- Summaries (with Months) - Rates - Projection - CashPosition - Health
            - Breakdowns - Analysis - Bills - Books - BooksReadings - MCBooks, BooksProofs
    Notifier ------------- MCNotifier, NotifierProofs
    Catalog -------------- CatalogProofs             theorems
            and over LedgerPages and the desk as a whole, DeskProofs
    Sums                   lemmas about the library's sums; BooksProofs and DeskProofs extend it

A definition whose comment says "Broken variant of X" is a plausible bug in X. No
specification uses it; put in X's place, it shows that a run would notice.
SQS, S3, DynamoDB and the scheduler are modelled from how the code and the
Terraform files configure and use them.

### Fiado, Caderninho, Timelines, FiadoNames

`FiadoMovements` is `fiado.go`: a movement, its validation, the totals, the
replay that finds the day the balance left zero, and the age of a debt. A day is
a positive integer, an amount a number of centavos, an id the rank of its ULID. A
total is the cardinality of a set of centavos, so that no recursion stands
between it and a proof. `FiadoReplay` writes the loops of the code as
recursive functions; a run compares them with those definitions, and a theorem
says that they agree.

`Fiado` is `dynamodb.go`. `dayRows` and `clientRows` are the two copies, `latest`
the row per client, `call[p]` a caller's place in Record, Delete or settleSince
with the locals it has read. One action stands for one request to DynamoDB:

| Code | Actions |
| --- | --- |
| `Record`: build and validate; one TransactWriteItems | `BeginRecord`, `RecordTransaction` |
| `Delete`: consistent read of the movement; one TransactWriteItems | `BeginDelete`, `LookupMovement`, `DeleteTransaction`, `DeleteNotFound` |
| `settleSince`: consistent read, decision | `SettleClear`, `SettleReopen`, `SettleNothing` |
| `sinceFromHistory`, `writeSince` | `ReplayHistory`, `WriteSince` |
| an error return, or a killed Lambda | `Fail` |

`opened` and `pending` are history variables that no guard reads. `opened` is
what `inmemory.go`, where write and repair are one critical section, would store.
`Caderninho` is the contract of `store.go`: a line and its effect on the
balance, in one step; `Fiado` is proved to implement it. So `Timelines` takes its writers from there:
beside them one reader either asks `consultar_fiado` (`ReadDebtor`,
`ConsultarFiado`, two reads) or walks a timeline (`OpenTimeline`, `ReadPage`).
`FiadoNames` is `recordMovement`: names reach slugs, slugs are compared with
the book, and the decision is written later (`RecordMovement`, `Ask`, `Record`,
`ApagarMovimento`, `Abandon`).

### Inbound and Assistant

`Inbound` is one module, because every property spans several parts. `hook` is a webhook
invocation in the loop of `http.go`; `queue`, `dedup` and `dlq` are SQS; the
`step` of an entry is the worker's place in `Process` and its callees; `session`
and `mark` are the two kinds of item in the session table; `history` is the
conversation store; `said` is what a phone was sent, `writes` how often a turn
has written to the ledger. What can fail is a constant: `Faults` names the requests,
`KillAt` the steps at which the worker may be killed. A request that fails may or
may not have taken effect, where that makes a difference.

`Assistant` is the turn from inside, for one person: `Begin` loads the window and
assembles what the model is sent, `Generate` is a request to the model, `RunTool`
one tool call, then the two Appends and the reply; `Fail` ends the turn anywhere,
and the message comes again. `ran` is history: the tools that ran, round by round.

### PaymentsImport, Extracts, PaymentsReadings

`object` is the bucket, `events` the asynchronous invocations that wait for their
first attempt or for one of two retries, `run` an invocation's place in `Save`,
`rows` the table, with the version of the envelope that wrote each row, and
`index` the index items. `Writes` is the request list of `Save`, `WriteBatch` one
BatchWriteItem, of which any part may be processed. `dirty` is history: the last
run of that import failed. `Redrop` says who operates the importer: under
`"same"`, a run that failed half-way is replayed with the same envelope, as
`docs/deploy.md` tells the operator.
`Extracts` is what is in an envelope: files of lines are assembled, days moved by
`RebaseTo`, lines parsed to sales, receivables and payments with their keys, and
refused by `ValidateImportResult`. `PaymentsReadings` joins the two: the range
lists, the totals and the forecast, over whatever rows the import has left.

### The ledger: Table, Entries, Ledger, LedgerPages, LedgerBook, Listing, Catalog, Desk

`Table` is DynamoDB as the code uses it, `Entries` the entry with Normalize and
Validate, `Ledger` the callers: each request is one step; `lagging` is the table
before the last write that has not reached every replica and index. `LedgerPages`
adds a client that walks the pages and states the properties. `LedgerBook` is the
in-memory store, one entry under each id, and the ledger's abstract specification.
`Listing` holds both `ListEntries`, the index query and the scan of a map.
`Orders` is the order an index or `sort.Slice` gives to a set: `InOrder` is a CHOOSE
among its enumerations, about which, unlike a recursive sort, something can be proved.
`Catalog` is categories and goals, read first and put afterwards.
`Desk` runs `LedgerPages`, `Catalog`, `FiadoNames`, `Timelines` and `Assistant` in one
specification. They share no key, so a behaviour is about one of them, chosen in
the first state.

### The numbers: Months to BooksReadings

`Months` is the calendar and the clock of an analysis; the lengths of weeks and months are
constants. `Summaries` are the folds of `packages/finance`; `Rates`, `Projection`, `CashPosition`,
`Health`, `Breakdowns` and `Analysis` the packages' files in their order of use, ending in
`Assemble`, and `Bills` what the notifier's texts say of the bills. All of these are operators. `Books` puts
them in motion: a day passes, something is registered, something is paid, and
the analyses of the running and of the last month are kept as `view` and `past`.
`BooksReadings` states what a reader may rely on. Fractions are exact; a figure is rounded where
the code rounds it.

### Notifier

One day: `Fire`, `Duplicate` and `Retry` start an invocation, which then reads the
ledger, analyses and goes through the recipients, part by part: log, window,
send, record. A send whose answer is lost reports an error although the person has the message
(`whatsapp/meta.go:117-126`): the run goes on as after any failure, and the next try sends it again. So it counts as
a loss, in `lost`, like a record that failed. `MaxFaults` bounds how many requests fail, answers are lost or runs die,
`MaxAttempts` the scheduler's tries, `MaxChanges` what
happens in the world meanwhile (a window closes, a bill is paid, somebody registers).

## 3. Runs

Every run explores its whole state space except the violations. A property whose
name ends in `Inv`, and a few others, is a conjunction of named parts that belong together; the
type invariant of a module is one of the parts, so it has no line of its own.

| Run | Checks | Instance |
| --- | --- | --- |
| `fiado_safety` | `IInv` (with the types, and that the copies agree), `BalanceIsSum`, `SettledSince`, `ImplementsBook` | 2 callers, 2 clients, 3 movements, every call may end anywhere |
| `fiado_sequential` | `SinceIsOpeningDay`; `LoopsAreTheDefinitions`: totals, replay and ageing | 1 caller, 4 movements of -2, 1 or 2 on 2 days |
| `fiado_live` | `DesdeIsRepaired` | 2 callers, 3 movements, no failures |
| `inbound_delivery` | `NothingIsDropped`: what was acknowledged, posted or deduplicated is queued, answered or dead-lettered | two batches, posted twice; publish, session write, ack, webhook, agent and worker fail |
| `inbound_order` | `OrderInv`: replies (`SentOrder`) and history (`AnswerFollowsQuestion`) in order; `MarkInv`: a mark means an answer; `ApologyIsFinal` | one POST of two messages, 3 receives, every failure of the turn, a kill at each step, marks that expire |
| `inbound_live` | `QuestionsEnd`; `SettledStaysSettled`: `AnsweredOnce`, `MarkedIsDone` (nothing written, stored or sent after the mark), `WindowOnlyExtends` | two messages of a phone, posted twice, 2 receives |
| `payments_replace` | `ReplaceInv`: `ReplaceIsExact`, `LeftoversAreReplayed`; `NothingGoesMissing`; `EveryLineIsCounted`, `ForecastKeepsTheLedger`; `AssemblyKeepsThePlan`: order of files, rebasing | 2 concurrent invocations, 4 envelopes of 2 days, 3 drops, batches of 2, 2 tries; a sale of two parcelas over the end of a month |
| `desk` | the ledger: `TableInv` (`OneRowPerId`, `DeletedStaysDeleted`, `EveryRowReads`), `ImplementsBook`, `PagesShowOnce`; the catalog: `CatalogInv` (`ReconcileConverges`, the cap); the names: `NamesInv` (`LookalikesWereAskedFor`, `CreditIsConfirmed`); the statements: `StatementInv` (`StatementAddsUp`), `StatementShowsOnce`; the assistant: `ConversationInv` (`WindowTakesTurns`, `AskedOnce`), `EveryCallIsAnswered`; of several: `ViewsAgree` (two stores over a day, everything or a cursor; two timelines; two lists), `LossNeedsConcurrency` (fields, categories, targets) | 2 callers, 2 entries, 3 calls; pages of one; 3 places for categories; four names, 3 movements; 3 messages, the second blank, window of 2, 2 rounds of up to 2 calls, 2 tries |
| `notifier` | `LogInv` (`RecordMeansSent`, `SuccessMeansEveryone`, `ListsHaveNoGaps`), `RepeatsInv` (`RepeatsNeedALoss`), `EveryoneIsTold` | 2 recipients, 2 overlapping invocations, 2 bills, 2 attempts, one fault (a request that fails, an answer that is lost, a run that dies), two changes of the world |
| `books` | `FiguresAgree` (`PartsAddUp`, `SummariesAgree`), `PlanInv` (`PlanClosesTheMonth`, `ClosedMonthIsWhole`), `SellingOnlyFillsTheDay`, `OnlySalesJudge` (loans, booked bills), `NightsMoveLittle` (`TrendsMoveByWeeks`, `OvernightDelta`), `NoLookAhead`, `NothingIsCutSilently` (listings, lists of bills), `WordsMatchTheFigures` (a fall, a covered month, a calm day) | two ledgers, two sets of goals, weeks of 3 days, months of 6 and 7, three days over the end of a month, 2 changes out of 5 items and all open bills |
| `fiado_race`, `default_month` | one disagreement each (section 6) | small |

**Why the bounds are enough.** A caller of the store has at most one request in
flight and its locals concern one client, so two callers give every pair of
overlapping calls and two clients every confusion between rows; three movements
are a debt, its settlement and a movement in the gap. Amounts of ±1 reach zero,
debt and credit, and a payment of 2 over a purchase of 1 crosses zero; amounts out of range
are asked for and refused. With four movements a debt can open, close and reopen
with a backdated line. Two messages of one phone are the least for order and for a
queue blocked at its head; two receives are the least at which an
attempt is not the last, three at which one is neither first nor last. Two
versions with one common and one differing key give a delete, a put and an
overwrite; batches of two give a full and a short batch; the first month has a day that the next
one lacks, which is the case in which a rebased parcela could overflow.
At the desk, the properties relate at most two callers over one entry; two ids
are the least for a page and a cursor, three calls are a creation and two that overlap, or two
entries and a change to one of them. The four names are one person three ways and a stranger. Pages and details of
one make every listing of two a cut one. A window of one exchange is cut at the third message.
The two recipients differ in all that the loop tells apart: one is served first and
may fail, the other must be told all the same. The calendar keeps what the code
distinguishes: whole and cut weeks, months of unequal length, a clock on the last day and on the first.

**What is excluded, and where.** `AnsweredOnce` and `MarkedIsDone` are checked
with lost 200s, a re-post after the deduplication interval, a failing agent, and a
worker killed before the reply or after the mark. `MarkedIsDone` speaks of all that a turn
does: ledger, conversation, replies and apologies. They do *not* survive a mark
that expires, a mark that could not be written, a mark read
that failed, a stale read, a reply whose success was not noticed, or a worker killed between the reply
and the mark: the code chooses at-least-once there (comments in `turn.go`), and
the properties say how far the choice goes. `SentOrder` is checked with a single
POST: section 6 says what a re-post does. `ReplaceIsExact` assumes the recovery that
`docs/deploy.md` describes. `FieldsAreLostToConcurrencyOnly`, `CapIsOvershotByConcurrencyOnly`,
`LookalikesWereAskedFor`, `RepeatsNeedALoss` and `AskedOnce` say what the code does not
exclude and that nothing but it goes wrong. For the notifier that is a person who hears a message again after a
send that was reported as failed and was not, a record that could not be written, a run that died between the two, or an invocation too
many; and the beginning of a reminder that broke off, which comes again with the whole (`notifier.go:597-604` calls that harmless).
`StoresAgree` leaves out a cursor together with a range, where the two stores differ (section 6). `WindowTakesTurns` speaks of
conversations of whole exchanges without a blank question; `FallIsSaidTwice` of months in which something was sold.
`ApologyIsFinal` excludes a second apology and one before an answer, not a question that gets neither: that one is `QuestionsEnd`'s, which
counts the dead-letter queue as an end.

**Deadlock.** `CHECK_DEADLOCK FALSE` stands where a behaviour may end because a
bound is used up: posts, drops, movements, calls, messages, days. In the runs
without it a call can always be made.

**Fairness.** `Fiado!FairSpec`: a call that has begun performs its next request;
nothing obliges anybody to call. A Go handler between two requests waits for
nothing else, and its end is `Fail`, which the run excludes.
`Inbound!FairSpec`: the event source mapping keeps polling and a handler
runs on; an invocation of the webhook ends. Nothing is assumed of faults:
they may happen each time, and `QuestionsEnd` holds because receives are
counted. Fairness is on the worker as a whole, not on each message.
`Notifier!Fairness`: the schedule of each kind fires, and an invocation runs on until
it ends or dies; nothing is assumed of retries, windows or faults, so
`EveryoneIsTold` speaks of runs that answered with success.

## 4. Proofs

Eight modules hold theorems, one of them (`Sums`) lemmas only. Each speaks of all values of the constants that satisfy the
named ASSUMEs of the module it is about (or a named assumption operator that
`DeskAssumption` assumes); TLC evaluates those assumptions in the runs.

| Module | Theorem | States | Under |
| --- | --- | --- | --- |
| `FiadoProofs` | `SpecInv`, `SpecTypeOK`, `SpecBalanceIsSum`, `SpecCopiesAgree` | `IInv` and its parts | |
| | `SpecImplementsBook` | `ImplementsBook` | |
| | `SpecSettledSince` | `SettledSince` | |
| | `TurnsKeepTheOpeningDay` | `SinceIsOpeningDay`, in behaviours with `RepairsTakeTurns` | no failures |
| | `OneCallerKeepsTheOpeningDay` | `SinceIsOpeningDay` | no failures, one caller |
| | `LoopsMeanTheirDefinitions` | `LoopsAreTheDefinitions` | |
| `InboundProofs` | `PathIsInvariant` | `PathInv` | |
| | `NothingIsEverDropped`, `MarksTellTheTruth`, `ConversationsAreInOrder` | `NothingIsDropped`, `MarkInv`, `AnswerFollowsQuestion` | |
| | `WindowOnlyEverExtends` | `WindowOnlyExtends` | |
| | `ApologiesAreFinal` | `ApologyIsFinal` | no post after the deduplication interval |
| | `MarkedStaysDone` | `MarkedIsDone` | mark reads neither fail nor lag |
| | `SettledStays` | `SettledStaysSettled` | `NothingBlursTheMark` |
| | `AnsweredInOrder` | `OrderInv` | `PostedInOrder` |
| `PaymentsProofs` | `RowsAreNeverMissing` | `NothingGoesMissing` | |
| | `ReplacesExactly` | `ReplaceInv` | `FailedIsReplayed` |
| `NotifierProofs` | `RecordsAreTrue`, `RepeatsAreAccountedFor` | `LogInv`, `RepeatsInv` | |
| `CatalogProofs` | `CatalogIsSound`, `LossNeedsARace` | `CatalogInv`, `OwnCategoriesArePreserved`, `OtherTargetIsKept` | |
| `DeskProofs` | `LedgerInv`, `FieldsSurvive`, `LedgerImplementsBook` | `TableInv`, `FieldsAreLostToConcurrencyOnly`, `ImplementsBook` of `PagesSpec` | |
| | `PagesAreComplete` | `PagesShowOnce` | |
| | `StoresListAlike`, `ViewsAlwaysAgree` | `StoresAgree`, `ViewsAgree` | |
| | `DeskKeepsTheCatalog`, `DeskKeepsTheNames`, `DeskLosesOnlyToRaces`, `DeskKeepsTheLedger` | `CatalogInv`, `NamesInv`, `LossNeedsConcurrency`, `TableInv` and `ImplementsBook` of `DeskSpec` | |
| | `StatementsAddUp`, `StatementsAreComplete` | `StatementInv`, `StatementShowsOnce` | |
| | `ConversationIsSound`, `CallsAreAnswered` | `ConversationInv`, `EveryCallIsAnswered` | |
| `BooksProofs` | `AMonthHasOneSetOfFigures` | `FiguresAgree` | |
| | `TheDaysLeftCloseTheMonth` | `PlanInv` | |
| | `CutsAreAnnounced` | `NothingIsCutSilently` | `LinesHaveALength` |
| | `WordsFollowTheFigures`, `EstimatesKnowTheirDay` | `WordsMatchTheFigures`, `NoLookAhead` | |
| | `SellingFillsTheDay`, `OnlySalesAreJudged`, `NightsChangeOneDay` | `SellingOnlyFillsTheDay`, `OnlySalesJudge`, `NightsMoveLittle` | |

**The hypotheses.** A theorem has one only where the code breaks the property without it;
section 3 names the case for each. `NothingBlursTheMark`: no mark read fails or is stale, no mark is lost or
expires, no reply is sent and reported as failed, no worker is killed between reply and mark, which is where the code
chooses at-least-once. All other faults and kills may strike. `PostedInOrder`: the deliverable
messages of a phone are in one batch, in the order they were sent, the
publish succeeds and SQS remembers it; section 6 says what a re-post does.
`FailedIsReplayed` is the recovery of `docs/deploy.md`, and sort keys that belong to
one source day. The opening day: `fiado_race` shows that overlapping repairs of one client
lose it, and a call that ends before its repair leaves the row undated. `LinesHaveALength`: the length of a written line is a
natural number, whatever the entry, which TLC cannot evaluate as an assumption because it speaks of every value.

**Fiado.** `BalanceIsSum` alone is not inductive. A `RecordTransaction`
adds its amount to the balance, so the sum must grow by the same, so the movement
must be new to the rows. For that, ids in use must be fresh (`IdsAreFresh`), a call
about to write must hold a movement no row has and no other call is about to
write (`Provenance`). A deletion must find the row it updates and the copy it erases
(`RowsExist`, `CopiesAgree`). `IInv` is the conjunction, and it holds whatever the
repair does and wherever a call ends. Lemmas show that the sum over a finite set
changes by the amount of a movement that joins or leaves it, from cardinalities
of finite sets. Every step then is one `Enter`, one `Erase` or a stutter of
the book under the mapping `lines <- clientRows`, `balance <- Balance`.

`SettledSince` says that once the last movement of a client has run its repair to the end, the row is
dated exactly while money is owed. Its invariant `RepairInv` adds what the owing call still has to do
at each of its steps (`Duty`), and that a call about to write back a day has one exactly if it read a
balance that calls for one (`Decided`). The latter needs the replay to find an opening day in each history whose sum
is not zero: the least day from which the balance stays away from zero. `OpeningInv`
carries the day itself: `Foretold` is what a call in its repair is going to leave in the row.

`LoopsMeanTheirDefinitions` is about data: the three loops of `fiado.go` (the sum, the replay, the order it replays
in) against the definitions that the rest of the proofs use. No induction theorem that takes an operator can be cited, so each
induction is an argument from a least counterexample. That a recursive function exists is shown by a
witness: the state after i rounds is what the definitions say of the first i lines (`SumAfterRounds`, `ReplayAfterRounds`).
That there is only one follows from the first round at which two would differ (`RoundsAgree`). One round more changes the
opening day as the code does (`ReplayOneMore`).

**Inbound.** `PathInv` joins the queue, the deduplication record, the hooks, the marks and the
stored conversation; the part that makes it inductive is that an entry beyond "wait"
is the first of its phone (`FirstInFlight`), so no two turns of a phone write its history
at once. For the conditional theorems one more conjunct each: who may still
apologise, who may still answer, and that the queue of a phone is ordered behind what was said.

`AskInv` is what a mark rules out: whatever step of its turn an entry has reached past the check, the apology included, its message is not
marked; and no other entry marks it meanwhile, since only the first of a phone is in flight.

**Payments.** A run deletes only keys its own envelope lacks, and it holds that envelope until its end
(`RunInv`): `RowsAreNeverMissing`. `ReplayInv` measures how far a run has got with rows and with the index
(`GotFar`); with all requests written the rows are those of the envelope. It relies on lemmas about
`Writes`: each key once, in batches that cover the list, whatever the batch size.

**Notifier.** `PathInv` says of each run what it has told and to whom (`Accountable`). `CountInv`
adds `Budget`: what somebody has heard and may still hear is at most one message
of each kind that has fired and one for each loss. A send whose answer was lost is such a
loss: it is heard and leaves no record, so the next try is still in the budget. Counting runs that may still tell needs
the cardinalities of finite sets.

**Ledger.** `TableInv` is inductive with its parts `IdsAreDrawn` and `EditsKeepTheEntry`: a call at its write holds
a previous and a next version of one id, both fixed points of `Normalize`, so a move, which deletes
under one key and puts under another, leaves one row. The refinement maps each write to one operation of `LedgerBook`.

**Pages.** `PagesShowOnce` needs three steps. A finite set has an enumeration in order (`OrderExists`: put the
least element first), so `InOrder` chooses one (`SortedMeans`). A page is then exactly the entries
behind the cursor, down to the last one shown (`QueryMeans`, `PageMeans`), although the paginator
stops at the first DynamoDB page that brings enough. And `WalkInv` says of each entry
nobody touched that every view of the index has its one row, and that it has been shown once unless the cursor is still
before it. That a cursor is a key and "no cursor" is none is `NobodyAssumption`; that a limit is
positive, `PageLimitAssumption`. With the same facts `StoresListAlike` shows that a page of `inmemory.go`, which sorts
everything and looks for the cursor, and one of `dynamodb.go` over a fresh index hold the same entries in the same order.

**Catalog and names.** `ShelfInv` says of a turn what it read and what it will write for it. For
the cap, a turn past the check holds a place: places taken and held stay within the cap and one for each other turn. `NamesIInv` keeps
what a teller saw of the book when it decided; the book never loses an account, so what was seen stays, and
resembling is mutual. `DeskProofs` holds the argument about names, takes the theorems of the other modules through
INSTANCE, and shows that each step of the desk is a step of one part and a stutter of the others.

**Statements.** `StatementAddsUp` compares two reads of different things, a balance that is kept up and a history
that is folded, so `StatementsInv` relates them first: the balance is what the lines add up to (`BalanceInv`,
step by step, with the sum of a set shown to be additive), and a question remembers the lines its balance was
read from (`AskedInv`). What came and what went since is the difference. `TimelineInv` is
the walk's: each line that was there throughout has been shown once, or is still ahead of the cursor, which needs the line of the
cursor no more than DynamoDB does: order is all it uses.

**Conversation.** `TurnInv` has five parts. `AgentInv` is the shape of a turn. `StoredInv` counts how often the
question is stored: once for each turn that was cut while storing, and once more from `AppendUser` on; it needs that nothing is
stored ahead of its turn. `SentInv` says that the window inherits this and, over whole exchanges, takes
turns: the window is an even number of turns counted from the end, so it begins with a user. `RoundsInv` and `ToolsInv`
keep, for each round, that calls, results and the tools that ran are one list.

**Views.** The two stores, the two timelines and the two lists of debtors put one set in order in different ways: an index,
a sort, an insertion line by line. So the argument is about orders: two enumerations that rise in the same strict order are equal
(`OneRanking`), each way of the code gives such an enumeration (`SortedMeans`, `InsertRanks`), and what comes
behind a cursor is the rest of it. The totals beside a list are sums of parts (`SumOfParts`), by day and by client.
`AccountsInv` says that the names kept are those in the book.

**Books.** `BooksInv` says of a state that `view` and `past` are the analyses of its ledger, that the ledger is finite and its entries
are valid; `NumberedInv` that ids are drawn in turn. The rest is about the operators, for every ledger that satisfies that. The sums
of the library choose an element, add it and go on, so an order is hidden in them: `Sums` shows from a least
counterexample that there is one such function and that the choice makes no difference (`OneByOne`), and then how sums behave: they split by
parts (`SumOfParts`) and can be counted along another index (`SumMoves`). `AMonthHasOneSetOfFigures` is then
a matter of which entries each reader sees, `MonthOf` being unique because months are consecutive runs of days. For the plan, each
ask is within half a centavo of its share, so their sum is within half a centavo a day (`SharesAreNear`); the weights are positive, so an
average never is negative. `OnlySalesAreJudged` and `EstimatesKnowTheirDay` rest on what a fold does not see: a
reading of the sales is the same for two ledgers that have the same sales. For a list of bills, a message is filled line by line
(`Packed`), and together the messages are the list (`Joined`).
The assumptions (`BooksAssumption`, `AnalysisAssumption`, `SummariesAssumption`, `BillsAssumption`) say that the month before the first
one is in the calendar, that goals are integers, that ids rank entries, that the histories to begin with are valid, and that limits are naturals, the one
for overdue bills positive.

**Only model-checked**, and why:

- Liveness and what uses ENABLED: `DesdeIsRepaired`, `QuestionsEnd`, `EveryoneIsTold`.
- `EveryLineIsCounted`, `ForecastKeepsTheLedger`, `AssemblyKeepsThePlan`, which are about `Extracts`: files are concatenated and filtered
  there with `FlattenSeq` and `SelectSeq`, which the library defines by recursion and the prover does not expand; what they give for every
  file needs an induction that takes an operator.
- `SinceIsOpeningDay` where two repairs of one client overlap: there it is false (`fiado_race`).

`Timelines` names `Caderninho` last in its EXTENDS: the prover takes the `Sum` that the bags of the community
modules keep LOCAL for the one that is meant, unless it meets the caderninho's later. To TLC and SANY the order is the same.

## 5. Not modelled

- Wording, descriptions, presentation; messages are known by their kind.
- Signature check, GET handshake and MarkAsRead of the webhook: they change no state
  that a property reads.
- The reading of JSON, decimals and brands in extracts; the folding of accents in slugs.
- `SaveEntries` of series and `ListPayments` with its filters beyond the range: no caller.
- The expiry of stored turns, which DynamoDB deletes one by one, so that a window may come to begin with an answer.
- The long-term memory (never written), the model itself (any answer), the rewriting of the
  digest (it can only fail back to the draft), the local model provider.
- The DynamoDB fake's expression parser: a test tool.
- Auth, CLI, web, simulator, seeds, infrastructure other than the queue's settings and the schedules.

## 6. Where code and comments disagree

Two of these are runs that TLC ends with a counterexample:

- **`fiado_race`** `fiado/dynamodb.go:156-158` says `if_not_exists` only writes when the
  client was square. A purchase that lands between a settlement and its repair keeps the
  day of the debt just paid; the repair then sees money owed and clears nothing.
- **`default_month`** `analytics/tool.go:48` promises the current month by default.
  `domain/month.go:20` takes it in UTC, so the last evening of a month in the pharmacy
  is answered with the next one.

Others, seen while modelling and documented here only.

*Caderninho.*

- `dynamodb.go:268-270` says a movement arriving in between wins over a repair. The
  condition compares balances: when movements bring it back to the value read, the repair
  overwrites the day they wrote.
- A backdated movement makes the cached "desde" differ from the replay that
  `fiado.go:56-59` calls right; nothing repairs it.
- `listar_fiados` says it shows "só quem deve" by default (`tools.go:239`) and shows clients in credit too.
- Where a cursor's movement has been deleted, the in-memory store refuses it and DynamoDB continues. The
  comment in `handlers.go` calls a refused cursor a bad request; the answer is a 500. A
  last page that is exactly full may announce one more.

*Messages.*

- `wasession/store.go:18-20` says 48 hours exceed both retry spans;
  `webhook/internal/app/http.go:46-50` says that Meta retries for 7 days.
- `orchestrator/service.go:134-136` says a failed turn leaves no orphaned or duplicate user turn. It does
  when the second Append fails, or when the reply cannot be sent after both. A message of
  spaces is dropped from what the model is sent, which then ends with the assistant's own words; its answer, once
  stored, is kept without its question.
- `HandleWebhookHTTP` goes on after a failed publish, so a re-post can put a
  message behind its successor, against `waturn/turn.go:18-20`.
- `wasession/dynamodb.go:72-77` excludes a race for the mark, but a second entry of
  one message in the group is received as soon as the first is deleted.
- When the reply fails on the last attempt, the message is dead-lettered with
  neither answer nor apology, against ADR-028:131-132; and each redelivery before
  the mark runs the writing tools again (`turn.go:146`). So does a turn that
  has spent its rounds: its last tools have run and nobody has read what they said.
- An envelope that `Validate` refuses is answered with a 500, although `http.go:46-50`
  promises 200 for permanent errors.

*Payments.*

- `payments/dynamodb.go:160-163` says that after a crash before the index is written the next run derives the
  full delete set again. If the next run is of a corrected envelope, rows that the
  crashed run had put are in no index and stay.
- Two uploads of one day that run at the same time both read the old index and both leave
  rows (`payments/service.go:31-33`); envelopes of two days that share a record overwrite
  each other's row, since sort keys carry no source day (`docs/deploy.md:175-178`).
- A derived source day is the newest date in the extract (`assemble.go:109-117`): extracts of two days with the
  same newest date are one import, and the second replaces the first.
- `RebaseTo` promises to keep the day of the month and every gap (`assemble.go:60-63`); a short month clamps.
- `ListPayments` drops the installment number, which the in-memory store keeps.

*Ledger and catalog.*

- Concurrent edits lose fields (`entries.go:538`), against "só os campos informados são alterados"
  (`finance/tools.go:361-363`); an edit can answer 404 over a stale read although the entry exists.
- A cursor together with a range is read differently by the two stores.
- A reconciliation can overwrite a category created meanwhile; POST /categories has no cap; `definir_meta`
  with a failing read wipes the other target, and PUT /goals zeroes the one that is missing.

*Analytics and notifier.*

- `health.go:28-33` says the two messages "can never fire apart": with sales at zero only the recommendation does.
  The insight that a goal is on track says "já superou" when only the projection does. With
  coverage between 0.95 and 1 one line says to speed up and another that the pace is enough.
- `TargetFromGap` and `PlannedClose` hold within rounding only. The sign of a percentage flips over a negative base.
  `DaysUntilNegative` never is 0; `LowestProjected` of a closed month starts at 0.
- Two folds put entries on the effective basis under their transaction date. On the first of a month the
  snapshot of the day before is of another month.
- `notifier.go:449-450` says "record only after a successful send"; a send that went out and reported an error
  (`whatsapp/meta.go:117-126`) is not recorded, so the retry repeats it.
- `notifier.go:449-450` says a lost record "risks a resend tomorrow": the key is of one day, so it is a resend by the
  next retry. The overdue list is cut at three without saying so, and amounts from a million on lose a dot.

## 7. Plan

Modelling is complete as far as section 5 says, and each invariant a run checks is proved but those listed at the
end of section 4. What could follow:

1. **Extracts**: with `InOrder` of `Orders` in the place of `SelectSeq` and `FlattenSeq`, `EveryLineIsCounted` from the injectivity of the sort
   keys, with the totals as sums over sets (`Sums`); then `AssemblyKeepsThePlan` from the monotonicity of `AddMonths`.
2. **Notifier**: the messages of a list one by one, so that the beginning of a reminder that is heard twice is counted too.
