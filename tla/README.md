# A TLA+ model of superai

superai helps a shop buy and sell: it reads supplier price lists (PDF), compares
them with the shop's catalog, imports sales, answers questions over WhatsApp or
a web page, and reminds. This directory holds a model of its behaviour in TLA+,
the TLC configurations that check it on small instances, and theorems that TLAPS
checks for every instance. Source paths below are relative to `src/app`.

## The system

The program is one FastAPI process over PostgreSQL (`main.py`, `db/`). Three
things make its behaviour hard:

- **Who runs at once.** Plain `def` endpoints (an assistant message, the
  dispatch of due reminders, a comparison, a review) run on the threads of the
  server and interleave freely. `async def` handlers (webhook, sales import,
  catalog import) and `scheduler_loop` run on the event loop and do all their
  work between two awaits: one at a time among themselves, interleaved with the
  threads (catalogs are also imported by a `def` endpoint). A document analysis
  adds a thread pool of readers and one of JEV requests under a coordinator.
- **What is atomic.** Every repository method opens a session and commits: an
  operation of two repository calls is two transactions. Within one, the ORM
  loads rows and later writes the columns *that differ from the loaded ones*.
  The database runs at READ COMMITTED.
- **What fails.** Readers, JEV and WhatsApp (Kapso) are remote: they time out,
  answer late, answer nonsense, or raise something nobody catches. Calls cost
  money, so budgets count them.

| component | state | operations | what makes it correct |
|---|---|---|---|
| document analysis (`modules/procurement/document_analysis.py`) | ledger of blocks, offers, page reasons; queues; futures; budget | analyze: batches, reads, semantic requests, rereads, publication | nothing received is lost, quotas hold, the status is true, it ends |
| decision policy, interpretation (`decision_policy.py`, `block_interpretation.py`) | none | pure rules over one block or offer | an identity or a basis only with verified evidence |
| readers, dual extraction (`providers/documents/`) | provider flags, futures | extract, reconcile, fall back | each page read or reported missing |
| JEV client (`providers/jev_analysis.py`) | semaphore, call counters, bound run | evaluate | each POST reserved, slots come back, each question answered or explained |
| offer persistence (`supplier_offers.py`) | run, supplier, document, items | save, retry | a document with its items or none |
| matching and review (`matching.py`, `review.py`) | candidates, feedback | compare, accept, reject, correct | a human decision stands |
| supplier prices (`supplier_price_comparison.py`, `pricing.py`) | price rows | record a list, compare | a failed list is a prefix, the recommendation is current |
| purchase plan, JEV pilot, pack review | none of their own | computations over stored rows | |
| catalog import (`catalog_import.py`) | families, products, imports | import | a product is one row of one file, linked to its family |
| sales import (`modules/sales/`) | imports, lines, daily summaries | import, rebuild | summaries equal lines, a failed import can be repeated |
| reminders (`modules/reminders/`) | reminder rows, scheduler task | create, dispatch, complete | each sent, not twice, a completion stands |
| assistant (`assistant/`), WhatsApp channel (`main.py`) | conversation rows, reminders | turn, webhook | what is sent was asked for and saved, an answer fits its question |
| catalog resolver (`modules/catalog/`) | none | names to products and families | an unclear name is asked about |
| operations, CLI, settings | none | read-only queries, wiring | |

Components interact through the tables (comparisons read what the analysis
persisted and what reviews decided; assistant turns complete the reminders the
dispatchers send, and its tools read the sales and the catalog that the imports
write) and through calls (analysis → readers, JEV, policy → offer persistence).
`PROJECT.json` lists each component with what is modelled of it, and each hazard
at its line with the properties that cover it.

## Modules

| module | models | used by |
|---|---|---|
| `AnalysisBudget` | quotas of `AnalysisBudget`, admission of a call | `DocumentAnalysis` |
| `DocumentAnalysis` | `SupplierOfferDocumentAnalysisService.analyze` | `MCDocumentAnalysis`, `DocumentAnalysis_proofs` |
| `JevClient` | `JevAnalysisProvider` and `JevAnalysisClient` | `MCJevClient`, `JevClient_proofs` |
| `OfferReconciliation` | the rules of `reconciliation.py` and the unions of `dual.py` | `ChunkedExtraction` |
| `ChunkedExtraction` | `ChunkedDocumentExtractionProvider` | `MCChunkedExtraction`, `ChunkedExtraction_proofs` |
| `SupplierOffers` | `SupplierOfferService`, recording of supplier prices | `MCSupplierOffers`, `SupplierOffers_proofs` |
| `OfferLedger` | abstract: what saving offers promises | implemented by `SupplierOffers` |
| `PriceComparison` | `pricing.py`, the comparison of a product's prices | `SupplierOffers` |
| `MatchReview` | comparisons and reviews over candidates and feedback | `MCMatchReview`, `MatchReview_proofs` |
| `CatalogImport` | `PosCatalogImportService.import_csv` over families and products | `MCCatalogImport`, `CatalogImport_proofs` |
| `SalesImport` | `PosSalesImportService.import_csv` over the sales tables | `MCSalesImport`, `SalesImport_proofs` |
| `ReminderDispatch` | dispatchers, assistant turns, reminder rows | `MCReminderDispatch`, `AssistantReminders_proofs` |
| `Assistant` | webhook, turn of a message, agent, router, reminders | `MCAssistant`, `AssistantReminders_proofs` |
| `AssistantTools` | the tools a turn runs, the catalog resolver | `Assistant` |
| `IntentRouting` | `IntentRouter`, `LLMIntentRouter`, due dates | `Assistant` |

A definition that says "for checking the properties" is a variant of the one
below it with a plausible bug; no specification uses it.

### Document analysis

The coordinator, one request thread, is a program counter `pc`:
`batch` → `schedule` ⇄ `wait` → `collect` → `decide` → `schedule` …, then
`recover` and a final status. Its actions are the steps of `run_pipeline`:
`SubmitRead`, `StopReading`, `StartSemantic`, `DeferSemantic`,
`WaitForTransport`, `Collect`, one action per processed result (`ReadFailed`,
`ReadSucceeded`, `SemanticFailed`, `ClassificationAnswered`,
`DecisionAnswered`), `EndCollect`, `DecideOffers`, `EndPipeline`; around them the
batch loop (`StartBatch`, `EndBatches`), the recovery loop (`SkipPage`,
`StartReread`) and `Finalize`. The transports (`ReadReturns`, `Post`,
`SemanticReturns`) and the clock (`DeadlinePasses`) interleave with all of it;
`Post` is where the JEV thread reserves calls of the coordinator's budget (its
own steps are `JevClient`).
`DecideFails`, `JoinTransports` and `MetadataTooLarge` are the exceptions that
leave `analyze`.

`blocks` and `offers` are the ledger; a block is identified by phase, page and
order. `before` is what `StartReread` keeps of the page it rereads; `supersedes`
links a reread block to the earlier block with the same text. `Versions`,
`Replacing`, `Superseded`, `Current`, `Visible`, `Publishable` follow the final
loops of `analyze`.

Abstractions: what a reader reports, what the assembler makes of a block and how
the policy assesses an offer are constants (`PageReports`, `Interpretations`,
`Assessments`) constrained by what the code guarantees of them (`Assesses`). A
block carries at most one offer; a name stands for all identifying fields; low
block coverage and declared incompleteness are one reason; evidence under an
invalid page number is the flag `invalidEvidence`; page conditions are part of a
block's text; the cost ceiling is never configured and left out; reasons of an
offer, which publication does not read, are left out. The budget's clock counts
phase deadlines passed instead of seconds.

### JEV client

A worker is `idle`, `next` (an evaluation of the next partition begins, its end
fixed), `waiting` for the semaphore, `slot`, `checked` (the clock was looked at
again), `posted`, or `done`. `Ask` is the validation, the binding of the provider
to a run and the partition of the questions (`Partitions`, which also names the
questions too large for any partition); `AskRaises` the refusals. `Begin`,
`Acquire`, `AcquireTimesOut`, `CheckClock`, `Reserve`, `CallFails` and `Reply` are
the steps of `evaluate`; `Reserve` is its critical section, where the client's
quota is looked at before the budget is asked. The budget is the environment and
may refuse any call: `DocumentAnalysis` models the one the application hands in,
and there a POST is the action `Post`. `StartBatch` hands down a deadline, `Tick`
moves the clock, which stands for seconds. Left out: the wording of the
questions, sizes beyond one number per question, and the tests of an answer,
which tell valid from invalid only.

### Extraction

`reads` holds, of the initial phase and of the rereads, the call of every chunk
submitted so far to each reader: `waiting` on its thread, `reading`, and `read`,
`failed`, `raised` (an error that will not pass, not collected yet), `broken`
(collected, the reader is now in `disabled`) or `skipped`. `Submit` keeps as many
chunks submitted as there are workers; `StartRead` and `SkipRead` are the look at
`disabled` that comes before the call; `Disable` is the thread that collects. A
phase ends (`EndInitial`, `EndRetry`, and `EndUnpaged` for a document that is not
a PDF) when all its chunks are collected: what the code then computes from the
readings in order of pages, the reasons to reread, the latest rows, the items,
the ledger of conflicts and the pages for a person, is one step of one thread.

A row is a page (0 when unknown), a name and a price. A name stands for all names
that score 0.92 or more together, so that "score" is equality, a pair of `Alike`
names or nothing; a price stands for all the fields of `conflicting_fields`.
`flagged` stands for low coverage, a warning and a missing page report, `stray`
rows for those without a valid page number. Left out: the shadow opinion of JEV,
which changes no item; the choice of the more complete of two equal offers; and
`retry_low_coverage=False`, which nothing configures.

### Supplier offers and prices

`suppliers`, `documents`, `saved` and `prices` are the tables; `phase` is what
the service call of each caller does next. Saving an offer is `GetPrevious` (the
run's document: answered if complete, refused if not), `ListItems`,
`SelectSupplier`, `CommitSupplier` (which fails when another caller inserted the
name first), `AddDocument` (pending; one document per run), `AddItems`,
`UpdateDocument` (complete) and `AnswerOffer`. A price list goes from the
supplier to `AddSupplierProduct`, one commit a price, and stops at a product the
business does not have. `Fail` is an exception or the death of the process
anywhere.

`OfferLedger` is what a reader of complete documents may rely on: a document is
recorded at once, with its evidence and all of its items, never changes, and is
what its run is answered with. `SupplierOffers` implements it with the mapping
`recorded <- Recorded`: a document counts once it is complete. So a failure
between document and items leaves a document that is never shown, and whose run
is refused when tried again; the ledger makes no promise that a run is recorded
at last.

`PriceComparison` are the unit cost of a quotation, the guess that a cost is of
a pack, and the cheapest of the latest quotations of each supplier. Money is in
cents. `SupplierOffers` evaluates it over `prices` in every state.

### Candidates and feedback

`rows` are the candidates by id, `verdict` the feedback that references each,
`rule` the latest feedback per item and product, which comparisons read.
At the start of a run `rule` holds what the reviews of *earlier* documents said of
an item of the same name. What a comparison reports of an item is `Reports`: if
feedback accepts products, one candidate each, the latest first, without product
if that has left the active catalog, and at most one of them accepted at once
(several acceptances contradict each other; only the one that the document's own
analysis confirms needs no review); otherwise any products that scores may name.
A comparison is four actions (compute, read, delete, commit), a review up to six
(read, load and commit the correction, decide, load and commit the feedback).
Rows a comparison has deleted but not committed are `Locked`. The foreign key of
the feedback makes a delete fail (`Deletable`). `LoseConnection` undoes the
transaction at hand and nothing else, which leaves a correction half done.

### Catalog

An import's `phase` goes `started` → `families` (selected) → `saved` → `parsed`
(the rows know their families, `known`) → `upserting` (products selected: `seen`,
`target`) → `reporting` → `completed`, or to `failing` and `failed`; `pending` is
an import whose process died or whose failure could not be written. `Apply` is
the flush of the ORM: the columns that differ from those read are written over
the row as it is by then. An article without POS id is found by its barcode,
which no constraint keeps unique: `SelectProducts` takes any of several rows, as
the query does. Imports overlap freely (an `async` handler, a `def` endpoint and
the command line run the same service). `committed`, `raced` and `twins` are
history: imports whose products are saved, rows written over a version that was
not the one read, and identities inserted twice. Price and stock stand for all
the columns of a row; inferring a category from a product's name is left out.

### Sales

`lines`, `daily` and `imports` are the tables `sales_item_lines`,
`product_sales_daily` and `sales_imports`; `stage` is where `import_csv` stands.
One action per transaction: `Begin` (the import's row), `Resolve` (the products
of the catalog), `InsertLines` (a batch, `ON CONFLICT DO NOTHING`), `ReadGroups`
and `WriteDays` (the rebuild: groups by product, SKU and day, upserted by
product and day in batches), `Complete`. `BatchFails` is the error of PostgreSQL
when one upsert names a summary twice, `ImportFails` any other exception and
`Crash` an end of the process, after which the row stays `pending`. Imports
exclude each other on the event loop; `CatalogCommits` falls between any two of
their transactions.

A summary is represented by the set of sales it counts (its sums follow), a line
by its id, product, SKU, day and whether the catalog had its product. Products
are never deleted and keep their identifier, so that flag stands for
`product_id`. The catalog holds one product per POS id. The file may be unreadable
or hold bad rows: a file of the model is its rows that parse.

### Reminders

A reminder row is `status` and `completed`; a dispatcher is `idle`, `sending` or
`marking` over its listed `batch`; an assistant turn is what it has `found`. As
`update` loads a row and commits the columns that differ, a mark and a
completion are two actions each (`LoadNotified`/`MarkNotified`,
`LoadDone`/`MarkDone`) with the loaded row in `loaded`. The event loop's own
handlers exclude each other (`LoopBusy`), the others do not.

Every call of a pass may raise: `ListRaises` and `MarkRaises` are errors of the
database, `SendRaises` an exception `send_text` does not catch (`DatabaseMayRaise`
and `SendMayRaise` say whether an instance has them). Nothing catches what leaves
`dispatch_due`, so each is a `PassEnds`: a request answers with an error, and
`scheduler_loop` has ended for good. `MarkRaises` comes after the delivery and
leaves the row as it was, hence due, or stored if only the refresh failed;
`DoneRaises` is the same for a completion. `Restart` forgets everything but the
rows and starts a new scheduler.

### Assistant and WhatsApp

A handler (the webhook, which takes the messages of a delivery one after the
other, or a thread of `/assistant/message`) is a record in `turn`: `inbound`,
`agent`, `steps`, `route`, `act`, `complete`, `outbound`, `send`. `Deliver` tests a
payload as a whole, so that one message without sender or text refuses all of
them. Nothing looks up a message that was handled before: Kapso may deliver any
payload again, and `given`, `inbound`, `outbound` and `sent` count what becomes of
each message. `NoAgent`, `PlanRefused`, `PlanTaken`, `Step`, `StepRaises` are
`_try_agent` and the executor: a plan is refused for its confidence, mode, length
or tools, and a step that raises hands the message to the router with a reason.
`Routed` applies `IntentRouting`; then reminders are created (`CreateReminder`),
looked up and, in a transaction of its own, completed (`FindReminder`,
`CompleteReminder`), a tool answers (`QueryTool`), or the reply changes nothing
(`Tell`): lists, panel, alerts, summary and, without a database, that there is
neither panel nor tool. `Raise` is an exception that leaves the turn and, in the
webhook, drops the rest of the delivery. Planner and extraction answer any of
`Plans` and `Extractions`.

`IntentRouting` keeps the order of the rules of `IntentRouter` and what each reads:
a text is the set of trigger words it contains (one stands for all of a list)
and what the regular expressions capture. `AssistantTools` are the tools as
operators over the catalog and what the sales import stored: `Lines` for totals and
periods, `Summaries` for rankings and histories. They have periods, filters, the
resolver's scores, the ranking and its two cuts, totals, comparisons, history, and
the search of the catalog by name, SKU or barcode in the order of the names.

A rank belongs to an `Identity`, what `top_products` groups the summaries by:
catalog product, external id and SKU. A day that was imported before the product
was in the catalog has no product: it is ranked apart from the later days of the
same product, an exclusion of the product leaves it in, and so does an exclusion
of SKUs a row without SKU (`Selected`). A rank is one more than the number of
identities `Before` it, by amount and then by external id as `ORDER BY` has it;
`tie` is any order the database may give to identities of one external id and
amount. A rank out of 1..`MaxRank` (50 in the code) in a text stands for the
nearest one. The similarity of two texts is a constant, the wording of replies is
left out. Days are numbers and a turn's clock stands still.

## Runs

| run | instance | checks |
|---|---|---|
| `MCAnalysisPipeline` | method B, 5 pages in chunks of 2, 2 readers, 4 calls a batch (2 reads, 1 classification, 1 decision), a reservation per call, 2 POSTs a request, exceptions | `TypeOK`, `BudgetRespected`, `EveryPageAttempted`, `ChunkFilesOutliveReads`, `PaidCallsAudited`, `CompletedMeansDone`, `RenewalAfterDrain`, `AnalysisEnds` |
| `MCAnalysisRecovery` | method A, 1 page, 1 reader, 5 calls, a client without reservation per call, 9 page reports, 6 interpretations, 4 assessments | `EvidenceConserved`, `VisualFailureRemembered` |
| `MCJevClient` | 2 workers, 1 slot, 2 calls a batch, 3 ticks, 4 requests: two partitions, questions too large, another run, another business's candidate; symmetry | `TypeOK`, `CallsAccounted`, `AnsweredOrExplained` |
| `MCExtraction` | 2 pages in chunks of 1, 2 chunks and 1 reread at once, 1 or 2 readers, PDF or not, 4 readings of one page and 2 of the other | `TypeOK`, `BrokenReaderBounded`, `ReadOrReported`, `PricesKept`, `EvidenceAccounted` |
| `MCSupplierOffers` | 2 callers, 3 requests, 2 suppliers; two extractions of one run, a manual offer, 4 price lists | `TypeOK`, `PartialListsArePrefixes`, `RecommendedIsCurrent`, `OffersRecordedOnce` |
| `MCMatchReview` | 1 item, 2 products, any earlier feedback on them, up to 2 candidates, 1 comparer, 2 reviewers, 2 comparisons, 2 reviews; symmetry | `TypeOK`, `ReviewedIffDecided`, `DecidedRowsKept` |
| `MCMatchAuthority` | 1 comparison, 2 reviews | violates `HumanDecisionAuthoritative` |
| `MCCatalogImport` | 3 imports of 3 files over an article with POS id and one with only a barcode, 1 family, 2 prices, 2 stocks | `TypeOK`, `RowsOfOneFile`, `OneRowPerIdentity`, `ImportedWithItsFamilies` |
| `MCSalesImport` | 5 overlapping exports over 2 products, 2 SKUs, 2 days, 4 sales; batches of 2; 3 imports, 2 catalog imports | `TypeOK`, `EachSaleOnce`, `LagExplained`, `CompletionRepairs` |
| `MCSalesLost` | the same with one summary per batch | violates `NoSaleLost` |
| `MCReminders` | 2 reminders, scheduler and endpoint, a webhook turn, 1 restart, 1 lost mark, times to 2, sends and the database may raise | `TypeOK`, `SentOncePerDispatcher`, `SettledForGood`, `DueReminderHandled` |
| `MCAssistant` | the webhook and a thread, 2 deliveries or requests, 11 texts, 5 plans, plans of 2 steps, agent or none, 6 products of 2 businesses, 7 summaries, 4 ranks | `RepliesOnRecord`, `AgentAnswersWholePlans`, `AnswersTheAskedRanks` |

Why the bounds are enough.

- *Pipeline.* Three chunks with a quota of two reads make a full batch and a short
  one, so a renewal, a full pool of readers, and quotas of one classification and
  one decision that are exhausted all occur; two POSTs a request let one fail
  after the other was paid.
- *Recovery* needs one page: rereads of different pages touch disjoint blocks, and
  the nine reports cover a page that is missing, empty, incomplete, repeated,
  badly referenced or shows one text more.
- *JEV.* One slot for two workers makes every wait occur, two calls a batch make
  the third refused, and three ticks meet each deadline before, while and after a
  worker waits.
- *Extraction.* Two chunks on two workers with two readers are four concurrent
  calls, enough for one reader to break twice before it is disabled; the readings
  differ in price, show a similar name, few rows or a row without a page, so every
  reason to reread and every way to pair occurs. It has no loop: that it always
  ends is what the check for deadlocks shows.
- *Offers.* Two callers race for a supplier and for a run; the third request comes
  after a failure or beside a finished one. The lists hold a pack price said to be
  of a unit, a product that is not found between two that are, a price of unknown
  type and one that is older than another of its supplier.
- *Reviews.* A race needs two reviewers and a comparison before and after; with
  two candidates they meet on one row or decide two. A product that is accepted
  beside another comes from the earlier feedback. A third review, after two
  that raced, is beyond the run and within the theorems.
- *Catalog.* Three imports allow two that overlap and one that repairs or repeats;
  the files change price, change stock, repeat a barcode, bring the family or not,
  and hold a row that identifies nothing.
- *Sales.* Three imports allow an interrupted one, its repetition and an
  overlapping one; the exports hold a day in part, whole, beside another day, with
  a row repeated and with none; a file of three rows takes two batches. One
  summary per batch is where two groups of one key are written apart, as they are
  among the hundreds of a month's summaries (the code writes 100 at a time).
- *Reminders* need two rows (order within a pass, one skipped while the other is
  sent) and two dispatchers; the restart and the exceptions fall anywhere.
- *Assistant.* Two calls are a delivery and its redelivery, or a delivery beside a
  thread; each text takes another branch of the router, and the plans are unsure,
  raise at the second step, ask, run to the end, or are too long. The last rank a
  query may ask for is the constant `MaxRank`, 4 here: a text asks for the ranks 2
  to 9, another for three ranks after the third, so both clamps are reached. One
  product has days from before it was in the catalog and days from after, equal
  in amount, one is excluded by its SKU, two sold equally.

The deadlock check is off where the system may stop: no more requests, imports
or reviews to make, or the bound on them reached.

Fairness. The analysis assumes that the request thread runs on and that every
transport returns (each HTTP client has a timeout), nothing about the JEV
thread's choice to send one more POST. Reminders assume that the scheduler task
keeps running unless an exception, of a send or of the database, ended it, that a
turn which has read finishes, and, as a premise on the environment, that Kapso accepts at last a message that
is tried again and again (strong fairness of `SendDelivered`). The
scheduler's own calls are strongly fair (`CallReturns`): the event loop serves its
handlers in the order they became ready, so webhook turns that come again and
again cannot keep it from its pass. Nothing says that a call which raises does
so: `CallRaises` has no fairness. The other
specifications are safety only: an import, an offer or a review that stopped is
taken up by nobody, and an answer the assistant did not give by nobody either.

## Known divergences

Two runs expect a violation; their findings are in `PROJECT.json`.

- `MCMatchAuthority`: the comment at `db/repositories/sql_procurement.py:881` wants
  a later human decision to be authoritative. Of two interleaved decisions the
  later one writes only the columns that differ from the row it loaded, and the
  earlier one's status may stand.
- `MCSalesLost`: `docs/SPRINT_6_SALES_DEMAND.md:64-66` wants no sale lost when the
  catalog changes. Sales of a product that entered the catalog between two imports
  of a day form two groups with one key, and one summary hides the other.

Four more were met while modelling; the models follow the code, and no run
states the other side:

- `docs/EXTRACCION_OPENAI_Y_JEV.md:81-82` leads a reread back to blocks and
  proposals. A page first read as empty has no earlier block, so the blocks of
  its reread are refused (`document_analysis.py:1129`).
- `docs/ORQUESTACION_DOS_METODOS.md:122-124` wants a pending block that a reread
  resolved out of the count of the pending ones. A block that bears a reason is
  never superseded (`document_analysis.py:1215`), so it stays pending whatever
  its reread brings.
- `docs/SPRINT_4_REMINDER_SCHEDULER.md:15` gives the status `notified` as what
  avoids duplicate sends. Two dispatchers list a reminder before either marks
  it, and both send it; `SentOncePerDispatcher` is what does hold.
- The comment at `providers/documents/dual.py:459` wants no earlier price
  presented as confirmed when a reread contradicts it. Two readers that both
  read one price and both reread another leave the first "agreed" beside the
  second. The application configures one reader (`main.py:351`), where no item
  is ever "agreed".

## Proofs

The proofs hold for all values of the constants allowed by the assumptions of
the modules: `BudgetAssumption`, `AnalysisAssumption`, `JevAssumption`,
`QuestionAssumption`, `ExtractionAssumption`, `AlikeAssumption`, `OffersAssumption`, `NoneAssumption`,
`MatchAssumption`, `CatalogAssumption`, `SalesAssumption`, `ReminderAssumption`,
`AssistantAssumption`, `ToolsAssumption`.
They say that bounds are naturals, that answers have their shape (a plan to
execute has a step, the numbers a text captures are naturals, amounts are
integers, external ids too, for their order, sale lines and summaries finitely
many, and `MaxRank` at least 2), and that `None` is not a value; the runs
evaluate them. Each theorem follows from an
inductive invariant:

| module | theorem | says | inductive invariant |
|---|---|---|---|
| `DocumentAnalysis` | `BudgetSafe` | `[]BudgetRespected` | `BudgetInv`; lemma `Quotas` shows the phase quotas are naturals that sum to the total |
| `DocumentAnalysis` | `EveryPageReached` | `[]EveryPageAttempted` | `CoverageInv`: every page is attempted, or in a chunk pending, queued or yet to come, and in the initial phase the queue fits the quota left; so `StopReading` never drops a chunk of the initial phase. Neither conjunct is inductive alone |
| `DocumentAnalysis` | `TypeCorrect` | `[]TypeOK` | `TypeInv` = `TypeOK`, both invariants above, `TasksKnown` (queued tasks name existing blocks) and finiteness of `blocks`, without which what is queued would not be a sequence |
| `DocumentAnalysis` | `RenewalDrained` | `RenewalAfterDrain` | `DrainInv`: at `batch` nothing is pending and every offer is decided, at `schedule` every offer is decided |
| `DocumentAnalysis` | `FilesKept` | `[]ChunkFilesOutliveReads` | `FilesInv`: pending and queued chunks have their file, and after the initial phase only the reread's |
| `DocumentAnalysis` | `CallsAudited` | `[]PaidCallsAudited` | `PaidInv`: ledger and budget differ by the calls under way, namely the pending reads (distinct chunks, `ChunksDiffer`) and the POSTs of the pending request; with `DrainInv` none is left when a pipeline ends |
| `DocumentAnalysis` | `VisualRemembered` | `[]VisualFailureRemembered` | `VersionsInv`: the page being reread remembers reasons that are not empty and exactly the blocks it showed before, so a new one comes from the rereading |
| `DocumentAnalysis` | `EvidenceKept` | `[]EvidenceConserved` | `VersionsInv`: a version supersedes only initial blocks and is of the rereading itself, since a page is reread once; versions make no chains, and one that replaces is current, hence published |
| `DocumentAnalysis` | `CompletionSound` | `[]CompletedMeansDone` | `FreshInv` (each chunk is read once, so a read overwrites no block) and `AbandonedInv`: a task given up leaves its reason on the block or its offer unresolved for good, because no two decision tasks concern one offer |
| `JevClient` | `TypeCorrect` | `[]TypeOK` | `IInv` = `Formed`, `TypeOK` and `CallsAccounted` together. A step moves one worker (`WorkerMoves`), so the sets of slot holders and of posted calls gain or lose just that worker and their cardinalities move by one with the counters |
| `JevClient` | `CallsAgree` | `[]CallsAccounted` | the same |
| `JevClient` | `QuestionsAnswered` | `[]AnsweredOrExplained` | `IInv` with `AnswerInv`: the partitions still to be called are apart, a question in one of them has neither answer nor reason, one in none has been told of, at most once, and every answer came in time. It rests on `PartitionsPlace`: the fold of `_partitions` puts each question into exactly one partition or refuses it once, by induction over its prefixes |
| `ChunkedExtraction` | `BrokenReader` | `[]BrokenReaderBounded` | `BoundInv`: no more chunks run than there are workers, calls of the other phase are over, a broken call has its reader disabled, and the chunks that reached a disabled reader are at most the workers. While a reader is enabled the chunks that reached it are all running, which bounds them at the moment it is disabled; afterwards no chunk joins them |
| `ChunkedExtraction` | `PricesStay` | `[]PricesKept` | itself; lemma `UnionKeeps`: neither `_supplement` nor the disputes of the ledger lose what an item says |
| `ChunkedExtraction` | `EvidenceKept` | `[]EvidenceAccounted` | `CallsInv`: a call is well formed, and one that did not return brings nothing. Lemmas by induction over rows and edges: the greedy pairing takes edges only (`PairsAreEdges`), so a row is in a pair or unpaired (`RowsAccounted`); rereads fold rows to rows (`RereadStays`) |
| `ChunkedExtraction` | `NothingUnread` | `[]ReadOrReported` | `ReviewInv`: once the first reading is over each page is reported, to be reread, or sound, and a row without a page has its whole chunk reread. `ChunkOfPage` and `RankOfPage` show that the chunks partition the pages and that each suspicious page has one reread |
| `ChunkedExtraction` | `TypeCorrect` | `[]TypeOK` | `TypeInv` with `CallsInv`: rows, and so items, name pages of the document or none |
| `SupplierOffers` | `TypeCorrect` | `[]TypeOK` | `IInv` = `TypeOK`, `WellAsked`, `Writers` (an unfinished document is written only by the caller that inserted it, who has saved just its items) and `Answers` (who will answer holds a complete document) |
| `SupplierOffers` | `OffersImplementLedger` | `OffersRecordedOnce`, the refinement of `OfferLedger` | `IInv`; `UpdateDocument` is `Record`, `AnswerOffer` is `Answer`, every other step a stutter: `Writers` shows that items are never added to a document that counts |
| `SupplierOffers` | `ListsArePrefixes` | `[]PartialListsArePrefixes` | `IInv` with `ListInv`: the caller of a list is the only one to record it, has recorded the prices before `next` and has not answered it; a prefix has as many rows as places (a bijection) |
| `SupplierOffers` | `RecommendsCurrent` | `[]RecommendedIsCurrent` | `IInv`, `ListInv` and `OnlyListsAnswered`: an answered list has recorded all its prices (`ListIsQuoted`), each of which competes with what is recommended (`BestIsCurrent`) |
| `MatchReview` | `TypeCorrect` | `[]TypeOK` | `IInv` = `Typed`, `Undecided` (a row without verdict is not reviewed, and every review under way has seen it as it is), `Decided` (with one it is reviewed, or a correction of it is half done, or a reviewer will clear the mark) and `Forward` (no status goes back to pending) |
| `MatchReview` | `ReviewedAreDecided` | `[]ReviewedIffDecided` | the same |
| `MatchReview` | `DecidedKept` | `DecidedRowsKept` | the same; a delete fails on a row with feedback, and one under way targets none that is decided |
| `CatalogImport` | `TypeCorrect` | `[]TypeOK` | `IInv` = `TypeOK`, `Knows` (families an import brought are saved before its rows resolve theirs; a row it found is still there, an identity it did not find was in no row it read), `Named` (a row is of the article its id says), `Whole` (a committed import has a row for each article) and the two properties that follow |
| `CatalogImport` | `OneFile` | `[]RowsOfOneFile` | the same: a row not raced was written over the version read, so the columns left alone agree with the file |
| `CatalogImport` | `OneRow` | `[]OneRowPerIdentity` | the same: who inserts an article that is there either had looked before it was (`twins`) or fails on the unique id |
| `CatalogImport` | `FamiliesFirst` | `[]ImportedWithItsFamilies` | the same |
| `SalesImport` | `TypeCorrect` | `[]TypeOK` | itself |
| `SalesImport` | `SalesStoredOnce` | `[]EachSaleOnce` | itself with `TypeOK`; the rows of one batch need `Conflicting` within the batch, and the first of a repeated row is the least one |
| `SalesImport` | `LagsAudited` | `[]LagExplained` | `RebuildInv`: while the groups are read and written no line is added, a pending group counts exactly its lines, and a day of the import is up to date or still pending |
| `SalesImport` | `CompletionIsWhole` | `CompletionRepairs` | `RebuildInv` and `StoredInv`: the rows up to `inserted` are stored |
| `Assistant` | `RepliesRecorded` | `[]RepliesOnRecord` | `AssistantInvariant`. Its `Counts` add to each counter the turns that are under way at that point (`On`, `Asked`, the places `Queued` of the delivery): sent + to send <= saved, saved + at work <= read, created + yet to create <= read, read + to read <= given. `Progress` orders a delivery: while the webhook is between two of its messages the later was read *less* often than the earlier was answered, which is what makes the next reading safe. `Completions` follow the reminder from where it is found to the row |
| `Assistant` | `WholePlansAnswered` | `[]AgentAnswersWholePlans` | `Plansound`: a plan being followed is sure, fits the limit and has asked nothing yet, and outside the agent a turn has a reason exactly if there is an agent |
| `Assistant` | `RanksAnswered` | `[]AnswersTheAskedRanks` | `Rankings`: the intent of a turn about to query has the entities of its text (`RouteIs`, by cases over the rules of the router), and the answer about to be saved is right. `OrderedIs` shows that the identities ahead of each, by amount, external id and `tie`, give every identity a rank of its own; `QueryRanks` that the entities select the ranks the text asks for, clamping included; `PartShown` that limit and slice together cut out exactly those. `TotalInt` is an induction over the rows summed |
| `ReminderDispatch` | `TypeCorrect` | `[]TypeOK` | itself |
| `ReminderDispatch` | `SentOnce` | `[]SentOncePerDispatcher` | `LoadedOK` and `SendsOK`: a reminder in a dispatcher's batch and not yet sent in this pass has as many sends as lost marks, or its row is no longer pending; `LoadedOK` says a row loaded by an actor was once handled or is still pending, without which a stale write could make it pending again |
| `ReminderDispatch` | `CompletionFinal` | `SettledForGood` | `LoadedOK`, `TypeOK` |

Each is in the module's `_proofs` companion; those of the assistant and of the
reminders it creates are in `AssistantReminders_proofs`.

So every safety property that a passing run checks, invariant, action property or
refinement, is a theorem. Where what a fold or a recursive function computes
matters (the partitions of questions, the pairing of rows, sums of sale lines, the
first rule that applies), the induction is carried out in the proof: the library's
induction theorems take an operator as a parameter, so lemma `SetInduction` states
induction over a *set* of naturals, and the recursion of a fold is unrolled over
prefixes or subsets.

Only model-checked: the liveness properties `AnalysisEnds` and
`DueReminderHandled`, because liveness under fairness and ENABLED are outside the
prover. The other runs expect a violation and show that something is not so.

## Not modelled

- *Block interpretation, pack review*: text rules over one block or name without
  state; what they may answer is a constant of the models that use them.
- *Document readers, the HTTP side of Kapso and JEV*: calls of services and parsing
  of their answers; the models have their outcomes.
- *Decision policy and matching scores*: which assessment or candidate the rules
  choose. `DocumentAnalysis` has what `validate_decision` guarantees of one,
  `MatchReview` which candidates a comparison may report given the feedback.
- *Purchase plan, operations, JEV pilot*: computations over one read of stored
  rows, which they do not change.
- *`FallbackDocumentExtractionProvider`*: only tests build it.
- *Routing of requests, CLI, settings, schema*: wiring; it decides which steps
  interleave, which the models keep.

Hazards without a property: two comparisons of one offer insert their candidates
twice (`sql_procurement.py:799`: the model shows it, and nothing in the repository
promises otherwise), the two ranks of a product that entered the catalog between
two days (`sql_sales.py:611`: the model and the property follow the query, and
nothing promises one rank a product), and those of `dual.py:461` and `document_analysis.py:1129`
under Known divergences.
