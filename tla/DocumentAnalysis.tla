-------------------------- MODULE DocumentAnalysis --------------------------
(***************************************************************************)
(* SupplierOfferDocumentAnalysisService.analyze: one V2 analysis of a PDF. *)
(*                                                                         *)
(* The request worker (the coordinator) runs every action that reads or    *)
(* changes the ledger.  It cuts the PDF into chunks, submits them in       *)
(* batches to at most ChunkWorkers reader transports, lets one semantic    *)
(* transport (JEV) classify blocks and decide offers, rereads once the     *)
(* pages whose reading shows a visual failure, and publishes offers and    *)
(* pending blocks.  The transports run on threads of their own: a reader   *)
(* only returns, the JEV client reserves one call of the shared budget per *)
(* POST.                                                                   *)
(*                                                                         *)
(* Abstractions.  A page report gives the blocks' texts and whether        *)
(* coverage is incomplete (declared, or fewer than 70% of the estimate); a *)
(* block carries at most one offer, so an offer is named by its block; the *)
(* name of an offer stands for all its identifying fields, and a name or a *)
(* price without valid citations is unknown.  What readers, assembler and  *)
(* policy may answer are the constants PageReports, Interpretations and    *)
(* Assessments.                                                            *)
(***************************************************************************)
EXTENDS AnalysisBudget, Sequences, FiniteSets, TLC

CONSTANTS
    NumPages,
    ChunkSize,            \* pages of one chunk: configured for A, 2 for B
    ChunkWorkers,         \* DOCUMENT_EXTRACTION_CHUNK_WORKERS
    PerCallReservation,   \* the JEV client's supports_call_reservation
    MaxPosts,             \* bound: POSTs of one semantic request
    MayFail,              \* catalogue retrieval or metadata size may raise
    Texts, Names, Prices, Products,
    PageReports, Interpretations, Assessments

None == "none"
Pages == 1 .. NumPages
Bases == {"unit", "pack"}
Routes == {"resolved", "needs_human_review", "needs_visual_review",
           "needs_jev", "local_rejection"}

PageReport ==
    [seen : BOOLEAN,        \* the page is reported under a valid number
     stray : BOOLEAN,       \* something is reported under an invalid number
     incomplete : BOOLEAN,
     blocks : Seq([text : Texts, badReference : BOOLEAN])]

Terms == [name : Names \cup {None}, price : Prices \cup {None}]

Interpretation ==
    [doubts : BOOLEAN, visual : BOOLEAN, offers : SUBSET Terms]

Assessment ==
    [route : Routes, verified : SUBSET {"name", "price"},
     identity : Products \cup {"pending", "no_match"},
     basis : Bases \cup {"pending"}]

ASSUME AnalysisAssumption ==
    /\ NumPages \in Nat \ {0}
    /\ ChunkSize \in {1, 2} /\ (~Structured => ChunkSize = 2)
    /\ ChunkWorkers \in {1, 2}
    /\ PerCallReservation \in BOOLEAN
    /\ MaxPosts \in Nat \ {0}
    /\ MayFail \in BOOLEAN
    /\ None \notin Names \cup Prices
    /\ PageReports \subseteq PageReport
    /\ Interpretations \subseteq Interpretation
    /\ \A i \in Interpretations : Cardinality(i.offers) <= 1
    /\ Assessments \subseteq Assessment

Phases == {"initial", "reread"}
BlockIds == [phase : Phases, page : Pages, order : Nat]
Tasks == [kind : Kinds \ {"reading"}, block : BlockIds]

BlockReasons == {"invalid_condition_reference", "unverified_reading_association",
                 "classification", "interpretation", "reread_quality_regression"}
Block == [text : Texts, reasons : SUBSET BlockReasons, supersedes : SUBSET BlockIds]
Offer == [name : Names \cup {None}, price : Prices \cup {None}, decided : BOOLEAN,
          identity : Products \cup {"pending", "no_match"},
          basis : Bases \cup {"pending"}]

VisualReasons == {"reader_failed", "missing_page_report",
                  "visual_coverage_incomplete", "missing_visual_evidence"}
PageReasons == VisualReasons \cup {"call_budget_or_deadline"}

-----------------------------------------------------------------------------
(* Chunks and batches.  A chunk is the pair of its first and last page.   *)

NumChunks == (NumPages + ChunkSize - 1) \div ChunkSize
Chunk(i) == <<(i - 1) * ChunkSize + 1,
              IF i * ChunkSize < NumPages THEN i * ChunkSize ELSE NumPages>>
PagesOf(chunk) == chunk[1] .. chunk[2]
BatchSize == IF ReadingLimit < ChunkWorkers THEN ReadingLimit ELSE ChunkWorkers

VARIABLES
    pc, phase, nextChunk,
    reading,    \* the deque of chunks still to submit in this pipeline
    reads,      \* chunks whose read is pending: submitted, not yet processed
    returned,   \* pending reads whose transport has returned
    collected,  \* pending reads the last wait() reported
    semantic,   \* the pending semantic request, or NoRequest
    queue,      \* semantic_queue
    files       \* chunks whose PDF is on disk

scheduler == <<pc, phase, nextChunk, reading, reads, returned, collected,
               semantic, queue, files>>

VARIABLES
    clock,      \* deadlines of the batch that have passed
    reserved,   \* calls reserved in the batch, per kind
    recorded,   \* calls recorded in the batch's ledger, per kind
    stopped     \* some batch has a stop reason (budget.reason)

budget == <<clock, reserved, recorded, stopped>>

VARIABLES
    attempted,      \* pages covered by a recorded reader call
    initialDone,    \* pages some reading reported
    pageReasons,
    reread,         \* pages with reread_count = 1
    recoverPage,    \* the page the recovery loop is at
    before          \* old_reasons and before_blocks of the page being reread

pages == <<attempted, initialDone, pageReasons, reread, recoverPage, before>>

VARIABLES
    blocks, offers,   \* the ledger's blocks and interpretations
    invalidEvidence,
    abandoned,        \* semantic tasks deferred, failed or never posted
    published, pendingBlocks

ledger == <<blocks, offers, invalidEvidence, abandoned, published, pendingBlocks>>

vars == <<scheduler, budget, pages, ledger>>

NoRequest == [state |-> "none"]
Request == [state : {"running", "returned", "collected"}, task : Tasks,
            posts : 0 .. MaxPosts]

Terminal == {"completed", "partial", "failed"}

Init ==
    /\ pc = "batch" /\ phase = "initial" /\ nextChunk = 1
    /\ reading = <<>> /\ reads = {} /\ returned = {} /\ collected = {}
    /\ semantic = NoRequest /\ queue = <<>>
    /\ files = {Chunk(i) : i \in 1 .. NumChunks}
    /\ clock = 0 /\ reserved = NoCalls /\ recorded = NoCalls /\ stopped = FALSE
    /\ attempted = {} /\ initialDone = {}
    /\ pageReasons = [p \in Pages |-> {}]
    /\ reread = {} /\ recoverPage = 1
    /\ before = [reasons |-> {}, blocks |-> {}]
    /\ blocks = <<>> /\ offers = <<>>
    /\ invalidEvidence = FALSE /\ abandoned = {}
    /\ published = {} /\ pendingBlocks = {}

-----------------------------------------------------------------------------
(* Ledger updates shared by several handlers.                             *)

AddPageReason(S, reason) ==
    [p \in Pages |-> pageReasons[p] \cup (IF p \in S THEN {reason} ELSE {})]

AddBlockReason(bs, S, reason) ==
    [b \in DOMAIN bs |->
        [bs[b] EXCEPT !.reasons = @ \cup (IF b \in S THEN {reason} ELSE {})]]

(* interpret() after the assembler: reasons of the block, an offer, or     *)
(* a request for visual evidence of its page.                              *)
WithDoubts(bs, iv) ==
    AddBlockReason(bs, {b \in DOMAIN iv : iv[b].doubts}, "interpretation")
VisualPages(iv) == {b.page : b \in {i \in DOMAIN iv : iv[i].visual}}
Proposal(terms) ==
    [name |-> terms.name, price |-> terms.price, decided |-> FALSE,
     identity |-> "pending", basis |-> "pending"]
WithOffers(iv) ==
    [b \in DOMAIN offers \cup {i \in DOMAIN iv : iv[i].offers # {}} |->
        IF b \in DOMAIN offers THEN offers[b]
        ELSE Proposal(CHOOSE t \in iv[b].offers : TRUE)]

(* The tasks of one page join the queue in page order.                    *)
Arrangements(S) ==
    {s \in [1 .. Cardinality(S) -> S] :
        \A i, j \in 1 .. Cardinality(S) : i < j =>
            /\ s[i] # s[j]
            /\ s[i].page = s[j].page => s[i].order < s[j].order}
Enqueue(kind, S) ==
    \E s \in Arrangements(S) :
        queue' = queue \o [i \in DOMAIN s |-> [kind |-> kind, block |-> s[i]]]

-----------------------------------------------------------------------------
(* The batch loop.  A batch fits the reader slots and the reading quota,   *)
(* and renews the budget.                                                  *)

LastOfBatch == IF nextChunk + BatchSize - 1 < NumChunks
               THEN nextChunk + BatchSize - 1 ELSE NumChunks

StartBatch ==
    /\ pc = "batch" /\ nextChunk <= NumChunks
    /\ reading' = [i \in 1 .. (LastOfBatch - nextChunk + 1) |-> Chunk(nextChunk + i - 1)]
    /\ nextChunk' = LastOfBatch + 1
    /\ clock' = 0 /\ reserved' = NoCalls /\ recorded' = NoCalls
    /\ pc' = "schedule"
    /\ UNCHANGED <<phase, reads, returned, collected, semantic, queue, files,
                   stopped, pages, ledger>>

EndBatches ==
    /\ pc = "batch" /\ nextChunk > NumChunks
    /\ pc' = "recover"
    /\ files' = {}
    /\ UNCHANGED <<phase, nextChunk, reading, reads, returned, collected, semantic,
                   queue, budget, pages, ledger>>

-----------------------------------------------------------------------------
(* run_pipeline: the scheduling loop.                                      *)

MayRead == reading # <<>> /\ Cardinality(reads) < ChunkWorkers

\* Every initial chunk is attempted; rereads honour the deadline.
AlwaysEnforceDeadline == TRUE
EnforceDeadline == phase # "initial"

SubmitRead ==
    /\ pc = "schedule" /\ MayRead
    /\ Admits("reading", EnforceDeadline, clock, reserved)
    /\ reserved' = Reserve("reading", reserved)
    /\ reads' = reads \cup {Head(reading)}
    /\ reading' = Tail(reading)
    /\ UNCHANGED <<pc, phase, nextChunk, returned, collected, semantic, queue, files,
                   clock, recorded, stopped, pages, ledger>>

\* The whole deque is given up, with the budget's reason on each page.
StopReading ==
    /\ pc = "schedule" /\ MayRead
    /\ ~Admits("reading", EnforceDeadline, clock, reserved)
    /\ stopped' = TRUE
    /\ pageReasons' = AddPageReason(
            UNION {PagesOf(reading[i]) : i \in DOMAIN reading}, "call_budget_or_deadline")
    /\ reading' = <<>>
    /\ UNCHANGED <<pc, phase, nextChunk, reads, returned, collected, semantic, queue,
                   files, clock, reserved, recorded, attempted, initialDone, reread,
                   recoverPage, before, ledger>>

MayAsk == ~MayRead /\ queue # <<>> /\ semantic = NoRequest
NextTask == Head(queue)

\* A provider that does not reserve its own calls is reserved one here.
StartSemantic ==
    /\ pc = "schedule" /\ MayAsk
    /\ clock < Deadline[NextTask.kind]
    /\ \/ PerCallReservation /\ UNCHANGED reserved
       \/ /\ ~PerCallReservation
          /\ Admits(NextTask.kind, TRUE, clock, reserved)
          /\ reserved' = Reserve(NextTask.kind, reserved)
    /\ semantic' = [state |-> "running", task |-> NextTask,
                    posts |-> IF PerCallReservation THEN 0 ELSE 1]
    /\ queue' = Tail(queue)
    /\ UNCHANGED <<pc, phase, nextChunk, reading, reads, returned, collected, files,
                   clock, recorded, stopped, pages, ledger>>

DeferSemantic ==
    /\ pc = "schedule" /\ MayAsk
    /\ \/ clock >= Deadline[NextTask.kind] /\ UNCHANGED stopped
       \/ /\ clock < Deadline[NextTask.kind]
          /\ ~PerCallReservation
          /\ ~Admits(NextTask.kind, TRUE, clock, reserved)
          /\ stopped' = TRUE
    /\ queue' = Tail(queue)
    /\ abandoned' = abandoned \cup {NextTask}
    /\ blocks' = IF NextTask.kind = "classification"
                 THEN AddBlockReason(blocks, {NextTask.block}, "classification")
                 ELSE blocks
    /\ UNCHANGED <<pc, phase, nextChunk, reading, reads, returned, collected, semantic,
                   files, clock, reserved, recorded, pages, offers, invalidEvidence,
                   published, pendingBlocks>>

Idle == ~MayRead /\ ~MayAsk
NothingPendingButJev == reads = {}
NothingPending == reads = {} /\ semantic = NoRequest

WaitForTransport ==
    /\ pc = "schedule" /\ Idle /\ ~NothingPending
    /\ pc' = "wait"
    /\ UNCHANGED <<phase, nextChunk, reading, reads, returned, collected, semantic,
                   queue, files, budget, pages, ledger>>

\* wait(FIRST_COMPLETED) reports every future that is done by then.
Collect ==
    /\ pc = "wait"
    /\ returned # {} \/ semantic.state = "returned"
    /\ collected' = returned
    /\ semantic' = IF semantic.state = "returned"
                   THEN [semantic EXCEPT !.state = "collected"] ELSE semantic
    /\ pc' = "collect"
    /\ UNCHANGED <<phase, nextChunk, reading, reads, returned, queue, files,
                   budget, pages, ledger>>

\* A page reread without any block keeps its old reasons too.
ForgottenReasons == {}
KeptReasons ==
    IF \E b \in DOMAIN blocks : b.page = recoverPage /\ b \notin before.blocks
    THEN {} ELSE before.reasons

EndPipeline ==
    /\ pc = "schedule" /\ Idle /\ NothingPending
    /\ IF phase = "initial"
       THEN /\ pc' = "batch"
            /\ UNCHANGED <<files, pages>>
       ELSE /\ pc' = "recover"
            /\ files' = {}
            /\ recoverPage' = recoverPage + 1
            /\ pageReasons' = [pageReasons EXCEPT ![recoverPage] = @ \cup KeptReasons]
            /\ UNCHANGED <<attempted, initialDone, reread, before>>
    /\ UNCHANGED <<phase, nextChunk, reading, reads, returned, collected, semantic,
                   queue, budget, ledger>>

-----------------------------------------------------------------------------
(* The transports, on their own threads, and the clock.                    *)

ReadReturns(chunk) ==
    /\ chunk \in reads \ returned
    /\ returned' = returned \cup {chunk}
    /\ UNCHANGED <<pc, phase, nextChunk, reading, reads, collected, semantic, queue,
                   files, budget, pages, ledger>>

SemanticReturns ==
    /\ semantic.state = "running"
    /\ semantic' = [semantic EXCEPT !.state = "returned"]
    /\ UNCHANGED <<pc, phase, nextChunk, reading, reads, returned, collected, queue,
                   files, budget, pages, ledger>>

\* One POST of a partitioned JEV request; a refused reservation ends it.
Post ==
    /\ semantic.state = "running" /\ PerCallReservation
    /\ IF Admits(semantic.task.kind, TRUE, clock, reserved)
       THEN /\ semantic.posts < MaxPosts
            /\ reserved' = Reserve(semantic.task.kind, reserved)
            /\ semantic' = [semantic EXCEPT !.posts = @ + 1]
            /\ UNCHANGED stopped
       ELSE /\ stopped' = TRUE
            /\ semantic' = [semantic EXCEPT !.state = "returned"]
            /\ UNCHANGED reserved
    /\ UNCHANGED <<pc, phase, nextChunk, reading, reads, returned, collected, queue,
                   files, clock, recorded, pages, ledger>>

DeadlinePasses ==
    /\ pc \notin Terminal /\ clock < LastDeadline
    /\ clock' = clock + 1
    /\ UNCHANGED <<scheduler, reserved, recorded, stopped, pages, ledger>>

-----------------------------------------------------------------------------
(* read(): what a returned read does to pages and ledger.                  *)

TakeRead(chunk) ==
    /\ pc = "collect" /\ chunk \in collected
    /\ reads' = reads \ {chunk}
    /\ returned' = returned \ {chunk}
    /\ collected' = collected \ {chunk}
    /\ recorded' = [recorded EXCEPT !["reading"] = @ + 1]
    /\ attempted' = attempted \cup PagesOf(chunk)
    /\ UNCHANGED <<pc, phase, nextChunk, reading, semantic, files, clock, reserved,
                   stopped, reread, recoverPage, before, published, pendingBlocks>>

\* Transport error, foreign result or wrong wire method.
ReadFailed(chunk) ==
    /\ TakeRead(chunk)
    /\ pageReasons' = AddPageReason(PagesOf(chunk), "reader_failed")
    /\ UNCHANGED <<queue, initialDone, blocks, offers, invalidEvidence, abandoned>>

BlocksOf(chunk, report) ==
    UNION {{[phase |-> phase, page |-> p, order |-> i] : i \in DOMAIN report[p].blocks}
              : p \in {q \in PagesOf(chunk) : report[q].seen}}

(* associate(): a reread block replaces the one earlier block of its page  *)
(* with the same text, provided the rereading shows that text once.        *)
NewBlock(b, report) ==
    LET raw  == report[b.page].blocks[b.order]
        same == {o \in before.blocks : blocks[o].text = raw.text}
        once == \A i \in DOMAIN report[b.page].blocks :
                    report[b.page].blocks[i].text = raw.text => i = b.order
        matched == Cardinality(same) = 1 /\ once
    IN  [text |-> raw.text,
         reasons |->
            (IF raw.badReference THEN {"invalid_condition_reference"} ELSE {}) \cup
            (IF phase = "reread" /\ ~matched THEN {"unverified_reading_association"}
                                             ELSE {}),
         supersedes |-> IF phase = "reread" /\ matched THEN same ELSE {}]

Arrived(chunk, report) ==
    [b \in DOMAIN blocks \cup BlocksOf(chunk, report) |->
        IF b \in BlocksOf(chunk, report) THEN NewBlock(b, report) ELSE blocks[b]]

\* New blocks without a reason against them go on to be interpreted.
Sound(chunk, report) ==
    {b \in BlocksOf(chunk, report) : NewBlock(b, report).reasons = {}}

ReportReasons(page) ==
    IF ~page.seen THEN {"missing_page_report"}
    ELSE IF page.incomplete THEN {"visual_coverage_incomplete"} ELSE {}
ReasonsRead(chunk, report, S) ==
    [p \in Pages |->
        pageReasons[p]
        \cup (IF p \in PagesOf(chunk) THEN ReportReasons(report[p]) ELSE {})
        \cup (IF p \in S THEN {"missing_visual_evidence"} ELSE {})]

\* Method A interprets the blocks at once.
InterpretRead(chunk, report) ==
    \E iv \in [Sound(chunk, report) -> Interpretations] :
        /\ blocks' = WithDoubts(Arrived(chunk, report), iv)
        /\ offers' = WithOffers(iv)
        /\ pageReasons' = ReasonsRead(chunk, report, VisualPages(iv))
        /\ UNCHANGED <<queue, abandoned>>

\* Method B queues them for JEV; building the question or preflight may
\* reject some locally.
ClassifyRead(chunk, report) ==
    \E rejected \in SUBSET Sound(chunk, report) :
        /\ blocks' = AddBlockReason(Arrived(chunk, report), rejected, "classification")
        /\ abandoned' = abandoned \cup
                {[kind |-> "classification", block |-> b] : b \in rejected}
        /\ Enqueue("classification", Sound(chunk, report) \ rejected)
        /\ pageReasons' = ReasonsRead(chunk, report, {})
        /\ UNCHANGED offers

ReadSucceeded(chunk) ==
    /\ TakeRead(chunk)
    /\ \E report \in [PagesOf(chunk) -> PageReports] :
        /\ initialDone' = initialDone \cup {p \in PagesOf(chunk) : report[p].seen}
        /\ invalidEvidence' = (invalidEvidence \/ \E p \in PagesOf(chunk) : report[p].stray)
        /\ IF Structured THEN InterpretRead(chunk, report) ELSE ClassifyRead(chunk, report)

-----------------------------------------------------------------------------
(* finish_semantic(): what a returned semantic request does.               *)

TakeSemantic ==
    /\ pc = "collect" /\ semantic.state = "collected"
    /\ semantic' = NoRequest
    /\ UNCHANGED <<pc, phase, nextChunk, reading, reads, returned, collected, queue,
                   files, clock, reserved, stopped, attempted, initialDone, reread,
                   recoverPage, before, invalidEvidence, published, pendingBlocks>>

\* An exception, or an answer about other evidence: one error call stands
\* for all the request's calls, provided it reserved any.
ErrorCallsUnrecorded == 0
ErrorCalls == IF semantic.posts > 0 THEN 1 ELSE 0
SemanticFailed ==
    /\ TakeSemantic
    /\ recorded' = [recorded EXCEPT ![semantic.task.kind] =
                        @ + ErrorCalls]
    /\ abandoned' = abandoned \cup {semantic.task}
    /\ blocks' = IF semantic.task.kind = "classification"
                 THEN AddBlockReason(blocks, {semantic.task.block}, "classification")
                 ELSE blocks
    /\ UNCHANGED <<pageReasons, offers>>

SemanticAnswered ==
    /\ TakeSemantic
    /\ recorded' = [recorded EXCEPT ![semantic.task.kind] = @ + semantic.posts]
    /\ abandoned' = IF semantic.posts = 0 THEN abandoned \cup {semantic.task}
                                          ELSE abandoned

\* Without a full answer the reasons of the result become the block's.
ClassificationAnswered ==
    /\ semantic.state = "collected" /\ semantic.task.kind = "classification"
    /\ SemanticAnswered
    /\ \E i \in Interpretations, full \in BOOLEAN :
        LET iv == [b \in {semantic.task.block} |-> i]
        IN  /\ full => semantic.posts > 0
            /\ semantic.posts = 0 => i.offers = {}
            /\ blocks' = IF full THEN WithDoubts(blocks, iv)
                         ELSE AddBlockReason(WithDoubts(blocks, iv),
                                             {semantic.task.block}, "classification")
            /\ offers' = WithOffers(iv)
            /\ pageReasons' = AddPageReason(VisualPages(iv), "missing_visual_evidence")

(* validate_decision: an identity needs a verified name, a basis a         *)
(* verified price; both are pending otherwise.                             *)
Resolved(a) == a.identity # "pending" /\ a.basis # "pending"
Assesses(a, offer) ==
    /\ a.identity \in Products => "name" \in a.verified /\ offer.name # None
    /\ a.basis # "pending" => "price" \in a.verified /\ offer.price # None
    /\ a.route = "resolved" <=> Resolved(a)
Assessed(a, offer) ==
    [offer EXCEPT !.name = IF "name" \in a.verified THEN @ ELSE None,
                  !.price = IF "price" \in a.verified THEN @ ELSE None,
                  !.identity = a.identity, !.basis = a.basis, !.decided = TRUE]

DecisionAnswered ==
    /\ semantic.state = "collected" /\ semantic.task.kind = "decision"
    /\ SemanticAnswered
    /\ LET b == semantic.task.block
       IN  \E a \in Assessments :
            /\ a.route \notin {"needs_jev", "local_rejection"}
            /\ Assesses(a, offers[b])
            /\ semantic.posts = 0 => a.route # "resolved"
            /\ offers' = [offers EXCEPT ![b] = Assessed(a, @)]
            /\ pageReasons' = AddPageReason(
                    IF a.route = "needs_visual_review" THEN {b.page} ELSE {},
                    "missing_visual_evidence")
    /\ UNCHANGED blocks

CollectedReadsOnly == collected = {}
CollectedAll == collected = {} /\ semantic.state # "collected"

EndCollect ==
    /\ pc = "collect" /\ CollectedAll
    /\ pc' = "decide"
    /\ UNCHANGED <<phase, nextChunk, reading, reads, returned, collected, semantic,
                   queue, files, budget, pages, ledger>>

-----------------------------------------------------------------------------
(* decide_offers(): every offer not yet decided is assessed by the rules;  *)
(* those that need JEV are queued, unless preflight rejects them.          *)

Undecided == {b \in DOMAIN offers : ~offers[b].decided}

DecideOffers ==
    /\ pc = "decide"
    /\ \E a \in [Undecided -> Assessments] :
        /\ \A b \in Undecided : Assesses(a[b], offers[b])
        /\ offers' = [b \in DOMAIN offers |->
                        IF b \in Undecided THEN Assessed(a[b], offers[b]) ELSE offers[b]]
        /\ Enqueue("decision", {b \in Undecided : a[b].route = "needs_jev"})
        /\ abandoned' = abandoned \cup
             {[kind |-> "decision", block |-> b] :
                 b \in {u \in Undecided : a[u].route = "local_rejection"}}
        /\ pageReasons' = AddPageReason(
             {b.page : b \in {u \in Undecided : a[u].route = "needs_visual_review"}},
             "missing_visual_evidence")
    /\ pc' = "schedule"
    /\ UNCHANGED <<phase, nextChunk, reading, reads, returned, collected, semantic,
                   files, budget, attempted, initialDone, reread, recoverPage, before,
                   blocks, invalidEvidence, published, pendingBlocks>>

\* Candidate retrieval raises or the metadata is too large: the exception
\* leaves run_pipeline, whose executors first join their threads.
DecideFails ==
    /\ MayFail /\ pc = "decide" /\ Undecided # {}
    /\ pc' = "failing"
    /\ UNCHANGED <<phase, nextChunk, reading, reads, returned, collected, semantic,
                   queue, files, budget, pages, ledger>>

NotJoined == TRUE
Joined == reads \subseteq returned /\ semantic.state # "running"

JoinTransports ==
    /\ pc = "failing" /\ Joined
    /\ files' = {}
    /\ pc' = "failed"
    /\ UNCHANGED <<phase, nextChunk, reading, reads, returned, collected, semantic,
                   queue, budget, pages, ledger>>

-----------------------------------------------------------------------------
(* Recovery: one reread of each page with a visual failure, in page order, *)
(* within what is left of the last batch's budget.                         *)

NeedsReread(p) == pageReasons[p] \cap VisualReasons # {}
MayReread(p) ==
    /\ p \notin reread
    /\ clock < Deadline["reading"]
    /\ reserved["reading"] < ReadingLimit

SkipPage ==
    /\ pc = "recover" /\ recoverPage <= NumPages
    /\ ~(NeedsReread(recoverPage) /\ MayReread(recoverPage))
    /\ recoverPage' = recoverPage + 1
    /\ UNCHANGED <<scheduler, budget, attempted, initialDone, pageReasons, reread,
                   before, ledger>>

StartReread ==
    /\ pc = "recover" /\ recoverPage <= NumPages
    /\ NeedsReread(recoverPage) /\ MayReread(recoverPage)
    /\ reread' = reread \cup {recoverPage}
    /\ before' = [reasons |-> pageReasons[recoverPage],
                  blocks |-> {b \in DOMAIN blocks : b.page = recoverPage}]
    /\ pageReasons' = [pageReasons EXCEPT ![recoverPage] = {}]
    /\ reading' = <<<<recoverPage, recoverPage>>>>
    /\ files' = {<<recoverPage, recoverPage>>}
    /\ phase' = "reread" /\ pc' = "schedule"
    /\ UNCHANGED <<nextChunk, reads, returned, collected, semantic, queue, budget,
                   attempted, initialDone, recoverPage, ledger>>

-----------------------------------------------------------------------------
(* Which version of a block stands, and what is published.                 *)

Usable(offer) == offer.name # None /\ offer.price # None

Compatible(old, new) ==
    /\ old.name # None => new.name = old.name
    /\ old.price # None => new.price = old.price
    /\ old.basis # "pending" => new.basis = old.basis
    /\ old.identity # "pending" => new.identity = old.identity

(* The new version of old replaces it: it covers the old offer, has a      *)
(* usable one, and the old version had no reasons against it.              *)
ReplacesUncovered(new, old) ==
    /\ new \in DOMAIN offers /\ Usable(offers[new])
    /\ blocks[old].reasons = {}
Replaces(new, old) ==
    /\ old \in DOMAIN offers =>
         /\ new \in DOMAIN offers
         /\ Compatible(offers[old], offers[new])
         /\ Usable(offers[old]) => Usable(offers[new])
    /\ new \in DOMAIN offers /\ Usable(offers[new])
    /\ blocks[old].reasons = {}

Versions == {b \in DOMAIN blocks : blocks[b].supersedes # {} /\ blocks[b].reasons = {}}
Replacing == {b \in Versions : \A old \in blocks[b].supersedes : Replaces(b, old)}
Regressed == Versions \ Replacing
Superseded == UNION {blocks[b].supersedes : b \in Replacing}
Current == DOMAIN blocks \ Superseded
Visible == {b \in Current \cap DOMAIN offers : b \notin Regressed}
PublishableUnread == {b \in Current : b \in DOMAIN offers => Usable(offers[b])}
Publishable == {b \in Visible : Usable(offers[b])}

CompleteWithDoubts(pending) ==
    /\ pending = {} /\ ~invalidEvidence /\ ~stopped
    /\ \A p \in Pages : pageReasons[p] = {} /\ p \in initialDone
Complete(pending) ==
    /\ pending = {} /\ ~invalidEvidence /\ ~stopped
    /\ \A p \in Pages : pageReasons[p] = {} /\ p \in initialDone
    /\ \A b \in Visible : offers[b].identity # "pending" /\ offers[b].basis # "pending"

Finalize ==
    /\ pc = "recover" /\ recoverPage > NumPages
    /\ blocks' = AddBlockReason(blocks, Regressed, "reread_quality_regression")
    /\ published' = Publishable
    /\ pendingBlocks' = {b \in Current : blocks'[b].reasons # {} \/ b \notin Publishable}
    /\ pc' = IF Complete(pendingBlocks') THEN "completed" ELSE "partial"
    /\ UNCHANGED <<phase, nextChunk, reading, reads, returned, collected, semantic,
                   queue, files, budget, pages, offers, invalidEvidence, abandoned>>

MetadataTooLarge ==
    /\ MayFail /\ pc = "recover" /\ recoverPage > NumPages
    /\ pc' = "failed"
    /\ UNCHANGED <<phase, nextChunk, reading, reads, returned, collected, semantic,
                   queue, files, budget, pages, ledger>>

-----------------------------------------------------------------------------
Coordinator ==
    \/ StartBatch \/ EndBatches
    \/ SubmitRead \/ StopReading \/ StartSemantic \/ DeferSemantic
    \/ WaitForTransport \/ Collect \/ EndPipeline
    \/ \E chunk \in collected : ReadFailed(chunk) \/ ReadSucceeded(chunk)
    \/ SemanticFailed \/ ClassificationAnswered \/ DecisionAnswered
    \/ EndCollect \/ DecideOffers \/ DecideFails \/ JoinTransports
    \/ SkipPage \/ StartReread \/ Finalize \/ MetadataTooLarge

Transports == SemanticReturns \/ Post \/ \E chunk \in reads : ReadReturns(chunk)

Finished == pc \in Terminal /\ UNCHANGED vars

Next == Coordinator \/ Transports \/ DeadlinePasses \/ Finished

(* The request worker runs until it returns; OpenAI and JEV requests carry *)
(* a timeout, so every transport returns.                                  *)
Fairness ==
    /\ WF_vars(Coordinator)
    /\ WF_vars(SemanticReturns)
    /\ WF_vars(\E chunk \in reads : ReadReturns(chunk))

Spec == Init /\ [][Next]_vars /\ Fairness

-----------------------------------------------------------------------------
(* The types of the state, and how the pending reads are nested: what the  *)
(* coordinator collects has returned, what has returned is pending.        *)
SchedulerOK ==
    /\ pc \in Terminal \cup {"batch", "schedule", "wait", "collect", "decide", "failing",
                            "recover"}
    /\ phase \in Phases
    /\ nextChunk \in 1 .. (NumChunks + 1)
    /\ reading \in Seq(Nat \X Nat)
    /\ reads \subseteq Nat \X Nat
    /\ collected \subseteq returned /\ returned \subseteq reads
    /\ semantic \in Request \cup {NoRequest}
    /\ queue \in Seq(Tasks)
    /\ files \subseteq Nat \X Nat

BudgetOK ==
    /\ clock \in 0 .. LastDeadline
    /\ reserved \in [Kinds -> Nat] /\ recorded \in [Kinds -> Nat]
    /\ stopped \in BOOLEAN

PagesOK ==
    /\ attempted \subseteq Pages /\ initialDone \subseteq Pages
    /\ pageReasons \in [Pages -> SUBSET PageReasons]
    /\ reread \subseteq Pages
    /\ recoverPage \in 1 .. (NumPages + 1)
    /\ before \in [reasons : SUBSET PageReasons, blocks : SUBSET BlockIds]

LedgerOK ==
    /\ DOMAIN blocks \subseteq BlockIds
    /\ \A b \in DOMAIN blocks : blocks[b] \in Block
    /\ DOMAIN offers \subseteq DOMAIN blocks
    /\ \A b \in DOMAIN offers : offers[b] \in Offer
    /\ invalidEvidence \in BOOLEAN
    /\ abandoned \subseteq Tasks
    /\ published \subseteq DOMAIN offers /\ pendingBlocks \subseteq DOMAIN blocks

TypeOK == SchedulerOK /\ BudgetOK /\ PagesOK /\ LedgerOK

(* AnalysisBudget: the reads of the coordinator and the POSTs of the JEV   *)
(* thread share one budget, and no batch exceeds its total or the quota of *)
(* a phase.                                                                *)
BudgetRespected ==
    /\ Total(reserved) <= MaxCalls
    /\ \A k \in Kinds : reserved[k] <= Limit[k]

(* A batch fits the reading quota, and an initial read ignores deadlines:  *)
(* a finished analysis has sent every page to the reader at least once,    *)
(* whatever failed or timed out before.                                    *)
EveryPageAttempted == pc \in {"completed", "partial"} => attempted = Pages

(* Once a pipeline has drained, each read is recorded as one call, no      *)
(* semantic call is recorded twice, and a kind that reserved calls has     *)
(* recorded some, even when every answer was an exception.                 *)
PaidCallsAudited ==
    pc \in {"batch", "recover", "completed", "partial"} =>
        /\ recorded["reading"] = reserved["reading"]
        /\ \A k \in Kinds : /\ recorded[k] <= reserved[k]
                            /\ reserved[k] > 0 => recorded[k] > 0

(* The PDF of a chunk outlives every reader transport working on it, also  *)
(* when an exception ends the analysis.                                    *)
ChunkFilesOutliveReads == reads \ returned \subseteq files

(* The budget is renewed only after the batch has drained: no transport    *)
(* under way, no task queued, no offer left to decide.                     *)
RenewalAfterDrain ==
    [][nextChunk' # nextChunk =>
        /\ reads = {} /\ semantic = NoRequest /\ queue = <<>>
        /\ \A b \in DOMAIN offers : offers[b].decided]_vars

(* Evidence received ends in an offer or a pending block.  A version gives *)
(* way only to a published one, and a usable offer only to one that keeps  *)
(* all it says.                                                            *)
EvidenceConserved ==
    pc \in {"completed", "partial"} =>
        \A b \in DOMAIN blocks :
            \/ b \in published \cup pendingBlocks
            \/ \E n \in published :
                 /\ b \in blocks[n].supersedes
                 /\ b \in DOMAIN offers =>
                      /\ Compatible(offers[b], offers[n])
                      /\ Usable(offers[b]) => Usable(offers[n])

(* A page with a visual failure is cleared only by a reread that showed a  *)
(* block; a reread that fails or finds nothing leaves it under review.     *)
VisualFailureRemembered ==
    pc \in {"completed", "partial"} =>
        \A p \in reread : pageReasons[p] = {} =>
            \E b \in DOMAIN blocks : b.page = p /\ b.phase = "reread"

(* "completed" says that nothing is left: every page was read, every       *)
(* published offer has an identity and a basis, and a task that was        *)
(* deferred or failed concerned a version that another one replaced.       *)
CompletedMeansDone ==
    pc = "completed" =>
        /\ initialDone = Pages
        /\ \A b \in published : offers[b].identity # "pending" /\ offers[b].basis # "pending"
        /\ \A t \in abandoned : \E n \in published : t.block \in blocks[n].supersedes

(* As long as transports return, the request worker always reaches a       *)
(* result.                                                                 *)
AnalysisEnds == <>(pc \in Terminal)
=============================================================================
