-------------------------- MODULE ChunkedExtraction --------------------------
(***************************************************************************)
(* ChunkedDocumentExtractionProvider: a document read by one or two        *)
(* readers.  A PDF is cut into chunks; a pool works on a few at a time and *)
(* sends each to every reader at once.  A reader that fails for good is    *)
(* not called again.  When all chunks are read, every suspicious page is   *)
(* reread on its own, once, and the rows of all readings are reconciled.   *)
(*                                                                         *)
(* The calls of a chunk run on two threads and the thread that collects    *)
(* them disables a reader: only calls that run already may still reach it. *)
(***************************************************************************)
EXTENDS OfferReconciliation

CONSTANTS
    Readers,            \* their names, sorted
    NumPages, ChunkSize,
    ChunkWorkers, RetryWorkers,
    PageReadings        \* what a reader may report of each page

ReaderNames == {Readers[i] : i \in DOMAIN Readers}

PageReading ==
    [rows : Seq([name : Names, price : Prices]),    \* of the page
     stray : Seq([name : Names, price : Prices]),   \* under no page number of the chunk
     flagged : BOOLEAN]     \* no report, a warning, or few rows for its estimate

ASSUME ExtractionAssumption ==
    /\ Readers \in Seq(ReaderNames)
    /\ \A i, j \in DOMAIN Readers : Readers[i] = Readers[j] => i = j
    /\ NumPages \in Nat \ {0} /\ ChunkSize \in Nat \ {0}
    /\ ChunkWorkers \in {1, 2} /\ RetryWorkers \in {1, 2}
    /\ \A page \in 1..NumPages : PageReadings[page] \subseteq PageReading

VARIABLES
    paged,          \* whether the document is a PDF
    providers,      \* the configured readers
    phase,          \* initial, retry, completed, unavailable
    reads,          \* of each phase, the calls of the chunks submitted so far
    disabled,       \* the readers that failed for good
    reasons,        \* why each page is reread
    needsReview,    \* pages for a person
    items, unresolved   \* the extraction and its ledger

results == <<reasons, needsReview, items, unresolved>>
vars == <<paged, providers, phase, reads, disabled, results>>

NothingRead == [rows |-> <<>>, stray |-> <<>>, flagged |-> FALSE]
NoReading == [page \in 1..NumPages |-> NothingRead]
Call(at, reading) == [at |-> at, reading |-> reading]
Waiting == Call("waiting", NoReading)

Init ==
    /\ paged \in BOOLEAN
    /\ \E r, s \in ReaderNames : providers = {r, s}
    /\ phase = "initial"
    /\ reads = [initial |-> <<>>, retry |-> <<>>]
    /\ disabled = {}
    /\ reasons = [page \in 1..NumPages |-> {}]
    /\ needsReview = {}
    /\ items = {} /\ unresolved = {}

-----------------------------------------------------------------------------
(* The pages of each chunk: runs of ChunkSize pages, or one suspicious     *)
(* page each; a document without pages is one chunk.                       *)
Smaller(m, n) == IF m < n THEN m ELSE n
Ranges ==
    [k \in 1..((NumPages + ChunkSize - 1) \div ChunkSize) |->
        ((k - 1) * ChunkSize + 1) .. Smaller(k * ChunkSize, NumPages)]
Retried == {page \in 1..NumPages : reasons[page] # {}}
UpTo(page) == {p \in Retried : p <= page}
RetriedPages ==
    [k \in 1..Cardinality(Retried) |-> {page \in Retried : Cardinality(UpTo(page)) = k}]
Chunks ==
    CASE ~paged -> <<1..NumPages>>
      [] paged /\ phase = "initial" -> Ranges
      [] OTHER -> RetriedPages

Workers == IF phase = "retry" THEN RetryWorkers ELSE ChunkWorkers

Calls == reads[phase]
Ended == {"read", "failed", "broken", "skipped"}
Collected(k) == \A r \in providers : Calls[k][r].at \in Ended
Running == {k \in DOMAIN Calls : ~Collected(k)}
Working == phase \in {"initial", "retry"}

(* _run_chunks keeps as many chunks submitted as it has workers.           *)
Submit ==
    /\ Working
    /\ Len(Calls) < Len(Chunks) /\ Cardinality(Running) < Workers
    /\ reads' = [reads EXCEPT ![phase] = Append(@, [r \in providers |-> Waiting])]
    /\ UNCHANGED <<paged, providers, phase, disabled, results>>

At(k, r, step) == Calls[k][r].at = step
Becomes(k, r, step, reading) ==
    /\ reads' = [reads EXCEPT ![phase][k][r] = Call(step, reading)]
    /\ UNCHANGED <<paged, providers, phase, results>>

(* read looks at the disabled readers, and only then calls.                *)
AnyReader(r) == TRUE
EnabledReader(r) == r \notin disabled
StartRead(k, r) ==
    /\ At(k, r, "waiting") /\ EnabledReader(r)
    /\ Becomes(k, r, "reading", NoReading) /\ UNCHANGED disabled
SkipRead(k, r) ==
    /\ At(k, r, "waiting") /\ ~EnabledReader(r)
    /\ Becomes(k, r, "skipped", NoReading) /\ UNCHANGED disabled

(* A reading of a chunk says nothing of the pages outside of it.           *)
Readings(chunk) ==
    LET Read(page) == IF page \in chunk THEN PageReadings[page] ELSE {NothingRead}
    IN {reading \in [1..NumPages -> UNION {Read(page) : page \in 1..NumPages}] :
           \A page \in 1..NumPages : reading[page] \in Read(page)}
ReadReturns(k, r) ==
    /\ At(k, r, "reading")
    /\ \E reading \in Readings(Chunks[k]) : Becomes(k, r, "read", reading)
    /\ UNCHANGED disabled

(* An error that may pass, and one of the key, the model or the schema,    *)
(* which the collecting thread has still to see.                           *)
ReadFails(k, r) ==
    At(k, r, "reading") /\ Becomes(k, r, "failed", NoReading) /\ UNCHANGED disabled
ReadBreaks(k, r) ==
    At(k, r, "reading") /\ Becomes(k, r, "raised", NoReading) /\ UNCHANGED disabled
Disable(k, r) ==
    /\ At(k, r, "raised") /\ Becomes(k, r, "broken", NoReading)
    /\ disabled' = disabled \cup {r}

-----------------------------------------------------------------------------
(* What a call brings: rows in the order of the pages, those without a     *)
(* page of the chunk last.                                                 *)
RowsOn(page, rows) ==
    [i \in DOMAIN rows |-> [page |-> page, name |-> rows[i].name, price |-> rows[i].price]]
RowsOf(call) ==
    FlattenSeq([page \in 1..NumPages |-> RowsOn(page, call.reading[page].rows)])
      \o FlattenSeq([page \in 1..NumPages |-> RowsOn(0, call.reading[page].stray)])

First == Readers[CHOOSE i \in DOMAIN Readers :
            Readers[i] \in providers /\ \A j \in DOMAIN Readers : Readers[j] \in providers => i <= j]
Others == providers \ {First}
Left(rows) == rows[First]
Right(rows) == IF Others = {} THEN <<>> ELSE rows[CHOOSE r \in Others : TRUE]

(* The rows of a chunk by reader, those that failed with none.             *)
ChunkRows(calls) == [r \in providers |-> RowsOf(calls[r])]

Succeeded(calls) == {r \in providers : calls[r].at = "read"}
Failures(calls) == providers \ Succeeded(calls)
CountOn(rows, page) == Cardinality({i \in DOMAIN rows : rows[i].page = page})
Most(rows, page) ==
    CHOOSE n \in {CountOn(rows[r], page) : r \in providers} :
        \A r \in providers : CountOn(rows[r], page) <= n

(* _suspicious_pages, for one page of a chunk.                             *)
Suspicion(calls, page) ==
    LET rows == ChunkRows(calls)
        seeing == {r \in providers : CountOn(rows[r], page) > 0}
        conflicts == UnresolvedOn(Left(rows), Right(rows), page)
    IN (IF seeing = {} THEN {"empty"} ELSE {})
         \cup (IF seeing \notin {{}, providers} THEN {"single_reader_empty"} ELSE {})
         \cup (IF Failures(calls) # {} THEN {"reader_failure"} ELSE {})
         \cup (IF \E r \in Succeeded(calls) : CountOn(rows[r], 0) > 0
               THEN {"invalid_page_numbers"} ELSE {})
         \cup (IF \E r \in Succeeded(calls) : calls[r].reading[page].flagged
               THEN {"flagged"} ELSE {})
         \cup (IF conflicts >= 3 \/ (conflicts > 0 /\ 4 * conflicts >= Most(rows, page))
               THEN {"conflicts"} ELSE {})

(* A reader that is disabled cannot repair a page that the other has read. *)
OnlyBroken(calls) == Failures(calls) # {} /\ Failures(calls) \subseteq disabled
ReadByAnother(calls, page) == \E r \in providers : CountOn(RowsOf(calls[r]), page) > 0
ReasonsOf(calls, page) ==
    IF OnlyBroken(calls) /\ ReadByAnother(calls, page)
    THEN Suspicion(calls, page) \ {"reader_failure", "single_reader_empty"}
    ELSE Suspicion(calls, page)

PhaseDone == Working /\ Len(Calls) = Len(Chunks) /\ Running = {}
ChunkOf(page) == reads.initial[CHOOSE k \in DOMAIN Ranges : page \in Ranges[k]]

(* The pages that only a disabled reader missed are reported at once.      *)
NotReported == {}
Unverified == {page \in 1..NumPages : OnlyBroken(ChunkOf(page))}

EndInitial ==
    /\ paged /\ phase = "initial" /\ PhaseDone
    /\ reasons' = [page \in 1..NumPages |-> ReasonsOf(ChunkOf(page), page)]
    /\ needsReview' = Unverified
    /\ phase' = "retry"
    /\ UNCHANGED <<paged, providers, reads, disabled, items, unresolved>>

-----------------------------------------------------------------------------
InitialRows == [r \in providers |->
    FlattenSeq([k \in DOMAIN reads.initial |-> RowsOf(reads.initial[k][r])])]
LatestRows == [r \in providers |->
    FoldLeft(LAMBDA rows, calls : Reread(rows, RowsOf(calls[r])), InitialRows[r], reads.retry)]
InitialItems == UNION {Reconciled(Left(ChunkRows(reads.initial[k])),
                                  Right(ChunkRows(reads.initial[k]))) : k \in DOMAIN reads.initial}
StillSuspicious ==
    {page \in Retried : \E k \in DOMAIN reads.retry :
        Chunks[k] = {page} /\ Suspicion(reads.retry[k], page) # {}}

EndRetry ==
    /\ phase = "retry" /\ PhaseDone
    /\ LET ledger == Unresolved(Left(LatestRows), Right(LatestRows))
           union == Supplement(Reconciled(Left(LatestRows), Right(LatestRows)), InitialItems)
       IN /\ unresolved' = ledger
          /\ items' = WithDisputes(union, ledger)
          /\ needsReview' =
               needsReview \cup StillSuspicious
                 \cup {row.page : row \in UNION ledger}
                 \cup IF \E item \in union : item.page = 0
                      THEN {page \in Retried : "invalid_page_numbers" \in reasons[page]}
                      ELSE {}
    /\ phase' = "completed"
    /\ UNCHANGED <<paged, providers, reads, disabled, reasons>>

(* A document that is not a PDF is read once, and refused when nobody can. *)
EndUnpaged ==
    /\ ~paged /\ PhaseDone
    /\ LET rows == ChunkRows(reads.initial[1])
       IN /\ items' = Reconciled(Left(rows), Right(rows))
          /\ unresolved' = Unresolved(Left(rows), Right(rows))
    /\ phase' = IF Succeeded(reads.initial[1]) = {} THEN "unavailable" ELSE "completed"
    /\ UNCHANGED <<paged, providers, reads, disabled, reasons, needsReview>>

(* The answer is given; without this step, waiting for ever would be a     *)
(* deadlock like any other.                                                *)
Terminated == ~Working /\ UNCHANGED vars

Next ==
    \/ Submit
    \/ Working /\ \E k \in DOMAIN Calls, r \in providers :
          \/ StartRead(k, r) \/ SkipRead(k, r)
          \/ ReadReturns(k, r) \/ ReadFails(k, r) \/ ReadBreaks(k, r)
          \/ Disable(k, r)
    \/ EndInitial \/ EndRetry \/ EndUnpaged
    \/ Terminated

Spec == Init /\ [][Next]_vars

-----------------------------------------------------------------------------
TypeOK ==
    /\ paged \in BOOLEAN
    /\ providers \subseteq ReaderNames
    /\ phase \in {"initial", "retry", "completed", "unavailable"}
    /\ \A ph \in {"initial", "retry"} : \A k \in DOMAIN reads[ph] :
          /\ DOMAIN reads[ph][k] = providers
          /\ \A r \in providers : reads[ph][k][r].at \in Ended \cup {"waiting", "reading", "raised"}
    /\ disabled \subseteq providers
    /\ needsReview \subseteq 1..NumPages
    /\ \A item \in items : item.page \in 0..NumPages

(* test_dual_document_extraction.py: "only already-running blocks may also *)
(* fail".  A reader that fails for good does so at most once per worker,   *)
(* however the chunks overlap, and rereads never reach it again.           *)
BrokenIn(ph, r) == {k \in DOMAIN reads[ph] : reads[ph][k][r].at \in {"raised", "broken"}}
BrokenReaderBounded ==
    \A r \in providers :
        /\ Cardinality(BrokenIn("initial", r)) <= ChunkWorkers
        /\ Cardinality(BrokenIn("retry", r)) <= RetryWorkers
        /\ BrokenIn("initial", r) = {} \/ BrokenIn("retry", r) = {}

(* Each page of a finished PDF is reported to a person or was read in full *)
(* by every reader: its last reading succeeded, showed rows and raised no  *)
(* doubt; and a row without a page leaves some page to a person.           *)
LastReading(page) ==
    IF page \in Retried
    THEN reads.retry[CHOOSE k \in DOMAIN reads.retry : Chunks[k] = {page}]
    ELSE ChunkOf(page)
Sound(page) ==
    \A r \in providers : /\ LastReading(page)[r].at = "read"
                         /\ LastReading(page)[r].reading[page].rows # <<>>
                         /\ ~LastReading(page)[r].reading[page].flagged
ReadOrReported ==
    paged /\ phase = "completed" =>
        /\ \A page \in (1..NumPages) \ needsReview : Sound(page)
        /\ (\E item \in items : item.page = 0) => needsReview # {}

(* "never remove an earlier valid price": whatever the rereads bring, an   *)
(* offer recovered by the first reading stays, at its price.               *)
PricesKept ==
    paged /\ phase = "completed" =>
        \A item \in InitialItems : Duplicates(items, item) # {}

(* Every row of the latest readings is in an item or in the ledger.        *)
FinalRows == IF paged THEN LatestRows ELSE ChunkRows(reads.initial[1])
EvidenceAccounted ==
    phase = "completed" =>
        \A r \in providers : LET rows == FinalRows[r] IN
            \A i \in DOMAIN rows :
                \/ \E pair \in unresolved : rows[i] \in pair
                \/ Duplicates(items, rows[i]) # {}
=============================================================================
