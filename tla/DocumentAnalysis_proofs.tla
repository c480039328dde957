---------------------- MODULE DocumentAnalysis_proofs ----------------------
(***************************************************************************)
(* What the pipeline of DocumentAnalysis guarantees for every PDF, chunk   *)
(* size, number of workers and call quota, whatever readers and JEV        *)
(* answer: the shared budget is respected and audited, every page is       *)
(* attempted, a batch starts once the one before has drained, the PDF of a *)
(* chunk outlives the thread that reads it, no evidence and no visual      *)
(* failure is lost, and "completed" leaves nothing undone.                 *)
(***************************************************************************)
EXTENDS DocumentAnalysis, FiniteSetTheorems, SequenceTheorems, TLAPS

(* The steps, one by one: the case split of every proof below.             *)
LEMMA NextCases ==
    ASSUME [Next]_vars
    PROVE  \/ StartBatch \/ EndBatches
           \/ SubmitRead \/ StopReading \/ StartSemantic \/ DeferSemantic
           \/ WaitForTransport \/ Collect \/ EndPipeline
           \/ \E chunk \in collected : ReadFailed(chunk) \/ ReadSucceeded(chunk)
           \/ SemanticFailed \/ ClassificationAnswered \/ DecisionAnswered
           \/ EndCollect \/ DecideOffers \/ DecideFails \/ JoinTransports
           \/ SkipPage \/ StartReread \/ Finalize \/ MetadataTooLarge
           \/ SemanticReturns \/ Post \/ \E chunk \in reads : ReadReturns(chunk)
           \/ DeadlinePasses \/ UNCHANGED vars
  BY DEF Next, Coordinator, Transports, Finished

-----------------------------------------------------------------------------
(* The quotas of the phases are natural numbers that add up to the total,  *)
(* and reading always has at least one call.                               *)
LEMMA Quotas ==
    /\ ReadingLimit \in 1 .. MaxCalls
    /\ ClassificationLimit \in Nat /\ DecisionLimit \in Nat
    /\ ReadingLimit + ClassificationLimit + DecisionLimit = MaxCalls
    /\ Limit["reading"] = ReadingLimit
    /\ Limit["classification"] = ClassificationLimit
    /\ Limit["decision"] = DecisionLimit
  <1>1. ReadingLimit \in 1 .. MaxCalls
    BY BudgetAssumption DEF ReadingLimit
  <1>2. ClassificationLimit \in Nat /\ ReadingLimit + ClassificationLimit <= MaxCalls
    BY BudgetAssumption DEF ReadingLimit, ClassificationLimit, Methods, Structured
  <1> QED BY <1>1, <1>2, BudgetAssumption DEF DecisionLimit, Limit, Kinds

BudgetInv == reserved \in [Kinds -> Nat] /\ BudgetRespected

(* A call that reserve admitted keeps the budget.                          *)
LEMMA ReserveKeepsBudget ==
    ASSUME BudgetInv, NEW kind, NEW enforce, Admits(kind, enforce, clock, reserved),
           reserved' = Reserve(kind, reserved)
    PROVE  BudgetInv'
  <1>1. CASE kind \notin Kinds
    BY <1>1 DEF Reserve, BudgetInv, BudgetRespected, Total
  <1>2. CASE kind \in Kinds
    <2>1. reserved' \in [Kinds -> Nat]
      BY <1>2 DEF Reserve, BudgetInv
    <2>2. \A k \in Kinds : reserved'[k] = IF k = kind THEN reserved[k] + 1 ELSE reserved[k]
      BY <1>2 DEF Reserve, BudgetInv
    <2>3. Total(reserved)' = Total(reserved) + 1
      BY <1>2, <2>2 DEF Total, Kinds, BudgetInv
    <2>4. \A k \in Kinds : Limit[k] \in Nat
      BY Quotas, BudgetAssumption DEF Kinds
    <2>5. \A k \in Kinds : reserved'[k] <= Limit[k]
      BY <2>2, <2>4 DEF Admits, BudgetInv, BudgetRespected
    <2>6. Total(reserved)' <= MaxCalls
      BY <2>3, BudgetAssumption DEF Admits, BudgetInv, Total, Kinds
    <2> QED BY <2>1, <2>5, <2>6 DEF BudgetInv, BudgetRespected
  <1> QED BY <1>1, <1>2

LEMMA BudgetInit == Init => BudgetInv
  BY Quotas, BudgetAssumption
     DEF Init, BudgetInv, BudgetRespected, NoCalls, Total, Kinds

LEMMA BudgetStep == BudgetInv /\ [Next]_vars => BudgetInv'
  <1> SUFFICES ASSUME BudgetInv, [Next]_vars PROVE BudgetInv'
    OBVIOUS
  <1>1. CASE StartBatch
    BY <1>1, BudgetInit, Quotas, BudgetAssumption
       DEF StartBatch, BudgetInv, BudgetRespected, NoCalls, Total, Kinds
  <1>2. CASE SubmitRead
    BY <1>2, ReserveKeepsBudget DEF SubmitRead
  <1>3. CASE StartSemantic
    <2>1. CASE UNCHANGED reserved
      BY <2>1 DEF BudgetInv, BudgetRespected, Total
    <2>2. CASE Admits(NextTask.kind, TRUE, clock, reserved)
               /\ reserved' = Reserve(NextTask.kind, reserved)
      BY <2>2, ReserveKeepsBudget
    <2> QED BY <1>3, <2>1, <2>2 DEF StartSemantic
  <1>4. CASE Post
    <2>1. CASE UNCHANGED reserved
      BY <2>1 DEF BudgetInv, BudgetRespected, Total
    <2>2. CASE Admits(semantic.task.kind, TRUE, clock, reserved)
               /\ reserved' = Reserve(semantic.task.kind, reserved)
      BY <2>2, ReserveKeepsBudget
    <2> QED BY <1>4, <2>1, <2>2 DEF Post
  <1>5. CASE UNCHANGED reserved
    BY <1>5 DEF BudgetInv, BudgetRespected, Total
  <1>6. StartBatch \/ SubmitRead \/ StartSemantic \/ Post \/ UNCHANGED reserved
    BY NextCases DEF EndBatches, StopReading, DeferSemantic, WaitForTransport, Collect,
       EndPipeline, ReadFailed, ReadSucceeded, TakeRead, SemanticFailed,
       ClassificationAnswered, DecisionAnswered, SemanticAnswered, TakeSemantic,
       EndCollect, DecideOffers, DecideFails, JoinTransports, SkipPage, StartReread,
       Finalize, MetadataTooLarge, SemanticReturns, ReadReturns, DeadlinePasses,
       vars, budget
  <1> QED BY <1>1, <1>2, <1>3, <1>4, <1>5, <1>6

LEMMA BudgetInvariant == Spec => []BudgetInv
  BY BudgetInit, BudgetStep, PTL DEF Spec

(* AnalysisBudget.reserve: whatever the interleaving of the coordinator's  *)
(* reads with the POSTs of the JEV thread, no batch exceeds its call limit *)
(* or the quota of a phase.                                                *)
THEOREM BudgetSafe == Spec => []BudgetRespected
  BY BudgetInvariant, PTL DEF BudgetInv

-----------------------------------------------------------------------------
(* Chunks cover the PDF.                                                   *)

LEMMA ChunkPages ==
    ASSUME NEW i \in 1 .. NumChunks
    PROVE  PagesOf(Chunk(i)) \subseteq Pages
  BY AnalysisAssumption DEF NumChunks, Chunk, PagesOf, Pages

LEMMA ChunksCoverPages ==
    ASSUME NEW p \in Pages
    PROVE  \E i \in 1 .. NumChunks : p \in PagesOf(Chunk(i))
  <1>1. CASE ChunkSize = 1
    <2>1. p \in 1 .. NumChunks /\ p \in PagesOf(Chunk(p))
      BY <1>1, AnalysisAssumption DEF NumChunks, Chunk, PagesOf, Pages
    <2> QED BY <2>1
  <1>2. CASE ChunkSize = 2
    <2> DEFINE i == (p + 1) \div 2
    <2>1. i \in 1 .. NumChunks /\ p \in PagesOf(Chunk(i))
      BY <1>2, AnalysisAssumption DEF NumChunks, Chunk, PagesOf, Pages
    <2> QED BY <2>1
  <1> QED BY <1>1, <1>2, AnalysisAssumption

LEMMA SomeChunk == NumChunks \in Nat \ {0}
  BY AnalysisAssumption DEF NumChunks

-----------------------------------------------------------------------------
(* Where a chunk is once its batch has started: still to submit, with a    *)
(* reader, or attempted.                                                   *)
Reached(i) ==
    \/ \E j \in 1 .. Len(reading) : reading[j] = Chunk(i)
    \/ Chunk(i) \in reads
    \/ PagesOf(Chunk(i)) \subseteq attempted

(* The quota of a batch has room for its chunks still to submit, since the *)
(* semantic calls cannot take what is reserved to reading.                 *)
CoverageInv ==
    /\ nextChunk \in 1 .. (NumChunks + 1)
    /\ reading \in Seq(Nat \X Nat)
    /\ collected \subseteq returned /\ returned \subseteq reads
    /\ attempted \subseteq Pages
    /\ \A chunk \in reads : PagesOf(chunk) \subseteq Pages
    /\ \A j \in 1 .. Len(reading) : PagesOf(reading[j]) \subseteq Pages
    /\ phase \in Phases
    /\ \A i \in 1 .. (nextChunk - 1) : Reached(i)
    /\ phase = "initial" => reserved["reading"] + Len(reading) <= ReadingLimit
    /\ pc = "batch" => phase = "initial" /\ reads = {} /\ reading = <<>>
    /\ phase = "reread" \/ pc \in {"recover", "completed", "partial"} => attempted = Pages
    /\ recoverPage \in 1 .. (NumPages + 1)
    /\ phase = "reread" /\ pc \notin {"recover"} \cup Terminal => recoverPage <= NumPages

LEMMA CoverageInit == Init => CoverageInv
  BY SomeChunk, Quotas, BudgetAssumption, AnalysisAssumption
     DEF Init, CoverageInv, Phases, NoCalls, Kinds

(* An initial read is never refused: it ignores the deadline, and its      *)
(* quota has room.                                                         *)
LEMMA InitialReadAdmitted ==
    ASSUME BudgetInv, CoverageInv, phase = "initial", reading # <<>>
    PROVE  Admits("reading", EnforceDeadline, clock, reserved)
  <1>1. Len(reading) >= 1
    BY DEF CoverageInv
  <1>2. reserved["reading"] \in Nat /\ reserved["classification"] \in Nat
        /\ reserved["decision"] \in Nat
    BY DEF BudgetInv, Kinds
  <1>3. reserved["reading"] < ReadingLimit
    <2>1. reserved["reading"] + Len(reading) <= ReadingLimit
      BY DEF CoverageInv
    <2>2. ReadingLimit \in Nat /\ Len(reading) \in Nat
      BY Quotas, BudgetAssumption DEF CoverageInv
    <2> QED BY <1>1, <1>2, <2>1, <2>2
  <1>4. /\ reserved["classification"] <= ClassificationLimit
        /\ reserved["decision"] <= DecisionLimit
    BY Quotas DEF BudgetInv, BudgetRespected, Kinds
  <1>5. Total(reserved) < MaxCalls
    BY <1>2, <1>3, <1>4, Quotas, BudgetAssumption DEF Total
  <1> QED BY <1>3, <1>5, Quotas DEF Admits, EnforceDeadline

LEMMA StartBatchCovers ==
    ASSUME CoverageInv, StartBatch PROVE CoverageInv'
  <1> DEFINE n == LastOfBatch - nextChunk + 1
  <1>1. /\ LastOfBatch \in nextChunk .. NumChunks
        /\ n \in 1 .. ReadingLimit
    BY SomeChunk, Quotas, BudgetAssumption, AnalysisAssumption
       DEF StartBatch, CoverageInv, LastOfBatch, BatchSize
  <1>2. /\ reading' \in Seq(Nat \X Nat) /\ Len(reading') = n
        /\ \A j \in 1 .. n : reading'[j] = Chunk(nextChunk + j - 1)
    <2>1. \A j \in 1 .. n : nextChunk + j - 1 \in 1 .. NumChunks
      BY <1>1, SomeChunk DEF CoverageInv
    <2>2. \A i \in 1 .. NumChunks : Chunk(i) \in Nat \X Nat
      BY AnalysisAssumption DEF Chunk, NumChunks
    <2>3. reading' = [i \in 1 .. n |-> Chunk(nextChunk + i - 1)]
      BY DEF StartBatch
    <2>4. n \in Nat
      BY <1>1, Quotas, BudgetAssumption
    <2>5. reading' \in [1 .. n -> Nat \X Nat]
      BY <2>1, <2>2, <2>3
    <2>6. reading' \in Seq(Nat \X Nat) /\ Len(reading') = n
      BY <2>4, <2>5
    <2> QED BY <2>3, <2>6
  <1>3. nextChunk' = LastOfBatch + 1 /\ nextChunk' \in 1 .. (NumChunks + 1)
    BY <1>1, SomeChunk DEF StartBatch, CoverageInv
  <1>4. UNCHANGED <<phase, reads, returned, collected, attempted, recoverPage>>
    BY DEF StartBatch, pages
  <1>5. phase = "initial" /\ reads = {} /\ reading = <<>> /\ pc' = "schedule"
    BY DEF StartBatch, CoverageInv
  <1>6. \A j \in 1 .. n : PagesOf(reading'[j]) \subseteq Pages
    <2> SUFFICES ASSUME NEW j \in 1 .. n PROVE PagesOf(reading'[j]) \subseteq Pages
      OBVIOUS
    <2>1. nextChunk + j - 1 \in 1 .. NumChunks
      BY <1>1, SomeChunk DEF CoverageInv
    <2>2. reading'[j] = Chunk(nextChunk + j - 1)
      BY <1>2
    <2> QED BY <2>1, <2>2, ChunkPages
  <1>7. \A i \in 1 .. (nextChunk' - 1) : Reached(i)'
    <2> SUFFICES ASSUME NEW i \in 1 .. (nextChunk' - 1) PROVE Reached(i)'
      OBVIOUS
    <2>1. CASE i < nextChunk
      BY <1>3, <1>4, <1>5, <2>1 DEF CoverageInv, Reached
    <2>2. CASE i >= nextChunk
      <3>1. i - nextChunk + 1 \in 1 .. n
        BY <1>1, <1>3, <2>2, SomeChunk DEF CoverageInv
      <3>2. reading'[i - nextChunk + 1] = Chunk(i)
        BY <1>2, <3>1, SomeChunk DEF CoverageInv
      <3> QED BY <1>2, <3>1, <3>2 DEF Reached
    <2> QED BY <1>1, <1>3, <2>1, <2>2 DEF CoverageInv
  <1>8. reserved'["reading"] = 0
    BY DEF StartBatch, NoCalls, Kinds
  <1>9. reserved'["reading"] + Len(reading') <= ReadingLimit
    BY <1>1, <1>2, <1>8, Quotas, BudgetAssumption
  <1> QED BY <1>2, <1>3, <1>4, <1>5, <1>6, <1>7, <1>9 DEF CoverageInv

LEMMA EndBatchesCovers ==
    ASSUME CoverageInv, EndBatches PROVE CoverageInv'
  <1>1. nextChunk = NumChunks + 1 /\ reads = {} /\ reading = <<>>
    BY SomeChunk DEF EndBatches, CoverageInv
  <1>2. \A i \in 1 .. NumChunks : PagesOf(Chunk(i)) \subseteq attempted
    BY <1>1, SomeChunk DEF CoverageInv, Reached
  <1>3. attempted = Pages
    BY <1>2, ChunksCoverPages DEF CoverageInv
  <1>4. UNCHANGED <<nextChunk, phase, reading, reads, returned, collected, attempted, reserved,
                    recoverPage>>
        /\ pc' = "recover"
    BY DEF EndBatches, budget, pages
  <1> QED BY <1>3, <1>4 DEF CoverageInv, Reached

LEMMA SubmitReadCovers ==
    ASSUME CoverageInv, BudgetInv, SubmitRead PROVE CoverageInv'
  <1>1. /\ reading # <<>> /\ reads' = reads \cup {Head(reading)}
        /\ reading' = Tail(reading)
        /\ UNCHANGED <<pc, phase, nextChunk, returned, collected, attempted, recoverPage>>
        /\ reserved' = Reserve("reading", reserved)
    BY DEF SubmitRead, MayRead, pages
  <1>2. /\ Len(reading) \in Nat /\ Len(reading) >= 1
        /\ Head(reading) = reading[1]
        /\ Tail(reading) \in Seq(Nat \X Nat) /\ Len(Tail(reading)) = Len(reading) - 1
        /\ \A j \in 1 .. (Len(reading) - 1) : Tail(reading)[j] = reading[j + 1]
    BY <1>1 DEF CoverageInv
  <1>3. \A i \in 1 .. (nextChunk - 1) : Reached(i)'
    <2> SUFFICES ASSUME NEW i \in 1 .. (nextChunk - 1) PROVE Reached(i)'
      OBVIOUS
    <2>1. CASE \E j \in 1 .. Len(reading) : reading[j] = Chunk(i)
      <3>1. PICK j \in 1 .. Len(reading) : reading[j] = Chunk(i)
        BY <2>1
      <3>2. CASE j = 1
        BY <1>1, <1>2, <3>1, <3>2 DEF Reached
      <3>3. CASE j > 1
        <4>1. j - 1 \in 1 .. (Len(reading) - 1) /\ (j - 1) + 1 = j
          BY <1>2, <3>3
        <4>2. reading'[j - 1] = Chunk(i) /\ j - 1 \in 1 .. Len(reading')
          BY <1>1, <1>2, <3>1, <4>1
        <4> QED BY <4>2 DEF Reached
      <3> QED BY <1>2, <3>2, <3>3
    <2>2. CASE Chunk(i) \in reads \/ PagesOf(Chunk(i)) \subseteq attempted
      BY <1>1, <2>2 DEF Reached
    <2> QED BY <2>1, <2>2 DEF CoverageInv, Reached
  <1>4. reserved'["reading"] = reserved["reading"] + 1 /\ reserved["reading"] \in Nat
    BY <1>1 DEF Reserve, BudgetInv, Kinds
  <1>5. \A chunk \in reads' : PagesOf(chunk) \subseteq Pages
    BY <1>1, <1>2 DEF CoverageInv
  <1>6. \A j \in 1 .. Len(reading') : PagesOf(reading'[j]) \subseteq Pages
    BY <1>1, <1>2 DEF CoverageInv
  <1>7. phase = "initial" => reserved'["reading"] + Len(reading') <= ReadingLimit
    BY <1>1, <1>2, <1>4, Quotas, BudgetAssumption DEF CoverageInv
  <1>8. pc # "batch"
    BY <1>1 DEF SubmitRead
  <1> QED BY <1>1, <1>2, <1>3, <1>5, <1>6, <1>7, <1>8 DEF CoverageInv

(* Only rereads are ever refused, and by then every page was attempted.    *)
LEMMA StopReadingCovers ==
    ASSUME CoverageInv, BudgetInv, StopReading PROVE CoverageInv'
  <1>1. phase # "initial"
    BY InitialReadAdmitted DEF StopReading, MayRead
  <1>2. attempted = Pages /\ phase = "reread"
    BY <1>1 DEF CoverageInv, Phases
  <1>3. /\ reading' = <<>> /\ pc' = "schedule"
        /\ UNCHANGED <<phase, nextChunk, reads, returned, collected, attempted, reserved,
                       recoverPage>>
        /\ pc = "schedule"
    BY DEF StopReading
  <1>4. \A i \in 1 .. (nextChunk - 1) : PagesOf(Chunk(i)) \subseteq attempted
    BY <1>2, ChunkPages, SomeChunk DEF CoverageInv
  <1> QED BY <1>2, <1>3, <1>4 DEF CoverageInv, Reached

LEMMA EndPipelineCovers ==
    ASSUME CoverageInv, EndPipeline PROVE CoverageInv'
  <1>1. reads = {} /\ reading = <<>>
    BY AnalysisAssumption, FS_EmptySet
       DEF EndPipeline, Idle, NothingPending, MayRead
  <1>2. UNCHANGED <<phase, nextChunk, reading, reads, returned, collected, attempted, reserved>>
    BY DEF EndPipeline, budget, pages
  <1>3. /\ pc' = IF phase = "initial" THEN "batch" ELSE "recover"
        /\ recoverPage' = IF phase = "initial" THEN recoverPage ELSE recoverPage + 1
        /\ pc = "schedule"
    BY DEF EndPipeline, pages
  <1>4. recoverPage' \in 1 .. (NumPages + 1)
    BY <1>3, AnalysisAssumption DEF CoverageInv, Phases, Terminal
  <1> QED BY <1>1, <1>2, <1>3, <1>4 DEF CoverageInv, Reached, Phases

LEMMA TakeReadCovers ==
    ASSUME CoverageInv, NEW chunk \in collected, TakeRead(chunk) PROVE CoverageInv'
  <1>1. /\ reads' = reads \ {chunk} /\ returned' = returned \ {chunk}
        /\ collected' = collected \ {chunk}
        /\ attempted' = attempted \cup PagesOf(chunk)
        /\ pc = "collect"
        /\ UNCHANGED <<pc, phase, nextChunk, reading, reserved, recoverPage>>
    BY DEF TakeRead
  <1>2. PagesOf(chunk) \subseteq Pages
    BY DEF CoverageInv
  <1>3. \A i \in 1 .. (nextChunk - 1) : Reached(i)'
    BY <1>1 DEF CoverageInv, Reached
  <1> QED BY <1>1, <1>2, <1>3 DEF CoverageInv

LEMMA StartRereadCovers ==
    ASSUME CoverageInv, StartReread PROVE CoverageInv'
  <1>1. /\ pc = "recover" /\ recoverPage <= NumPages
        /\ reading' = <<<<recoverPage, recoverPage>>>>
        /\ phase' = "reread" /\ pc' = "schedule"
        /\ UNCHANGED <<nextChunk, reads, returned, collected, attempted, reserved, recoverPage>>
    BY DEF StartReread, budget
  <1>2. attempted = Pages
    BY <1>1 DEF CoverageInv
  <1>3. \A i \in 1 .. (nextChunk - 1) : PagesOf(Chunk(i)) \subseteq attempted
    BY <1>2, ChunkPages, SomeChunk DEF CoverageInv
  <1>4. /\ reading' \in Seq(Nat \X Nat) /\ Len(reading') = 1
        /\ PagesOf(reading'[1]) \subseteq Pages
    BY <1>1, AnalysisAssumption DEF PagesOf, Pages, CoverageInv
  <1> QED BY <1>1, <1>2, <1>3, <1>4 DEF CoverageInv, Reached, Phases

(* The other steps leave alone what CoverageInv speaks of, save that they  *)
(* move the coordinator between states of which it says the same, or a     *)
(* transport returns.                                                      *)
LEMMA OtherStepsCover ==
    ASSUME CoverageInv,
           UNCHANGED <<nextChunk, reading, reads, attempted, phase>>,
           collected' \subseteq returned', returned' \subseteq reads,
           reserved'["reading"] = reserved["reading"],
           pc' # "batch" \/ pc' = pc,
           pc' \in {"recover", "completed", "partial"} => pc \in {"recover", "completed", "partial"},
           recoverPage' \in 1 .. (NumPages + 1),
           \/ recoverPage' = recoverPage /\ (pc' \in {"recover"} \cup Terminal \/
                                              pc \notin {"recover"} \cup Terminal)
           \/ pc' = "recover"
    PROVE  CoverageInv'
  BY DEF CoverageInv, Reached

LEMMA SemanticKindsNotReading ==
    ASSUME BudgetInv, NEW kind, kind # "reading", reserved' = Reserve(kind, reserved)
    PROVE  reserved'["reading"] = reserved["reading"]
  BY DEF Reserve, BudgetInv, Kinds

-----------------------------------------------------------------------------
(* What the ledger's helpers return.                                       *)

LEMMA AddPageReasonOK ==
    ASSUME PagesOK, NEW S, NEW reason \in PageReasons
    PROVE  AddPageReason(S, reason) \in [Pages -> SUBSET PageReasons]
  BY DEF AddPageReason, PagesOK

LEMMA AddBlockReasonOK ==
    ASSUME NEW bs, \A b \in DOMAIN bs : bs[b] \in Block,
           NEW S, NEW reason \in BlockReasons
    PROVE  /\ DOMAIN AddBlockReason(bs, S, reason) = DOMAIN bs
           /\ \A b \in DOMAIN bs : AddBlockReason(bs, S, reason)[b] \in Block
  BY DEF AddBlockReason, Block

LEMMA WithOffersOK ==
    ASSUME LedgerOK, NEW iv, \A i \in DOMAIN iv : iv[i] \in Interpretations
    PROVE  /\ DOMAIN WithOffers(iv) \subseteq DOMAIN offers \cup DOMAIN iv
           /\ DOMAIN offers \subseteq DOMAIN WithOffers(iv)
           /\ \A b \in DOMAIN WithOffers(iv) : WithOffers(iv)[b] \in Offer
  <1>1. ASSUME NEW t \in Terms PROVE Proposal(t) \in Offer
    BY DEF Proposal, Terms, Offer
  <1>2. ASSUME NEW i \in DOMAIN iv, iv[i].offers # {}
        PROVE  Proposal(CHOOSE t \in iv[i].offers : TRUE) \in Offer
    <2>1. (CHOOSE t \in iv[i].offers : TRUE) \in iv[i].offers
      BY <1>2
    <2>2. iv[i].offers \subseteq Terms
      BY AnalysisAssumption DEF Interpretation
    <2> QED BY <1>1, <2>1, <2>2
  <1> QED BY <1>2 DEF WithOffers, LedgerOK

LEMMA EnqueueOK ==
    ASSUME queue \in Seq(Tasks), NEW kind \in Kinds \ {"reading"},
           NEW S \in SUBSET BlockIds, IsFiniteSet(S), Enqueue(kind, S)
    PROVE  /\ queue' \in Seq(Tasks)
           /\ \A i \in 1 .. Len(queue') :
                \/ i \in 1 .. Len(queue) /\ queue'[i] = queue[i]
                \/ /\ i \notin 1 .. Len(queue)
                   /\ queue'[i].kind = kind /\ queue'[i].block \in S
           /\ \A i, j \in 1 .. Len(queue') :
                i \notin 1 .. Len(queue) /\ j \notin 1 .. Len(queue) /\ queue'[i] = queue'[j]
                  => i = j
  <1>1. PICK s \in Arrangements(S) :
            queue' = queue \o [i \in DOMAIN s |-> [kind |-> kind, block |-> s[i]]]
    BY DEF Enqueue
  <1>2. Cardinality(S) \in Nat /\ s \in [1 .. Cardinality(S) -> S]
    BY FS_CardinalityType DEF Arrangements
  <1>3. [i \in DOMAIN s |-> [kind |-> kind, block |-> s[i]]] \in [1 .. Cardinality(S) -> Tasks]
    BY <1>2 DEF Tasks
  <1> DEFINE added == [i \in DOMAIN s |-> [kind |-> kind, block |-> s[i]]]
  <1>4. added \in Seq(Tasks) /\ Len(added) = Cardinality(S)
    BY <1>2, <1>3
  <1>5. \A i \in 1 .. Len(added) : added[i].kind = kind /\ added[i].block \in S
    BY <1>2, <1>4
  <1>51. ASSUME NEW i \in 1 .. Len(added), NEW j \in 1 .. Len(added), added[i] = added[j]
         PROVE  i = j
    <2>1. s[i] = s[j] /\ i \in 1 .. Cardinality(S) /\ j \in 1 .. Cardinality(S)
      BY <1>2, <1>4, <1>51
    <2>2. \A x, y \in 1 .. Cardinality(S) : x < y => s[x] # s[y]
      BY DEF Arrangements
    <2> QED BY <1>2, <2>1, <2>2
  <1>6. queue' = queue \o added
    BY <1>1
  <1> HIDE DEF added
  <1>61. /\ queue \o added \in Seq(Tasks) /\ Len(queue \o added) = Len(queue) + Len(added)
         /\ \A i \in 1 .. Len(queue) + Len(added) :
              (queue \o added)[i] = IF i <= Len(queue) THEN queue[i]
                                                      ELSE added[i - Len(queue)]
    BY <1>4, ConcatProperties, Zenon
  <1>7. /\ queue' \in Seq(Tasks) /\ Len(queue') = Len(queue) + Len(added)
        /\ Len(queue) \in Nat /\ Len(added) \in Nat
        /\ \A i \in 1 .. Len(queue') :
              queue'[i] = IF i <= Len(queue) THEN queue[i] ELSE added[i - Len(queue)]
    BY <1>4, <1>6, <1>61
  <1>8. ASSUME NEW i \in 1 .. Len(queue')
        PROVE  i \in 1 .. Len(queue) \/ i - Len(queue) \in 1 .. Len(added)
    BY <1>7
  <1>9. ASSUME NEW i \in 1 .. Len(queue'), i \notin 1 .. Len(queue)
        PROVE  /\ i - Len(queue) \in 1 .. Len(added)
               /\ queue'[i] = added[i - Len(queue)]
               /\ queue'[i].kind = kind /\ queue'[i].block \in S
    <2>1. i - Len(queue) \in 1 .. Len(added)
      BY <1>8, <1>9
    <2>2. queue'[i] = added[i - Len(queue)]
      BY <1>7, <1>9
    <2> QED BY <1>5, <2>1, <2>2
  <1>10. ASSUME NEW i \in 1 .. Len(queue'), i \in 1 .. Len(queue)
         PROVE  queue'[i] = queue[i]
    BY <1>7, <1>10
  <1>11. ASSUME NEW i \in 1 .. Len(queue'), NEW j \in 1 .. Len(queue'),
                i \notin 1 .. Len(queue), j \notin 1 .. Len(queue), queue'[i] = queue'[j]
         PROVE  i = j
    <2>1. i - Len(queue) = j - Len(queue)
      BY <1>9, <1>11, <1>51
    <2> QED BY <1>7, <2>1
  <1> QED BY <1>7, <1>9, <1>10, <1>11

LEMMA AssessedOK ==
    ASSUME NEW offer \in Offer, NEW a \in Assessments
    PROVE  Assessed(a, offer) \in Offer
  BY AnalysisAssumption DEF Assessed, Offer, Assessment

LEMMA PendingRequest ==
    ASSUME SchedulerOK, semantic.state # "none"
    PROVE  semantic \in Request /\ semantic.task \in Tasks /\ semantic.posts \in 0 .. MaxPosts
  BY DEF SchedulerOK, Request, NoRequest

-----------------------------------------------------------------------------
LEMMA NextOfQueue ==
    ASSUME SchedulerOK, queue # <<>>
    PROVE  /\ NextTask \in Tasks /\ NextTask.kind \in Kinds \ {"reading"}
           /\ NextTask.block \in BlockIds
           /\ Tail(queue) \in Seq(Tasks)
  <1>1. queue \in Seq(Tasks)
    BY DEF SchedulerOK
  <1>2. NextTask \in Tasks /\ Tail(queue) \in Seq(Tasks)
    BY <1>1 DEF NextTask
  <1> QED BY <1>2 DEF Tasks

LEMMA CoverageStep ==
    ASSUME CoverageInv, BudgetInv, SchedulerOK, [Next]_vars PROVE CoverageInv'
  <1>1. CASE StartBatch
    BY <1>1, StartBatchCovers
  <1>2. CASE EndBatches
    BY <1>2, EndBatchesCovers
  <1>3. CASE SubmitRead
    BY <1>3, SubmitReadCovers
  <1>4. CASE StopReading
    BY <1>4, StopReadingCovers
  <1>5. CASE EndPipeline
    BY <1>5, EndPipelineCovers
  <1>6. CASE StartReread
    BY <1>6, StartRereadCovers
  <1>7. ASSUME NEW chunk \in collected, ReadFailed(chunk) \/ ReadSucceeded(chunk)
        PROVE  CoverageInv'
    BY <1>7, TakeReadCovers DEF ReadFailed, ReadSucceeded
  <1>8. CASE StartSemantic
    <2>1. NextTask.kind # "reading"
      BY <1>8, NextOfQueue DEF StartSemantic, MayAsk
    <2>2. reserved'["reading"] = reserved["reading"]
      BY <1>8, <2>1, SemanticKindsNotReading DEF StartSemantic
    <2> QED BY <1>8, <2>2, OtherStepsCover DEF StartSemantic, pages, CoverageInv, Terminal
  <1>9. CASE Post
    <2>1. semantic.task.kind # "reading"
      BY <1>9, PendingRequest DEF Post, Tasks
    <2>2. reserved'["reading"] = reserved["reading"]
      BY <1>9, <2>1, SemanticKindsNotReading DEF Post
    <2> QED BY <1>9, <2>2, OtherStepsCover DEF Post, pages, CoverageInv, Terminal
  <1>10. CASE SkipPage
    <2>1. recoverPage' \in 1 .. (NumPages + 1) /\ pc' = "recover" /\ pc = "recover"
      BY <1>10, AnalysisAssumption DEF SkipPage, CoverageInv, scheduler
    <2> QED BY <1>10, <2>1, OtherStepsCover DEF SkipPage, scheduler, budget, CoverageInv
  <1>11. CASE DeferSemantic
    BY <1>11, OtherStepsCover DEF DeferSemantic, pages, CoverageInv, Terminal
  <1>12. CASE WaitForTransport \/ Collect
    BY <1>12, OtherStepsCover DEF WaitForTransport, Collect, budget, pages, CoverageInv, Terminal
  <1>13. CASE SemanticFailed \/ ClassificationAnswered \/ DecisionAnswered
    <2>1. TakeSemantic
      BY <1>13 DEF SemanticFailed, ClassificationAnswered, DecisionAnswered, SemanticAnswered
    <2> QED BY <2>1, OtherStepsCover DEF TakeSemantic, CoverageInv, Terminal
  <1>14. CASE EndCollect \/ DecideFails \/ JoinTransports
    BY <1>14, OtherStepsCover
       DEF EndCollect, DecideFails, JoinTransports, budget, pages, CoverageInv, Terminal
  <1>15. CASE DecideOffers
    BY <1>15, OtherStepsCover DEF DecideOffers, budget, CoverageInv, Terminal
  <1>16. CASE Finalize \/ MetadataTooLarge
    BY <1>16, OtherStepsCover
       DEF Finalize, MetadataTooLarge, budget, pages, CoverageInv, Terminal
  <1>17. CASE SemanticReturns
    BY <1>17, OtherStepsCover DEF SemanticReturns, budget, pages, CoverageInv, Terminal
  <1>18. ASSUME NEW chunk \in reads, ReadReturns(chunk) PROVE CoverageInv'
    BY <1>18, OtherStepsCover DEF ReadReturns, budget, pages, CoverageInv, Terminal
  <1>19. CASE DeadlinePasses \/ UNCHANGED vars
    BY <1>19, OtherStepsCover
       DEF DeadlinePasses, vars, scheduler, budget, pages, CoverageInv, Terminal
  <1> QED BY NextCases, <1>1, <1>2, <1>3, <1>4, <1>5, <1>6, <1>7, <1>8, <1>9, <1>10, <1>11,
             <1>12, <1>13, <1>14, <1>15, <1>16, <1>17, <1>18, <1>19

-----------------------------------------------------------------------------
(* Type correctness.  A task concerns a block of the ledger, and the       *)
(* ledger is finite, so that what decide_offers queues is a sequence.      *)
TasksKnown ==
    /\ \A i \in 1 .. Len(queue) : queue[i].block \in DOMAIN blocks
    /\ semantic # NoRequest => semantic.task.block \in DOMAIN blocks

TypeInv ==
    /\ TypeOK /\ BudgetInv /\ CoverageInv
    /\ TasksKnown /\ IsFiniteSet(DOMAIN blocks)

LEMMA TypeInit == Init => TypeInv
  <1> SUFFICES ASSUME Init PROVE TypeInv
    OBVIOUS
  <1>1. BudgetInv /\ CoverageInv
    BY BudgetInit, CoverageInit
  <1>2. files \subseteq Nat \X Nat
    BY AnalysisAssumption DEF Init, Chunk, NumChunks
  <1>3. SchedulerOK
    BY <1>1, <1>2 DEF Init, SchedulerOK, CoverageInv, Terminal, Phases
  <1>4. BudgetOK
    <2>1. reserved \in [Kinds -> Nat] /\ recorded \in [Kinds -> Nat]
      BY DEF Init, NoCalls
    <2>2. clock \in 0 .. LastDeadline
      BY DEF Init, LastDeadline
    <2>3. stopped \in BOOLEAN
      BY Zenon DEF Init
    <2> QED BY <2>1, <2>2, <2>3 DEF BudgetOK
  <1>41. PagesOK
    <2>1. pageReasons \in [Pages -> SUBSET PageReasons]
      BY DEF Init
    <2>2. before \in [reasons : SUBSET PageReasons, blocks : SUBSET BlockIds]
      BY DEF Init
    <2>3. recoverPage \in 1 .. (NumPages + 1)
      BY AnalysisAssumption DEF Init
    <2> QED BY <2>1, <2>2, <2>3 DEF Init, PagesOK
  <1>5. DOMAIN blocks = {} /\ DOMAIN offers = {}
    BY DEF Init
  <1>6. LedgerOK
    BY <1>5 DEF Init, LedgerOK
  <1>7. TasksKnown
    BY DEF Init, TasksKnown
  <1> QED BY <1>1, <1>3, <1>4, <1>41, <1>5, <1>6, <1>7, FS_EmptySet DEF TypeInv, TypeOK

LEMMA CountMore ==
    ASSUME NEW f \in [Kinds -> Nat], NEW k, NEW n \in Nat
    PROVE  [f EXCEPT ![k] = f[k] + n] \in [Kinds -> Nat]
  <1>1. CASE k \in Kinds
    <2>1. f[k] + n \in Nat
      BY <1>1
    <2> QED BY <2>1
  <1>2. CASE k \notin Kinds
    BY <1>2
  <1> QED BY <1>1, <1>2

LEMMA BudgetOKStep ==
    ASSUME TypeInv, [Next]_vars, BudgetInv' PROVE BudgetOK'
  <1>1. reserved' \in [Kinds -> Nat]
    BY DEF BudgetInv
  <1>2. BudgetOK /\ "reading" \in Kinds
    BY DEF TypeInv, TypeOK, Kinds
  <1>3. CASE StartBatch
    BY <1>1, <1>2, <1>3 DEF StartBatch, BudgetOK, NoCalls, LastDeadline
  <1>4. ASSUME NEW chunk \in collected, TakeRead(chunk) PROVE BudgetOK'
    BY <1>1, <1>2, <1>4 DEF TakeRead, BudgetOK
  <1>5. CASE SemanticFailed \/ SemanticAnswered
    <2>1. TakeSemantic /\ semantic.posts \in Nat
      BY <1>5, PendingRequest
         DEF SemanticFailed, SemanticAnswered, TakeSemantic, TypeInv, TypeOK
    <2>2. ErrorCalls \in Nat
      BY DEF ErrorCalls
    <2>3. CASE SemanticFailed
      <3>1. recorded' = [recorded EXCEPT ![semantic.task.kind] =
                            recorded[semantic.task.kind] + ErrorCalls]
        BY <2>3 DEF SemanticFailed
      <3>2. recorded' \in [Kinds -> Nat]
        BY <1>2, <2>1, <2>2, <3>1, CountMore DEF BudgetOK
      <3> QED BY <1>1, <1>2, <2>1, <3>2 DEF TakeSemantic, BudgetOK
    <2>4. CASE SemanticAnswered
      <3>1. recorded' = [recorded EXCEPT ![semantic.task.kind] =
                            recorded[semantic.task.kind] + semantic.posts]
        BY <2>4 DEF SemanticAnswered
      <3>2. recorded' \in [Kinds -> Nat]
        BY <1>2, <2>1, <3>1, CountMore DEF BudgetOK
      <3> QED BY <1>1, <1>2, <2>1, <3>2 DEF TakeSemantic, BudgetOK
    <2> QED BY <1>5, <2>3, <2>4
  <1>6. CASE DeadlinePasses
    BY <1>1, <1>2, <1>6 DEF DeadlinePasses, BudgetOK, LastDeadline
  <1>7. CASE StopReading \/ DeferSemantic \/ Post
    BY <1>1, <1>2, <1>7 DEF StopReading, DeferSemantic, Post, BudgetOK
  <1>8. CASE UNCHANGED <<clock, recorded, stopped>>
    BY <1>1, <1>2, <1>8 DEF BudgetOK
  <1>9. \/ StartBatch \/ (\E chunk \in collected : TakeRead(chunk))
        \/ SemanticFailed \/ SemanticAnswered \/ DeadlinePasses
        \/ StopReading \/ DeferSemantic \/ Post \/ UNCHANGED <<clock, recorded, stopped>>
    BY NextCases DEF EndBatches, SubmitRead, StartSemantic, WaitForTransport, Collect,
       EndPipeline, ReadFailed, ReadSucceeded, ClassificationAnswered, DecisionAnswered,
       EndCollect, DecideOffers, DecideFails, JoinTransports, SkipPage, StartReread,
       Finalize, MetadataTooLarge, SemanticReturns, ReadReturns, vars, budget
  <1> QED BY <1>3, <1>4, <1>5, <1>6, <1>7, <1>8, <1>9

LEMMA PagesOKStep ==
    ASSUME TypeInv, [Next]_vars, CoverageInv' PROVE PagesOK'
  <1>1. PagesOK /\ attempted' \subseteq Pages /\ recoverPage' \in 1 .. (NumPages + 1)
    BY DEF TypeInv, TypeOK, CoverageInv
  <1> DEFINE Kept == UNCHANGED <<initialDone, reread, before>>
  <1>2. ASSUME Kept, pageReasons' \in [Pages -> SUBSET PageReasons] PROVE PagesOK'
    BY <1>1, <1>2 DEF PagesOK
  <1>3. CASE StopReading
    BY <1>1, <1>2, <1>3, AddPageReasonOK DEF StopReading, PageReasons
  <1>4. CASE EndPipeline
    <2>1. CASE phase = "initial"
      BY <1>1, <1>4, <2>1 DEF EndPipeline, pages, PagesOK
    <2>2. CASE phase # "initial"
      <3>1. KeptReasons \subseteq PageReasons
        BY <1>1 DEF KeptReasons, PagesOK
      <3>2. /\ pageReasons' = [pageReasons EXCEPT ![recoverPage] =
                                   pageReasons[recoverPage] \cup KeptReasons]
            /\ Kept
        BY <1>4, <2>2 DEF EndPipeline
      <3>3. pageReasons' \in [Pages -> SUBSET PageReasons]
        <4>1. pageReasons \in [Pages -> SUBSET PageReasons]
          BY <1>1 DEF PagesOK
        <4>2. CASE recoverPage \in Pages
          <5>1. pageReasons[recoverPage] \cup KeptReasons \in SUBSET PageReasons
            BY <3>1, <4>1, <4>2
          <5> QED BY <3>2, <4>1, <5>1
        <4>3. CASE recoverPage \notin Pages
          BY <3>2, <4>1, <4>3
        <4> QED BY <4>2, <4>3
      <3> QED BY <1>2, <3>2, <3>3
    <2> QED BY <2>1, <2>2
  <1>5. ASSUME NEW chunk \in collected, ReadFailed(chunk) PROVE PagesOK'
    BY <1>1, <1>2, <1>5, AddPageReasonOK DEF ReadFailed, TakeRead, PageReasons, VisualReasons
  <1>6. ASSUME NEW chunk \in collected, ReadSucceeded(chunk) PROVE PagesOK'
    <2>1. PagesOf(chunk) \subseteq Pages
      BY DEF TypeInv, CoverageInv
    <2>2. initialDone' \subseteq Pages
      BY <1>1, <1>6, <2>1 DEF ReadSucceeded, PagesOK
    <2>3. PICK report, S : pageReasons' = ReasonsRead(chunk, report, S)
      BY <1>6 DEF ReadSucceeded, InterpretRead, ClassifyRead
    <2>4. pageReasons' \in [Pages -> SUBSET PageReasons]
      <3>1. \A page : ReportReasons(page) \subseteq PageReasons
        BY DEF ReportReasons, PageReasons, VisualReasons
      <3>2. "missing_visual_evidence" \in PageReasons
        BY DEF PageReasons, VisualReasons
      <3> QED BY <1>1, <2>3, <3>1, <3>2 DEF PagesOK, ReasonsRead
    <2>5. UNCHANGED <<reread, before>>
      BY <1>6 DEF ReadSucceeded, TakeRead
    <2> QED BY <1>1, <2>2, <2>4, <2>5 DEF PagesOK
  <1>7. CASE ClassificationAnswered
    <2>1. \E S : pageReasons' = AddPageReason(S, "missing_visual_evidence")
      BY <1>7 DEF ClassificationAnswered
    <2>2. Kept
      BY <1>7 DEF ClassificationAnswered, SemanticAnswered, TakeSemantic
    <2> QED BY <1>1, <1>2, <2>1, <2>2, AddPageReasonOK DEF PageReasons, VisualReasons
  <1>8. CASE DecisionAnswered
    <2>1. \E S : pageReasons' = AddPageReason(S, "missing_visual_evidence")
      BY <1>8 DEF DecisionAnswered
    <2>2. Kept
      BY <1>8 DEF DecisionAnswered, SemanticAnswered, TakeSemantic
    <2> QED BY <1>1, <1>2, <2>1, <2>2, AddPageReasonOK DEF PageReasons, VisualReasons
  <1>9. CASE DecideOffers
    <2>1. \E S : pageReasons' = AddPageReason(S, "missing_visual_evidence")
      BY <1>9 DEF DecideOffers
    <2>2. Kept
      BY <1>9 DEF DecideOffers
    <2> QED BY <1>1, <1>2, <2>1, <2>2, AddPageReasonOK DEF PageReasons, VisualReasons
  <1>10. CASE StartReread
    <2>1. recoverPage \in Pages
      BY <1>1, <1>10, AnalysisAssumption DEF StartReread, PagesOK, Pages
    <2>2. {b \in DOMAIN blocks : b.page = recoverPage} \subseteq BlockIds
      BY DEF TypeInv, TypeOK, LedgerOK
    <2>3. /\ before' = [reasons |-> pageReasons[recoverPage],
                        blocks |-> {b \in DOMAIN blocks : b.page = recoverPage}]
          /\ reread' = reread \cup {recoverPage}
          /\ pageReasons' = [pageReasons EXCEPT ![recoverPage] = {}]
          /\ UNCHANGED initialDone
      BY <1>10 DEF StartReread
    <2>4. before' \in [reasons : SUBSET PageReasons, blocks : SUBSET BlockIds]
      BY <1>1, <2>1, <2>2, <2>3 DEF PagesOK
    <2>5. pageReasons' \in [Pages -> SUBSET PageReasons]
      BY <1>1, <2>1, <2>3 DEF PagesOK
    <2> QED BY <1>1, <2>1, <2>3, <2>4, <2>5 DEF PagesOK
  <1>11. CASE UNCHANGED <<initialDone, reread, before, pageReasons>>
    BY <1>1, <1>11 DEF PagesOK
  <1>12. \/ StopReading \/ EndPipeline
         \/ (\E chunk \in collected : ReadFailed(chunk) \/ ReadSucceeded(chunk))
         \/ ClassificationAnswered \/ DecisionAnswered \/ DecideOffers \/ StartReread
         \/ UNCHANGED <<initialDone, reread, before, pageReasons>>
    BY NextCases DEF StartBatch, EndBatches, SubmitRead, StartSemantic, DeferSemantic,
       WaitForTransport, Collect, SemanticFailed, TakeSemantic, EndCollect, DecideFails,
       JoinTransports, SkipPage, Finalize, MetadataTooLarge, SemanticReturns, Post,
       ReadReturns, DeadlinePasses, vars, pages
  <1> QED BY <1>3, <1>4, <1>5, <1>6, <1>7, <1>8, <1>9, <1>10, <1>11, <1>12

(* What a successful read adds to the ledger.                              *)
LEMMA ChunkType ==
    ASSUME TypeInv, NEW chunk \in reads
    PROVE  /\ chunk \in Nat \X Nat /\ PagesOf(chunk) \subseteq Pages
           /\ IsFiniteSet(PagesOf(chunk))
  <1>1. chunk \in Nat \X Nat
    BY DEF TypeInv, TypeOK, SchedulerOK
  <1>2. PagesOf(chunk) \subseteq Pages
    BY DEF TypeInv, CoverageInv
  <1>3. IsFiniteSet(PagesOf(chunk))
    BY <1>1, FS_Interval DEF PagesOf
  <1> QED BY <1>1, <1>2, <1>3

LEMMA FiniteRange ==
    ASSUME NEW S, IsFiniteSet(S), NEW f
    PROVE  IsFiniteSet({f[x] : x \in S})
  <1> DEFINE T == {f[x] : x \in S}
             g == [x \in S |-> f[x]]
  <1>1. g \in Surjection(S, T)
    BY DEF Surjection
  <1> QED BY <1>1, FS_Surjection

LEMMA NewBlocks ==
    ASSUME TypeInv, NEW chunk \in reads, NEW report \in [PagesOf(chunk) -> PageReports]
    PROVE  /\ BlocksOf(chunk, report) \subseteq BlockIds
           /\ IsFiniteSet(BlocksOf(chunk, report))
           /\ \A b \in BlocksOf(chunk, report) : NewBlock(b, report) \in Block
  <1> DEFINE Seen == {q \in PagesOf(chunk) : report[q].seen}
             OfPage(p) == {[phase |-> phase, page |-> p, order |-> i] :
                              i \in DOMAIN report[p].blocks}
  <1>1. BlocksOf(chunk, report) = UNION {OfPage(p) : p \in Seen}
    BY DEF BlocksOf
  <1>2. \A p \in PagesOf(chunk) :
            /\ report[p].blocks \in Seq([text : Texts, badReference : BOOLEAN])
            /\ DOMAIN report[p].blocks = 1 .. Len(report[p].blocks)
            /\ Len(report[p].blocks) \in Nat
    <2>1. PageReports \subseteq PageReport
      BY AnalysisAssumption
    <2>2. \A r \in PageReport : r.blocks \in Seq([text : Texts, badReference : BOOLEAN])
      BY Zenon DEF PageReport
    <2>3. \A p \in PagesOf(chunk) :
            report[p].blocks \in Seq([text : Texts, badReference : BOOLEAN])
      BY <2>1, <2>2
    <2> QED BY <2>3, LenProperties
  <1>3. phase \in Phases /\ PagesOf(chunk) \subseteq Pages /\ IsFiniteSet(PagesOf(chunk))
    BY ChunkType DEF TypeInv, CoverageInv
  <1>4. \A p \in PagesOf(chunk) : OfPage(p) \subseteq BlockIds
    BY <1>2, <1>3 DEF BlockIds
  <1>5. BlocksOf(chunk, report) \subseteq BlockIds
    BY <1>1, <1>4
  <1>6. IsFiniteSet(BlocksOf(chunk, report))
    <2>1. ASSUME NEW p \in PagesOf(chunk) PROVE IsFiniteSet(OfPage(p))
      <3>1. IsFiniteSet(DOMAIN report[p].blocks)
        <4> DEFINE n == Len(report[p].blocks)
        <4>1. n \in Nat /\ DOMAIN report[p].blocks = 1 .. n
          BY <1>2
        <4> HIDE DEF n
        <4>2. IsFiniteSet(1 .. n)
          BY <4>1, FS_Interval
        <4> QED BY <4>1, <4>2
      <3> DEFINE f == [i \in DOMAIN report[p].blocks |->
                          [phase |-> phase, page |-> p, order |-> i]]
      <3>2. IsFiniteSet({f[i] : i \in DOMAIN report[p].blocks})
        BY <3>1, FiniteRange
      <3> QED BY <3>2, Zenon
    <2>2. IsFiniteSet(Seen)
      BY <1>3, FS_Subset
    <2>3. IsFiniteSet({OfPage(p) : p \in Seen})
      <3> DEFINE f == [p \in Seen |-> OfPage(p)]
      <3>1. IsFiniteSet({f[p] : p \in Seen})
        <4> HIDE DEF f
        <4> QED BY <2>2, FiniteRange
      <3>2. {f[p] : p \in Seen} = {OfPage(p) : p \in Seen}
        <4> HIDE DEF OfPage, Seen
        <4> QED OBVIOUS
      <3> QED BY <3>1, <3>2, Zenon
    <2>4. \A T \in {OfPage(p) : p \in Seen} : IsFiniteSet(T)
      BY <2>1
    <2> QED BY <1>1, <2>3, <2>4, FS_UNION
  <1>7. ASSUME NEW b \in BlocksOf(chunk, report) PROVE NewBlock(b, report) \in Block
    <2>1. PICK p \in Seen : b \in OfPage(p)
      BY <1>1
    <2>2. /\ b.page \in PagesOf(chunk)
          /\ b.order \in DOMAIN report[b.page].blocks
      BY <2>1
    <2>3. report[b.page].blocks[b.order].text \in Texts
      <3> DEFINE shown == report[b.page].blocks
      <3>1. shown \in Seq([text : Texts, badReference : BOOLEAN])
        BY <1>2, <2>2
      <3>2. shown \in [1 .. Len(shown) -> [text : Texts, badReference : BOOLEAN]]
            /\ b.order \in 1 .. Len(shown)
        BY <1>2, <2>2, <3>1, LenProperties
      <3> HIDE DEF shown
      <3>3. shown[b.order] \in [text : Texts, badReference : BOOLEAN]
        BY <3>2
      <3>4. shown[b.order].text \in Texts
        BY <3>3
      <3> QED BY <3>4 DEF shown
    <2>4. before.blocks \subseteq BlockIds
      BY DEF TypeInv, TypeOK, PagesOK
    <2> QED BY <2>3, <2>4 DEF NewBlock, Block, BlockReasons
  <1> QED BY <1>5, <1>6, <1>7

LEMMA ArrivedOK ==
    ASSUME TypeInv, NEW chunk \in reads, NEW report \in [PagesOf(chunk) -> PageReports]
    PROVE  /\ DOMAIN Arrived(chunk, report) = DOMAIN blocks \cup BlocksOf(chunk, report)
           /\ DOMAIN Arrived(chunk, report) \subseteq BlockIds
           /\ IsFiniteSet(DOMAIN Arrived(chunk, report))
           /\ \A b \in DOMAIN Arrived(chunk, report) : Arrived(chunk, report)[b] \in Block
           /\ Sound(chunk, report) \subseteq DOMAIN Arrived(chunk, report)
  <1>1. DOMAIN Arrived(chunk, report) = DOMAIN blocks \cup BlocksOf(chunk, report)
    BY DEF Arrived
  <1>2. /\ DOMAIN blocks \subseteq BlockIds /\ IsFiniteSet(DOMAIN blocks)
        /\ \A b \in DOMAIN blocks : blocks[b] \in Block
    BY DEF TypeInv, TypeOK, LedgerOK
  <1>3. IsFiniteSet(DOMAIN Arrived(chunk, report))
    BY <1>1, <1>2, NewBlocks, FS_Union
  <1>4. \A b \in DOMAIN Arrived(chunk, report) : Arrived(chunk, report)[b] \in Block
    BY <1>1, <1>2, NewBlocks DEF Arrived
  <1> QED BY <1>1, <1>2, <1>3, <1>4, NewBlocks DEF Sound

(* The ledger, and the queue, which grows with it.                         *)
LedgerInv ==
    /\ LedgerOK /\ TasksKnown /\ IsFiniteSet(DOMAIN blocks)
    /\ queue \in Seq(Tasks)

LEMMA ReadSucceededLedger ==
    ASSUME TypeInv, NEW chunk \in collected, ReadSucceeded(chunk)
    PROVE  LedgerInv'
  <1>1. chunk \in reads
    BY DEF TypeInv, CoverageInv
  <1>2. PICK report \in [PagesOf(chunk) -> PageReports] :
          /\ invalidEvidence' \in BOOLEAN
          /\ InterpretRead(chunk, report) \/ ClassifyRead(chunk, report)
    BY DEF ReadSucceeded
  <1> DEFINE arrived == Arrived(chunk, report)
             sound == Sound(chunk, report)
  <1>3. /\ DOMAIN arrived = DOMAIN blocks \cup BlocksOf(chunk, report)
        /\ DOMAIN arrived \subseteq BlockIds /\ IsFiniteSet(DOMAIN arrived)
        /\ \A b \in DOMAIN arrived : arrived[b] \in Block
        /\ sound \subseteq DOMAIN arrived
    BY <1>1, ArrivedOK
  <1>4. LedgerOK /\ TasksKnown /\ queue \in Seq(Tasks)
    BY DEF TypeInv, TypeOK, SchedulerOK
  <1>5. UNCHANGED <<semantic, published, pendingBlocks>>
    BY DEF ReadSucceeded, TakeRead
  <1> HIDE DEF arrived, sound
  <1>6. CASE InterpretRead(chunk, report)
    <2>1. PICK iv \in [sound -> Interpretations] :
            /\ blocks' = WithDoubts(arrived, iv)
            /\ offers' = WithOffers(iv)
            /\ UNCHANGED <<queue, abandoned>>
      BY <1>6 DEF InterpretRead, arrived, sound
    <2>2. /\ DOMAIN blocks' = DOMAIN arrived
          /\ \A b \in DOMAIN blocks' : blocks'[b] \in Block
      BY <1>3, <2>1, AddBlockReasonOK DEF WithDoubts, BlockReasons
    <2>3. /\ DOMAIN offers' \subseteq DOMAIN offers \cup sound
          /\ DOMAIN offers \subseteq DOMAIN offers'
          /\ \A b \in DOMAIN offers' : offers'[b] \in Offer
      BY <1>4, <2>1, WithOffersOK
    <2>4. DOMAIN blocks \subseteq DOMAIN blocks'
      BY <1>3, <2>2
    <2>5. LedgerOK'
      BY <1>2, <1>3, <1>4, <1>5, <2>1, <2>2, <2>3, <2>4 DEF LedgerOK
    <2>6. TasksKnown'
      BY <1>4, <1>5, <2>1, <2>4 DEF TasksKnown
    <2> QED BY <1>3, <1>4, <2>1, <2>2, <2>5, <2>6 DEF LedgerInv
  <1>7. CASE ClassifyRead(chunk, report)
    <2>1. PICK rejected \in SUBSET sound :
            /\ blocks' = AddBlockReason(arrived, rejected, "classification")
            /\ abandoned' = abandoned \cup
                  {[kind |-> "classification", block |-> b] : b \in rejected}
            /\ Enqueue("classification", sound \ rejected)
            /\ UNCHANGED offers
      BY <1>7 DEF ClassifyRead, arrived, sound
    <2>2. /\ DOMAIN blocks' = DOMAIN arrived
          /\ \A b \in DOMAIN blocks' : blocks'[b] \in Block
      BY <1>3, <2>1, AddBlockReasonOK DEF BlockReasons
    <2>3. DOMAIN blocks \subseteq DOMAIN blocks'
      BY <1>3, <2>2
    <2>4. abandoned' \subseteq Tasks
      BY <1>3, <1>4, <2>1 DEF LedgerOK, Tasks, Kinds
    <2>5. LedgerOK'
      BY <1>2, <1>3, <1>4, <1>5, <2>1, <2>2, <2>3, <2>4 DEF LedgerOK
    <2>6. /\ sound \ rejected \in SUBSET BlockIds /\ IsFiniteSet(sound \ rejected)
          /\ "classification" \in Kinds \ {"reading"}
      BY <1>3, FS_Subset DEF Kinds
    <2>7. /\ queue' \in Seq(Tasks)
          /\ \A i \in 1 .. Len(queue') :
               \/ i \in 1 .. Len(queue) /\ queue'[i] = queue[i]
               \/ queue'[i].block \in sound \ rejected
      BY <1>4, <2>1, <2>6, EnqueueOK
    <2>8. TasksKnown'
      BY <1>3, <1>4, <1>5, <2>2, <2>3, <2>7 DEF TasksKnown
    <2> QED BY <1>3, <2>2, <2>5, <2>7, <2>8 DEF LedgerInv
  <1> QED BY <1>2, <1>6, <1>7

LEMMA ClassificationAnsweredLedger ==
    ASSUME TypeInv, ClassificationAnswered PROVE LedgerInv'
  <1> DEFINE b == semantic.task.block
  <1>1. /\ LedgerOK /\ TasksKnown /\ queue \in Seq(Tasks) /\ IsFiniteSet(DOMAIN blocks)
        /\ SchedulerOK
    BY DEF TypeInv, TypeOK, SchedulerOK
  <1>2. /\ semantic' = NoRequest /\ semantic.task \in Tasks /\ b \in DOMAIN blocks
        /\ UNCHANGED <<queue, invalidEvidence, published, pendingBlocks>>
        /\ abandoned' = IF semantic.posts = 0 THEN abandoned \cup {semantic.task}
                                              ELSE abandoned
    BY <1>1, PendingRequest
       DEF ClassificationAnswered, SemanticAnswered, TakeSemantic, TasksKnown, NoRequest
  <1>3. PICK i \in Interpretations, full \in BOOLEAN :
          LET iv == [x \in {b} |-> i]
          IN  /\ blocks' = IF full THEN WithDoubts(blocks, iv)
                           ELSE AddBlockReason(WithDoubts(blocks, iv), {b}, "classification")
              /\ offers' = WithOffers(iv)
    BY DEF ClassificationAnswered
  <1> DEFINE iv == [x \in {b} |-> i]
  <1>4. /\ DOMAIN blocks' = DOMAIN blocks
        /\ \A x \in DOMAIN blocks' : blocks'[x] \in Block
    <2> DEFINE doubted == WithDoubts(blocks, iv)
    <2>1. /\ DOMAIN doubted = DOMAIN blocks /\ \A x \in DOMAIN doubted : doubted[x] \in Block
      BY <1>1, AddBlockReasonOK DEF WithDoubts, BlockReasons, LedgerOK
    <2>2. blocks' = IF full THEN doubted ELSE AddBlockReason(doubted, {b}, "classification")
      BY <1>3
    <2> HIDE DEF doubted
    <2> QED BY <2>1, <2>2, AddBlockReasonOK DEF BlockReasons
  <1>5. /\ DOMAIN offers' \subseteq DOMAIN offers \cup {b}
        /\ DOMAIN offers \subseteq DOMAIN offers'
        /\ \A x \in DOMAIN offers' : offers'[x] \in Offer
    <2>1. offers' = WithOffers(iv) /\ DOMAIN iv = {b}
      BY <1>3
    <2>2. \A x \in DOMAIN iv : iv[x] \in Interpretations
      OBVIOUS
    <2> HIDE DEF iv
    <2> QED BY <1>1, <2>1, <2>2, WithOffersOK
  <1>6. LedgerOK'
    BY <1>1, <1>2, <1>4, <1>5 DEF LedgerOK
  <1>7. TasksKnown'
    BY <1>1, <1>2, <1>4 DEF TasksKnown
  <1> QED BY <1>1, <1>2, <1>4, <1>6, <1>7 DEF LedgerInv

LEMMA DecisionAnsweredLedger ==
    ASSUME TypeInv, DecisionAnswered PROVE LedgerInv'
  <1>1. /\ LedgerOK /\ TasksKnown /\ queue \in Seq(Tasks) /\ IsFiniteSet(DOMAIN blocks)
        /\ SchedulerOK
    BY DEF TypeInv, TypeOK, SchedulerOK
  <1>2. /\ semantic' = NoRequest /\ semantic.task \in Tasks
        /\ UNCHANGED <<queue, blocks, invalidEvidence, published, pendingBlocks>>
        /\ abandoned' = IF semantic.posts = 0 THEN abandoned \cup {semantic.task}
                                              ELSE abandoned
    BY <1>1, PendingRequest DEF DecisionAnswered, SemanticAnswered, TakeSemantic, NoRequest
  <1>3. PICK a \in Assessments :
          offers' = [offers EXCEPT ![semantic.task.block] =
                        Assessed(a, offers[semantic.task.block])]
    BY DEF DecisionAnswered
  <1>4. /\ DOMAIN offers' = DOMAIN offers
        /\ \A x \in DOMAIN offers' : offers'[x] \in Offer
    <2>1. DOMAIN offers' = DOMAIN offers
      BY <1>3
    <2>2. ASSUME NEW x \in DOMAIN offers PROVE offers'[x] \in Offer
      <3>1. offers[x] \in Offer
        BY <1>1 DEF LedgerOK
      <3> QED BY <1>3, <3>1, AssessedOK
    <2> QED BY <2>1, <2>2
  <1>5. LedgerOK'
    BY <1>1, <1>2, <1>4 DEF LedgerOK
  <1>6. TasksKnown'
    BY <1>1, <1>2 DEF TasksKnown
  <1> QED BY <1>1, <1>2, <1>5, <1>6 DEF LedgerInv

LEMMA DecideOffersLedger ==
    ASSUME TypeInv, DecideOffers PROVE LedgerInv'
  <1>1. /\ LedgerOK /\ TasksKnown /\ queue \in Seq(Tasks) /\ IsFiniteSet(DOMAIN blocks)
    BY DEF TypeInv, TypeOK, SchedulerOK
  <1>2. PICK a \in [Undecided -> Assessments] :
          /\ offers' = [b \in DOMAIN offers |->
                          IF b \in Undecided THEN Assessed(a[b], offers[b]) ELSE offers[b]]
          /\ Enqueue("decision", {b \in Undecided : a[b].route = "needs_jev"})
          /\ abandoned' = abandoned \cup
               {[kind |-> "decision", block |-> b] :
                   b \in {u \in Undecided : a[u].route = "local_rejection"}}
    BY DEF DecideOffers
  <1> DEFINE asked == {b \in Undecided : a[b].route = "needs_jev"}
             refused == {u \in Undecided : a[u].route = "local_rejection"}
  <1>3. UNCHANGED <<semantic, blocks, invalidEvidence, published, pendingBlocks>>
    BY DEF DecideOffers
  <1>4. Undecided \subseteq DOMAIN offers /\ Undecided \subseteq BlockIds
    BY <1>1 DEF Undecided, LedgerOK
  <1>5. /\ DOMAIN offers' = DOMAIN offers
        /\ \A x \in DOMAIN offers' : offers'[x] \in Offer
    <2>1. DOMAIN offers' = DOMAIN offers
      BY <1>2
    <2>2. ASSUME NEW x \in DOMAIN offers PROVE offers'[x] \in Offer
      <3>1. offers[x] \in Offer
        BY <1>1 DEF LedgerOK
      <3>2. x \in Undecided => a[x] \in Assessments
        OBVIOUS
      <3> QED BY <1>2, <3>1, <3>2, AssessedOK
    <2> QED BY <2>1, <2>2
  <1>6. asked \in SUBSET BlockIds /\ IsFiniteSet(asked) /\ asked \subseteq DOMAIN blocks
    BY <1>1, <1>4, FS_Subset DEF LedgerOK
  <1>7. /\ queue' \in Seq(Tasks)
        /\ \A i \in 1 .. Len(queue') :
             \/ i \in 1 .. Len(queue) /\ queue'[i] = queue[i]
             \/ queue'[i].block \in asked
    <2>1. Enqueue("decision", asked) /\ "decision" \in Kinds \ {"reading"}
      BY <1>2 DEF Kinds
    <2> HIDE DEF asked
    <2> QED BY <1>1, <1>6, <2>1, EnqueueOK
  <1>8. abandoned' \subseteq Tasks
    BY <1>1, <1>2, <1>4 DEF LedgerOK, Tasks, Kinds
  <1>9. LedgerOK'
    BY <1>1, <1>3, <1>5, <1>8 DEF LedgerOK
  <1>10. TasksKnown'
    BY <1>1, <1>3, <1>6, <1>7 DEF TasksKnown
  <1> QED BY <1>1, <1>3, <1>7, <1>9, <1>10 DEF LedgerInv

LEMMA FinalizeLedger ==
    ASSUME TypeInv, Finalize PROVE LedgerInv'
  <1>1. /\ LedgerOK /\ TasksKnown /\ queue \in Seq(Tasks) /\ IsFiniteSet(DOMAIN blocks)
    BY DEF TypeInv, TypeOK, SchedulerOK
  <1>2. /\ blocks' = AddBlockReason(blocks, Regressed, "reread_quality_regression")
        /\ published' = Publishable
        /\ pendingBlocks' \subseteq Current
        /\ UNCHANGED <<semantic, queue, offers, invalidEvidence, abandoned>>
    BY DEF Finalize
  <1>3. Publishable \subseteq DOMAIN offers /\ Current \subseteq DOMAIN blocks
    BY DEF Publishable, Visible, Current
  <1>4. /\ DOMAIN blocks' = DOMAIN blocks
        /\ \A x \in DOMAIN blocks' : blocks'[x] \in Block
    BY <1>1, <1>2, AddBlockReasonOK DEF LedgerOK, BlockReasons
  <1>5. LedgerOK'
    BY <1>1, <1>2, <1>3, <1>4 DEF LedgerOK
  <1>6. TasksKnown'
    BY <1>1, <1>2, <1>4 DEF TasksKnown
  <1> QED BY <1>1, <1>2, <1>4, <1>5, <1>6 DEF LedgerInv

LEMMA LedgerStep ==
    ASSUME TypeInv, [Next]_vars PROVE LedgerInv'
  <1>1. /\ LedgerOK /\ TasksKnown /\ queue \in Seq(Tasks) /\ IsFiniteSet(DOMAIN blocks)
        /\ SchedulerOK
    BY DEF TypeInv, TypeOK, SchedulerOK
  <1>2. CASE StartSemantic
    <2>1. /\ Tail(queue) \in Seq(Tasks) /\ queue \in Seq(Tasks) /\ queue # <<>>
          /\ queue' = Tail(queue) /\ semantic'.task = queue[1]
          /\ UNCHANGED ledger
      BY <1>1, <1>2, NextOfQueue DEF StartSemantic, MayAsk, NextTask
    <2>2. \A i \in 1 .. Len(queue') : i + 1 \in 1 .. Len(queue) /\ queue'[i] = queue[i + 1]
      BY <2>1
    <2>3. 1 \in 1 .. Len(queue)
      BY <2>1
    <2>4. TasksKnown'
      BY <1>1, <2>1, <2>2, <2>3 DEF TasksKnown, ledger
    <2> QED BY <1>1, <2>1, <2>4 DEF LedgerInv, LedgerOK, ledger
  <1>3. CASE DeferSemantic
    <2>1. /\ Tail(queue) \in Seq(Tasks) /\ queue \in Seq(Tasks) /\ queue # <<>>
          /\ queue' = Tail(queue) /\ abandoned' \subseteq Tasks
          /\ UNCHANGED <<semantic, offers, invalidEvidence, published, pendingBlocks>>
      BY <1>1, <1>3, NextOfQueue DEF DeferSemantic, MayAsk, LedgerOK
    <2>2. \A i \in 1 .. Len(queue') : i + 1 \in 1 .. Len(queue) /\ queue'[i] = queue[i + 1]
      BY <2>1
    <2>3. /\ DOMAIN blocks' = DOMAIN blocks
          /\ \A b \in DOMAIN blocks' : blocks'[b] \in Block
      BY <1>1, <1>3, AddBlockReasonOK DEF DeferSemantic, LedgerOK, BlockReasons
    <2>4. LedgerOK'
      BY <1>1, <2>1, <2>3 DEF LedgerOK
    <2>5. TasksKnown'
      BY <1>1, <2>1, <2>2, <2>3 DEF TasksKnown
    <2> QED BY <1>1, <2>1, <2>3, <2>4, <2>5 DEF LedgerInv
  <1>4. CASE SemanticFailed
    <2>1. /\ semantic' = NoRequest /\ abandoned' \subseteq Tasks
          /\ UNCHANGED <<queue, offers, invalidEvidence, published, pendingBlocks>>
      BY <1>1, <1>4, PendingRequest DEF SemanticFailed, TakeSemantic, LedgerOK
    <2>2. /\ DOMAIN blocks' = DOMAIN blocks
          /\ \A b \in DOMAIN blocks' : blocks'[b] \in Block
      BY <1>1, <1>4, AddBlockReasonOK DEF SemanticFailed, LedgerOK, BlockReasons
    <2>3. LedgerOK'
      BY <1>1, <2>1, <2>2 DEF LedgerOK
    <2>4. TasksKnown'
      BY <1>1, <2>1, <2>2 DEF TasksKnown
    <2> QED BY <1>1, <2>1, <2>2, <2>3, <2>4 DEF LedgerInv
  <1>5. ASSUME NEW chunk \in collected, ReadFailed(chunk) PROVE LedgerInv'
    BY <1>1, <1>5 DEF ReadFailed, TakeRead, LedgerInv, LedgerOK, TasksKnown
  <1>6. CASE Collect \/ SemanticReturns \/ Post
    <2>1. UNCHANGED <<queue, ledger>>
      BY <1>6 DEF Collect, SemanticReturns, Post
    <2>2. semantic' # NoRequest => semantic # NoRequest /\ semantic'.task = semantic.task
      <3>1. semantic' = semantic \/ semantic.state # "none"
        BY <1>6 DEF Collect, SemanticReturns, Post
      <3>2. CASE semantic' = semantic
        BY <3>2
      <3>3. CASE semantic.state # "none"
        <4>1. semantic \in Request /\ semantic # NoRequest
          BY <1>1, <3>3, PendingRequest DEF NoRequest
        <4>2. semantic'.task = semantic.task
          BY <1>6, <4>1 DEF Collect, SemanticReturns, Post, Request
        <4> QED BY <4>1, <4>2
      <3> QED BY <3>1, <3>2, <3>3
    <2> QED BY <1>1, <2>1, <2>2 DEF LedgerInv, LedgerOK, TasksKnown, ledger
  <1>7. CASE UNCHANGED <<queue, semantic, ledger>>
    BY <1>1, <1>7 DEF LedgerInv, LedgerOK, TasksKnown, ledger
  <1>8. \/ StartSemantic \/ DeferSemantic \/ SemanticFailed
        \/ Collect \/ SemanticReturns \/ Post
        \/ (\E chunk \in collected : ReadFailed(chunk) \/ ReadSucceeded(chunk))
        \/ ClassificationAnswered \/ DecisionAnswered \/ DecideOffers \/ Finalize
        \/ UNCHANGED <<queue, semantic, ledger>>
    BY NextCases DEF StartBatch, EndBatches, SubmitRead, StopReading, WaitForTransport,
       EndPipeline, EndCollect, DecideFails, JoinTransports, SkipPage, StartReread,
       MetadataTooLarge, ReadReturns, DeadlinePasses, vars, scheduler
  <1> QED BY <1>2, <1>3, <1>4, <1>5, <1>6, <1>7, <1>8, ReadSucceededLedger,
             ClassificationAnsweredLedger, DecisionAnsweredLedger, DecideOffersLedger,
             FinalizeLedger

LEMMA SemanticStep ==
    ASSUME TypeInv, [Next]_vars PROVE semantic' \in Request \cup {NoRequest}
  <1>1. SchedulerOK
    BY DEF TypeInv, TypeOK
  <1>2. CASE StartSemantic
    BY <1>1, <1>2, NextOfQueue, AnalysisAssumption DEF StartSemantic, MayAsk, Request
  <1>3. CASE Collect \/ SemanticReturns \/ Post
    <2>1. CASE semantic' = semantic
      BY <1>1, <2>1 DEF SchedulerOK
    <2>2. CASE semantic' # semantic
      <3>1. semantic.state # "none"
        BY <1>3, <2>2 DEF Collect, SemanticReturns, Post
      <3>2. PICK s \in {"running", "returned", "collected"}, t \in Tasks, n \in 0 .. MaxPosts :
              semantic = [state |-> s, task |-> t, posts |-> n]
        BY <1>1, <3>1, PendingRequest DEF Request
      <3>3. \/ \E r \in {"returned", "collected"} :
                 semantic' = [state |-> r, task |-> t, posts |-> n]
            \/ n < MaxPosts /\ semantic' = [state |-> s, task |-> t, posts |-> n + 1]
        BY <1>3, <2>2, <3>2 DEF Collect, SemanticReturns, Post
      <3>4. n < MaxPosts => n + 1 \in 0 .. MaxPosts
        BY AnalysisAssumption
      <3> QED BY <3>3, <3>4 DEF Request
    <2> QED BY <2>1, <2>2
  <1>4. CASE semantic' \in {NoRequest, semantic}
    BY <1>1, <1>4 DEF SchedulerOK
  <1>5. \/ StartSemantic \/ Collect \/ SemanticReturns \/ Post
        \/ semantic' \in {NoRequest, semantic}
    BY NextCases DEF StartBatch, EndBatches, SubmitRead, StopReading, DeferSemantic,
       WaitForTransport, EndPipeline, ReadFailed, ReadSucceeded, TakeRead, SemanticFailed,
       ClassificationAnswered, DecisionAnswered, SemanticAnswered, TakeSemantic,
       EndCollect, DecideOffers, DecideFails, JoinTransports, SkipPage, StartReread,
       Finalize, MetadataTooLarge, ReadReturns, DeadlinePasses, vars, scheduler
  <1> QED BY <1>2, <1>3, <1>4, <1>5

LEMMA SchedulerOKStep ==
    ASSUME TypeInv, [Next]_vars, CoverageInv', LedgerInv' PROVE SchedulerOK'
  <1>1. SchedulerOK /\ CoverageInv
    BY DEF TypeInv, TypeOK
  <1>2. /\ phase' \in Phases /\ nextChunk' \in 1 .. (NumChunks' + 1)
        /\ reading' \in Seq(Nat \X Nat)
        /\ collected' \subseteq returned' /\ returned' \subseteq reads'
        /\ semantic' \in Request \cup {NoRequest} /\ queue' \in Seq(Tasks)
    BY SemanticStep DEF CoverageInv, LedgerInv
  <1>3. pc' \in Terminal \cup {"batch", "schedule", "wait", "collect", "decide", "failing",
                               "recover"}
    BY <1>1, NextCases DEF SchedulerOK, Terminal, StartBatch, EndBatches, SubmitRead,
       StopReading, StartSemantic, DeferSemantic, WaitForTransport, Collect, EndPipeline,
       ReadFailed, ReadSucceeded, TakeRead, SemanticFailed, ClassificationAnswered,
       DecisionAnswered, SemanticAnswered, TakeSemantic, EndCollect, DecideOffers,
       DecideFails, JoinTransports, SkipPage, StartReread, Finalize, MetadataTooLarge,
       SemanticReturns, Post, ReadReturns, DeadlinePasses, vars, scheduler
  <1>4. reads' \subseteq Nat \X Nat
    <2>1. CASE SubmitRead
      <3>1. reading \in Seq(Nat \X Nat) /\ reading # <<>>
        BY <1>1, <2>1 DEF SchedulerOK, SubmitRead, MayRead
      <3>2. Head(reading) \in Nat \X Nat
        BY <3>1
      <3> QED BY <1>1, <2>1, <3>2 DEF SubmitRead, SchedulerOK
    <2>2. CASE reads' \subseteq reads
      BY <1>1, <2>2 DEF SchedulerOK
    <2>3. SubmitRead \/ reads' \subseteq reads
      BY NextCases DEF StartBatch, EndBatches, StopReading, StartSemantic, DeferSemantic,
         WaitForTransport, Collect, EndPipeline, ReadFailed, ReadSucceeded, TakeRead,
         SemanticFailed, ClassificationAnswered, DecisionAnswered, SemanticAnswered,
         TakeSemantic, EndCollect, DecideOffers, DecideFails, JoinTransports, SkipPage,
         StartReread, Finalize, MetadataTooLarge, SemanticReturns, Post, ReadReturns,
         DeadlinePasses, vars, scheduler
    <2> QED BY <2>1, <2>2, <2>3
  <1>5. files' \subseteq Nat \X Nat
    <2>1. CASE StartReread
      <3>1. recoverPage \in Nat
        BY AnalysisAssumption DEF TypeInv, CoverageInv
      <3> QED BY <2>1, <3>1 DEF StartReread
    <2>2. CASE files' \subseteq files
      BY <1>1, <2>2 DEF SchedulerOK
    <2>3. StartReread \/ files' \subseteq files
      BY NextCases DEF StartBatch, EndBatches, SubmitRead, StopReading, StartSemantic,
         DeferSemantic, WaitForTransport, Collect, EndPipeline, ReadFailed, ReadSucceeded,
         TakeRead, SemanticFailed, ClassificationAnswered, DecisionAnswered,
         SemanticAnswered, TakeSemantic, EndCollect, DecideOffers, DecideFails,
         JoinTransports, SkipPage, Finalize, MetadataTooLarge, SemanticReturns, Post,
         ReadReturns, DeadlinePasses, vars, scheduler
    <2> QED BY <2>1, <2>2, <2>3
  <1> QED BY <1>2, <1>3, <1>4, <1>5 DEF SchedulerOK

LEMMA TypeStep == TypeInv /\ [Next]_vars => TypeInv'
  <1> SUFFICES ASSUME TypeInv, [Next]_vars PROVE TypeInv'
    OBVIOUS
  <1>1. BudgetInv'
    BY BudgetStep DEF TypeInv
  <1>2. CoverageInv'
    BY CoverageStep DEF TypeInv, TypeOK
  <1>3. BudgetOK' /\ PagesOK' /\ LedgerInv'
    BY <1>1, <1>2, BudgetOKStep, PagesOKStep, LedgerStep
  <1>4. SchedulerOK'
    BY <1>2, <1>3, SchedulerOKStep
  <1> QED BY <1>1, <1>2, <1>3, <1>4 DEF TypeInv, TypeOK, LedgerInv

LEMMA TypeInvariant == Spec => []TypeInv
  BY TypeInit, TypeStep, PTL DEF Spec

(* SupplierOfferDocumentAnalysisService.analyze: for every PDF, method and *)
(* quota the state has its type; only blocks of the ledger are ever        *)
(* classified, decided, published or left pending.                         *)
THEOREM TypeCorrect == Spec => []TypeOK
  BY TypeInvariant, PTL DEF TypeInv

(* run_pipeline and the batch loop: an analysis that ends with a result    *)
(* has sent every page to the reader, however many chunks the PDF has,     *)
(* however few calls a batch allows, and whatever failed on the way.       *)
THEOREM EveryPageReached == Spec => []EveryPageAttempted
  <1>1. TypeInv => EveryPageAttempted
    BY DEF TypeInv, CoverageInv, EveryPageAttempted
  <1> QED BY <1>1, TypeInvariant, PTL

-----------------------------------------------------------------------------
(* Outside the pipeline nothing is under way, and only a collection leaves *)
(* offers to decide, which the pipeline does before it schedules again.    *)
DrainInv ==
    /\ pc \in {"batch", "recover"} =>
         reads = {} /\ semantic = NoRequest /\ queue = <<>> /\ reading = <<>>
    /\ pc \in {"batch", "schedule", "wait", "recover"} =>
         \A b \in DOMAIN offers : offers[b].decided

LEMMA DrainInit == Init => DrainInv
  BY DEF Init, DrainInv

LEMMA DrainStep ==
    ASSUME TypeInv, DrainInv, [Next]_vars PROVE DrainInv'
  <1>1. CASE EndPipeline
    <2>1. reads = {} /\ semantic = NoRequest /\ queue = <<>> /\ reading = <<>>
      BY <1>1, AnalysisAssumption, FS_EmptySet
         DEF EndPipeline, Idle, NothingPending, MayRead, MayAsk
    <2>2. UNCHANGED <<reads, semantic, queue, reading, offers>> /\ pc = "schedule"
      BY <1>1 DEF EndPipeline, ledger
    <2> QED BY <2>1, <2>2 DEF DrainInv
  <1>2. CASE DecideOffers
    <2>1. pc' = "schedule"
      BY <1>2 DEF DecideOffers
    <2>2. PICK a \in [Undecided -> Assessments] :
            offers' = [b \in DOMAIN offers |->
                          IF b \in Undecided THEN Assessed(a[b], offers[b]) ELSE offers[b]]
      BY <1>2 DEF DecideOffers
    <2>3. ASSUME NEW b \in DOMAIN offers' PROVE offers'[b].decided
      <3>1. b \in DOMAIN offers /\ offers[b] \in Offer
        BY <2>2, <2>3 DEF TypeInv, TypeOK, LedgerOK
      <3>2. CASE b \in Undecided
        BY <2>2, <3>1, <3>2 DEF Assessed, Offer
      <3>3. CASE b \notin Undecided
        BY <2>2, <3>1, <3>3 DEF Undecided
      <3> QED BY <3>2, <3>3
    <2> QED BY <2>1, <2>3 DEF DrainInv
  <1>3. CASE StartBatch \/ EndBatches \/ StartReread \/ SkipPage \/ Finalize \/ MetadataTooLarge
    BY <1>3 DEF DrainInv, StartBatch, EndBatches, StartReread, SkipPage, Finalize,
       MetadataTooLarge, ledger, scheduler
  <1>4. CASE SubmitRead \/ StopReading \/ StartSemantic \/ DeferSemantic \/ WaitForTransport
             \/ Collect
    BY <1>4 DEF DrainInv, SubmitRead, StopReading, StartSemantic, DeferSemantic,
       WaitForTransport, Collect, ledger
  <1>5. ASSUME pc' = "collect" \/ pc' = "decide" \/ pc' = "failing" \/ pc' = "failed"
        PROVE  DrainInv'
    BY <1>5 DEF DrainInv
  <1>6. ASSUME NEW chunk \in reads, ReadReturns(chunk) PROVE DrainInv'
    BY <1>6 DEF DrainInv, ReadReturns, ledger
  <1>7. CASE SemanticReturns \/ Post
    <2>1. semantic # NoRequest
      <3>1. semantic.state = "running"
        BY <1>7 DEF SemanticReturns, Post
      <3>2. NoRequest.state = "none"
        BY DEF NoRequest
      <3> QED BY <3>1, <3>2
    <2> QED BY <1>7, <2>1 DEF DrainInv, SemanticReturns, Post, ledger
  <1>8. CASE DeadlinePasses \/ UNCHANGED vars
    BY <1>8 DEF DrainInv, DeadlinePasses, vars, scheduler, ledger
  <1>9. ASSUME \/ \E chunk \in collected : ReadFailed(chunk) \/ ReadSucceeded(chunk)
               \/ SemanticFailed \/ ClassificationAnswered \/ DecisionAnswered
               \/ EndCollect \/ DecideFails \/ JoinTransports
        PROVE  pc' = "collect" \/ pc' = "decide" \/ pc' = "failing" \/ pc' = "failed"
    BY <1>9 DEF ReadFailed, ReadSucceeded, TakeRead, SemanticFailed, ClassificationAnswered,
       DecisionAnswered, SemanticAnswered, TakeSemantic, EndCollect, DecideFails,
       JoinTransports
  <1> QED BY NextCases, <1>1, <1>2, <1>3, <1>4, <1>5, <1>6, <1>7, <1>8, <1>9

(* The batch loop: a batch resets the shared budget only when no reader    *)
(* and no JEV request of the batch before can still reserve from it, no    *)
(* task waits and no offer is left to decide.                              *)
THEOREM RenewalDrained == Spec => RenewalAfterDrain
  <1>1. TypeInv /\ DrainInv /\ [Next]_vars
        => (nextChunk' # nextChunk =>
              /\ reads = {} /\ semantic = NoRequest /\ queue = <<>>
              /\ \A b \in DOMAIN offers : offers[b].decided)
    <2> SUFFICES ASSUME DrainInv, [Next]_vars, nextChunk' # nextChunk
                 PROVE  /\ reads = {} /\ semantic = NoRequest /\ queue = <<>>
                        /\ \A b \in DOMAIN offers : offers[b].decided
      OBVIOUS
    <2>1. StartBatch
      BY NextCases DEF EndBatches, SubmitRead, StopReading, StartSemantic, DeferSemantic,
         WaitForTransport, Collect, EndPipeline, ReadFailed, ReadSucceeded, TakeRead,
         SemanticFailed, ClassificationAnswered, DecisionAnswered, SemanticAnswered,
         TakeSemantic, EndCollect, DecideOffers, DecideFails, JoinTransports, SkipPage,
         StartReread, Finalize, MetadataTooLarge, SemanticReturns, Post, ReadReturns,
         DeadlinePasses, vars, scheduler
    <2> QED BY <2>1 DEF StartBatch, DrainInv
  <1>2. TypeInv /\ DrainInv /\ [Next]_vars => DrainInv'
    BY DrainStep
  <1> QED BY <1>1, <1>2, DrainInit, TypeInvariant, PTL DEF Spec, RenewalAfterDrain

-----------------------------------------------------------------------------
(* What may still be submitted has its PDF on disk.                        *)
FilesInv ==
    /\ reads \ returned \subseteq files
    /\ pc \in {"schedule", "wait", "collect", "decide"} =>
         \A j \in 1 .. Len(reading) : reading[j] \in files
    /\ phase = "initial" /\ pc \in {"batch", "schedule", "wait", "collect", "decide"} =>
         files = {Chunk(i) : i \in 1 .. NumChunks}

LEMMA FilesInit == Init => FilesInv
  BY DEF Init, FilesInv

LEMMA FilesStep ==
    ASSUME TypeInv, DrainInv, FilesInv, [Next]_vars PROVE FilesInv'
  <1>1. CASE StartBatch
    <2>1. LastOfBatch \in nextChunk .. NumChunks /\ nextChunk \in 1 .. NumChunks
      BY <1>1, SomeChunk, Quotas, BudgetAssumption, AnalysisAssumption
         DEF StartBatch, TypeInv, CoverageInv, LastOfBatch, BatchSize
    <2> DEFINE n == LastOfBatch - nextChunk + 1
    <2>2. reading' = [i \in 1 .. n |-> Chunk(nextChunk + i - 1)] /\ n \in Nat
      BY <1>1, <2>1, SomeChunk DEF StartBatch
    <2>3. \A i \in 1 .. n : nextChunk + i - 1 \in 1 .. NumChunks
      BY <2>1, SomeChunk
    <2>4. Len(reading') = n
      <3> HIDE DEF n
      <3> QED BY <2>2
    <2>5. phase = "initial" /\ files = {Chunk(i) : i \in 1 .. NumChunks}
      BY <1>1 DEF StartBatch, FilesInv, TypeInv, CoverageInv
    <2>6. \A j \in 1 .. Len(reading') : reading'[j] \in files
      BY <2>2, <2>3, <2>4, <2>5
    <2>7. pc' = "schedule" /\ UNCHANGED <<reads, returned, files, phase>>
      BY <1>1 DEF StartBatch
    <2> QED BY <2>5, <2>6, <2>7 DEF FilesInv, NumChunks, Chunk
  <1>2. CASE EndBatches
    BY <1>2 DEF EndBatches, FilesInv, DrainInv
  <1>3. CASE SubmitRead
    <2>1. reading \in Seq(Nat \X Nat) /\ reading # <<>>
      BY <1>3 DEF SubmitRead, MayRead, TypeInv, CoverageInv
    <2>2. /\ Head(reading) = reading[1] /\ 1 \in 1 .. Len(reading)
          /\ \A j \in 1 .. Len(Tail(reading)) :
                j + 1 \in 1 .. Len(reading) /\ Tail(reading)[j] = reading[j + 1]
      BY <2>1
    <2>3. /\ pc = "schedule" /\ reads' = reads \cup {Head(reading)} /\ reading' = Tail(reading)
          /\ UNCHANGED <<pc, phase, returned, files>>
      BY <1>3 DEF SubmitRead
    <2> QED BY <2>2, <2>3 DEF FilesInv, NumChunks, Chunk
  <1>4. CASE StopReading
    <2>1. reading' = <<>> /\ UNCHANGED <<pc, phase, reads, returned, files>>
      BY <1>4 DEF StopReading
    <2> QED BY <2>1 DEF FilesInv, NumChunks, Chunk
  <1>5. CASE EndPipeline
    <2>1. reads = {}
      BY <1>5 DEF EndPipeline, NothingPending
    <2>2. UNCHANGED <<phase, reads, returned, reading>> /\ pc = "schedule"
      BY <1>5 DEF EndPipeline
    <2>3. IF phase = "initial" THEN pc' = "batch" /\ UNCHANGED files ELSE pc' = "recover"
      BY <1>5 DEF EndPipeline
    <2> QED BY <2>1, <2>2, <2>3 DEF FilesInv, NumChunks, Chunk
  <1>6. CASE StartReread
    <2>1. reads = {} /\ UNCHANGED <<reads, returned>> /\ phase' = "reread"
      BY <1>6 DEF StartReread, DrainInv
    <2>2. /\ reading' = <<<<recoverPage, recoverPage>>>>
          /\ files' = {<<recoverPage, recoverPage>>}
      BY <1>6 DEF StartReread
    <2> QED BY <2>1, <2>2 DEF FilesInv
  <1>7. CASE JoinTransports
    BY <1>7 DEF JoinTransports, Joined, FilesInv
  <1>8. ASSUME NEW chunk \in collected, TakeRead(chunk) PROVE FilesInv'
    <2>1. /\ reads' = reads \ {chunk} /\ returned' = returned \ {chunk}
          /\ UNCHANGED <<pc, phase, reading, files>>
      BY <1>8 DEF TakeRead
    <2> QED BY <2>1 DEF FilesInv, NumChunks, Chunk
  <1>9. ASSUME NEW chunk \in reads, ReadReturns(chunk) PROVE FilesInv'
    <2>1. /\ returned' = returned \cup {chunk}
          /\ UNCHANGED <<pc, phase, reads, reading, files>>
      BY <1>9 DEF ReadReturns
    <2> QED BY <2>1 DEF FilesInv, NumChunks, Chunk
  <1>10. CASE /\ UNCHANGED <<phase, reads, returned, reading, files>>
              /\ \/ pc' = pc
                 \/ pc' \in Terminal \cup {"failing", "recover"}
                 \/ {pc, pc'} \subseteq {"schedule", "wait", "collect", "decide"}
    BY <1>10 DEF FilesInv, Terminal, NumChunks, Chunk
  <1>11. \/ StartBatch \/ EndBatches \/ SubmitRead \/ StopReading \/ EndPipeline
         \/ StartReread \/ JoinTransports
         \/ (\E chunk \in collected : TakeRead(chunk))
         \/ (\E chunk \in reads : ReadReturns(chunk))
         \/ /\ UNCHANGED <<phase, reads, returned, reading, files>>
            /\ \/ pc' = pc
               \/ pc' \in Terminal \cup {"failing", "recover"}
               \/ {pc, pc'} \subseteq {"schedule", "wait", "collect", "decide"}
    BY NextCases DEF Terminal, StartSemantic, DeferSemantic, WaitForTransport, Collect,
       ReadFailed, ReadSucceeded, SemanticFailed, ClassificationAnswered, DecisionAnswered,
       SemanticAnswered, TakeSemantic, EndCollect, DecideOffers, DecideFails, SkipPage,
       Finalize, MetadataTooLarge, SemanticReturns, Post, DeadlinePasses, vars, scheduler
  <1> QED BY <1>1, <1>2, <1>3, <1>4, <1>5, <1>6, <1>7, <1>8, <1>9, <1>10, <1>11

(* analyze: the temporary directory of a chunk is left only after every    *)
(* reader thread has returned, also when an exception ends the analysis.   *)
THEOREM FilesKept == Spec => []ChunkFilesOutliveReads
  <1>1. FilesInv => ChunkFilesOutliveReads
    BY DEF FilesInv, ChunkFilesOutliveReads
  <1>2. TypeInv /\ DrainInv /\ FilesInv /\ [Next]_vars => DrainInv' /\ FilesInv'
    BY DrainStep, FilesStep
  <1> QED BY <1>1, <1>2, DrainInit, FilesInit, TypeInvariant, PTL DEF Spec

-----------------------------------------------------------------------------
(* The calls the pending semantic request has reserved of a kind.          *)
Underway(k) ==
    IF semantic # NoRequest /\ semantic.task.kind = k THEN semantic.posts ELSE 0

(* The ledger and the budget differ by the calls under way: the pending    *)
(* reads, which are distinct chunks, and the POSTs of the pending request. *)
PaidInv ==
    /\ IsFiniteSet(reads)
    /\ recorded["reading"] + Cardinality(reads) = reserved["reading"]
    /\ \A k \in Kinds \ {"reading"} :
         /\ recorded[k] + Underway(k) <= reserved[k]
         /\ reserved[k] > 0 => recorded[k] + Underway(k) > 0
    /\ \A i \in 1 .. Len(reading) :
         /\ reading[i] \notin reads
         /\ \A j \in 1 .. Len(reading) : reading[i] = reading[j] => i = j
    /\ pc \in {"completed", "partial"} => reads = {} /\ semantic = NoRequest

LEMMA PaidInit == Init => PaidInv
  BY FS_EmptySet DEF Init, PaidInv, Underway, NoCalls, Kinds

LEMMA ChunksDiffer ==
    ASSUME NEW i \in 1 .. NumChunks, NEW j \in 1 .. NumChunks, Chunk(i) = Chunk(j)
    PROVE  i = j
  <1>1. i \in Nat /\ j \in Nat
    BY SomeChunk
  <1>2. (i - 1) * ChunkSize + 1 = (j - 1) * ChunkSize + 1
    BY DEF Chunk
  <1>3. CASE ChunkSize = 1
    BY <1>1, <1>2, <1>3
  <1>4. CASE ChunkSize = 2
    BY <1>1, <1>2, <1>4
  <1> QED BY <1>3, <1>4, AnalysisAssumption

LEMMA StartBatchPaid ==
    ASSUME TypeInv, DrainInv, PaidInv, StartBatch PROVE PaidInv'
  <1>1. reads' = {} /\ semantic' = NoRequest /\ pc' = "schedule"
        /\ reserved' = NoCalls /\ recorded' = NoCalls
    BY DEF StartBatch, DrainInv
  <1>2. LastOfBatch \in nextChunk .. NumChunks /\ nextChunk \in 1 .. NumChunks
    BY SomeChunk, Quotas, BudgetAssumption, AnalysisAssumption
       DEF StartBatch, TypeInv, CoverageInv, LastOfBatch, BatchSize
  <1> DEFINE n == LastOfBatch - nextChunk + 1
  <1>3. reading' = [i \in 1 .. n |-> Chunk(nextChunk + i - 1)] /\ n \in Nat
    BY <1>2, SomeChunk DEF StartBatch
  <1>4. Len(reading') = n
    <2> HIDE DEF n
    <2> QED BY <1>3
  <1>5. \A i \in 1 .. n : nextChunk + i - 1 \in 1 .. NumChunks
    BY <1>2, SomeChunk
  <1>6. ASSUME NEW i \in 1 .. n, NEW j \in 1 .. n, reading'[i] = reading'[j] PROVE i = j
    <2>1. Chunk(nextChunk + i - 1) = Chunk(nextChunk + j - 1)
      BY <1>3, <1>6
    <2>2. nextChunk + i - 1 = nextChunk + j - 1
      BY <1>5, <2>1, ChunksDiffer
    <2> QED BY <1>2, <1>3, <2>2, SomeChunk
  <1>7. recorded'["reading"] + Cardinality(reads') = reserved'["reading"] /\ IsFiniteSet(reads')
    BY <1>1, FS_EmptySet DEF NoCalls, Kinds
  <1>8. \A k \in Kinds \ {"reading"} :
          recorded'[k] = 0 /\ reserved'[k] = 0 /\ Underway(k)' = 0
    BY <1>1 DEF NoCalls, Underway
  <1> QED BY <1>1, <1>4, <1>6, <1>7, <1>8 DEF PaidInv

(* A chunk submitted is in no pending read, so that one more is pending.   *)
LEMMA SubmitReadPaid ==
    ASSUME TypeInv, PaidInv, SubmitRead PROVE PaidInv'
  <1>1. /\ reads' = reads \cup {Head(reading)} /\ reading' = Tail(reading)
        /\ reserved' = Reserve("reading", reserved) /\ pc' = "schedule"
        /\ UNCHANGED <<semantic, recorded>>
        /\ reading # <<>>
    BY DEF SubmitRead, MayRead
  <1>2. /\ Head(reading) = reading[1] /\ 1 \in 1 .. Len(reading)
        /\ Len(Tail(reading)) = Len(reading) - 1
        /\ \A j \in 1 .. Len(Tail(reading)) :
              j + 1 \in 1 .. Len(reading) /\ Tail(reading)[j] = reading[j + 1]
    BY <1>1 DEF TypeInv, CoverageInv
  <1>3. reserved \in [Kinds -> Nat] /\ recorded \in [Kinds -> Nat]
    BY DEF TypeInv, TypeOK, BudgetOK
  <1>4. reserved'["reading"] = reserved["reading"] + 1
        /\ \A k \in Kinds \ {"reading"} : reserved'[k] = reserved[k]
    BY <1>1, <1>3 DEF Reserve, Kinds
  <1>5. IsFiniteSet(reads') /\ Cardinality(reads') = Cardinality(reads) + 1
        /\ Cardinality(reads) \in Nat
    BY <1>1, <1>2, FS_AddElement, FS_CardinalityType DEF PaidInv
  <1>6. recorded'["reading"] + Cardinality(reads') = reserved'["reading"]
    BY <1>1, <1>3, <1>4, <1>5 DEF PaidInv, Kinds
  <1>7. ASSUME NEW i \in 1 .. Len(reading')
        PROVE  /\ reading'[i] \notin reads'
               /\ \A j \in 1 .. Len(reading') : reading'[i] = reading'[j] => i = j
    <2>1. i + 1 \in 1 .. Len(reading) /\ reading'[i] = reading[i + 1] /\ i + 1 # 1
      BY <1>1, <1>2, <1>7
    <2>2. reading[i + 1] \notin reads /\ reading[i + 1] # reading[1]
      BY <1>2, <2>1 DEF PaidInv
    <2>3. ASSUME NEW j \in 1 .. Len(reading'), reading'[i] = reading'[j] PROVE i = j
      <3>1. j + 1 \in 1 .. Len(reading) /\ reading'[j] = reading[j + 1]
        BY <1>1, <1>2, <2>3
      <3>2. i + 1 = j + 1
        BY <2>1, <2>3, <3>1 DEF PaidInv
      <3> QED BY <3>2
    <2> QED BY <1>1, <1>2, <2>1, <2>2, <2>3
  <1>8. \A k \in Kinds \ {"reading"} : Underway(k)' = Underway(k)
    BY <1>1 DEF Underway
  <1> QED BY <1>1, <1>4, <1>5, <1>6, <1>7, <1>8 DEF PaidInv

LEMMA TakeReadPaid ==
    ASSUME TypeInv, PaidInv, NEW chunk \in collected, TakeRead(chunk) PROVE PaidInv'
  <1>1. /\ reads' = reads \ {chunk} /\ pc' = "collect"
        /\ recorded' = [recorded EXCEPT !["reading"] = @ + 1]
        /\ UNCHANGED <<reading, semantic, reserved>>
    BY DEF TakeRead
  <1>2. chunk \in reads
    BY DEF TypeInv, CoverageInv
  <1>3. reserved \in [Kinds -> Nat] /\ recorded \in [Kinds -> Nat]
    BY DEF TypeInv, TypeOK, BudgetOK
  <1>4. recorded'["reading"] = recorded["reading"] + 1
        /\ \A k \in Kinds \ {"reading"} : recorded'[k] = recorded[k]
    BY <1>1, <1>3 DEF Kinds
  <1>5. IsFiniteSet(reads') /\ Cardinality(reads') = Cardinality(reads) - 1
        /\ Cardinality(reads) \in Nat
    BY <1>1, <1>2, FS_RemoveElement, FS_CardinalityType DEF PaidInv
  <1>6. recorded'["reading"] + Cardinality(reads') = reserved'["reading"]
    BY <1>1, <1>3, <1>4, <1>5 DEF PaidInv, Kinds
  <1>7. \A k \in Kinds \ {"reading"} : Underway(k)' = Underway(k)
    BY <1>1 DEF Underway
  <1> QED BY <1>1, <1>4, <1>5, <1>6, <1>7 DEF PaidInv

(* The semantic side of PaidInv, for steps that leave the reads alone.     *)
SemanticPaid ==
    \A k \in Kinds \ {"reading"} :
        /\ recorded[k] + Underway(k) <= reserved[k]
        /\ reserved[k] > 0 => recorded[k] + Underway(k) > 0

LEMMA SemanticOnly ==
    ASSUME PaidInv, SemanticPaid', UNCHANGED <<reads, reading>>,
           recorded'["reading"] = recorded["reading"],
           reserved'["reading"] = reserved["reading"],
           pc' \notin {"completed", "partial"}
    PROVE  PaidInv'
  BY DEF PaidInv, SemanticPaid

LEMMA Running ==
    ASSUME TypeInv, semantic.state # "none"
    PROVE  /\ semantic # NoRequest /\ semantic \in Request
           /\ semantic.task.kind \in Kinds \ {"reading"}
           /\ semantic.posts \in Nat
           /\ \A k : Underway(k) = IF k = semantic.task.kind THEN semantic.posts ELSE 0
  <1>1. semantic # NoRequest
    BY DEF NoRequest
  <1>2. semantic \in Request /\ semantic.task \in Tasks /\ semantic.posts \in 0 .. MaxPosts
    BY PendingRequest DEF TypeInv, TypeOK
  <1> QED BY <1>1, <1>2, AnalysisAssumption DEF Tasks, Underway

LEMMA StartSemanticPaid ==
    ASSUME TypeInv, PaidInv, StartSemantic PROVE PaidInv'
  <1> DEFINE q == NextTask.kind
             n == IF PerCallReservation THEN 0 ELSE 1
  <1>1. /\ semantic = NoRequest
        /\ semantic' = [state |-> "running", task |-> NextTask, posts |-> n]
        /\ UNCHANGED <<pc, reads, reading, recorded>> /\ pc = "schedule"
        /\ queue # <<>>
        /\ \/ PerCallReservation /\ reserved' = reserved
           \/ ~PerCallReservation /\ reserved' = Reserve(q, reserved)
    BY DEF StartSemantic, MayAsk
  <1>2. q \in Kinds \ {"reading"}
    BY <1>1, NextOfQueue DEF TypeInv, TypeOK
  <1>3. reserved \in [Kinds -> Nat] /\ recorded \in [Kinds -> Nat]
    BY DEF TypeInv, TypeOK, BudgetOK
  <1>4. \A k \in Kinds : reserved'[k] = reserved[k] + (IF k = q THEN n ELSE 0)
    BY <1>1, <1>2, <1>3 DEF Reserve
  <1>5. semantic' # NoRequest
    <2>1. semantic'.state = "running" /\ NoRequest.state = "none"
      BY <1>1 DEF NoRequest
    <2> QED BY <2>1
  <1>6. \A k \in Kinds : Underway(k) = 0 /\ Underway(k)' = IF k = q THEN n ELSE 0
    BY <1>1, <1>5 DEF Underway
  <1>7. n \in Nat
    OBVIOUS
  <1>8. SemanticPaid'
    <2> HIDE DEF n, q
    <2> QED BY <1>1, <1>3, <1>4, <1>6, <1>7 DEF PaidInv, SemanticPaid
  <1>9. "reading" \in Kinds /\ reserved'["reading"] = reserved["reading"]
    BY <1>2, <1>3, <1>4 DEF Kinds
  <1> QED BY <1>1, <1>8, <1>9, SemanticOnly

LEMMA PostPaid ==
    ASSUME TypeInv, PaidInv, Post, pc \notin {"completed", "partial"} PROVE PaidInv'
  <1> DEFINE q == semantic.task.kind
  <1>1. /\ semantic.state = "running" /\ UNCHANGED <<pc, reads, reading, recorded>>
    BY DEF Post
  <1>2. /\ semantic # NoRequest /\ semantic \in Request
        /\ q \in Kinds \ {"reading"} /\ semantic.posts \in Nat
        /\ \A k : Underway(k) = IF k = q THEN semantic.posts ELSE 0
    BY <1>1, Running
  <1>3. reserved \in [Kinds -> Nat] /\ recorded \in [Kinds -> Nat]
    BY DEF TypeInv, TypeOK, BudgetOK
  <1>4. CASE reserved' = Reserve(q, reserved) /\ semantic' = [semantic EXCEPT !.posts = @ + 1]
    <2>1. \A k \in Kinds : reserved'[k] = reserved[k] + (IF k = q THEN 1 ELSE 0)
      BY <1>2, <1>3, <1>4 DEF Reserve
    <2>2. /\ semantic'.posts = semantic.posts + 1 /\ semantic'.task = semantic.task
          /\ semantic'.state = "running"
      BY <1>1, <1>2, <1>4 DEF Request
    <2>3. semantic' # NoRequest
      BY <2>2 DEF NoRequest
    <2>4. \A k \in Kinds : Underway(k)' = Underway(k) + (IF k = q THEN 1 ELSE 0)
      BY <1>2, <2>2, <2>3 DEF Underway
    <2>5. \A k \in Kinds : Underway(k) \in Nat
      BY <1>2
    <2>6. SemanticPaid'
      <3> HIDE DEF q
      <3> QED BY <1>1, <1>3, <2>1, <2>4, <2>5 DEF PaidInv, SemanticPaid
    <2>7. reserved'["reading"] = reserved["reading"]
      BY <1>2, <1>3, <2>1 DEF Kinds
    <2> QED BY <1>1, <2>6, <2>7, SemanticOnly
  <1>5. CASE reserved' = reserved /\ semantic' = [semantic EXCEPT !.state = "returned"]
    <2>1. /\ semantic'.posts = semantic.posts /\ semantic'.task = semantic.task
          /\ semantic'.state = "returned"
      BY <1>2, <1>5 DEF Request
    <2>2. semantic' # NoRequest
      BY <2>1 DEF NoRequest
    <2>3. \A k \in Kinds : Underway(k)' = Underway(k)
      BY <1>2, <2>1, <2>2 DEF Underway
    <2>4. SemanticPaid'
      BY <1>1, <1>5, <2>3 DEF PaidInv, SemanticPaid
    <2> QED BY <1>1, <1>5, <2>4, SemanticOnly
  <1> QED BY <1>4, <1>5 DEF Post

(* A request that returns or is collected keeps its calls.                 *)
LEMMA RequestMovesOnPaid ==
    ASSUME TypeInv, PaidInv, Collect \/ SemanticReturns,
           pc \notin {"completed", "partial"}
    PROVE  PaidInv'
  <1>1. UNCHANGED <<reads, reading, recorded, reserved>>
        /\ (pc' = pc \/ pc' = "collect")
    BY DEF Collect, SemanticReturns, budget
  <1>2. CASE semantic' = semantic
    BY <1>1, <1>2, SemanticOnly DEF PaidInv, SemanticPaid, Underway
  <1>3. ASSUME semantic.state # "none", NEW st \in {"returned", "collected"},
               semantic' = [semantic EXCEPT !.state = st]
        PROVE  PaidInv'
    <2>1. semantic # NoRequest /\ semantic \in Request
          /\ \A k : Underway(k) = IF k = semantic.task.kind THEN semantic.posts ELSE 0
      BY <1>3, Running
    <2>2. /\ semantic'.posts = semantic.posts /\ semantic'.task = semantic.task
          /\ semantic'.state = st
      BY <1>3, <2>1 DEF Request
    <2>3. semantic' # NoRequest
      BY <2>2 DEF NoRequest
    <2>4. \A k \in Kinds : Underway(k)' = Underway(k)
      BY <2>1, <2>2, <2>3 DEF Underway
    <2>5. SemanticPaid'
      BY <1>1, <2>4 DEF PaidInv, SemanticPaid
    <2> QED BY <1>1, <2>5, SemanticOnly
  <1> QED BY <1>2, <1>3 DEF Collect, SemanticReturns

(* What the finished request is recorded with: all its calls, or one error *)
(* call for them when it made any.                                         *)
LEMMA FinishPaid ==
    ASSUME TypeInv, PaidInv, SemanticFailed \/ SemanticAnswered PROVE PaidInv'
  <1> DEFINE q == semantic.task.kind
  <1>1. /\ TakeSemantic /\ semantic.state = "collected"
        /\ semantic' = NoRequest /\ pc' = "collect"
        /\ UNCHANGED <<reads, reading, reserved>>
    BY DEF SemanticFailed, SemanticAnswered, TakeSemantic
  <1>2. /\ q \in Kinds \ {"reading"} /\ semantic.posts \in Nat
        /\ \A k : Underway(k) = IF k = q THEN semantic.posts ELSE 0
    BY <1>1, Running
  <1>3. reserved \in [Kinds -> Nat] /\ recorded \in [Kinds -> Nat]
    BY DEF TypeInv, TypeOK, BudgetOK
  <1> DEFINE n == recorded'[q] - recorded[q]
  <1>4. /\ n \in Nat /\ n <= semantic.posts /\ (semantic.posts > 0 => n > 0)
        /\ \A k \in Kinds \ {q} : recorded'[k] = recorded[k]
        /\ recorded'[q] = recorded[q] + n
    <2>1. CASE SemanticFailed
      BY <1>2, <1>3, <2>1 DEF SemanticFailed, ErrorCalls
    <2>2. CASE SemanticAnswered
      BY <1>2, <1>3, <2>2 DEF SemanticAnswered
    <2> QED BY <2>1, <2>2
  <1>5. \A k \in Kinds : recorded'[k] = recorded[k] + (IF k = q THEN n ELSE 0)
    BY <1>2, <1>3, <1>4
  <1>6. \A k : Underway(k)' = 0
    BY <1>1 DEF Underway
  <1>7. SemanticPaid'
    <2> SUFFICES ASSUME NEW k \in Kinds \ {"reading"}
                 PROVE  /\ recorded'[k] + Underway(k)' <= reserved'[k]
                        /\ reserved'[k] > 0 => recorded'[k] + Underway(k)' > 0
      BY DEF SemanticPaid
    <2>1. /\ recorded[k] + Underway(k) <= reserved[k]
          /\ reserved[k] > 0 => recorded[k] + Underway(k) > 0
      BY DEF PaidInv
    <2>2. recorded[k] \in Nat /\ reserved[k] \in Nat /\ reserved'[k] = reserved[k]
      BY <1>1, <1>3
    <2> HIDE DEF q, n
    <2> QED BY <1>2, <1>4, <1>5, <1>6, <2>1, <2>2
  <1>8. recorded'["reading"] = recorded["reading"]
    BY <1>2, <1>3, <1>5 DEF Kinds
  <1> QED BY <1>1, <1>7, <1>8, SemanticOnly

LEMMA PaidStep ==
    ASSUME TypeInv, DrainInv, PaidInv, [Next]_vars PROVE PaidInv'
  <1>1. CASE StartBatch \/ SubmitRead \/ StartSemantic \/ SemanticFailed \/ SemanticAnswered
    BY <1>1, StartBatchPaid, SubmitReadPaid, StartSemanticPaid, FinishPaid
  <1>2. ASSUME NEW chunk \in collected, TakeRead(chunk) PROVE PaidInv'
    BY <1>2, TakeReadPaid
  <1>3. CASE Post \/ Collect \/ SemanticReturns
    <2>1. semantic = NoRequest \/ pc \notin {"completed", "partial"}
      BY DEF PaidInv
    <2>2. CASE semantic = NoRequest /\ pc \in {"completed", "partial"}
      <3>1. semantic.state = "none"
        BY <2>2 DEF NoRequest
      <3> QED BY <1>3, <2>2, <3>1 DEF Post, Collect, SemanticReturns
    <2> QED BY <1>3, <2>1, <2>2, PostPaid, RequestMovesOnPaid
  <1>4. CASE StopReading
    BY <1>4 DEF StopReading, PaidInv, Underway
  <1>5. CASE StartReread
    <2>1. reads = {} /\ semantic = NoRequest
      BY <1>5 DEF StartReread, DrainInv
    <2>2. /\ reading' = <<<<recoverPage, recoverPage>>>> /\ pc' = "schedule"
          /\ UNCHANGED <<reads, semantic, recorded, reserved>>
      BY <1>5 DEF StartReread, budget
    <2>3. Len(reading') = 1
      BY <2>2
    <2> QED BY <2>1, <2>2, <2>3 DEF PaidInv, Underway
  <1>6. CASE Finalize
    <2>1. reads = {} /\ semantic = NoRequest
      BY <1>6 DEF Finalize, DrainInv
    <2>2. UNCHANGED <<reading, reads, semantic, recorded, reserved>>
      BY <1>6 DEF Finalize, budget
    <2> QED BY <2>1, <2>2 DEF PaidInv, Underway
  <1>7. CASE UNCHANGED <<reading, reads, semantic, recorded, reserved>>
             /\ (pc' = pc \/ pc' \notin {"completed", "partial"})
    BY <1>7 DEF PaidInv, Underway
  <1>8. \/ StartBatch \/ SubmitRead \/ StartSemantic \/ SemanticFailed \/ SemanticAnswered
        \/ (\E chunk \in collected : TakeRead(chunk))
        \/ Post \/ Collect \/ SemanticReturns \/ StopReading \/ StartReread \/ Finalize
        \/ UNCHANGED <<reading, reads, semantic, recorded, reserved>>
           /\ (pc' = pc \/ pc' \notin {"completed", "partial"})
    BY NextCases DEF EndBatches, DeferSemantic, WaitForTransport, EndPipeline, ReadFailed,
       ReadSucceeded, ClassificationAnswered, DecisionAnswered, EndCollect, DecideOffers,
       DecideFails, JoinTransports, SkipPage, MetadataTooLarge, ReadReturns,
       DeadlinePasses, vars, scheduler, budget
  <1> QED BY <1>1, <1>2, <1>3, <1>4, <1>5, <1>6, <1>7, <1>8

(* run_pipeline and finish_semantic: whatever fails, once a pipeline has   *)
(* drained the ledger holds one call per read, no more semantic calls than *)
(* were reserved, and some of every kind that reserved any.                *)
THEOREM CallsAudited == Spec => []PaidCallsAudited
  <1>1. TypeInv /\ DrainInv /\ PaidInv => PaidCallsAudited
    <2> SUFFICES ASSUME TypeInv, DrainInv, PaidInv,
                        pc \in {"batch", "recover", "completed", "partial"}
                 PROVE  /\ recorded["reading"] = reserved["reading"]
                        /\ \A k \in Kinds : /\ recorded[k] <= reserved[k]
                                            /\ reserved[k] > 0 => recorded[k] > 0
      BY DEF PaidCallsAudited
    <2>1. reads = {} /\ semantic = NoRequest
      BY DEF DrainInv, PaidInv
    <2>2. reserved \in [Kinds -> Nat] /\ recorded \in [Kinds -> Nat]
      BY DEF TypeInv, TypeOK, BudgetOK
    <2>3. recorded["reading"] = reserved["reading"]
      BY <2>1, <2>2, FS_EmptySet DEF PaidInv, Kinds
    <2>4. \A k \in Kinds : Underway(k) = 0
      BY <2>1 DEF Underway
    <2>5. \A k \in Kinds : recorded[k] <= reserved[k] /\ (reserved[k] > 0 => recorded[k] > 0)
      BY <2>2, <2>3, <2>4 DEF PaidInv
    <2> QED BY <2>3, <2>5
  <1>2. TypeInv /\ DrainInv /\ PaidInv /\ [Next]_vars => DrainInv' /\ PaidInv'
    BY DrainStep, PaidStep
  <1> QED BY <1>1, <1>2, DrainInit, PaidInit, TypeInvariant, PTL DEF Spec

-----------------------------------------------------------------------------
(* A page is reread once, so that versions make no chains: a block of the  *)
(* rereading gives way to none.  The page being reread remembers why it    *)
(* is reread, and the blocks it showed before.                             *)
Working == {"schedule", "wait", "collect", "decide"}
Rereading == phase = "reread" /\ pc \in Working
RereadShowed(p) == \E b \in DOMAIN blocks : b.page = p /\ b.phase = "reread"

VersionsInv ==
    /\ \A n \in DOMAIN blocks : \A o \in blocks[n].supersedes :
         n.phase = "reread" /\ o.phase = "initial"
    /\ \A b \in DOMAIN blocks : b.phase = "reread" => b.page \in reread
    /\ Rereading =>
         /\ recoverPage \in reread
         /\ \A chunk \in reads : chunk = <<recoverPage, recoverPage>>
         /\ \A j \in 1 .. Len(reading) : reading[j] = <<recoverPage, recoverPage>>
         /\ before.reasons # {}
         /\ before.blocks = {b \in DOMAIN blocks : b.page = recoverPage /\ b.phase = "initial"}
    /\ \A p \in reread :
         \/ Rereading /\ p = recoverPage
         \/ pc \in {"failing", "failed"}
         \/ pageReasons[p] = {} => RereadShowed(p)

LEMMA VersionsInit == Init => VersionsInv
  BY DEF Init, VersionsInv, Rereading

LEMMA ReasonKeepsVersions ==
    ASSUME NEW bs, \A b \in DOMAIN bs : bs[b] \in Block, NEW S, NEW reason
    PROVE  /\ DOMAIN AddBlockReason(bs, S, reason) = DOMAIN bs
           /\ \A b \in DOMAIN bs :
                AddBlockReason(bs, S, reason)[b].supersedes = bs[b].supersedes
  BY DEF AddBlockReason, Block

(* A step that adds no block and whose page reasons only grow.             *)
SameVersions ==
    /\ DOMAIN blocks' = DOMAIN blocks
    /\ \A b \in DOMAIN blocks : blocks'[b].supersedes = blocks[b].supersedes
ReasonsGrow == \A p \in Pages : pageReasons[p] \subseteq pageReasons'[p]

LEMMA OtherStepsKeepVersions ==
    ASSUME TypeInv, VersionsInv, SameVersions, ReasonsGrow,
           UNCHANGED <<phase, reread, recoverPage, before>>,
           reads' \subseteq reads, reading' = reading \/ reading' = <<>>,
           \/ pc' = pc
           \/ {pc, pc'} \subseteq Working
           \/ pc' \in {"failing", "failed"}
           \/ {pc, pc'} \subseteq {"batch", "recover", "completed", "partial"}
    PROVE  VersionsInv'
  <1>1. Rereading' => Rereading
    BY DEF Rereading, Working
  <1>2. reread \subseteq Pages
    BY DEF TypeInv, TypeOK, PagesOK
  <1>3. \A n \in DOMAIN blocks' : \A o \in blocks'[n].supersedes :
          n.phase = "reread" /\ o.phase = "initial"
    BY DEF VersionsInv, SameVersions
  <1>4. \A b \in DOMAIN blocks' : b.phase = "reread" => b.page \in reread'
    BY DEF VersionsInv, SameVersions
  <1>5. Rereading' =>
          /\ recoverPage' \in reread'
          /\ \A chunk \in reads' : chunk = <<recoverPage', recoverPage'>>
          /\ \A j \in 1 .. Len(reading') : reading'[j] = <<recoverPage', recoverPage'>>
          /\ before'.reasons # {}
          /\ before'.blocks =
               {b \in DOMAIN blocks' : b.page = recoverPage' /\ b.phase = "initial"}
    BY <1>1 DEF VersionsInv, SameVersions
  <1>6. ASSUME NEW p \in reread'
        PROVE  \/ Rereading' /\ p = recoverPage'
               \/ pc' \in {"failing", "failed"}
               \/ pageReasons'[p] = {} => RereadShowed(p)'
    <2>1. CASE Rereading /\ p = recoverPage
      BY <2>1 DEF Rereading, Working
    <2>2. CASE pc \in {"failing", "failed"}
      BY <2>2 DEF Working
    <2>3. CASE pageReasons[p] = {} => RereadShowed(p)
      BY <1>2, <1>6, <2>3 DEF ReasonsGrow, RereadShowed, SameVersions
    <2> QED BY <1>6, <2>1, <2>2, <2>3 DEF VersionsInv
  <1> QED BY <1>3, <1>4, <1>5, <1>6 DEF VersionsInv

(* The steps that mark blocks keep what they supersede.                    *)
LEMMA MarksKeepVersions ==
    ASSUME TypeInv,
           DeferSemantic \/ SemanticFailed \/ ClassificationAnswered \/ Finalize
    PROVE  SameVersions
  <1>1. \A b \in DOMAIN blocks : blocks[b] \in Block
    BY DEF TypeInv, TypeOK, LedgerOK
  <1>2. CASE DeferSemantic \/ SemanticFailed \/ Finalize
    <2>1. PICK S, reason : blocks' = blocks \/ blocks' = AddBlockReason(blocks, S, reason)
      <3>1. CASE DeferSemantic
        BY <3>1, Zenon DEF DeferSemantic
      <3>2. CASE SemanticFailed
        BY <3>2, Zenon DEF SemanticFailed
      <3>3. CASE Finalize
        BY <3>3, Zenon DEF Finalize
      <3> QED BY <1>2, <3>1, <3>2, <3>3
    <2> QED BY <1>1, <2>1, ReasonKeepsVersions DEF SameVersions
  <1>3. CASE ClassificationAnswered
    <2>1. PICK i \in Interpretations, full \in BOOLEAN :
            LET iv == [x \in {semantic.task.block} |-> i]
            IN  blocks' = IF full THEN WithDoubts(blocks, iv)
                          ELSE AddBlockReason(WithDoubts(blocks, iv),
                                              {semantic.task.block}, "classification")
      BY <1>3 DEF ClassificationAnswered
    <2> DEFINE iv == [x \in {semantic.task.block} |-> i]
               doubted == WithDoubts(blocks, iv)
    <2>2. /\ DOMAIN doubted = DOMAIN blocks
          /\ \A b \in DOMAIN doubted : doubted[b] \in Block
          /\ \A b \in DOMAIN blocks : doubted[b].supersedes = blocks[b].supersedes
      BY <1>1, AddBlockReasonOK, ReasonKeepsVersions DEF WithDoubts, BlockReasons
    <2>3. blocks' = IF full THEN doubted
                    ELSE AddBlockReason(doubted, {semantic.task.block}, "classification")
      BY <2>1
    <2> HIDE DEF doubted
    <2> QED BY <2>2, <2>3, ReasonKeepsVersions DEF SameVersions
  <1> QED BY <1>2, <1>3

LEMMA SubmitReadVersions ==
    ASSUME TypeInv, VersionsInv, SubmitRead PROVE VersionsInv'
  <1>1. /\ reads' = reads \cup {Head(reading)} /\ reading' = Tail(reading)
        /\ reading # <<>>
        /\ UNCHANGED <<pc, phase, reread, recoverPage, before, pageReasons, blocks>>
    BY DEF SubmitRead, MayRead, pages, ledger
  <1>2. /\ Head(reading) = reading[1] /\ 1 \in 1 .. Len(reading)
        /\ \A j \in 1 .. Len(Tail(reading)) :
              j + 1 \in 1 .. Len(reading) /\ Tail(reading)[j] = reading[j + 1]
    BY <1>1 DEF TypeInv, CoverageInv
  <1> QED BY <1>1, <1>2 DEF VersionsInv, Rereading, RereadShowed

(* The blocks of a read bear its phase; those of a rereading are of the    *)
(* page reread and supersede only blocks it showed before.                 *)
LEMMA ReadSucceededVersions ==
    ASSUME TypeInv, VersionsInv, NEW chunk \in collected, ReadSucceeded(chunk)
    PROVE  VersionsInv'
  <1>1. chunk \in reads
    BY DEF TypeInv, CoverageInv
  <1>2. PICK report \in [PagesOf(chunk) -> PageReports] :
          InterpretRead(chunk, report) \/ ClassifyRead(chunk, report)
    BY DEF ReadSucceeded
  <1> DEFINE arrived == Arrived(chunk, report)
             new == BlocksOf(chunk, report)
  <1>3. /\ reads' = reads \ {chunk} /\ pc = "collect"
        /\ UNCHANGED <<pc, phase, reading, reread, recoverPage, before>>
    BY DEF ReadSucceeded, TakeRead
  <1>4. /\ DOMAIN arrived = DOMAIN blocks \cup new
        /\ \A b \in DOMAIN arrived : arrived[b] \in Block
        /\ \A b \in new : b.phase = phase /\ b.page \in PagesOf(chunk)
        /\ \A b \in DOMAIN blocks \ new : arrived[b] = blocks[b]
        /\ \A b \in new : arrived[b].supersedes \subseteq
                             IF phase = "reread" THEN before.blocks ELSE {}
    <2>1. \A b \in new : b.phase = phase /\ b.page \in PagesOf(chunk)
      BY DEF BlocksOf
    <2>2. \A b \in new : arrived[b] = NewBlock(b, report)
      BY DEF Arrived
    <2>3. \A b \in new : NewBlock(b, report).supersedes \subseteq
                             IF phase = "reread" THEN before.blocks ELSE {}
      BY DEF NewBlock
    <2>4. \A b \in DOMAIN blocks \ new : arrived[b] = blocks[b]
      BY DEF Arrived
    <2> QED BY <1>1, <2>1, <2>2, <2>3, <2>4, ArrivedOK
  <1> HIDE DEF arrived, new
  <1>5. /\ DOMAIN blocks' = DOMAIN arrived
        /\ \A b \in DOMAIN arrived : blocks'[b].supersedes = arrived[b].supersedes
    <2>1. PICK S, reason : blocks' = AddBlockReason(arrived, S, reason)
      <3>1. CASE InterpretRead(chunk, report)
        <4>1. PICK iv : blocks' = WithDoubts(arrived, iv)
          BY <3>1, Zenon DEF InterpretRead, arrived
        <4> QED BY <4>1, Zenon DEF WithDoubts
      <3>2. CASE ClassifyRead(chunk, report)
        BY <3>2, Zenon DEF ClassifyRead, arrived
      <3> QED BY <1>2, <3>1, <3>2
    <2> QED BY <1>4, <2>1, ReasonKeepsVersions
  <1>6. ReasonsGrow
    BY <1>2 DEF ReasonsGrow, InterpretRead, ClassifyRead, ReasonsRead
  <1>7. Rereading => \A b \in new : b.page = recoverPage
    <2>1. Rereading => chunk = <<recoverPage, recoverPage>> /\ recoverPage \in Nat
      BY <1>1, AnalysisAssumption DEF VersionsInv, TypeInv, TypeOK, PagesOK
    <2> QED BY <1>4, <2>1 DEF PagesOf
  <1>8. phase \in Phases /\ (phase = "reread" <=> Rereading) /\ reread \subseteq Pages
    BY <1>3 DEF TypeInv, TypeOK, CoverageInv, PagesOK, Rereading, Working
  <1>9. \A n \in DOMAIN blocks' : \A o \in blocks'[n].supersedes :
          n.phase = "reread" /\ o.phase = "initial"
    <2> SUFFICES ASSUME NEW n \in DOMAIN blocks', NEW o \in blocks'[n].supersedes
                 PROVE  n.phase = "reread" /\ o.phase = "initial"
      OBVIOUS
    <2>1. CASE n \in new
      BY <1>4, <1>5, <1>8, <2>1 DEF VersionsInv
    <2>2. CASE n \notin new
      BY <1>4, <1>5, <2>2 DEF VersionsInv
    <2> QED BY <2>1, <2>2
  <1>10. \A b \in DOMAIN blocks' : b.phase = "reread" => b.page \in reread'
    BY <1>3, <1>4, <1>5, <1>7, <1>8 DEF VersionsInv
  <1>11. Rereading' =>
          /\ recoverPage' \in reread'
          /\ \A c \in reads' : c = <<recoverPage', recoverPage'>>
          /\ \A j \in 1 .. Len(reading') : reading'[j] = <<recoverPage', recoverPage'>>
          /\ before'.reasons # {}
          /\ before'.blocks =
               {b \in DOMAIN blocks' : b.page = recoverPage' /\ b.phase = "initial"}
    BY <1>3, <1>4, <1>5, <1>8 DEF VersionsInv, Rereading
  <1>12. ASSUME NEW p \in reread'
         PROVE  \/ Rereading' /\ p = recoverPage'
                \/ pc' \in {"failing", "failed"}
                \/ pageReasons'[p] = {} => RereadShowed(p)'
    <2>1. CASE Rereading /\ p = recoverPage
      BY <1>3, <2>1 DEF Rereading
    <2>2. CASE pageReasons[p] = {} => RereadShowed(p)
      BY <1>3, <1>4, <1>5, <1>6, <1>8, <1>12, <2>2 DEF ReasonsGrow, RereadShowed
    <2> QED BY <1>3, <1>12, <2>1, <2>2 DEF VersionsInv
  <1> QED BY <1>9, <1>10, <1>11, <1>12 DEF VersionsInv

(* A reread that showed no block puts the old reasons back.                *)
LEMMA EndPipelineVersions ==
    ASSUME TypeInv, VersionsInv, EndPipeline PROVE VersionsInv'
  <1>1. /\ pc = "schedule"
        /\ UNCHANGED <<phase, reread, before, blocks>>
    BY DEF EndPipeline, pages, ledger
  <1>2. CASE phase = "initial"
    <2>1. UNCHANGED <<pageReasons, recoverPage>> /\ pc' = "batch"
      BY <1>2 DEF EndPipeline, pages
    <2> QED BY <1>1, <1>2, <2>1 DEF VersionsInv, Rereading, RereadShowed, Working
  <1>3. CASE phase # "initial"
    <2>1. Rereading
      BY <1>1, <1>3 DEF Rereading, Working, TypeInv, CoverageInv, Phases
    <2>2. /\ pc' = "recover"
          /\ pageReasons' = [pageReasons EXCEPT ![recoverPage] = @ \cup KeptReasons]
      BY <1>3 DEF EndPipeline
    <2>3. ~Rereading'
      BY <2>2 DEF Rereading, Working
    <2>4. pageReasons \in [Pages -> SUBSET PageReasons] /\ reread \subseteq Pages
      BY DEF TypeInv, TypeOK, PagesOK
    <2>5. ASSUME NEW p \in reread, pageReasons'[p] = {} PROVE RereadShowed(p)'
      <3>1. CASE p = recoverPage
        <4>1. KeptReasons = {}
          BY <2>2, <2>4, <2>5, <3>1
        <4>2. PICK b \in DOMAIN blocks : b.page = recoverPage /\ b \notin before.blocks
          BY <2>1, <4>1 DEF KeptReasons, VersionsInv
        <4>3. b.phase # "initial" /\ b.phase \in Phases
          BY <2>1, <4>2 DEF VersionsInv, TypeInv, TypeOK, LedgerOK, BlockIds
        <4> QED BY <1>1, <3>1, <4>2, <4>3 DEF RereadShowed, Phases
      <3>2. CASE p # recoverPage
        <4>1. pageReasons[p] = {}
          BY <2>2, <2>4, <2>5, <3>2
        <4> QED BY <1>1, <2>5, <3>2, <4>1 DEF VersionsInv, RereadShowed
      <3> QED BY <3>1, <3>2
    <2> QED BY <1>1, <2>3, <2>5 DEF VersionsInv
  <1> QED BY <1>2, <1>3

LEMMA StartRereadVersions ==
    ASSUME TypeInv, DrainInv, VersionsInv, StartReread PROVE VersionsInv'
  <1>1. /\ pc = "recover" /\ phase' = "reread" /\ pc' = "schedule"
        /\ reread' = reread \cup {recoverPage}
        /\ before' = [reasons |-> pageReasons[recoverPage],
                      blocks |-> {b \in DOMAIN blocks : b.page = recoverPage}]
        /\ pageReasons' = [pageReasons EXCEPT ![recoverPage] = {}]
        /\ reading' = <<<<recoverPage, recoverPage>>>>
        /\ UNCHANGED <<reads, recoverPage, blocks>>
        /\ pageReasons[recoverPage] # {} /\ recoverPage \notin reread
    BY DEF StartReread, NeedsReread, MayReread, ledger
  <1>2. reads = {}
    BY <1>1 DEF DrainInv
  <1>3. Len(reading') = 1 /\ reading'[1] = <<recoverPage, recoverPage>>
    BY <1>1
  <1>4. ~Rereading /\ Rereading'
    BY <1>1 DEF Rereading, Working
  <1>5. \A b \in DOMAIN blocks : b.page = recoverPage => b.phase = "initial"
    BY <1>1 DEF VersionsInv, TypeInv, TypeOK, LedgerOK, BlockIds, Phases
  <1>6. pageReasons \in [Pages -> SUBSET PageReasons] /\ reread \subseteq Pages
    BY DEF TypeInv, TypeOK, PagesOK
  <1>7. ASSUME NEW p \in reread
        PROVE  pageReasons'[p] = {} => RereadShowed(p)'
    BY <1>1, <1>4, <1>6 DEF VersionsInv, RereadShowed
  <1> QED BY <1>1, <1>2, <1>3, <1>4, <1>5, <1>7 DEF VersionsInv

LEMMA VersionsStep ==
    ASSUME TypeInv, DrainInv, VersionsInv, [Next]_vars PROVE VersionsInv'
  <1>1. CASE StartBatch
    <2>1. phase' = "initial" /\ phase = "initial" /\ pc = "batch"
          /\ UNCHANGED <<reread, recoverPage, before, blocks, pageReasons>>
      BY <1>1 DEF StartBatch, TypeInv, CoverageInv, pages, ledger
    <2> QED BY <2>1 DEF VersionsInv, Rereading, RereadShowed
  <1>2. CASE SubmitRead \/ EndPipeline \/ StartReread
    BY <1>2, SubmitReadVersions, EndPipelineVersions, StartRereadVersions
  <1>3. ASSUME NEW chunk \in collected, ReadSucceeded(chunk) PROVE VersionsInv'
    BY <1>3, ReadSucceededVersions
  <1>4. CASE SkipPage
    <2>1. pc = "recover" /\ UNCHANGED <<pc, phase, reread, before, blocks, pageReasons>>
      BY <1>4 DEF SkipPage, scheduler, ledger
    <2> QED BY <2>1 DEF VersionsInv, Rereading, RereadShowed, Working
  <1>5. ASSUME SameVersions, ReasonsGrow,
               UNCHANGED <<phase, reread, recoverPage, before>>,
               reads' \subseteq reads, reading' = reading \/ reading' = <<>>,
               \/ pc' = pc
               \/ {pc, pc'} \subseteq Working
               \/ pc' \in {"failing", "failed"}
               \/ {pc, pc'} \subseteq {"batch", "recover", "completed", "partial"}
        PROVE  VersionsInv'
    BY <1>5, OtherStepsKeepVersions
  <1> DEFINE Apart ==
               /\ UNCHANGED <<phase, reread, recoverPage, before>>
               /\ reads' \subseteq reads
               /\ reading' = reading \/ reading' = <<>>
               /\ \/ pc' = pc
                  \/ {pc, pc'} \subseteq Working
                  \/ pc' \in {"failing", "failed"}
                  \/ {pc, pc'} \subseteq {"batch", "recover", "completed", "partial"}
  <1>6. CASE DeferSemantic \/ SemanticFailed \/ ClassificationAnswered \/ Finalize
    <2>1. SameVersions
      BY <1>6, MarksKeepVersions
    <2>2. ReasonsGrow
      BY <1>6 DEF ReasonsGrow, DeferSemantic, SemanticFailed, ClassificationAnswered,
         Finalize, AddPageReason, pages
    <2>3. Apart
      BY <1>6 DEF DeferSemantic, SemanticFailed, ClassificationAnswered, SemanticAnswered,
         TakeSemantic, Finalize, pages
    <2> QED BY <1>5, <2>1, <2>2, <2>3
  <1>7. CASE \/ StopReading \/ DecisionAnswered \/ DecideOffers
             \/ \E chunk \in collected : ReadFailed(chunk)
    <2>1. SameVersions
      BY <1>7 DEF SameVersions, StopReading, DecisionAnswered, DecideOffers, ReadFailed,
         ledger
    <2>2. ReasonsGrow
      BY <1>7 DEF ReasonsGrow, StopReading, DecisionAnswered, DecideOffers, ReadFailed,
         AddPageReason
    <2>3. Apart
      BY <1>7 DEF StopReading, DecisionAnswered, SemanticAnswered, TakeSemantic,
         DecideOffers, ReadFailed, TakeRead, Working
    <2> QED BY <1>5, <2>1, <2>2, <2>3
  <1>8. CASE /\ UNCHANGED <<blocks, pageReasons>>
             /\ Apart
    BY <1>5, <1>8 DEF SameVersions, ReasonsGrow
  <1>9. \/ StartBatch \/ SubmitRead \/ EndPipeline \/ StartReread \/ SkipPage
        \/ DeferSemantic \/ SemanticFailed \/ ClassificationAnswered \/ Finalize
        \/ StopReading \/ DecisionAnswered \/ DecideOffers
        \/ (\E chunk \in collected : ReadFailed(chunk) \/ ReadSucceeded(chunk))
        \/ UNCHANGED <<blocks, pageReasons>> /\ Apart
    BY NextCases DEF Working, EndBatches, StartSemantic, WaitForTransport, Collect,
       EndCollect, DecideFails, JoinTransports, MetadataTooLarge, SemanticReturns, Post,
       ReadReturns, DeadlinePasses, vars, scheduler, pages, ledger
  <1> QED BY <1>1, <1>2, <1>3, <1>4, <1>6, <1>7, <1>8, <1>9

(* recover_pages: for every PDF and every answer of the readers, a page    *)
(* with a visual failure is cleared only by a reread that showed a block.  *)
THEOREM VisualRemembered == Spec => []VisualFailureRemembered
  <1>1. VersionsInv => VisualFailureRemembered
    BY DEF VersionsInv, VisualFailureRemembered, Rereading, RereadShowed, Working
  <1>2. TypeInv /\ DrainInv /\ VersionsInv /\ [Next]_vars => DrainInv' /\ VersionsInv'
    BY DrainStep, VersionsStep
  <1> QED BY <1>1, <1>2, DrainInit, VersionsInit, TypeInvariant, PTL DEF Spec

(* A version that replaces another is itself current, hence published.     *)
LEMMA FinalizeConserves ==
    ASSUME TypeInv, VersionsInv, Finalize PROVE EvidenceConserved'
  <1>1. /\ published' = Publishable /\ UNCHANGED offers
        /\ pendingBlocks' = {b \in Current : blocks'[b].reasons # {} \/ b \notin Publishable}
    BY DEF Finalize
  <1>2. SameVersions
    BY MarksKeepVersions
  <1> SUFFICES ASSUME NEW b \in DOMAIN blocks, b \notin published' \cup pendingBlocks'
               PROVE  \E n \in published' :
                        /\ b \in blocks'[n].supersedes
                        /\ b \in DOMAIN offers' =>
                             /\ Compatible(offers'[b], offers'[n])
                             /\ Usable(offers'[b]) => Usable(offers'[n])
    BY <1>2 DEF EvidenceConserved, SameVersions
  <1>3. b \in Superseded
    BY <1>1 DEF Current
  <1>4. PICK n \in Replacing : b \in blocks[n].supersedes
    BY <1>3 DEF Superseded
  <1>5. n \in DOMAIN blocks /\ n \notin Regressed /\ Replaces(n, b)
    BY <1>4 DEF Replacing, Versions, Regressed
  <1>6. n \in Current
    <2>1. n.phase = "reread"
      BY <1>4, <1>5 DEF VersionsInv
    <2>2. \A s \in Superseded : s.phase = "initial"
      BY DEF VersionsInv, Superseded, Replacing, Versions
    <2>3. n \notin Superseded
      BY <2>1, <2>2
    <2> QED BY <1>5, <2>3 DEF Current
  <1>7. n \in published'
    BY <1>1, <1>5, <1>6 DEF Publishable, Visible, Replaces
  <1> QED BY <1>1, <1>2, <1>4, <1>5, <1>7 DEF Replaces, SameVersions

(* current_blocks and finalize: what a reader showed is never lost.  Each  *)
(* block is published, pending, or replaced by a published version that    *)
(* keeps all its offer says.                                               *)
THEOREM EvidenceKept == Spec => []EvidenceConserved
  <1>1. Init => EvidenceConserved
    BY DEF Init, EvidenceConserved
  <1>2. TypeInv /\ VersionsInv /\ EvidenceConserved /\ [Next]_vars => EvidenceConserved'
    <2> SUFFICES ASSUME TypeInv, VersionsInv, EvidenceConserved, [Next]_vars
                 PROVE  EvidenceConserved'
      OBVIOUS
    <2>1. CASE Finalize
      BY <2>1, FinalizeConserves
    <2>2. CASE pc' \notin {"completed", "partial"}
      BY <2>2 DEF EvidenceConserved
    <2>3. CASE UNCHANGED <<pc, ledger>>
      BY <2>3 DEF EvidenceConserved, ledger, Compatible, Usable
    <2>4. Finalize \/ pc' \notin {"completed", "partial"} \/ UNCHANGED <<pc, ledger>>
      BY NextCases DEF StartBatch, EndBatches, SubmitRead, StopReading, StartSemantic,
         DeferSemantic, WaitForTransport, Collect, EndPipeline, ReadFailed, ReadSucceeded,
         TakeRead, SemanticFailed, ClassificationAnswered, DecisionAnswered,
         SemanticAnswered, TakeSemantic, EndCollect, DecideOffers, DecideFails,
         JoinTransports, SkipPage, StartReread, MetadataTooLarge, SemanticReturns, Post,
         ReadReturns, DeadlinePasses, vars, scheduler
    <2> QED BY <2>1, <2>2, <2>3, <2>4
  <1>3. TypeInv /\ DrainInv /\ VersionsInv /\ [Next]_vars => DrainInv' /\ VersionsInv'
    BY DrainStep, VersionsStep
  <1> QED BY <1>1, <1>2, <1>3, DrainInit, VersionsInit, TypeInvariant, PTL DEF Spec

-----------------------------------------------------------------------------
(* Every chunk is read once, so that a read never overwrites a block.      *)
Unread == reads \cup {reading[j] : j \in 1 .. Len(reading)}

FreshInv ==
    /\ pc \in Working /\ phase = "initial" =>
         \A c \in Unread : \E i \in 1 .. (nextChunk - 1) : c = Chunk(i)
    /\ pc \in Working =>
         \A c \in Unread : \A b \in DOMAIN blocks :
             b.phase = phase => b.page \notin PagesOf(c)
    /\ phase = "initial" =>
         \A b \in DOMAIN blocks : \A i \in nextChunk .. NumChunks :
             b.page \notin PagesOf(Chunk(i))

LEMMA FreshInit == Init => FreshInv
  BY DEF Init, FreshInv, Working

LEMMA ChunksDisjoint ==
    ASSUME NEW i \in 1 .. NumChunks, NEW j \in 1 .. NumChunks, i # j
    PROVE  PagesOf(Chunk(i)) \cap PagesOf(Chunk(j)) = {}
  <1>1. CASE ChunkSize = 1
    BY <1>1, SomeChunk, AnalysisAssumption DEF PagesOf, Chunk
  <1>2. CASE ChunkSize = 2
    BY <1>2, SomeChunk, AnalysisAssumption DEF PagesOf, Chunk
  <1> QED BY <1>1, <1>2, AnalysisAssumption

LEMMA OtherStepsKeepFresh ==
    ASSUME FreshInv, Unread' \subseteq Unread, DOMAIN blocks' = DOMAIN blocks,
           UNCHANGED <<phase, nextChunk>>, pc' \in Working => pc \in Working
    PROVE  FreshInv'
  BY DEF FreshInv, Working, Chunk, PagesOf, NumChunks

LEMMA StartBatchFresh ==
    ASSUME TypeInv, DrainInv, FreshInv, StartBatch PROVE FreshInv'
  <1>1. LastOfBatch \in nextChunk .. NumChunks /\ nextChunk \in 1 .. NumChunks
    BY SomeChunk, Quotas, BudgetAssumption, AnalysisAssumption
       DEF StartBatch, TypeInv, CoverageInv, LastOfBatch, BatchSize
  <1> DEFINE n == LastOfBatch - nextChunk + 1
  <1>2. reading' = [i \in 1 .. n |-> Chunk(nextChunk + i - 1)] /\ n \in Nat
    BY <1>1, SomeChunk DEF StartBatch
  <1>3. Len(reading') = n
    <2> HIDE DEF n
    <2> QED BY <1>2
  <1>4. /\ reads' = {} /\ phase' = "initial" /\ phase = "initial"
        /\ nextChunk' = LastOfBatch + 1 /\ UNCHANGED blocks
    BY DEF StartBatch, DrainInv, TypeInv, CoverageInv, ledger
  <1>5. \A i \in 1 .. n : nextChunk + i - 1 \in nextChunk .. LastOfBatch
    BY <1>1, SomeChunk
  <1>6. \A c \in Unread' : \E i \in nextChunk .. LastOfBatch : c = Chunk(i)
    BY <1>2, <1>3, <1>4, <1>5 DEF Unread
  <1>7. \A c \in Unread' : \A b \in DOMAIN blocks : b.page \notin PagesOf(c)
    BY <1>1, <1>4, <1>6, SomeChunk DEF FreshInv
  <1>8. \A c \in Unread' : \E i \in 1 .. (nextChunk' - 1) : c = Chunk(i)
    BY <1>1, <1>4, <1>6, SomeChunk
  <1>9. \A b \in DOMAIN blocks : \A i \in nextChunk' .. NumChunks :
            b.page \notin PagesOf(Chunk(i))
    BY <1>1, <1>4, SomeChunk DEF FreshInv
  <1> QED BY <1>4, <1>7, <1>8, <1>9 DEF FreshInv, Chunk, PagesOf, NumChunks

LEMMA SubmitReadFresh ==
    ASSUME TypeInv, FreshInv, SubmitRead PROVE FreshInv'
  <1>1. /\ reads' = reads \cup {Head(reading)} /\ reading' = Tail(reading)
        /\ reading # <<>>
        /\ UNCHANGED <<pc, phase, nextChunk, blocks>>
    BY DEF SubmitRead, MayRead, ledger
  <1>2. /\ Head(reading) = reading[1] /\ 1 \in 1 .. Len(reading)
        /\ \A j \in 1 .. Len(Tail(reading)) :
              j + 1 \in 1 .. Len(reading) /\ Tail(reading)[j] = reading[j + 1]
    BY <1>1 DEF TypeInv, CoverageInv
  <1>3. Unread' \subseteq Unread
    BY <1>1, <1>2 DEF Unread
  <1> QED BY <1>1, <1>3, OtherStepsKeepFresh

(* What is still unread shares no page with the chunk just read.           *)
LEMMA ReadLeavesOthers ==
    ASSUME TypeInv, PaidInv, VersionsInv, FreshInv, NEW chunk \in collected, TakeRead(chunk),
           NEW c \in Unread'
    PROVE  PagesOf(c) \cap PagesOf(chunk) = {} /\ c \in Unread
  <1>1. /\ chunk \in reads /\ pc \in Working
        /\ reads' = reads \ {chunk} /\ UNCHANGED <<phase, reading, nextChunk>>
    BY DEF TakeRead, TypeInv, CoverageInv, Working
  <1>2. c \in Unread /\ c # chunk
    BY <1>1 DEF Unread, PaidInv
  <1>3. CASE phase = "initial"
    <2>1. PICK i \in 1 .. (nextChunk - 1), j \in 1 .. (nextChunk - 1) :
            c = Chunk(i) /\ chunk = Chunk(j)
      BY <1>1, <1>2, <1>3 DEF FreshInv, Unread
    <2>2. i \in 1 .. NumChunks /\ j \in 1 .. NumChunks /\ i # j
      BY <1>2, <2>1, SomeChunk DEF TypeInv, CoverageInv
    <2> QED BY <1>2, <2>1, <2>2, ChunksDisjoint
  <1>4. CASE phase # "initial"
    <2>1. Rereading
      BY <1>1, <1>4 DEF Rereading, TypeInv, CoverageInv, Phases
    <2> QED BY <1>1, <1>2, <2>1 DEF VersionsInv, Unread
  <1> QED BY <1>3, <1>4

LEMMA ReadSucceededFresh ==
    ASSUME TypeInv, PaidInv, VersionsInv, FreshInv,
           NEW chunk \in collected, ReadSucceeded(chunk)
    PROVE  FreshInv'
  <1>1. /\ chunk \in reads /\ pc \in Working /\ TakeRead(chunk)
        /\ UNCHANGED <<pc, phase, nextChunk>>
    BY DEF ReadSucceeded, TakeRead, TypeInv, CoverageInv, Working
  <1>2. PICK report \in [PagesOf(chunk) -> PageReports] :
          InterpretRead(chunk, report) \/ ClassifyRead(chunk, report)
    BY DEF ReadSucceeded
  <1>3. DOMAIN blocks' = DOMAIN blocks \cup BlocksOf(chunk, report)
    BY <1>2 DEF InterpretRead, ClassifyRead, WithDoubts, AddBlockReason, Arrived
  <1>4. \A b \in BlocksOf(chunk, report) : b.page \in PagesOf(chunk)
    BY DEF BlocksOf
  <1>5. \A c \in Unread' : PagesOf(c) \cap PagesOf(chunk) = {} /\ c \in Unread
    BY <1>1, ReadLeavesOthers
  <1>6. \A c \in Unread' : \A b \in DOMAIN blocks' : b.phase = phase => b.page \notin PagesOf(c)
    BY <1>1, <1>3, <1>4, <1>5 DEF FreshInv
  <1>7. ASSUME phase = "initial", NEW i \in nextChunk .. NumChunks
        PROVE  PagesOf(chunk) \cap PagesOf(Chunk(i)) = {}
    <2>1. PICK j \in 1 .. (nextChunk - 1) : chunk = Chunk(j)
      BY <1>1, <1>7 DEF FreshInv, Unread
    <2>2. i \in 1 .. NumChunks /\ j \in 1 .. NumChunks /\ i # j
      BY <1>7, <2>1, SomeChunk DEF TypeInv, CoverageInv
    <2> QED BY <2>1, <2>2, ChunksDisjoint
  <1>8. phase = "initial" =>
          \A b \in DOMAIN blocks' : \A i \in nextChunk .. NumChunks :
              b.page \notin PagesOf(Chunk(i))
    BY <1>3, <1>4, <1>7 DEF FreshInv
  <1>9. phase = "initial" => \A c \in Unread' : \E i \in 1 .. (nextChunk - 1) : c = Chunk(i)
    BY <1>1, <1>5 DEF FreshInv
  <1> QED BY <1>1, <1>6, <1>8, <1>9 DEF FreshInv, Chunk, PagesOf, NumChunks

LEMMA StartRereadFresh ==
    ASSUME TypeInv, DrainInv, VersionsInv, FreshInv, StartReread PROVE FreshInv'
  <1>1. /\ phase' = "reread" /\ reads' = {} /\ recoverPage \notin reread
        /\ reading' = <<<<recoverPage, recoverPage>>>> /\ UNCHANGED blocks
    BY DEF StartReread, MayReread, DrainInv, ledger
  <1>2. Len(reading') = 1 /\ reading'[1] = <<recoverPage, recoverPage>>
    BY <1>1
  <1>3. Unread' = {<<recoverPage, recoverPage>>}
    BY <1>1, <1>2 DEF Unread
  <1>4. PagesOf(<<recoverPage, recoverPage>>) = {recoverPage}
    BY AnalysisAssumption DEF PagesOf, TypeInv, CoverageInv
  <1>5. \A b \in DOMAIN blocks : b.phase = "reread" => b.page # recoverPage
    BY <1>1 DEF VersionsInv
  <1> QED BY <1>1, <1>3, <1>4, <1>5 DEF FreshInv, PagesOf

LEMMA FreshStep ==
    ASSUME TypeInv, DrainInv, PaidInv, VersionsInv, FreshInv, [Next]_vars PROVE FreshInv'
  <1>1. CASE StartBatch \/ SubmitRead \/ StartReread
    BY <1>1, StartBatchFresh, SubmitReadFresh, StartRereadFresh
  <1>2. ASSUME NEW chunk \in collected, ReadSucceeded(chunk) PROVE FreshInv'
    BY <1>2, ReadSucceededFresh
  <1> DEFINE Apart == /\ reads' \subseteq reads
                      /\ reading' = reading \/ reading' = <<>>
                      /\ UNCHANGED <<phase, nextChunk>>
                      /\ pc' \in Working => pc \in Working
  <1>3. ASSUME Apart, DOMAIN blocks' = DOMAIN blocks PROVE FreshInv'
    <2>1. Unread' \subseteq Unread
      BY <1>3 DEF Unread
    <2> QED BY <1>3, <2>1, OtherStepsKeepFresh
  <1>4. CASE DeferSemantic \/ SemanticFailed \/ ClassificationAnswered \/ Finalize
    <2>1. DOMAIN blocks' = DOMAIN blocks
      BY <1>4, MarksKeepVersions DEF SameVersions
    <2>2. Apart
      BY <1>4 DEF DeferSemantic, SemanticFailed, ClassificationAnswered, SemanticAnswered,
         TakeSemantic, Finalize, Working
    <2> QED BY <1>3, <2>1, <2>2
  <1>5. CASE Apart /\ UNCHANGED blocks
    BY <1>3, <1>5
  <1>6. \/ StartBatch \/ SubmitRead \/ StartReread
        \/ (\E chunk \in collected : ReadSucceeded(chunk))
        \/ DeferSemantic \/ SemanticFailed \/ ClassificationAnswered \/ Finalize
        \/ Apart /\ UNCHANGED blocks
    BY NextCases DEF Working, EndBatches, StopReading, StartSemantic, WaitForTransport,
       Collect, EndPipeline, ReadFailed, TakeRead, DecisionAnswered, SemanticAnswered,
       TakeSemantic, EndCollect, DecideOffers, DecideFails, JoinTransports, SkipPage,
       MetadataTooLarge, SemanticReturns, Post, ReadReturns, DeadlinePasses, vars,
       scheduler, ledger
  <1> QED BY <1>1, <1>2, <1>4, <1>5, <1>6

-----------------------------------------------------------------------------
(* A task given up leaves its mark: a classification on its block, a       *)
(* decision on its offer, which stays unresolved because no other task     *)
(* decides it again.                                                       *)
Unresolved(os, b) ==
    /\ b \in DOMAIN os /\ os[b].decided
    /\ os[b].identity = "pending" \/ os[b].basis = "pending"

AbandonedInv ==
    /\ \A t \in abandoned :
         /\ t.block \in DOMAIN blocks
         /\ t.kind = "classification" => "classification" \in blocks[t.block].reasons
         /\ t.kind = "decision" => Unresolved(offers, t.block)
    /\ \A i \in 1 .. Len(queue) : queue[i].kind = "decision" =>
         /\ Unresolved(offers, queue[i].block) /\ queue[i] \notin abandoned
         /\ \A j \in 1 .. Len(queue) : queue[j] = queue[i] => j = i
    /\ semantic # NoRequest /\ semantic.task.kind = "decision" =>
         /\ Unresolved(offers, semantic.task.block) /\ semantic.task \notin abandoned
         /\ \A i \in 1 .. Len(queue) : queue[i] # semantic.task

LEMMA AbandonedInit == Init => AbandonedInv
  BY DEF Init, AbandonedInv

(* A step that takes no reason back and no offer's lack of a resolution.   *)
MarksKept ==
    /\ \A b \in DOMAIN blocks :
         b \in DOMAIN blocks' /\ blocks[b].reasons \subseteq blocks'[b].reasons
    /\ \A b \in DOMAIN offers : Unresolved(offers, b) => Unresolved(offers', b)

LEMMA OtherStepsKeepAbandoned ==
    ASSUME AbandonedInv, MarksKept, UNCHANGED <<abandoned, queue>>,
           semantic' # NoRequest => semantic # NoRequest /\ semantic'.task = semantic.task
    PROVE  AbandonedInv'
  <1>1. \A b : Unresolved(offers, b) => Unresolved(offers', b)
    BY DEF MarksKept, Unresolved
  <1> QED BY <1>1 DEF AbandonedInv, MarksKept

LEMMA ReasonsAdded ==
    ASSUME NEW bs, \A b \in DOMAIN bs : bs[b] \in Block, NEW S, NEW reason
    PROVE  /\ \A b \in DOMAIN bs : bs[b].reasons \subseteq AddBlockReason(bs, S, reason)[b].reasons
           /\ \A b \in DOMAIN bs \cap S : reason \in AddBlockReason(bs, S, reason)[b].reasons
  BY DEF AddBlockReason, Block

LEMMA OffersKept ==
    ASSUME NEW iv, offers' = WithOffers(iv)
    PROVE  \A b \in DOMAIN offers : Unresolved(offers, b) => Unresolved(offers', b)
  BY DEF WithOffers, Unresolved

(* The head of the queue leaves it, for a transport or for good.           *)
LEMMA TakesHead ==
    ASSUME TypeInv, AbandonedInv, queue # <<>>, queue' = Tail(queue)
    PROVE  /\ NextTask = queue[1] /\ 1 \in 1 .. Len(queue) /\ NextTask \in Tasks
           /\ \A i \in 1 .. Len(queue') :
                i + 1 \in 1 .. Len(queue) /\ queue'[i] = queue[i + 1]
           /\ NextTask.kind = "decision" => \A i \in 1 .. Len(queue') : queue'[i] # NextTask
           /\ \A i \in 1 .. Len(queue') : queue'[i].kind = "decision" =>
                /\ Unresolved(offers, queue'[i].block) /\ queue'[i] \notin abandoned
                /\ queue'[i] # NextTask
                /\ \A j \in 1 .. Len(queue') : queue'[j] = queue'[i] => j = i
  <1>1. queue \in Seq(Tasks)
    BY DEF TypeInv, TypeOK, SchedulerOK
  <1>2. /\ NextTask = queue[1] /\ 1 \in 1 .. Len(queue) /\ NextTask \in Tasks
        /\ \A i \in 1 .. Len(queue') :
             i + 1 \in 1 .. Len(queue) /\ queue'[i] = queue[i + 1] /\ i + 1 # 1
    BY <1>1 DEF NextTask
  <1>3. ASSUME NEW i \in 1 .. Len(queue'), queue'[i].kind = "decision"
        PROVE  /\ Unresolved(offers, queue'[i].block) /\ queue'[i] \notin abandoned
               /\ queue'[i] # NextTask
               /\ \A j \in 1 .. Len(queue') : queue'[j] = queue'[i] => j = i
    <2>1. /\ i + 1 \in 1 .. Len(queue) /\ queue'[i] = queue[i + 1] /\ i + 1 # 1
      BY <1>2, <1>3
    <2>2. /\ Unresolved(offers, queue[i + 1].block) /\ queue[i + 1] \notin abandoned
          /\ \A j \in 1 .. Len(queue) : queue[j] = queue[i + 1] => j = i + 1
      BY <1>3, <2>1 DEF AbandonedInv
    <2>3. ASSUME NEW j \in 1 .. Len(queue'), queue'[j] = queue'[i] PROVE j = i
      <3>1. j + 1 \in 1 .. Len(queue) /\ queue[j + 1] = queue[i + 1]
        BY <1>2, <2>1, <2>3
      <3>2. j + 1 = i + 1
        BY <2>2, <3>1
      <3> QED BY <3>2
    <2> QED BY <1>2, <2>1, <2>2, <2>3
  <1> QED BY <1>2, <1>3

LEMMA StartSemanticAbandoned ==
    ASSUME TypeInv, AbandonedInv, StartSemantic PROVE AbandonedInv'
  <1>1. /\ queue # <<>> /\ queue' = Tail(queue) /\ semantic'.task = NextTask
        /\ UNCHANGED <<blocks, offers, abandoned>>
    BY DEF StartSemantic, MayAsk, ledger
  <1>2. \A b : Unresolved(offers', b) <=> Unresolved(offers, b)
    BY <1>1 DEF Unresolved
  <1>3. NextTask.kind = "decision" => Unresolved(offers, NextTask.block) /\ NextTask \notin abandoned
    BY <1>1, TakesHead DEF AbandonedInv
  <1> QED BY <1>1, <1>2, <1>3, TakesHead DEF AbandonedInv

LEMMA DeferSemanticAbandoned ==
    ASSUME TypeInv, AbandonedInv, DeferSemantic PROVE AbandonedInv'
  <1>1. /\ queue # <<>> /\ queue' = Tail(queue) /\ semantic' = NoRequest
        /\ abandoned' = abandoned \cup {NextTask}
        /\ blocks' = IF NextTask.kind = "classification"
                     THEN AddBlockReason(blocks, {NextTask.block}, "classification")
                     ELSE blocks
        /\ UNCHANGED offers
    BY DEF DeferSemantic, MayAsk
  <1>2. \A b : Unresolved(offers', b) <=> Unresolved(offers, b)
    BY <1>1 DEF Unresolved
  <1>3. /\ NextTask.kind = "decision" => Unresolved(offers, NextTask.block)
        /\ NextTask.block \in DOMAIN blocks
    BY <1>1, TakesHead DEF AbandonedInv, TypeInv, TasksKnown
  <1>4. /\ DOMAIN blocks' = DOMAIN blocks
        /\ \A b \in DOMAIN blocks : blocks[b].reasons \subseteq blocks'[b].reasons
        /\ NextTask.kind = "classification" =>
             "classification" \in blocks'[NextTask.block].reasons
    <2>1. \A b \in DOMAIN blocks : blocks[b] \in Block
      BY DEF TypeInv, TypeOK, LedgerOK
    <2>2. CASE NextTask.kind = "classification"
      BY <1>1, <1>3, <2>1, <2>2, ReasonsAdded, ReasonKeepsVersions
    <2>3. CASE NextTask.kind # "classification"
      BY <1>1, <2>3
    <2> QED BY <2>2, <2>3
  <1>5. \A t \in abandoned' :
          /\ t.block \in DOMAIN blocks'
          /\ t.kind = "classification" => "classification" \in blocks'[t.block].reasons
          /\ t.kind = "decision" => Unresolved(offers', t.block)
    BY <1>1, <1>2, <1>3, <1>4 DEF AbandonedInv
  <1>6. \A i \in 1 .. Len(queue') : queue'[i].kind = "decision" =>
         /\ Unresolved(offers', queue'[i].block) /\ queue'[i] \notin abandoned'
         /\ \A j \in 1 .. Len(queue') : queue'[j] = queue'[i] => j = i
    BY <1>1, <1>2, TakesHead
  <1> QED BY <1>1, <1>5, <1>6 DEF AbandonedInv

LEMMA SemanticFailedAbandoned ==
    ASSUME TypeInv, AbandonedInv, SemanticFailed PROVE AbandonedInv'
  <1> DEFINE task == semantic.task
  <1>1. /\ semantic.state = "collected" /\ semantic' = NoRequest
        /\ abandoned' = abandoned \cup {task}
        /\ blocks' = IF task.kind = "classification"
                     THEN AddBlockReason(blocks, {task.block}, "classification")
                     ELSE blocks
        /\ UNCHANGED <<queue, offers>>
    BY DEF SemanticFailed, TakeSemantic
  <1>2. \A b : Unresolved(offers', b) <=> Unresolved(offers, b)
    BY <1>1 DEF Unresolved
  <1>3. semantic # NoRequest
    BY <1>1, Running
  <1>4. /\ task.kind = "decision" => Unresolved(offers, task.block)
        /\ task.kind = "decision" => \A i \in 1 .. Len(queue) : queue[i] # task
        /\ task.block \in DOMAIN blocks
    BY <1>3 DEF AbandonedInv, TypeInv, TasksKnown
  <1>5. /\ DOMAIN blocks' = DOMAIN blocks
        /\ \A b \in DOMAIN blocks : blocks[b].reasons \subseteq blocks'[b].reasons
        /\ task.kind = "classification" =>
             "classification" \in blocks'[task.block].reasons
    <2>1. \A b \in DOMAIN blocks : blocks[b] \in Block
      BY DEF TypeInv, TypeOK, LedgerOK
    <2> HIDE DEF task
    <2>2. CASE task.kind = "classification"
      BY <1>1, <1>4, <2>1, <2>2, ReasonsAdded, ReasonKeepsVersions
    <2>3. CASE task.kind # "classification"
      BY <1>1, <2>3
    <2> QED BY <2>2, <2>3
  <1>6. \A t \in abandoned' :
          /\ t.block \in DOMAIN blocks'
          /\ t.kind = "classification" => "classification" \in blocks'[t.block].reasons
          /\ t.kind = "decision" => Unresolved(offers', t.block)
    BY <1>1, <1>2, <1>4, <1>5 DEF AbandonedInv
  <1>7. \A i \in 1 .. Len(queue') : queue'[i].kind = "decision" =>
         /\ Unresolved(offers', queue'[i].block) /\ queue'[i] \notin abandoned'
         /\ \A j \in 1 .. Len(queue') : queue'[j] = queue'[i] => j = i
    BY <1>1, <1>2, <1>4 DEF AbandonedInv
  <1> QED BY <1>1, <1>6, <1>7 DEF AbandonedInv

(* Without a POST there is no full answer, and the block is marked.        *)
LEMMA ClassificationAnsweredAbandoned ==
    ASSUME TypeInv, AbandonedInv, ClassificationAnswered PROVE AbandonedInv'
  <1> DEFINE task == semantic.task
  <1>1. /\ semantic.state = "collected" /\ semantic' = NoRequest
        /\ task.kind = "classification"
        /\ abandoned' = IF semantic.posts = 0 THEN abandoned \cup {task} ELSE abandoned
        /\ UNCHANGED queue
    BY DEF ClassificationAnswered, SemanticAnswered, TakeSemantic
  <1>2. semantic # NoRequest /\ task.block \in DOMAIN blocks /\ semantic.posts \in Nat
    BY <1>1, Running DEF TypeInv, TasksKnown
  <1>3. PICK says \in Interpretations, full \in BOOLEAN :
          LET iv == [x \in {task.block} |-> says]
          IN  /\ full => semantic.posts > 0
              /\ blocks' = IF full THEN WithDoubts(blocks, iv)
                           ELSE AddBlockReason(WithDoubts(blocks, iv),
                                               {task.block}, "classification")
              /\ offers' = WithOffers(iv)
    BY DEF ClassificationAnswered
  <1> DEFINE iv == [x \in {task.block} |-> says]
             doubted == WithDoubts(blocks, iv)
  <1>4. /\ DOMAIN doubted = DOMAIN blocks
        /\ \A b \in DOMAIN doubted : doubted[b] \in Block
        /\ \A b \in DOMAIN blocks : blocks[b].reasons \subseteq doubted[b].reasons
    <2>1. \A b \in DOMAIN blocks : blocks[b] \in Block
      BY DEF TypeInv, TypeOK, LedgerOK
    <2> QED BY <2>1, ReasonsAdded, AddBlockReasonOK DEF WithDoubts, BlockReasons
  <1> HIDE DEF doubted, task, iv
  <1>5. /\ DOMAIN blocks' = DOMAIN blocks
        /\ \A b \in DOMAIN blocks : blocks[b].reasons \subseteq blocks'[b].reasons
        /\ semantic.posts = 0 => "classification" \in blocks'[task.block].reasons
    <2>1. CASE full
      BY <1>2, <1>3, <1>4, <2>1 DEF doubted, iv
    <2>2. CASE ~full
      <3>1. blocks' = AddBlockReason(doubted, {task.block}, "classification")
        BY <1>3, <2>2 DEF doubted, iv
      <3> QED BY <1>2, <1>4, <3>1, ReasonsAdded, ReasonKeepsVersions
    <2> QED BY <2>1, <2>2
  <1>6. \A b : Unresolved(offers, b) => Unresolved(offers', b)
    BY <1>3, OffersKept DEF Unresolved, iv
  <1>7. \A t \in abandoned' :
          /\ t.block \in DOMAIN blocks'
          /\ t.kind = "classification" => "classification" \in blocks'[t.block].reasons
          /\ t.kind = "decision" => Unresolved(offers', t.block)
    BY <1>1, <1>2, <1>5, <1>6 DEF AbandonedInv
  <1>8. \A i \in 1 .. Len(queue') : queue'[i].kind = "decision" =>
         /\ Unresolved(offers', queue'[i].block) /\ queue'[i] \notin abandoned'
         /\ \A j \in 1 .. Len(queue') : queue'[j] = queue'[i] => j = i
    BY <1>1, <1>6 DEF AbandonedInv
  <1> QED BY <1>1, <1>7, <1>8 DEF AbandonedInv

(* The decision changes no other offer a task or the ledger speaks of;     *)
(* without a POST it resolves nothing.                                     *)
LEMMA DecisionAnsweredAbandoned ==
    ASSUME TypeInv, AbandonedInv, DecisionAnswered PROVE AbandonedInv'
  <1> DEFINE task == semantic.task
             b == task.block
  <1>1. /\ semantic.state = "collected" /\ semantic' = NoRequest
        /\ task.kind = "decision"
        /\ abandoned' = IF semantic.posts = 0 THEN abandoned \cup {task} ELSE abandoned
        /\ UNCHANGED <<queue, blocks>>
    BY DEF DecisionAnswered, SemanticAnswered, TakeSemantic
  <1>2. semantic # NoRequest /\ task \in Tasks /\ b \in DOMAIN blocks
    BY <1>1, Running, PendingRequest DEF TypeInv, TypeOK, TasksKnown
  <1>3. /\ Unresolved(offers, b) /\ task \notin abandoned
        /\ \A i \in 1 .. Len(queue) : queue[i] # task
    BY <1>1, <1>2 DEF AbandonedInv
  <1>4. PICK a \in Assessments :
          /\ Assesses(a, offers[b])
          /\ semantic.posts = 0 => a.route # "resolved"
          /\ offers' = [offers EXCEPT ![b] = Assessed(a, @)]
    BY DEF DecisionAnswered
  <1>5. \A x : x # b /\ Unresolved(offers, x) => Unresolved(offers', x)
    BY <1>4 DEF Unresolved
  <1>6. semantic.posts = 0 => Unresolved(offers', b)
    <2>1. offers[b] \in Offer /\ b \in DOMAIN offers
      BY <1>3 DEF Unresolved, TypeInv, TypeOK, LedgerOK
    <2>2. /\ Assessed(a, offers[b]).decided = TRUE
          /\ Assessed(a, offers[b]).identity = a.identity
          /\ Assessed(a, offers[b]).basis = a.basis
      BY <2>1 DEF Assessed, Offer
    <2>3. b \in DOMAIN offers' /\ offers'[b] = Assessed(a, offers[b])
      BY <1>4, <2>1
    <2>4. semantic.posts = 0 => a.identity = "pending" \/ a.basis = "pending"
      BY <1>4 DEF Assesses, Resolved
    <2> QED BY <2>2, <2>3, <2>4 DEF Unresolved
  <1>7. /\ queue \in Seq(Tasks) /\ abandoned \subseteq Tasks
    BY DEF TypeInv, TypeOK, SchedulerOK, LedgerOK
  <1>8. \A t \in Tasks : t.kind = "decision" /\ t # task => t.block # b
    BY <1>1, <1>2 DEF Tasks
  <1> HIDE DEF task, b
  <1>9. \A t \in abandoned' :
          /\ t.block \in DOMAIN blocks'
          /\ t.kind = "classification" => "classification" \in blocks'[t.block].reasons
          /\ t.kind = "decision" => Unresolved(offers', t.block)
    <2> SUFFICES ASSUME NEW t \in abandoned'
                 PROVE  /\ t.block \in DOMAIN blocks'
                        /\ t.kind = "classification" =>
                             "classification" \in blocks'[t.block].reasons
                        /\ t.kind = "decision" => Unresolved(offers', t.block)
      OBVIOUS
    <2>1. CASE t \in abandoned
      <3>1. t \in Tasks /\ t # task
        BY <1>3, <1>7, <2>1
      <3> QED BY <1>1, <1>5, <1>8, <2>1, <3>1 DEF AbandonedInv
    <2>2. CASE t \notin abandoned
      <3>1. t = task /\ semantic.posts = 0
        BY <1>1, <2>2
      <3> QED BY <1>1, <1>2, <1>6, <3>1 DEF b
    <2> QED BY <2>1, <2>2
  <1>10. ASSUME NEW i \in 1 .. Len(queue'), queue'[i].kind = "decision"
         PROVE  /\ Unresolved(offers', queue'[i].block) /\ queue'[i] \notin abandoned'
                /\ \A j \in 1 .. Len(queue') : queue'[j] = queue'[i] => j = i
    <2>1. /\ queue' = queue /\ queue[i] \in Tasks /\ queue[i] # task
          /\ i \in 1 .. Len(queue) /\ queue[i].kind = "decision"
      BY <1>1, <1>3, <1>7, <1>10
    <2>2. queue[i].block # b
      BY <1>8, <2>1
    <2>3. /\ Unresolved(offers, queue[i].block) /\ queue[i] \notin abandoned
          /\ \A j \in 1 .. Len(queue) : queue[j] = queue[i] => j = i
      BY <2>1 DEF AbandonedInv
    <2> QED BY <1>1, <1>5, <2>1, <2>2, <2>3
  <1> QED BY <1>1, <1>9, <1>10 DEF AbandonedInv

(* The blocks of a read are new, so that no mark is overwritten.           *)
LEMMA ReadSucceededAbandoned ==
    ASSUME TypeInv, FreshInv, AbandonedInv, NEW chunk \in collected, ReadSucceeded(chunk)
    PROVE  AbandonedInv'
  <1>1. chunk \in reads /\ pc \in Working /\ UNCHANGED semantic
    BY DEF ReadSucceeded, TakeRead, TypeInv, CoverageInv, Working
  <1>2. PICK report \in [PagesOf(chunk) -> PageReports] :
          InterpretRead(chunk, report) \/ ClassifyRead(chunk, report)
    BY DEF ReadSucceeded
  <1> DEFINE arrived == Arrived(chunk, report)
             new == BlocksOf(chunk, report)
             sound == Sound(chunk, report)
  <1>3. /\ DOMAIN arrived = DOMAIN blocks \cup new
        /\ \A b \in DOMAIN arrived : arrived[b] \in Block
        /\ \A b \in DOMAIN blocks \ new : arrived[b] = blocks[b]
        /\ sound \subseteq new /\ IsFiniteSet(new) /\ new \subseteq BlockIds
    BY <1>1, ArrivedOK, NewBlocks DEF Arrived, Sound
  <1>4. \A b \in DOMAIN blocks : b \notin new
    BY <1>1 DEF FreshInv, Unread, BlocksOf
  <1> HIDE DEF arrived, new, sound
  <1>5. PICK S, reason : blocks' = AddBlockReason(arrived, S, reason)
    <2>1. CASE InterpretRead(chunk, report)
      <3>1. PICK iv : blocks' = WithDoubts(arrived, iv)
        BY <2>1, Zenon DEF InterpretRead, arrived
      <3> QED BY <3>1, Zenon DEF WithDoubts
    <2>2. CASE ClassifyRead(chunk, report)
      BY <2>2, Zenon DEF ClassifyRead, arrived
    <2> QED BY <1>2, <2>1, <2>2
  <1>6. \A b \in DOMAIN blocks :
          b \in DOMAIN blocks' /\ blocks[b].reasons \subseteq blocks'[b].reasons
    BY <1>3, <1>4, <1>5, ReasonsAdded, ReasonKeepsVersions
  <1>7. CASE InterpretRead(chunk, report)
    <2>1. PICK iv : offers' = WithOffers(iv)
      BY <1>7, Zenon DEF InterpretRead
    <2>2. UNCHANGED <<queue, abandoned>>
      BY <1>7 DEF InterpretRead
    <2>3. MarksKept
      BY <1>6, <2>1, OffersKept DEF MarksKept
    <2> QED BY <1>1, <2>2, <2>3, OtherStepsKeepAbandoned
  <1>8. CASE ClassifyRead(chunk, report)
    <2>1. PICK rejected \in SUBSET sound :
            /\ blocks' = AddBlockReason(arrived, rejected, "classification")
            /\ abandoned' = abandoned \cup
                  {[kind |-> "classification", block |-> b] : b \in rejected}
            /\ Enqueue("classification", sound \ rejected)
            /\ UNCHANGED offers
      BY <1>8 DEF ClassifyRead, arrived, sound
    <2>2. \A b : Unresolved(offers', b) <=> Unresolved(offers, b)
      BY <2>1 DEF Unresolved
    <2>3. \A b \in rejected : b \in DOMAIN blocks' /\ "classification" \in blocks'[b].reasons
      BY <1>3, <2>1, ReasonsAdded, ReasonKeepsVersions
    <2>4. \A t \in abandoned' :
            /\ t.block \in DOMAIN blocks'
            /\ t.kind = "classification" => "classification" \in blocks'[t.block].reasons
            /\ t.kind = "decision" => Unresolved(offers', t.block)
      BY <1>6, <2>1, <2>2, <2>3 DEF AbandonedInv
    <2>5. /\ queue \in Seq(Tasks) /\ "classification" \in Kinds \ {"reading"}
          /\ sound \ rejected \in SUBSET BlockIds /\ IsFiniteSet(sound \ rejected)
      BY <1>3, FS_Subset DEF TypeInv, TypeOK, SchedulerOK, Kinds
    <2>6. \A i \in 1 .. Len(queue') :
            \/ i \in 1 .. Len(queue) /\ queue'[i] = queue[i]
            \/ queue'[i].kind = "classification"
      BY <2>1, <2>5, EnqueueOK
    <2>7. ASSUME NEW i \in 1 .. Len(queue'), queue'[i].kind = "decision"
          PROVE  /\ Unresolved(offers', queue'[i].block) /\ queue'[i] \notin abandoned'
                 /\ \A j \in 1 .. Len(queue') : queue'[j] = queue'[i] => j = i
      <3>1. i \in 1 .. Len(queue) /\ queue'[i] = queue[i] /\ queue[i].kind = "decision"
        BY <2>6, <2>7
      <3>2. /\ Unresolved(offers, queue[i].block) /\ queue[i] \notin abandoned
            /\ \A j \in 1 .. Len(queue) : queue[j] = queue[i] => j = i
        BY <3>1 DEF AbandonedInv
      <3>3. queue[i] \notin abandoned'
        BY <2>1, <3>1, <3>2
      <3>4. ASSUME NEW j \in 1 .. Len(queue'), queue'[j] = queue'[i] PROVE j = i
        BY <2>6, <2>7, <3>1, <3>2, <3>4
      <3> QED BY <2>2, <3>1, <3>2, <3>3, <3>4
    <2>8. semantic # NoRequest /\ semantic.task.kind = "decision" =>
            /\ Unresolved(offers', semantic.task.block) /\ semantic.task \notin abandoned'
            /\ \A i \in 1 .. Len(queue') : queue'[i] # semantic.task
      BY <2>1, <2>2, <2>6 DEF AbandonedInv
    <2> QED BY <1>1, <2>4, <2>7, <2>8 DEF AbandonedInv
  <1> QED BY <1>2, <1>7, <1>8

(* Only offers not yet decided get a task or are given up, each once.      *)
LEMMA DecideOffersAbandoned ==
    ASSUME TypeInv, AbandonedInv, DecideOffers PROVE AbandonedInv'
  <1>1. PICK a \in [Undecided -> Assessments] :
          /\ \A b \in Undecided : Assesses(a[b], offers[b])
          /\ offers' = [b \in DOMAIN offers |->
                          IF b \in Undecided THEN Assessed(a[b], offers[b]) ELSE offers[b]]
          /\ Enqueue("decision", {b \in Undecided : a[b].route = "needs_jev"})
          /\ abandoned' = abandoned \cup
               {[kind |-> "decision", block |-> b] :
                   b \in {u \in Undecided : a[u].route = "local_rejection"}}
    BY DEF DecideOffers
  <1> DEFINE asked == {b \in Undecided : a[b].route = "needs_jev"}
             refused == {u \in Undecided : a[u].route = "local_rejection"}
             given == {[kind |-> "decision", block |-> b] : b \in refused}
  <1>2. UNCHANGED <<semantic, blocks>>
    BY DEF DecideOffers
  <1>3. /\ Undecided \subseteq DOMAIN offers /\ Undecided \subseteq DOMAIN blocks
        /\ Undecided \subseteq BlockIds /\ IsFiniteSet(DOMAIN blocks)
        /\ \A b \in Undecided : offers[b] \in Offer /\ ~Unresolved(offers, b)
    BY DEF Undecided, TypeInv, TypeOK, LedgerOK, Unresolved
  <1>4. \A b : Unresolved(offers, b) => Unresolved(offers', b)
    BY <1>1, <1>3 DEF Unresolved
  <1>5. ASSUME NEW b \in Undecided, a[b].route # "resolved" PROVE Unresolved(offers', b)
    <2>1. /\ Assessed(a[b], offers[b]).decided = TRUE
          /\ Assessed(a[b], offers[b]).identity = a[b].identity
          /\ Assessed(a[b], offers[b]).basis = a[b].basis
      BY <1>3 DEF Assessed, Offer
    <2>2. a[b].identity = "pending" \/ a[b].basis = "pending"
      BY <1>1, <1>5 DEF Assesses, Resolved
    <2>3. b \in DOMAIN offers' /\ offers'[b] = Assessed(a[b], offers[b])
      BY <1>1, <1>3
    <2> QED BY <2>1, <2>2, <2>3 DEF Unresolved
  <1>6. /\ asked \subseteq Undecided /\ refused \subseteq Undecided
        /\ asked \cap refused = {}
        /\ \A b \in asked \cup refused : Unresolved(offers', b)
    BY <1>5
  <1>7. abandoned' = abandoned \cup given
    BY <1>1
  <1>8. /\ Enqueue("decision", asked) /\ "decision" \in Kinds \ {"reading"}
        /\ queue \in Seq(Tasks)
        /\ asked \in SUBSET BlockIds /\ IsFiniteSet(asked)
    <2>1. asked \subseteq DOMAIN blocks
      BY <1>3
    <2> QED BY <1>1, <1>3, <2>1, FS_Subset DEF TypeInv, TypeOK, SchedulerOK, Kinds
  <1>9. \A t \in given : t.kind = "decision" /\ t.block \in refused
    OBVIOUS
  <1> HIDE DEF asked, refused, given
  <1>10. /\ \A i \in 1 .. Len(queue') :
              \/ i \in 1 .. Len(queue) /\ queue'[i] = queue[i]
              \/ /\ i \notin 1 .. Len(queue)
                 /\ queue'[i].kind = "decision" /\ queue'[i].block \in asked
         /\ \A i, j \in 1 .. Len(queue') :
              i \notin 1 .. Len(queue) /\ j \notin 1 .. Len(queue) /\ queue'[i] = queue'[j]
                => i = j
    BY <1>8, EnqueueOK
  <1>11. \A t \in abandoned' :
          /\ t.block \in DOMAIN blocks'
          /\ t.kind = "classification" => "classification" \in blocks'[t.block].reasons
          /\ t.kind = "decision" => Unresolved(offers', t.block)
    BY <1>2, <1>3, <1>4, <1>6, <1>7, <1>9 DEF AbandonedInv
  <1>12. \A t \in abandoned : t.kind = "decision" => t.block \notin Undecided
    BY <1>3 DEF AbandonedInv
  <1>13. ASSUME NEW i \in 1 .. Len(queue'), queue'[i].kind = "decision"
         PROVE  /\ Unresolved(offers', queue'[i].block) /\ queue'[i] \notin abandoned'
                /\ \A j \in 1 .. Len(queue') : queue'[j] = queue'[i] => j = i
    <2>1. CASE i \in 1 .. Len(queue)
      <3>1. /\ queue'[i] = queue[i] /\ Unresolved(offers, queue[i].block)
            /\ queue[i] \notin abandoned
            /\ \A j \in 1 .. Len(queue) : queue[j] = queue[i] => j = i
        BY <1>10, <1>13, <2>1 DEF AbandonedInv
      <3>2. queue[i].block \notin Undecided
        BY <1>3, <3>1
      <3>3. queue[i] \notin given
        BY <1>6, <1>9, <3>2
      <3>4. ASSUME NEW j \in 1 .. Len(queue'), queue'[j] = queue'[i] PROVE j = i
        <4>1. j \in 1 .. Len(queue)
          BY <1>6, <1>10, <3>1, <3>2, <3>4
        <4> QED BY <1>10, <3>1, <3>4, <4>1
      <3> QED BY <1>4, <1>7, <3>1, <3>3, <3>4
    <2>2. CASE i \notin 1 .. Len(queue)
      <3>1. queue'[i].block \in asked /\ queue'[i].kind = "decision"
        BY <1>10, <2>2
      <3>2. queue'[i] \notin abandoned'
        BY <1>6, <1>7, <1>9, <1>12, <3>1
      <3>3. ASSUME NEW j \in 1 .. Len(queue'), queue'[j] = queue'[i] PROVE j = i
        <4>1. CASE j \in 1 .. Len(queue)
          <5>1. queue[j] = queue'[i]
            BY <1>10, <3>3, <4>1
          <5>2. Unresolved(offers, queue[j].block)
            BY <3>1, <4>1, <5>1 DEF AbandonedInv
          <5> QED BY <1>3, <1>6, <3>1, <5>1, <5>2
        <4>2. CASE j \notin 1 .. Len(queue)
          BY <1>10, <2>2, <3>3, <4>2
        <4> QED BY <4>1, <4>2
      <3> QED BY <1>6, <3>1, <3>2, <3>3
    <2> QED BY <2>1, <2>2
  <1>14. semantic # NoRequest /\ semantic.task.kind = "decision" =>
            /\ Unresolved(offers', semantic.task.block) /\ semantic.task \notin abandoned'
            /\ \A i \in 1 .. Len(queue') : queue'[i] # semantic.task
    <2> SUFFICES ASSUME semantic # NoRequest, semantic.task.kind = "decision"
                 PROVE  /\ Unresolved(offers', semantic.task.block) /\ semantic.task \notin abandoned'
                        /\ \A i \in 1 .. Len(queue') : queue'[i] # semantic.task
      OBVIOUS
    <2>1. /\ Unresolved(offers, semantic.task.block) /\ semantic.task \notin abandoned
          /\ \A i \in 1 .. Len(queue) : queue[i] # semantic.task
      BY DEF AbandonedInv
    <2>2. semantic.task.block \notin Undecided
      BY <1>3, <2>1
    <2>3. semantic.task \notin given
      BY <1>6, <1>9, <2>2
    <2>4. \A i \in 1 .. Len(queue') : queue'[i] # semantic.task
      BY <1>6, <1>10, <2>1, <2>2
    <2>5. Unresolved(offers', semantic.task.block)
      BY <1>2, <1>4, <2>1
    <2> QED BY <1>7, <2>1, <2>3, <2>4, <2>5
  <1> QED BY <1>2, <1>11, <1>13, <1>14 DEF AbandonedInv

LEMMA AbandonedStep ==
    ASSUME TypeInv, FreshInv, AbandonedInv, [Next]_vars PROVE AbandonedInv'
  <1>1. CASE \/ StartSemantic \/ DeferSemantic \/ SemanticFailed
             \/ ClassificationAnswered \/ DecisionAnswered \/ DecideOffers
    BY <1>1, StartSemanticAbandoned, DeferSemanticAbandoned, SemanticFailedAbandoned,
       ClassificationAnsweredAbandoned, DecisionAnsweredAbandoned, DecideOffersAbandoned
  <1>2. ASSUME NEW chunk \in collected, ReadSucceeded(chunk) PROVE AbandonedInv'
    BY <1>2, ReadSucceededAbandoned
  <1>3. CASE Finalize
    <2>1. UNCHANGED <<queue, semantic, offers, abandoned>>
          /\ blocks' = AddBlockReason(blocks, Regressed, "reread_quality_regression")
      BY <1>3 DEF Finalize
    <2>2. \A b \in DOMAIN blocks : blocks[b] \in Block
      BY DEF TypeInv, TypeOK, LedgerOK
    <2>3. MarksKept
      BY <2>1, <2>2, ReasonsAdded, ReasonKeepsVersions DEF MarksKept, Unresolved
    <2> QED BY <2>1, <2>3, OtherStepsKeepAbandoned
  <1>4. CASE Collect \/ SemanticReturns \/ Post
    <2>1. UNCHANGED <<queue, blocks, offers, abandoned>>
      BY <1>4 DEF Collect, SemanticReturns, Post, ledger
    <2>2. semantic' # NoRequest => semantic # NoRequest /\ semantic'.task = semantic.task
      <3>1. semantic' = semantic \/ semantic.state # "none"
        BY <1>4 DEF Collect, SemanticReturns, Post
      <3>2. CASE semantic' = semantic
        BY <3>2
      <3>3. CASE semantic.state # "none"
        <4>1. semantic \in Request /\ semantic # NoRequest
          BY <3>3, Running
        <4>2. semantic'.task = semantic.task
          BY <1>4, <4>1 DEF Collect, SemanticReturns, Post, Request
        <4> QED BY <4>1, <4>2
      <3> QED BY <3>1, <3>2, <3>3
    <2>3. MarksKept
      BY <2>1 DEF MarksKept, Unresolved
    <2> QED BY <2>1, <2>2, <2>3, OtherStepsKeepAbandoned
  <1>5. CASE UNCHANGED <<queue, semantic, blocks, offers, abandoned>>
    <2>1. MarksKept
      BY <1>5 DEF MarksKept, Unresolved
    <2> QED BY <1>5, <2>1, OtherStepsKeepAbandoned
  <1>6. \/ StartSemantic \/ DeferSemantic \/ SemanticFailed
        \/ ClassificationAnswered \/ DecisionAnswered \/ DecideOffers \/ Finalize
        \/ Collect \/ SemanticReturns \/ Post
        \/ (\E chunk \in collected : ReadSucceeded(chunk))
        \/ UNCHANGED <<queue, semantic, blocks, offers, abandoned>>
    BY NextCases DEF StartBatch, EndBatches, SubmitRead, StopReading, WaitForTransport,
       EndPipeline, ReadFailed, TakeRead, EndCollect, DecideFails, JoinTransports,
       SkipPage, StartReread, MetadataTooLarge, ReadReturns, DeadlinePasses, vars,
       scheduler, ledger
  <1> QED BY <1>1, <1>2, <1>3, <1>4, <1>5, <1>6

LEMMA FinalizeCompletes ==
    ASSUME TypeInv, VersionsInv, AbandonedInv, Finalize PROVE CompletedMeansDone'
  <1> SUFFICES ASSUME pc' = "completed"
               PROVE  /\ initialDone' = Pages
                      /\ \A b \in published' :
                           offers'[b].identity # "pending" /\ offers'[b].basis # "pending"
                      /\ \A t \in abandoned' :
                           \E n \in published' : t.block \in blocks'[n].supersedes
    BY DEF CompletedMeansDone
  <1>1. /\ published' = Publishable
        /\ pendingBlocks' = {b \in Current : blocks'[b].reasons # {} \/ b \notin Publishable}
        /\ blocks' = AddBlockReason(blocks, Regressed, "reread_quality_regression")
        /\ UNCHANGED <<offers, abandoned, initialDone>>
    BY DEF Finalize, pages
  <1>2. Complete(pendingBlocks')
    BY DEF Finalize
  <1>3. initialDone' = Pages
    BY <1>1, <1>2 DEF Complete, TypeInv, TypeOK, PagesOK
  <1>4. \A b \in published' :
          offers'[b].identity # "pending" /\ offers'[b].basis # "pending"
    BY <1>1, <1>2 DEF Complete, Publishable
  <1>5. ASSUME NEW t \in abandoned'
        PROVE  \E n \in published' : t.block \in blocks'[n].supersedes
    <2> DEFINE b == t.block
    <2>1. b \in DOMAIN blocks /\ DOMAIN blocks' = DOMAIN blocks
      BY <1>1, MarksKeepVersions DEF AbandonedInv, SameVersions
    <2>2. b \notin published'
      <3> SUFFICES ASSUME b \in published' PROVE FALSE
        OBVIOUS
      <3>1. b \in Current
        BY <1>1 DEF Publishable, Visible
      <3>2. t \in Tasks /\ t \in abandoned
        BY <1>1 DEF TypeInv, TypeOK, LedgerOK
      <3>3. CASE t.kind = "classification"
        <4>1. blocks[b].reasons # {}
          BY <3>2, <3>3 DEF AbandonedInv
        <4>2. \A x \in DOMAIN blocks : blocks[x] \in Block
          BY DEF TypeInv, TypeOK, LedgerOK
        <4>3. blocks'[b].reasons # {}
          BY <1>1, <2>1, <4>1, <4>2, ReasonsAdded
        <4>4. b \in pendingBlocks'
          BY <1>1, <3>1, <4>3
        <4> QED BY <1>2, <4>4 DEF Complete
      <3>4. CASE t.kind = "decision"
        <4>1. Unresolved(offers, b)
          BY <3>2, <3>4 DEF AbandonedInv
        <4> QED BY <1>1, <1>4, <4>1 DEF Unresolved
      <3> QED BY <3>2, <3>3, <3>4 DEF Tasks, Kinds
    <2>3. b \notin pendingBlocks'
      BY <1>2 DEF Complete
    <2>4. EvidenceConserved' /\ pc' \in {"completed", "partial"}
      BY FinalizeConserves
    <2> QED BY <2>1, <2>2, <2>3, <2>4 DEF EvidenceConserved
  <1> QED BY <1>3, <1>4, <1>5

(* finalize: for every PDF, quota and failure, "completed" leaves nothing  *)
(* undone: every page was read, every published offer is resolved, and a   *)
(* task given up concerned a version that a published one replaced.        *)
THEOREM CompletionSound == Spec => []CompletedMeansDone
  <1>1. Init => CompletedMeansDone
    BY DEF Init, CompletedMeansDone
  <1>2. TypeInv /\ VersionsInv /\ AbandonedInv /\ CompletedMeansDone /\ [Next]_vars
        => CompletedMeansDone'
    <2> SUFFICES ASSUME TypeInv, VersionsInv, AbandonedInv, CompletedMeansDone, [Next]_vars
                 PROVE  CompletedMeansDone'
      OBVIOUS
    <2>1. CASE Finalize
      BY <2>1, FinalizeCompletes
    <2>2. CASE pc' # "completed"
      BY <2>2 DEF CompletedMeansDone
    <2>3. CASE UNCHANGED <<pc, pages, ledger>>
      BY <2>3 DEF CompletedMeansDone, pages, ledger, Pages
    <2>4. Finalize \/ pc' # "completed" \/ UNCHANGED <<pc, pages, ledger>>
      BY NextCases DEF StartBatch, EndBatches, SubmitRead, StopReading, StartSemantic,
         DeferSemantic, WaitForTransport, Collect, EndPipeline, ReadFailed, ReadSucceeded,
         TakeRead, SemanticFailed, ClassificationAnswered, DecisionAnswered,
         SemanticAnswered, TakeSemantic, EndCollect, DecideOffers, DecideFails,
         JoinTransports, SkipPage, StartReread, MetadataTooLarge, SemanticReturns, Post,
         ReadReturns, DeadlinePasses, vars, scheduler
    <2> QED BY <2>1, <2>2, <2>3, <2>4
  <1> DEFINE Inv == DrainInv /\ PaidInv /\ VersionsInv /\ FreshInv /\ AbandonedInv
  <1>3. TypeInv /\ Inv /\ [Next]_vars => Inv'
    BY DrainStep, PaidStep, VersionsStep, FreshStep, AbandonedStep
  <1>4. Init => Inv
    BY DrainInit, PaidInit, VersionsInit, FreshInit, AbandonedInit
  <1>5. Inv => VersionsInv /\ AbandonedInv
    OBVIOUS
  <1> HIDE DEF Inv
  <1> QED BY <1>1, <1>2, <1>3, <1>4, <1>5, TypeInvariant, PTL DEF Spec
=============================================================================
