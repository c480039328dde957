------------------------------ MODULE JevClient ------------------------------
(***************************************************************************)
(* JevAnalysisProvider and the JevAnalysisClient it posts with.  A worker  *)
(* asks the provider about a block or an offer; the provider validates the *)
(* request, cuts its questions into partitions that fit the wire limits    *)
(* and evaluates them one after the other.  An evaluation waits for a slot *)
(* of the client's semaphore, checks the clock again, reserves the call    *)
(* under the client's lock, posts, and reads the reply against the         *)
(* deadline that was fixed before the wait.                                *)
(*                                                                         *)
(* The budget of the analysis (reserve_call) is the environment: it may    *)
(* refuse any call.  Sizes stand for encoded bytes, and an answer is       *)
(* valid, invalid or missing: the tests of types, options and              *)
(* probabilities only tell valid from invalid.                             *)
(***************************************************************************)
EXTENDS Integers, FiniteSets, SequencesExt

CONSTANTS
    Workers,        \* the threads that share one client
    Runs,           \* (business, run) pairs
    Requests,       \* the requests workers make: see Request below
    MaxConcurrency, MaxCalls, MaxQuestions, MaxOptions, MaxBytes,
    Timeout,        \* of one evaluation, its wait for a slot included
    BatchTime,      \* from a batch's start to the deadline it hands down
    MaxClock,       \* bound of the clock
    MaxTotal,       \* bound: no request begins once so many calls were made
    None

ASSUME JevAssumption ==
    /\ IsFiniteSet(Workers)
    /\ {MaxConcurrency, MaxCalls, MaxQuestions} \subseteq Nat \ {0}
    /\ {MaxOptions, MaxBytes, MaxClock, MaxTotal} \subseteq Nat
    /\ {Timeout, BatchTime} \subseteq Nat \ {0}
    /\ None \notin Runs
    /\ \A r \in Requests : r.run \in Runs

(***************************************************************************)
(* A request is [run, subject, questions, expected, candidates]: subject   *)
(* is the run of its block or offer, expected the questions the backend    *)
(* itself would ask of them, candidates the catalog products of an offer,  *)
(* as [id, product, run].  A question is [id, bytes, options].             *)
(***************************************************************************)
VARIABLES
    clock, deadline,
    slots,          \* the semaphore
    callCount, batchStart, errorCount,
    binding,        \* the run the provider serves, None before the first
    granted,        \* reservations the budget has granted
    recorded,       \* ProviderCallRecords returned to the workers
    work            \* what each worker's evaluation has come to

vars == <<clock, deadline, slots, callCount, batchStart, errorCount, binding,
          granted, recorded, work>>
counters == <<callCount, batchStart, granted>>

Stops == {"call_budget_exceeded", "deadline_exceeded"}
TransportErrors == {"transport_error", "TimeoutError"}

ASSUME QuestionAssumption ==
    /\ \A r \in Requests :
          r.questions \in Seq(Range(r.questions)) /\ None \notin Range(r.questions)
    /\ None \notin Stops \cup TransportErrors

Idle == [pc |-> "idle", request |-> None, parts |-> <<>>, begun |-> 0, end |-> 0,
         decided |-> {}, reasons |-> {}]

Init ==
    /\ clock = 0 /\ deadline = BatchTime
    /\ slots = MaxConcurrency
    /\ callCount = 0 /\ batchStart = 0 /\ errorCount = 0
    /\ binding = None
    /\ granted = 0 /\ recorded = 0
    /\ work = [w \in Workers |-> Idle]

-----------------------------------------------------------------------------
(* The request, before anything is sent.                                   *)

Bytes(questions) == FoldSet(LAMBDA q, sum : q.bytes + sum, 0, questions)

\* preflight: None, or the reason why the wire refuses the questions.
Preflight(questions) ==
    CASE questions = {} -> "empty_questions"
      [] Cardinality(questions) > MaxQuestions -> "question_limit"
      [] \E q \in questions : q.options > MaxOptions -> "options_limit"
      [] Bytes(questions) > MaxBytes -> "request_bytes_limit"
      [] OTHER -> None

\* One question joins the current partition or opens the next one; a
\* question that fits in none is refused here.
AddQuestion(acc, q) ==
    LET closed == IF acc.current = {} THEN acc.parts ELSE Append(acc.parts, acc.current)
    IN  IF Preflight(acc.current \cup {q}) = None
        THEN [acc EXCEPT !.current = @ \cup {q}]
        ELSE IF Preflight({q}) = None
             THEN [acc EXCEPT !.parts = closed, !.current = {q}]
             ELSE [parts |-> closed, current |-> {},
                   refused |-> acc.refused \cup {[code |-> Preflight({q}), question |-> q]}]

CutOpen(questions) ==
    FoldLeft(AddQuestion, [parts |-> <<>>, current |-> {}, refused |-> {}], questions)
PartitionsWithoutLast(questions) == CutOpen(questions)
Partitions(questions) ==
    LET acc == CutOpen(questions)
    IN  IF acc.current = {} THEN acc
        ELSE [acc EXCEPT !.parts = Append(@, acc.current)]

\* _validate_offer_refs: the candidates of an offer are its own business's,
\* and none comes twice.
OwnReferences(request) ==
    LET candidates == request.candidates
    IN  /\ request.subject = request.run
        /\ \A i, j \in DOMAIN candidates :
              /\ candidates[i].run = request.run
              /\ i # j => candidates[i].id # candidates[j].id
                          /\ candidates[i].product # candidates[j].product

\* _classification_inputs, _decision_inputs: a subset of the questions the
\* backend would ask, each with the backend's own options, and no question
\* twice; the questions sent are the backend's.
OwnQuestions(request) ==
    LET asked == request.questions
    IN  /\ \A q \in Range(asked) : q \in request.expected
        /\ \A i, j \in DOMAIN asked : i # j => asked[i].id # asked[j].id

Valid(request) == OwnReferences(request) /\ OwnQuestions(request)

-----------------------------------------------------------------------------
(* classify_block and decide_offer.                                        *)

\* The first request binds the provider; one of another run is an error.
Bind(run) ==
    /\ binding \in {None, run}
    /\ binding' = run

Ask(w) == \E request \in Requests :
    /\ work[w].pc \in {"idle", "done"} /\ callCount < MaxTotal
    /\ Bind(request.run)
    /\ Valid(request)
    /\ LET cut == Partitions(request.questions)
       IN  work' = [work EXCEPT ![w] =
              [Idle EXCEPT !.pc = IF cut.parts = <<>> THEN "done" ELSE "next",
                           !.request = request, !.parts = cut.parts,
                           !.reasons = cut.refused]]
    /\ UNCHANGED <<clock, deadline, slots, counters, errorCount, recorded>>

\* ValueError, before or after the provider is bound.
AskRaises(w) == \E request \in Requests :
    /\ work[w].pc \in {"idle", "done"}
    /\ \/ binding \notin {None, request.run} /\ UNCHANGED binding
       \/ Bind(request.run) /\ ~Valid(request)
    /\ work' = [work EXCEPT ![w] = Idle]
    /\ UNCHANGED <<clock, deadline, slots, counters, errorCount, recorded>>

\* start_batch, once every worker of the batch before it has returned.
StartBatch ==
    /\ \A w \in Workers : work[w].pc \in {"idle", "done"}
    /\ batchStart' = callCount
    /\ deadline' = clock + BatchTime
    /\ UNCHANGED <<clock, slots, callCount, errorCount, binding, granted, recorded, work>>

Tick ==
    /\ clock < MaxClock
    /\ clock' = clock + 1
    /\ UNCHANGED <<deadline, slots, counters, errorCount, binding, recorded, work>>

-----------------------------------------------------------------------------
(* One evaluation, and what _evaluate makes of its outcome.                *)

Questions(part, code) == [code : {code}, question : part]

\* The outcome becomes decisions, reasons and, if a call was attempted, its
\* record; a refusal of budget or time ends the request.
Outcome(w, error, answered, wrong) ==
    LET stop == error \in Stops
        rest == IF stop THEN <<>> ELSE Tail(work[w].parts)
    IN  work' = [work EXCEPT ![w] =
            [work[w] EXCEPT
                !.pc = IF rest = <<>> THEN "done" ELSE "next",
                !.parts = rest,
                !.decided = work[w].decided \cup [question : answered, at : {clock},
                                                  begun : {work[w].begun}],
                !.reasons = work[w].reasons \cup Questions(wrong, "invalid_answer")
                              \cup IF error = None THEN {}
                                   ELSE {[code |-> error, question |-> None]}]]

\* The end is fixed before the wait for a slot.
Begin(w) ==
    /\ work[w].pc = "next"
    /\ LET end == IF clock + Timeout < deadline THEN clock + Timeout ELSE deadline
       IN  IF end <= clock
           THEN Outcome(w, "deadline_exceeded", {}, {})
           ELSE work' = [work EXCEPT ![w] =
                            [work[w] EXCEPT !.pc = "waiting", !.begun = clock, !.end = end]]
    /\ UNCHANGED <<clock, deadline, slots, counters, errorCount, binding, recorded>>

AcquireWithItsOwnTimeout(w) ==
    /\ work[w].pc = "waiting" /\ slots > 0
    /\ slots' = slots - 1
    /\ work' = [work EXCEPT ![w] = [work[w] EXCEPT !.pc = "slot", !.end = clock + Timeout]]
    /\ UNCHANGED <<clock, deadline, counters, errorCount, binding, recorded>>
Acquire(w) ==
    /\ work[w].pc = "waiting" /\ slots > 0
    /\ slots' = slots - 1
    /\ work' = [work EXCEPT ![w].pc = "slot"]
    /\ UNCHANGED <<clock, deadline, counters, errorCount, binding, recorded>>

AcquireTimesOut(w) ==
    /\ work[w].pc = "waiting" /\ clock >= work[w].end
    /\ Outcome(w, "deadline_exceeded", {}, {})
    /\ UNCHANGED <<clock, deadline, slots, counters, errorCount, binding, recorded>>

KeepSlot == UNCHANGED slots
Release == slots' = slots + 1

\* The time that is left is read again once the slot is held.
CheckClock(w) ==
    /\ work[w].pc = "slot"
    /\ IF clock >= work[w].end
       THEN Outcome(w, "deadline_exceeded", {}, {}) /\ Release
       ELSE work' = [work EXCEPT ![w].pc = "checked"] /\ UNCHANGED slots
    /\ UNCHANGED <<clock, deadline, counters, errorCount, binding, recorded>>

\* Under the lock: first the client's quota, then the budget.
ReserveBeforeQuota(w) == \E admitted \in BOOLEAN :
    /\ work[w].pc = "checked"
    /\ granted' = IF admitted THEN granted + 1 ELSE granted
    /\ IF admitted /\ callCount - batchStart < MaxCalls
       THEN /\ callCount' = callCount + 1
            /\ work' = [work EXCEPT ![w].pc = "posted"]
            /\ UNCHANGED slots
       ELSE /\ Outcome(w, "call_budget_exceeded", {}, {})
            /\ Release
            /\ UNCHANGED callCount
    /\ UNCHANGED <<clock, deadline, batchStart, errorCount, binding, recorded>>
Reserve(w) == \E admitted \in BOOLEAN :
    /\ work[w].pc = "checked"
    /\ IF admitted /\ callCount - batchStart < MaxCalls
       THEN /\ callCount' = callCount + 1
            /\ granted' = granted + 1
            /\ work' = [work EXCEPT ![w].pc = "posted"]
            /\ UNCHANGED slots
       ELSE /\ Outcome(w, "call_budget_exceeded", {}, {})
            /\ Release
            /\ UNCHANGED <<callCount, granted>>
    /\ UNCHANGED <<clock, deadline, batchStart, errorCount, binding, recorded>>

\* The reply of a call that was attempted, read or not: one record, one slot.
Finish(w) ==
    /\ work[w].pc = "posted"
    /\ recorded' = recorded + 1
    /\ Release
    /\ UNCHANGED <<clock, deadline, counters, binding>>

\* A refused connection, a redirect, an oversized or foreign envelope, or an
\* answer after the end: its answers are dropped.
CallFails(w) == \E error \in TransportErrors :
    /\ Finish(w)
    /\ Outcome(w, error, {}, {})
    /\ errorCount' = errorCount + 1

\* Each question of the reply stands or falls on its own.
Reply(w) ==
    /\ Finish(w)
    /\ clock <= work[w].end
    /\ \E answered \in SUBSET Head(work[w].parts) :
       LET wrong == Head(work[w].parts) \ answered
       IN  /\ Outcome(w, None, answered, wrong)
           /\ errorCount' = IF wrong = {} THEN errorCount ELSE errorCount + 1

Evaluate(w) ==
    \/ Begin(w) \/ Acquire(w) \/ AcquireTimesOut(w) \/ CheckClock(w)
    \/ Reserve(w) \/ CallFails(w) \/ Reply(w)

Next ==
    \/ StartBatch \/ Tick
    \/ \E w \in Workers : Ask(w) \/ AskRaises(w) \/ Evaluate(w)

Spec == Init /\ [][Next]_vars

-----------------------------------------------------------------------------
Holding(w) == work[w].pc \in {"slot", "checked", "posted"}
Posted == {w \in Workers : work[w].pc = "posted"}

\* The state is well formed, and the semaphore is out by exactly the workers
\* inside the try block: no path of evaluate keeps a slot or returns it twice.
TypeOK ==
    /\ clock \in Nat /\ deadline \in Nat
    /\ callCount \in Nat /\ batchStart \in 0 .. callCount /\ errorCount \in 0 .. recorded
    /\ granted \in Nat /\ recorded \in Nat
    /\ binding \in Runs \cup {None}
    /\ \A w \in Workers : work[w].pc \in {"idle", "next", "waiting", "slot", "checked",
                                          "posted", "done"}
    /\ slots \in 0 .. MaxConcurrency
    /\ slots = MaxConcurrency - Cardinality({w \in Workers : Holding(w)})

\* Every call that is posted was granted by the budget exactly once and is
\* recorded exactly once, a refusal of the client's own quota spends no
\* grant, a batch never posts more than its quota, and every call is of the
\* run the provider is bound to (evaluate's lock, _evaluate's records, _bind).
CallsAccounted ==
    /\ granted = callCount
    /\ recorded + Cardinality(Posted) = callCount
    /\ callCount - batchStart \in 0 .. MaxCalls
    /\ \A w \in Workers : work[w].pc # "idle" => work[w].request.run = binding

\* A finished request decides each of its questions at most once, by an
\* answer that came before the end fixed before the wait for a slot; a
\* question it does not decide has a reason of its own or of its call
\* (_partitions and _evaluate: no question is dropped in silence).
AnsweredOrExplained == \A w \in Workers :
    LET own(q) == {r \in work[w].reasons : r.question = q}
        answers(q) == {d \in work[w].decided : d.question = q}
    IN  work[w].pc = "done" =>
          \A q \in Range(work[w].request.questions) :
            /\ Cardinality(answers(q)) + Cardinality(own(q)) <= 1
            /\ \A d \in answers(q) : d.at - d.begun <= Timeout
            /\ answers(q) \cup own(q) = {} => own(None) # {}
=============================================================================
