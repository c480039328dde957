--------------------------- MODULE AnalysisBudget ---------------------------
(***************************************************************************)
(* The call quotas of one V2 document analysis, and the test by which      *)
(* AnalysisBudget.reserve admits one more provider call.  A budget lives   *)
(* for one batch of chunks: DocumentAnalysis resets its counters at every  *)
(* batch.                                                                  *)
(*                                                                         *)
(* The clock of a budget counts the phase deadlines that have passed in    *)
(* the batch: the deadlines lie at 80, 92 and 98 per cent of the timeout,  *)
(* before the deadline of the whole batch, so that a phase deadline is     *)
(* always met first and the total one adds nothing to the test.            *)
(***************************************************************************)
EXTENDS Integers

CONSTANTS
    Method,     \* "openai_structured" (A) or "openai_blocks_jev" (B)
    MaxCalls    \* DOCUMENT_ANALYSIS_MAX_CALLS, the calls of one batch

Methods == {"openai_structured", "openai_blocks_jev"}

ASSUME BudgetAssumption ==
    /\ Method \in Methods
    /\ MaxCalls \in Nat \ {0}

Structured == Method = "openai_structured"

Kinds == {"reading", "classification", "decision"}

\* max(1, ceil(0.60 or 0.35 of max_calls)); at least 1 because MaxCalls is.
ReadingLimit ==
    IF Structured THEN (60 * MaxCalls + 99) \div 100
                  ELSE (35 * MaxCalls + 99) \div 100

ClassificationLimit == IF Structured THEN 0 ELSE (40 * MaxCalls) \div 100

DecisionLimit == MaxCalls - ReadingLimit - ClassificationLimit

Limit == [k \in Kinds |-> CASE k = "reading"        -> ReadingLimit
                            [] k = "classification" -> ClassificationLimit
                            [] k = "decision"       -> DecisionLimit]

\* The number of deadlines that have passed once that of the phase has.
Deadline == [k \in Kinds |-> CASE k = "reading"        -> 1
                               [] k = "classification" -> 2
                               [] k = "decision"       -> 3]
LastDeadline == 3

Total(reserved) ==
    reserved["reading"] + reserved["classification"] + reserved["decision"]

NoCalls == [k \in Kinds |-> 0]

(***************************************************************************)
(* reserve(phase, enforce_deadline) returns True.  Initial reads do not    *)
(* enforce the deadline.                                                   *)
(***************************************************************************)
AdmitsAtLimit(kind, enforceDeadline, clock, reserved) ==
    /\ enforceDeadline => clock < Deadline[kind]
    /\ Total(reserved) < MaxCalls
    /\ reserved[kind] <= Limit[kind]
Admits(kind, enforceDeadline, clock, reserved) ==
    /\ enforceDeadline => clock < Deadline[kind]
    /\ Total(reserved) < MaxCalls
    /\ reserved[kind] < Limit[kind]

Reserve(kind, reserved) == [reserved EXCEPT ![kind] = @ + 1]
=============================================================================
