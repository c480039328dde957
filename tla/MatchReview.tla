---------------------------- MODULE MatchReview ----------------------------
(***************************************************************************)
(* The match candidates of one supplier offer document: comparisons that   *)
(* replace them, and reviews that accept, reject or correct one of them.   *)
(*                                                                         *)
(* A review is one to two transactions after the one that reads the        *)
(* candidate; each loads the row and then commits the columns whose new    *)
(* value differs from the loaded one.  A comparison reads the feedback     *)
(* rules, then in one transaction reads the rows, deletes those not        *)
(* reviewed and inserts the new candidates.  All of them run on the        *)
(* threads of the web server, and the database is PostgreSQL at its        *)
(* default isolation, READ COMMITTED: a delete takes its targets from what *)
(* is committed when it starts and keeps them locked until the commit,     *)
(* which feedback that references a target prevents.                       *)
(*                                                                         *)
(* A product stands for its identity; NoProduct is that of a row without a *)
(* product.  A candidate is of the product that feedback or its score      *)
(* names.  A row's reasons are reduced to whether they hold                *)
(* AUTO_ACCEPT_REASON, and its commercials to the product they were        *)
(* computed for.                                                           *)
(***************************************************************************)
EXTENDS Integers, Sequences, FiniteSets, SequencesExt

CONSTANTS
    Items, Products, NoProduct,
    MaxCandidates,      \* max_candidates of a comparison
    Comparers, Reviewers,
    MaxComparisons,     \* bound: comparisons begun
    MaxReviews          \* bound: reviews begun

ASSUME MatchAssumption ==
    /\ IsFiniteSet(Items) /\ IsFiniteSet(Products)
    /\ NoProduct \notin Products
    /\ MaxCandidates \in Nat \ {0}
    /\ MaxComparisons \in Nat /\ MaxReviews \in Nat

Matches == Products \cup {NoProduct}
Reasons == [auto : BOOLEAN, corrections : 0 .. MaxReviews]
Rows == [item : Items, product : Matches, priced : Matches, reasons : Reasons,
         status : {"pending", "accepted", "rejected"}]
Candidates == [item : Items, of : Matches, product : Matches, auto : BOOLEAN]
Verdicts == [accepted : BOOLEAN, product : Matches, stamp : Nat]
Kinds == {"accept", "reject", "correct"}

VARIABLES
    rows,           \* the stored candidates, by id
    lastId,         \* the last id given
    verdict,        \* the last committed feedback of each row that has any
    rule,           \* per item and product, the latest feedback by created_at
    halfCorrected,  \* rows whose correction failed between its transactions
    comparer,       \* per comparer: stage, report, reviewed rows read, targets
    reviewer,       \* per reviewer: stage, kind, row id, row seen, row loaded,
                    \* product and time of its verdict
    comparisons, reviews, clock

vars == <<rows, lastId, verdict, rule, halfCorrected, comparer, reviewer,
          comparisons, reviews, clock>>
stored == <<rows, lastId, verdict, rule, halfCorrected>>

\* What the reviews of earlier documents said of an item of that name.
NoRule == [accepted |-> FALSE, stamp |-> 0]
Earlier == {NoRule} \cup [accepted : BOOLEAN, stamp : {1}]
NoRow == [item |-> NoProduct, product |-> NoProduct, priced |-> NoProduct,
          reasons |-> [auto |-> FALSE, corrections |-> 0], status |-> "pending"]
AtRest == [stage |-> "idle", report |-> {}, reviewed |-> <<>>, targets |-> {}]
Resting == [stage |-> "idle", kind |-> "none", id |-> 0, seen |-> NoRow, loaded |-> NoRow,
            product |-> NoProduct, stamp |-> 0]

Init ==
    /\ rows = <<>> /\ lastId = 0
    /\ verdict = <<>>
    /\ rule \in [Items -> [Products -> Earlier]]
    /\ halfCorrected = {}
    /\ comparer = [c \in Comparers |-> AtRest]
    /\ reviewer = [v \in Reviewers |-> Resting]
    /\ comparisons = 0 /\ reviews = 0 /\ clock = 1

-----------------------------------------------------------------------------
(* Comparisons.                                                            *)

AcceptedBy(i) == {p \in Products : rule[i][p].accepted}
RejectedBy(i) == {p \in Products : rule[i][p].stamp > 0 /\ ~rule[i][p].accepted}

(* One candidate for each product that is named, without product if that   *)
(* has left the active catalog; one of them may be accepted at once.       *)
Report(i, named, gone, best) ==
    {[item |-> i, of |-> p, product |-> IF p \in gone THEN NoProduct ELSE p,
      auto |-> p = best /\ p \notin gone] : p \in named}

(* Accepted feedback decides alone, the latest first.  If it names several *)
(* products it contradicts itself, and only the one that the analysis of   *)
(* the document confirms is accepted again without a review.               *)
LatestAccepted(i) ==
    {s \in SUBSET AcceptedBy(i) :
        /\ Cardinality(s) = Min({MaxCandidates, Cardinality(AcceptedBy(i))})
        /\ \A p \in AcceptedBy(i) \ s, q \in s : rule[i][p].stamp <= rule[i][q].stamp}
FromFeedback(i) ==
    {Report(i, s, gone, best) : s \in LatestAccepted(i), gone \in SUBSET Products, best \in Matches}

(* Otherwise any of the products not rejected may reach the minimum score, *)
(* and the best of them the identity criterion; none, a new product.       *)
FromScores(i) ==
    {Report(i, s, {}, best) :
        s \in {t \in SUBSET (Products \ RejectedBy(i)) : Cardinality(t) \in 1 .. MaxCandidates},
        best \in Matches}
    \cup {Report(i, {NoProduct}, {NoProduct}, NoProduct)}

Reports(i) == IF AcceptedBy(i) # {} THEN FromFeedback(i) ELSE FromScores(i)

(* compare_supplier_offer reads the rules and computes the report.         *)
Compare(c) ==
    /\ comparer[c].stage = "idle"
    /\ comparisons < MaxComparisons /\ comparisons' = comparisons + 1
    /\ \E found \in [Items -> UNION {Reports(i) : i \in Items}] :
        /\ \A i \in Items : found[i] \in Reports(i)
        /\ comparer' = [comparer EXCEPT ![c] =
               [AtRest EXCEPT !.stage = "computed",
                              !.report = UNION {found[i] : i \in Items}]]
    /\ UNCHANGED <<stored, reviewer, reviews, clock>>

Reviewed(row) == row.status # "pending" /\ ~row.reasons.auto

(* replace_product_match_candidates reads the existing rows ...            *)
ReadExisting(c) ==
    /\ comparer[c].stage = "computed"
    /\ comparer' = [comparer EXCEPT ![c] =
           [comparer[c] EXCEPT !.stage = "read",
               !.reviewed = Restrict(rows, {id \in DOMAIN rows : Reviewed(rows[id])})]]
    /\ UNCHANGED <<stored, reviewer, comparisons, reviews, clock>>

(* ... deletes those it did not read as reviewed, an error if feedback     *)
(* references one of them ...                                              *)
Unreferenced(ids) == ids \cap DOMAIN verdict = {}
NoForeignKey(ids) == TRUE
Deletable(ids) == Unreferenced(ids)

StartDelete(c) ==
    /\ comparer[c].stage = "read"
    /\ LET ids == DOMAIN rows \ DOMAIN comparer[c].reviewed IN
       comparer' = [comparer EXCEPT ![c] =
           IF Deletable(ids) THEN [comparer[c] EXCEPT !.stage = "deleting", !.targets = ids]
                             ELSE AtRest]
    /\ UNCHANGED <<stored, reviewer, comparisons, reviews, clock>>

(* ... and inserts the candidates of the report, save those it read as     *)
(* reviewed and all those of an item it read as accepted.                  *)
Inserted(c) ==
    LET reviewed == Range(comparer[c].reviewed) IN
    {k \in comparer[c].report : \A row \in reviewed :
        row.item = k.item => row.product # k.product /\ row.status # "accepted"}

NewRow(k) ==
    [item |-> k.item, product |-> k.product, priced |-> k.product,
     reasons |-> [auto |-> k.auto, corrections |-> 0],
     status |-> IF k.auto THEN "accepted" ELSE "pending"]

CommitComparison(c) ==
    /\ comparer[c].stage = "deleting"
    /\ LET new == SetToSeq(Inserted(c)) IN
       /\ rows' = [id \in (DOMAIN rows \ comparer[c].targets)
                         \cup (lastId + 1 .. lastId + Len(new)) |->
                     IF id > lastId THEN NewRow(new[id - lastId]) ELSE rows[id]]
       /\ lastId' = lastId + Len(new)
    /\ halfCorrected' = halfCorrected \ comparer[c].targets
    /\ comparer' = [comparer EXCEPT ![c] = AtRest]
    /\ UNCHANGED <<verdict, rule, reviewer, comparisons, reviews, clock>>

-----------------------------------------------------------------------------
(* Reviews.  A review fails, with a 404 or an error, when its row is gone. *)

Locked(id) == \E c \in Comparers :
    comparer[c].stage = "deleting" /\ id \in comparer[c].targets

Move(v, r) == reviewer' = [reviewer EXCEPT ![v] = r]
Fail(v) == Move(v, Resting)

(* _get_candidate; correct_candidate also reads the product it is given.   *)
ReadCandidate(v, id, kind, p) ==
    /\ reviewer[v].stage = "idle"
    /\ reviews < MaxReviews /\ reviews' = reviews + 1
    /\ Move(v, [Resting EXCEPT !.stage = IF kind = "correct" THEN "correcting" ELSE "deciding",
                !.kind = kind, !.id = id, !.seen = rows[id],
                !.product = IF kind = "correct" THEN p ELSE rows[id].product])
    /\ UNCHANGED <<stored, comparer, comparisons, clock>>

LoadRow(v, from, to) ==
    /\ reviewer[v].stage = from
    /\ IF reviewer[v].id \in DOMAIN rows
       THEN Move(v, [reviewer[v] EXCEPT !.stage = to, !.loaded = rows[reviewer[v].id]])
       ELSE Fail(v)
    /\ UNCHANGED <<stored, comparer, comparisons, reviews, clock>>

(* The columns of new that differ from the loaded ones are written.        *)
Written(v, new) ==
    LET r == reviewer[v] IN
    [column \in DOMAIN new |->
        IF new[column] = r.loaded[column] THEN rows[r.id][column] ELSE new[column]]

(* update_product_match_candidate with the corrected copy of the row read. *)
LoadCorrection(v) == LoadRow(v, "correcting", "updating")

Corrected(v) ==
    LET r == reviewer[v] IN
    [r.loaded EXCEPT !.product = r.product, !.priced = r.product,
        !.reasons = [auto |-> r.seen.reasons.auto,
                     corrections |-> r.seen.reasons.corrections + 1]]

CommitCorrection(v) ==
    LET r == reviewer[v] IN
    /\ r.stage = "updating" /\ ~Locked(r.id)
    /\ IF r.id \in DOMAIN rows
       THEN /\ rows' = [rows EXCEPT ![r.id] = Written(v, Corrected(v))]
            /\ Move(v, [r EXCEPT !.stage = "deciding", !.loaded = NoRow])
       ELSE rows' = rows /\ Fail(v)
    /\ UNCHANGED <<lastId, verdict, rule, halfCorrected, comparer,
                   comparisons, reviews, clock>>

(* The feedback, with its created_at.                                      *)
Decide(v) ==
    /\ reviewer[v].stage = "deciding"
    /\ clock' = clock + 1
    /\ Move(v, [reviewer[v] EXCEPT !.stage = "decided", !.stamp = clock'])
    /\ UNCHANGED <<stored, comparer, comparisons, reviews>>

(* add_product_match_feedback.                                             *)
LoadDecision(v) == LoadRow(v, "decided", "recording")

AutoKept(reasons) == reasons
WithoutAuto(reasons) == [reasons EXCEPT !.auto = FALSE]
DecidedRow(v) ==
    LET r == reviewer[v]
        reasons == WithoutAuto(r.loaded.reasons)
    IN  IF r.kind = "reject" THEN [r.loaded EXCEPT !.reasons = reasons, !.status = "rejected"]
        ELSE [r.loaded EXCEPT !.reasons = reasons, !.status = "accepted", !.product = r.product]

CommitDecision(v) ==
    LET r == reviewer[v]
        accepted == r.kind # "reject"
    IN
    /\ r.stage = "recording" /\ ~Locked(r.id)
    /\ IF r.id \in DOMAIN rows
       THEN /\ rows' = [rows EXCEPT ![r.id] = Written(v, DecidedRow(v))]
            /\ verdict' = [id \in DOMAIN verdict \cup {r.id} |->
                   IF id = r.id THEN [accepted |-> accepted, product |-> r.product,
                                      stamp |-> r.stamp]
                   ELSE verdict[id]]
            /\ rule' = IF r.product # NoProduct /\ rule[r.seen.item][r.product].stamp < r.stamp
                       THEN [rule EXCEPT ![r.seen.item][r.product] =
                               [accepted |-> accepted, stamp |-> r.stamp]]
                       ELSE rule
       ELSE UNCHANGED <<rows, verdict, rule>>
    /\ Fail(v)
    /\ UNCHANGED <<lastId, halfCorrected, comparer, comparisons, reviews, clock>>

(* The database fails under a review: the transaction at hand is undone,   *)
(* a correction already committed is not.                                  *)
LoseConnection(v) ==
    LET r == reviewer[v] IN
    /\ r.stage # "idle"
    /\ halfCorrected' = IF r.kind = "correct" /\ r.stage \in {"deciding", "decided", "recording"}
                           /\ r.id \in DOMAIN rows
                        THEN halfCorrected \cup {r.id} ELSE halfCorrected
    /\ Fail(v)
    /\ UNCHANGED <<rows, lastId, verdict, rule, comparer, comparisons, reviews, clock>>

Comparison(c) ==
    Compare(c) \/ ReadExisting(c) \/ StartDelete(c) \/ CommitComparison(c)

Review(v) ==
    \/ \E id \in DOMAIN rows, kind \in Kinds, p \in Products : ReadCandidate(v, id, kind, p)
    \/ LoadCorrection(v) \/ CommitCorrection(v)
    \/ Decide(v) \/ LoadDecision(v) \/ CommitDecision(v)
    \/ LoseConnection(v)

Next ==
    \/ \E c \in Comparers : Comparison(c)
    \/ \E v \in Reviewers : Review(v)

Spec == Init /\ [][Next]_vars

-----------------------------------------------------------------------------
(* The types, and the references: feedback is of an existing row,    *)
(* and no delete under way has a row with feedback among its targets.      *)
TypeOK ==
    /\ DOMAIN rows \subseteq 1 .. lastId
    /\ \A id \in DOMAIN rows : rows[id] \in Rows
    /\ DOMAIN verdict \subseteq DOMAIN rows
    /\ \A id \in DOMAIN verdict : verdict[id] \in Verdicts
    /\ rule \in [Items -> [Products -> [accepted : BOOLEAN, stamp : 0 .. clock]]]
    /\ halfCorrected \subseteq DOMAIN rows
    /\ \A id \in DOMAIN verdict : ~Locked(id)
    /\ comparisons \in 0 .. MaxComparisons /\ reviews \in 0 .. MaxReviews

Correcting(id) ==
    \/ id \in halfCorrected
    \/ \E v \in Reviewers : reviewer[v].stage # "idle"
                             /\ reviewer[v].id = id /\ reviewer[v].kind = "correct"

(* replace_product_match_candidates keeps exactly the rows a human has     *)
(* decided: a row with feedback is reviewed, whatever stale copy of its    *)
(* reasons another review writes, save while a correction of it is under   *)
(* way or has failed half way; and a reviewed row has feedback.            *)
ReviewedIffDecided ==
    \A id \in DOMAIN rows :
        /\ Reviewed(rows[id]) => id \in DOMAIN verdict
        /\ id \in DOMAIN verdict => Reviewed(rows[id]) \/ Correcting(id)

(* A comparison neither deletes nor changes a row with feedback, however   *)
(* the review and the comparison interleave.                               *)
DecidedRowsKept ==
    [][(\E c \in Comparers : Comparison(c)) =>
          \A id \in DOMAIN verdict : id \in DOMAIN rows' /\ rows'[id] = rows[id]]_vars

(* "A later human decision is authoritative": with no review of a row      *)
(* under way, the row says what its last feedback decided.                 *)
Latest(id) ==
    \A p \in Products : rule[rows[id].item][p].stamp <= verdict[id].stamp
HumanDecisionAuthoritative ==
    \A id \in DOMAIN verdict :
        (/\ Latest(id) /\ id \notin halfCorrected
         /\ \A v \in Reviewers : reviewer[v].stage = "idle")
        => /\ rows[id].status = IF verdict[id].accepted THEN "accepted" ELSE "rejected"
           /\ rows[id].product = verdict[id].product
=============================================================================
