-------------------------- MODULE MatchReview_proofs --------------------------
(***************************************************************************)
(* For every number of items, products, comparers and reviewers: the rows  *)
(* a human has decided are the ones comparisons keep.  The invariant says  *)
(* that a row nobody has decided looks to every review under way as it     *)
(* does now, and that a decided row which is marked as accepted by itself  *)
(* has a correction that will still clear the mark, or that failed.        *)
(***************************************************************************)
EXTENDS MatchReview, FiniteSetTheorems, TLAPS

CompareStages == {"idle", "computed", "read", "deleting"}
ReviewStages == {"idle", "correcting", "updating", "deciding", "decided", "recording"}
ReviewRecords == [stage : ReviewStages, kind : Kinds \cup {"none"}, id : Nat,
                  seen : Rows \cup {NoRow}, loaded : Rows \cup {NoRow},
                  product : Matches, stamp : Nat]
HoldsRow(r) == r.stage \in {"updating", "recording"}

\* What a comparer and a reviewer carry.
ComparerOK(r) ==
    r \in [stage : CompareStages, report : SUBSET Candidates, reviewed : {r.reviewed},
           targets : SUBSET Nat]

ReviewerOK(r) ==
    /\ r \in ReviewRecords /\ r.stamp <= clock
    /\ r.stage \in {"correcting", "updating"} => r.kind = "correct"
    /\ r.stage # "idle" =>
         /\ r.kind \in Kinds /\ r.id \in 1..lastId /\ r.seen \in Rows
         /\ r.seen.reasons.corrections < reviews
    /\ HoldsRow(r) => r.loaded \in Rows /\ r.loaded.reasons.corrections <= reviews

Typed ==
    /\ TypeOK
    /\ lastId \in Nat /\ clock \in Nat
    /\ rows = [id \in DOMAIN rows |-> rows[id]]
    /\ \A id \in DOMAIN rows : rows[id].reasons.corrections <= reviews
    /\ comparer = [c \in Comparers |-> comparer[c]]
    /\ \A c \in Comparers : ComparerOK(comparer[c])
    /\ reviewer = [v \in Reviewers |-> reviewer[v]]
    /\ \A v \in Reviewers : ReviewerOK(reviewer[v])

\* Two copies of a row that agree on what a decision or a correction of the
\* row would look at.
SameMark(a, b) == a.status = b.status /\ a.reasons.auto = b.reasons.auto

\* A row without feedback is not reviewed, and every review under way has
\* seen it as it is.
Undecided == \A id \in DOMAIN rows \ DOMAIN verdict :
    /\ ~ Reviewed(rows[id])
    /\ \A v \in Reviewers : reviewer[v].stage # "idle" /\ reviewer[v].id = id =>
         /\ SameMark(reviewer[v].seen, rows[id])
         /\ HoldsRow(reviewer[v]) => SameMark(reviewer[v].loaded, rows[id])

\* A correction that, unless it fails, will write the row without the mark.
WillClear(r, id) ==
    /\ r.kind = "correct" /\ r.id = id
    /\ \/ r.stage \in {"deciding", "decided"}
       \/ r.stage = "recording" /\ r.loaded.reasons.auto

Decided == \A id \in DOMAIN verdict :
    /\ rows[id].status # "pending"
    /\ rows[id].reasons.auto =>
         id \in halfCorrected \/ \E v \in Reviewers : WillClear(reviewer[v], id)

\* No status goes back to pending.
Forward == \A v \in Reviewers :
    HoldsRow(reviewer[v]) /\ reviewer[v].id \in DOMAIN rows
        /\ reviewer[v].loaded.status # "pending"
      => rows[reviewer[v].id].status # "pending"

IInv == Typed /\ Undecided /\ Decided /\ Forward

-----------------------------------------------------------------------------
(* The records the actions change.                                         *)

LEMMA RowIs ==
    ASSUME NEW r \in Rows
    PROVE  /\ DOMAIN r = {"item", "product", "priced", "reasons", "status"}
           /\ r = [item |-> r.item, product |-> r.product, priced |-> r.priced,
                   reasons |-> r.reasons, status |-> r.status]
BY DEF Rows

LEMMA ColumnsWritten ==
    ASSUME NEW new \in Rows, NEW old \in Rows, NEW row \in Rows
    PROVE  LET pick(a, b, c) == IF a = b THEN c ELSE a
               written == [column \in DOMAIN new |->
                              IF new[column] = old[column] THEN row[column] ELSE new[column]]
           IN  /\ written \in Rows
               /\ written.status = pick(new.status, old.status, row.status)
               /\ written.reasons = pick(new.reasons, old.reasons, row.reasons)
<1> DEFINE written == [column \in DOMAIN new |->
                          IF new[column] = old[column] THEN row[column] ELSE new[column]]
           it == [item |-> IF new.item = old.item THEN row.item ELSE new.item,
                  product |-> IF new.product = old.product THEN row.product ELSE new.product,
                  priced |-> IF new.priced = old.priced THEN row.priced ELSE new.priced,
                  reasons |-> IF new.reasons = old.reasons THEN row.reasons ELSE new.reasons,
                  status |-> IF new.status = old.status THEN row.status ELSE new.status]
<1>1. DOMAIN new = {"item", "product", "priced", "reasons", "status"}
  BY RowIs
<1>2. written = it
  BY <1>1
<1>3. it \in Rows
  BY DEF Rows
<1> QED BY <1>2, <1>3

LEMMA Unmarked ==
    ASSUME NEW reasons \in Reasons
    PROVE  /\ WithoutAuto(reasons) \in Reasons /\ ~ WithoutAuto(reasons).auto
           /\ WithoutAuto(reasons).corrections = reasons.corrections
           /\ ~ reasons.auto => WithoutAuto(reasons) = reasons
BY DEF WithoutAuto, Reasons

LEMMA RestingOK ==
    ASSUME MatchAssumption
    PROVE  Resting \in ReviewRecords /\ Resting.stage = "idle" /\ Resting.stamp = 0
BY DEF Resting, ReviewRecords, ReviewStages, Matches

CompareRecords(a, b) ==
    [stage : CompareStages, report : SUBSET Candidates, reviewed : {a, b},
     targets : SUBSET Nat]

LEMMA ComparerRecords ==
    ASSUME NEW a, NEW b, NEW r \in CompareRecords(a, b)
    PROVE  ComparerOK(r)
BY DEF CompareRecords, ComparerOK

-----------------------------------------------------------------------------
(* Steps that move one review, one comparison, or one row.                 *)

LEMMA ReviewMoves ==
    ASSUME MatchAssumption, IInv, NEW v \in Reviewers, NEW r,
           reviewer' = [reviewer EXCEPT ![v] = r],
           UNCHANGED <<rows, lastId, verdict, rule, comparer, comparisons>>,
           clock' \in Nat, clock <= clock',
           reviews' \in 0..MaxReviews, reviews <= reviews',
           halfCorrected \subseteq halfCorrected', halfCorrected' \subseteq DOMAIN rows,
           r \in ReviewRecords, r.stamp <= clock',
           r.stage \in {"correcting", "updating"} => r.kind = "correct",
           r.stage # "idle" =>
             /\ r.kind \in Kinds /\ r.id \in 1..lastId /\ r.seen \in Rows
             /\ r.seen.reasons.corrections < reviews',
           HoldsRow(r) => /\ r.loaded \in Rows /\ r.loaded.reasons.corrections <= reviews'
                          /\ r.id \in DOMAIN rows /\ r.loaded = rows[r.id],
           r.stage # "idle" /\ r.id \in DOMAIN rows \ DOMAIN verdict =>
             SameMark(r.seen, rows[r.id]),
           \A id \in DOMAIN verdict :
             WillClear(reviewer[v], id) /\ rows[id].reasons.auto =>
               id \in halfCorrected' \/ WillClear(r, id)
    PROVE  IInv'
<1>1. \A u \in Reviewers : reviewer'[u] = IF u = v THEN r ELSE reviewer[u]
  BY DEF IInv, Typed
<1>2. TypeOK'
  <2>1. rule \in [Items -> [Products -> [accepted : BOOLEAN, stamp : 0 .. clock']]]
    <3>1. 0..clock \subseteq 0..clock'
      BY DEF IInv, Typed
    <3>2. [accepted : BOOLEAN, stamp : 0 .. clock] \subseteq [accepted : BOOLEAN, stamp : 0 .. clock']
      BY <3>1
    <3> QED BY <3>2 DEF IInv, Typed, TypeOK
  <2> QED BY <2>1 DEF IInv, Typed, TypeOK, Locked
<1>3. \A u \in Reviewers : ReviewerOK(reviewer[u])'
  <2> SUFFICES ASSUME NEW u \in Reviewers PROVE ReviewerOK(reviewer[u])'
    OBVIOUS
  <2>1. CASE u = v
    BY <1>1, <2>1 DEF ReviewerOK
  <2>2. CASE u # v
    <3>1. reviewer'[u] = reviewer[u] /\ ReviewerOK(reviewer[u])
      BY <1>1, <2>2 DEF IInv, Typed
    <3>2. reviewer[u].stamp \in Nat /\ clock \in Nat /\ reviews \in Nat /\ reviews' \in Nat
      BY <3>1 DEF IInv, Typed, TypeOK, ReviewerOK, ReviewRecords
    <3>3. \A row \in Rows : row.reasons.corrections \in Nat
      BY DEF Rows, Reasons
    <3>4. reviewer'[u].stamp <= clock'
      BY <3>1, <3>2 DEF ReviewerOK
    <3> QED BY <3>1, <3>2, <3>3, <3>4 DEF ReviewerOK
  <2> QED BY <2>1, <2>2
<1>4. reviewer' = [u \in Reviewers |-> reviewer'[u]]
  BY DEF IInv, Typed
<1>5. \A id \in DOMAIN rows : rows[id].reasons.corrections <= reviews'
  BY DEF IInv, Typed, TypeOK, Rows, Reasons
<1>6. Typed'
  BY <1>2, <1>3, <1>4, <1>5 DEF IInv, Typed, ComparerOK
<1>7. Undecided'
  BY <1>1 DEF IInv, Undecided, SameMark, HoldsRow, Reviewed
<1>8. Decided'
  BY <1>1 DEF IInv, Decided, WillClear
<1>9. Forward'
  BY <1>1 DEF IInv, Forward, HoldsRow
<1> QED BY <1>6, <1>7, <1>8, <1>9 DEF IInv

\* Also for a review that fails: what it would have cleared stays marked.
LEMMA FailKeeps ==
    ASSUME MatchAssumption, IInv, NEW v \in Reviewers, Fail(v),
           UNCHANGED <<rows, lastId, verdict, rule, comparer, comparisons, reviews, clock>>,
           halfCorrected \subseteq halfCorrected', halfCorrected' \subseteq DOMAIN rows,
           \A id \in DOMAIN verdict : WillClear(reviewer[v], id) => id \in halfCorrected'
    PROVE  IInv'
<1>1. Resting \in ReviewRecords /\ Resting.stage = "idle" /\ Resting.stamp = 0
  BY RestingOK
<1>2. clock \in Nat /\ reviews \in 0..MaxReviews
  BY DEF IInv, Typed, TypeOK
<1>3. reviewer' = [reviewer EXCEPT ![v] = Resting]
  BY DEF Fail, Move
<1>4. ~ HoldsRow(Resting) /\ Resting.stage \notin {"correcting", "updating"}
  BY <1>1 DEF HoldsRow
<1>5. 0 <= clock' /\ clock' \in Nat /\ clock <= clock' /\ reviews <= reviews'
      /\ reviews' \in 0..MaxReviews
  BY <1>2
<1> QED
  BY <1>1, <1>3, <1>4, <1>5, ReviewMoves

LEMMA CompareMoves ==
    ASSUME MatchAssumption, IInv, NEW c \in Comparers, NEW r,
           comparer' = [comparer EXCEPT ![c] = r], ComparerOK(r),
           r.stage = "deleting" => r.targets \cap DOMAIN verdict = {},
           UNCHANGED <<stored, reviewer, reviews, clock>>,
           comparisons' \in 0..MaxComparisons
    PROVE  IInv'
<1>1. \A d \in Comparers : comparer'[d] = IF d = c THEN r ELSE comparer[d]
  BY DEF IInv, Typed
<1>2. \A id \in DOMAIN verdict : ~ Locked(id)'
  BY <1>1 DEF IInv, Typed, TypeOK, Locked
<1>3. TypeOK'
  BY <1>2 DEF IInv, Typed, TypeOK, stored, Locked
<1>4. Typed'
  BY <1>1, <1>3 DEF IInv, Typed, ReviewerOK, stored
<1>5. (Undecided /\ Decided /\ Forward)'
  BY DEF IInv, Undecided, Decided, Forward, WillClear, HoldsRow, SameMark, Reviewed, stored
<1> QED BY <1>4, <1>5 DEF IInv

-----------------------------------------------------------------------------
LEMMA Initially ==
    ASSUME MatchAssumption, Init
    PROVE  IInv
<1>1. DOMAIN rows = {} /\ DOMAIN verdict = {}
  BY DEF Init
<1>2. Resting \in ReviewRecords /\ Resting.stage = "idle" /\ Resting.stamp = 0
  BY RestingOK
<1>3. ComparerOK(AtRest) /\ AtRest.stage = "idle"
  BY DEF ComparerOK, AtRest, CompareStages
<1>4. TypeOK
  <2>1. rule \in [Items -> [Products -> [accepted : BOOLEAN, stamp : 0 .. clock]]]
    <3>1. Earlier \subseteq [accepted : BOOLEAN, stamp : 0 .. 1]
      <4>1. NoRule \in [accepted : BOOLEAN, stamp : 0 .. 1]
        BY DEF NoRule
      <4>2. [accepted : BOOLEAN, stamp : {1}] \subseteq [accepted : BOOLEAN, stamp : 0 .. 1]
        OBVIOUS
      <4> QED BY <4>1, <4>2, Zenon DEF Earlier
    <3>2. rule \in [Items -> [Products -> Earlier]] /\ clock = 1
      BY DEF Init
    <3> QED BY <3>1, <3>2
  <2> QED BY <1>1, <1>3, <2>1 DEF Init, TypeOK, Locked, MatchAssumption
<1>5. Typed
  BY <1>1, <1>2, <1>3, <1>4 DEF Init, Typed, ReviewerOK, HoldsRow
<1>6. Undecided /\ Decided /\ Forward
  BY <1>1, <1>2 DEF Init, Undecided, Decided, Forward, HoldsRow
<1> QED BY <1>5, <1>6 DEF IInv

-----------------------------------------------------------------------------
(* Reviews.                                                                *)

LEMMA ReadCandidateKeeps ==
    ASSUME MatchAssumption, IInv, NEW v \in Reviewers, NEW id \in DOMAIN rows,
           NEW kind \in Kinds, NEW p \in Products, ReadCandidate(v, id, kind, p)
    PROVE  IInv'
<1> DEFINE stage == IF kind = "correct" THEN "correcting" ELSE "deciding"
           product == IF kind = "correct" THEN p ELSE rows[id].product
           r == [Resting EXCEPT !.stage = stage, !.kind = kind, !.id = id, !.seen = rows[id],
                                !.product = product]
<1>1. /\ reviewer[v].stage = "idle"
      /\ reviewer' = [reviewer EXCEPT ![v] = r]
      /\ reviews' = reviews + 1 /\ reviews < MaxReviews
      /\ UNCHANGED <<stored, comparer, comparisons, clock>>
  BY DEF ReadCandidate, Move
<1>2. /\ rows[id] \in Rows /\ id \in 1..lastId /\ lastId \in Nat
      /\ rows[id].reasons.corrections <= reviews
      /\ reviews \in 0..MaxReviews /\ MaxReviews \in Nat /\ clock \in Nat
  BY DEF IInv, Typed, TypeOK, MatchAssumption
<1>3. /\ stage \in {"correcting", "deciding"} /\ (stage = "correcting" => kind = "correct")
      /\ product \in Matches /\ rows[id].reasons.corrections \in Nat
  BY <1>2 DEF Matches, Rows, Reasons
<1> HIDE DEF stage, product
<1>4. /\ r \in ReviewRecords /\ r.stage = stage /\ r.kind = kind /\ r.id = id
      /\ r.seen = rows[id] /\ r.stamp = 0
  <2>1. stage \in ReviewStages /\ id \in Nat
    BY <1>2, <1>3 DEF ReviewStages
  <2> QED BY <1>2, <1>3, <2>1, RestingOK DEF ReviewRecords, Resting
<1> HIDE DEF r
<1>5. ~ HoldsRow(r) /\ r.stage # "idle" /\ SameMark(r.seen, rows[id])
  BY <1>3, <1>4 DEF HoldsRow, SameMark
<1>6. \A i \in DOMAIN verdict : ~ WillClear(reviewer[v], i)
  BY <1>1 DEF WillClear
<1>7. /\ reviews' \in 0..MaxReviews /\ reviews <= reviews' /\ r.stamp <= clock'
      /\ r.seen.reasons.corrections < reviews'
      /\ clock' \in Nat /\ clock <= clock'
      /\ halfCorrected' = halfCorrected /\ halfCorrected \subseteq DOMAIN rows
      /\ UNCHANGED <<rows, lastId, verdict, rule, comparer, comparisons>>
  BY <1>1, <1>2, <1>3, <1>4 DEF stored, IInv, Typed, TypeOK
<1> QED BY <1>1, <1>2, <1>3, <1>4, <1>5, <1>6, <1>7, ReviewMoves

\* The row as it is loaded is the row as it is.
LEMMA LoadRowKeeps ==
    ASSUME MatchAssumption, IInv, NEW v \in Reviewers,
           NEW from \in {"correcting", "decided"}, NEW to,
           to = (IF from = "correcting" THEN "updating" ELSE "recording"),
           LoadRow(v, from, to)
    PROVE  IInv'
<1>1. /\ reviewer[v].stage = from
      /\ UNCHANGED <<rows, lastId, verdict, rule, halfCorrected, comparer, comparisons, reviews,
                     clock>>
  BY DEF LoadRow, stored
<1>2. /\ ReviewerOK(reviewer[v]) /\ DOMAIN verdict \subseteq DOMAIN rows
      /\ halfCorrected \subseteq DOMAIN rows
      /\ clock \in Nat /\ reviews \in 0..MaxReviews
  BY DEF IInv, Typed, TypeOK
<1>3. CASE reviewer[v].id \notin DOMAIN rows
  <2>1. Fail(v)
    BY <1>3 DEF LoadRow
  <2>2. \A id \in DOMAIN verdict : ~ WillClear(reviewer[v], id)
    BY <1>2, <1>3 DEF WillClear
  <2> QED BY <1>1, <1>2, <2>1, <2>2, FailKeeps
<1>4. CASE reviewer[v].id \in DOMAIN rows
  <2> DEFINE i == reviewer[v].id
             r == [reviewer[v] EXCEPT !.stage = to, !.loaded = rows[i]]
  <2>1. reviewer' = [reviewer EXCEPT ![v] = r]
    BY <1>4 DEF LoadRow, Move
  <2>2. rows[i] \in Rows /\ rows[i].reasons.corrections <= reviews
    BY <1>4 DEF IInv, Typed, TypeOK
  <2>3. /\ r \in ReviewRecords /\ r.stage = to /\ r.loaded = rows[i]
        /\ r.kind = reviewer[v].kind /\ r.id = i /\ r.seen = reviewer[v].seen
        /\ r.stamp = reviewer[v].stamp
    <3>1. /\ to \in ReviewStages /\ reviewer[v] \in ReviewRecords
          /\ rows[i] \in Rows \cup {NoRow}
      BY <1>2, <2>2 DEF ReviewStages, ReviewerOK
    <3> QED BY <3>1 DEF ReviewRecords
  <2> HIDE DEF r
  <2>4. /\ r.kind \in Kinds /\ r.id \in 1..lastId /\ r.seen \in Rows
        /\ r.seen.reasons.corrections < reviews' /\ r.stamp <= clock'
        /\ r.stage \in {"correcting", "updating"} => r.kind = "correct"
    BY <1>1, <1>2, <2>3 DEF ReviewerOK
  <2>5. r.id \in DOMAIN rows \ DOMAIN verdict => SameMark(r.seen, rows[r.id])
    BY <1>1, <1>4, <2>3 DEF IInv, Undecided
  <2>6. ASSUME NEW id \in DOMAIN verdict, WillClear(reviewer[v], id), rows[id].reasons.auto
        PROVE  WillClear(r, id)
    BY <1>1, <2>3, <2>6 DEF WillClear
  <2>7. /\ HoldsRow(r) => /\ r.loaded \in Rows /\ r.loaded.reasons.corrections <= reviews'
                          /\ r.id \in DOMAIN rows /\ r.loaded = rows[r.id]
        /\ clock' \in Nat /\ clock <= clock' /\ reviews' \in 0..MaxReviews
        /\ reviews <= reviews'
        /\ halfCorrected \subseteq halfCorrected' /\ halfCorrected' \subseteq DOMAIN rows
    BY <1>1, <1>2, <1>4, <2>2, <2>3
  <2> QED BY <1>1, <2>1, <2>3, <2>4, <2>5, <2>6, <2>7, ReviewMoves
<1> QED BY <1>3, <1>4

LEMMA DecideKeeps ==
    ASSUME MatchAssumption, IInv, NEW v \in Reviewers, Decide(v)
    PROVE  IInv'
<1> DEFINE r == [reviewer[v] EXCEPT !.stage = "decided", !.stamp = clock']
<1>1. /\ reviewer[v].stage = "deciding" /\ clock' = clock + 1
      /\ reviewer' = [reviewer EXCEPT ![v] = r]
      /\ UNCHANGED <<rows, lastId, verdict, rule, halfCorrected, comparer, comparisons, reviews>>
  BY DEF Decide, Move, stored
<1>2. /\ ReviewerOK(reviewer[v]) /\ halfCorrected \subseteq DOMAIN rows
      /\ clock \in Nat /\ reviews \in 0..MaxReviews
  BY DEF IInv, Typed, TypeOK
<1>3. /\ r \in ReviewRecords /\ r.stage = "decided" /\ r.stamp = clock'
      /\ r.kind = reviewer[v].kind /\ r.id = reviewer[v].id /\ r.seen = reviewer[v].seen
  <2>1. /\ "decided" \in ReviewStages /\ reviewer[v] \in ReviewRecords
        /\ clock' \in Nat
    BY <1>1, <1>2 DEF ReviewStages, ReviewerOK
  <2> QED BY <2>1 DEF ReviewRecords
<1> HIDE DEF r
<1>4. /\ r.kind \in Kinds /\ r.id \in 1..lastId /\ r.seen \in Rows
      /\ r.seen.reasons.corrections < reviews' /\ r.stamp <= clock' /\ ~ HoldsRow(r)
  BY <1>1, <1>2, <1>3 DEF ReviewerOK, HoldsRow
<1>5. r.id \in DOMAIN rows \ DOMAIN verdict => SameMark(r.seen, rows[r.id])
  BY <1>1, <1>3 DEF IInv, Undecided
<1>6. ASSUME NEW id \in DOMAIN verdict, WillClear(reviewer[v], id), rows[id].reasons.auto
      PROVE  WillClear(r, id)
  BY <1>1, <1>3, <1>6 DEF WillClear
<1>7. clock' \in Nat /\ clock <= clock' /\ reviews' \in 0..MaxReviews /\ reviews <= reviews'
  BY <1>1, <1>2
<1> QED BY <1>1, <1>2, <1>3, <1>4, <1>5, <1>6, <1>7, ReviewMoves

LEMMA LoseConnectionKeeps ==
    ASSUME MatchAssumption, IInv, NEW v \in Reviewers, LoseConnection(v)
    PROVE  IInv'
<1>1. /\ Fail(v)
      /\ UNCHANGED <<rows, lastId, verdict, rule, comparer, comparisons, reviews, clock>>
      /\ halfCorrected' = IF reviewer[v].kind = "correct"
                             /\ reviewer[v].stage \in {"deciding", "decided", "recording"}
                             /\ reviewer[v].id \in DOMAIN rows
                          THEN halfCorrected \cup {reviewer[v].id} ELSE halfCorrected
  BY DEF LoseConnection
<1>2. DOMAIN verdict \subseteq DOMAIN rows /\ halfCorrected \subseteq DOMAIN rows
  BY DEF IInv, Typed, TypeOK
<1>3. halfCorrected \subseteq halfCorrected' /\ halfCorrected' \subseteq DOMAIN rows
  BY <1>1, <1>2
<1>4. \A id \in DOMAIN verdict : WillClear(reviewer[v], id) => id \in halfCorrected'
  BY <1>1, <1>2 DEF WillClear
<1> QED BY <1>1, <1>3, <1>4, FailKeeps

-----------------------------------------------------------------------------
(* The two transactions of a review that write the row.                    *)

LEMMA CommitCorrectionKeeps ==
    ASSUME MatchAssumption, IInv, NEW v \in Reviewers, CommitCorrection(v)
    PROVE  IInv'
<1>1. /\ reviewer[v].stage = "updating"
      /\ UNCHANGED <<lastId, verdict, rule, halfCorrected, comparer, comparisons, reviews, clock>>
  BY DEF CommitCorrection
<1>2. /\ ReviewerOK(reviewer[v]) /\ TypeOK /\ clock \in Nat /\ lastId \in Nat
      /\ rows = [id \in DOMAIN rows |-> rows[id]]
      /\ reviewer = [u \in Reviewers |-> reviewer[u]]
  BY DEF IInv, Typed
<1> DEFINE i == reviewer[v].id
           loaded == reviewer[v].loaded
           seen == reviewer[v].seen
<1>3. CASE i \notin DOMAIN rows
  <2>1. Fail(v) /\ rows' = rows
    BY <1>3 DEF CommitCorrection
  <2>2. \A id \in DOMAIN verdict : ~ WillClear(reviewer[v], id)
    BY <1>1 DEF WillClear
  <2> QED BY <1>1, <1>2, <2>1, <2>2, FailKeeps DEF TypeOK
<1>4. CASE i \in DOMAIN rows
  <2> DEFINE reasons == [auto |-> seen.reasons.auto, corrections |-> seen.reasons.corrections + 1]
             new == [loaded EXCEPT !.product = reviewer[v].product,
                                   !.priced = reviewer[v].product, !.reasons = reasons]
             w == [column \in DOMAIN new |->
                      IF new[column] = loaded[column] THEN rows[i][column] ELSE new[column]]
             r == [reviewer[v] EXCEPT !.stage = "deciding", !.loaded = NoRow]
  <2>1. rows' = [rows EXCEPT ![i] = w] /\ reviewer' = [reviewer EXCEPT ![v] = r]
    BY <1>4 DEF CommitCorrection, Written, Corrected, Move
  <2>2. /\ loaded \in Rows /\ seen \in Rows /\ rows[i] \in Rows
        /\ reviewer[v].product \in Matches
        /\ loaded.reasons.corrections <= reviews /\ rows[i].reasons.corrections <= reviews
        /\ seen.reasons.corrections + 1 <= reviews
        /\ reviews \in 0..MaxReviews /\ MaxReviews \in Nat
    <3>1. \A row \in Rows : row.reasons.corrections \in Nat
      BY DEF Rows, Reasons
    <3> QED
      BY <1>1, <1>2, <1>4, <3>1 DEF ReviewerOK, HoldsRow, ReviewRecords, TypeOK, IInv, Typed,
         MatchAssumption
  <2>3. reasons \in Reasons
    BY <2>2 DEF Rows, Reasons
  <2>4. reasons.auto = seen.reasons.auto /\ reasons.corrections <= reviews
    BY <2>2
  <2> HIDE DEF reasons
  <2>5. new \in Rows /\ new.status = loaded.status /\ new.reasons = reasons
    BY <2>2, <2>3 DEF Rows
  <2> HIDE DEF new
  <2>6. /\ w \in Rows /\ w.status = rows[i].status
        /\ w.reasons = rows[i].reasons \/ w.reasons = reasons
    BY <2>2, <2>5, ColumnsWritten
  <2>7. /\ r \in ReviewRecords /\ r.stage = "deciding" /\ r.kind = reviewer[v].kind /\ r.id = i
        /\ r.seen = seen /\ r.stamp = reviewer[v].stamp
    <3>1. reviewer[v] \in ReviewRecords /\ "deciding" \in ReviewStages
      BY <1>2 DEF ReviewerOK, ReviewStages
    <3> QED BY <3>1 DEF ReviewRecords
  <2> HIDE DEF w, r
  <2>8. /\ DOMAIN rows' = DOMAIN rows
        /\ \A id \in DOMAIN rows : rows'[id] = IF id = i THEN w ELSE rows[id]
        /\ \A u \in Reviewers : reviewer'[u] = IF u = v THEN r ELSE reviewer[u]
        /\ reviewer' = [u \in Reviewers |-> reviewer'[u]]
        /\ rows' = [id \in DOMAIN rows' |-> rows'[id]]
    BY <1>2, <2>1
  <2>9. TypeOK'
    BY <1>1, <1>2, <2>6, <2>8 DEF TypeOK, Locked
  <2>10. ReviewerOK(reviewer[v])'
    BY <1>1, <1>2, <2>7, <2>8 DEF ReviewerOK, HoldsRow
  <2>11. Typed'
    <3>1. \A u \in Reviewers : ReviewerOK(reviewer[u])'
      BY <1>1, <2>8, <2>10 DEF IInv, Typed, ReviewerOK
    <3>2. \A id \in DOMAIN rows' : rows'[id].reasons.corrections <= reviews'
      BY <1>1, <2>2, <2>4, <2>6, <2>8 DEF IInv, Typed
    <3> QED BY <1>1, <1>2, <2>8, <2>9, <3>1, <3>2 DEF IInv, Typed, ComparerOK
  <2>12. i \notin DOMAIN verdict => SameMark(w, rows[i]) /\ SameMark(r.seen, rows[i])
    <3>1. i \notin DOMAIN verdict => SameMark(seen, rows[i])
      BY <1>1, <1>4 DEF IInv, Undecided
    <3> QED BY <2>4, <2>6, <2>7, <3>1 DEF SameMark
  <2>13. Undecided'
    <3>1. \A id \in DOMAIN rows \ DOMAIN verdict : SameMark(rows'[id], rows[id])
      BY <2>8, <2>12 DEF SameMark
    <3> QED BY <1>1, <2>7, <2>8, <2>12, <3>1 DEF IInv, Undecided, SameMark, HoldsRow, Reviewed
  <2>14. Decided'
    <3>1. reviewer[v].kind = "correct"
      BY <1>1, <1>2 DEF ReviewerOK
    <3>2. WillClear(r, i)
      BY <2>7, <3>1 DEF WillClear
    <3>3. \A id : ~ WillClear(reviewer[v], id)
      BY <1>1 DEF WillClear
    <3>4. \A u \in Reviewers, id \in DOMAIN verdict :
            WillClear(reviewer[u], id) => WillClear(reviewer'[u], id)
      BY <2>8, <3>3
    <3>5. \A id \in DOMAIN verdict : rows'[id].status = rows[id].status
      BY <1>2, <2>6, <2>8 DEF TypeOK
    <3>6. \A id \in DOMAIN verdict : id # i => rows'[id] = rows[id]
      BY <1>2, <2>8 DEF TypeOK
    <3>7. \E u \in Reviewers : WillClear(reviewer'[u], i)
      BY <2>8, <3>2
    <3> QED BY <1>1, <3>4, <3>5, <3>6, <3>7 DEF IInv, Decided, WillClear
  <2>15. Forward'
    BY <1>1, <2>6, <2>7, <2>8 DEF IInv, Forward, HoldsRow
  <2> QED BY <2>11, <2>13, <2>14, <2>15 DEF IInv
<1> QED BY <1>3, <1>4

\* A decision leaves the mark only if it did not see it, and then somebody
\* else set it who will clear it.
LEMMA CommitDecisionKeeps ==
    ASSUME MatchAssumption, IInv, NEW v \in Reviewers, CommitDecision(v)
    PROVE  IInv'
<1>1. /\ reviewer[v].stage = "recording" /\ ~ Locked(reviewer[v].id)
      /\ Fail(v)
      /\ UNCHANGED <<lastId, halfCorrected, comparer, comparisons, reviews, clock>>
  BY DEF CommitDecision
<1>2. /\ ReviewerOK(reviewer[v]) /\ TypeOK /\ clock \in Nat /\ lastId \in Nat
      /\ rows = [id \in DOMAIN rows |-> rows[id]]
      /\ reviewer = [u \in Reviewers |-> reviewer[u]]
  BY DEF IInv, Typed
<1> DEFINE i == reviewer[v].id
           loaded == reviewer[v].loaded
<1>3. CASE i \notin DOMAIN rows
  <2>1. UNCHANGED <<rows, verdict, rule>>
    BY <1>3 DEF CommitDecision
  <2>2. \A id \in DOMAIN verdict : ~ WillClear(reviewer[v], id)
    BY <1>2, <1>3 DEF WillClear, TypeOK
  <2> QED BY <1>1, <1>2, <2>1, <2>2, FailKeeps DEF TypeOK
<1>4. CASE i \in DOMAIN rows
  <2> DEFINE new == DecidedRow(v)
             w == [column \in DOMAIN new |->
                      IF new[column] = loaded[column] THEN rows[i][column] ELSE new[column]]
             decision == [accepted |-> reviewer[v].kind # "reject",
                          product |-> reviewer[v].product, stamp |-> reviewer[v].stamp]
  <2>1. /\ rows' = [rows EXCEPT ![i] = w]
        /\ reviewer' = [reviewer EXCEPT ![v] = Resting]
        /\ verdict' = [id \in DOMAIN verdict \cup {i} |->
                           IF id = i THEN decision ELSE verdict[id]]
    BY <1>1, <1>4 DEF CommitDecision, Written, Fail, Move
  <2>2. /\ loaded \in Rows /\ rows[i] \in Rows /\ reviewer[v].product \in Matches
        /\ reviewer[v].seen \in Rows /\ reviewer[v].stamp \in 0..clock
        /\ loaded.reasons.corrections <= reviews /\ rows[i].reasons.corrections <= reviews
        /\ loaded.reasons \in Reasons
    BY <1>1, <1>2, <1>4 DEF ReviewerOK, HoldsRow, ReviewRecords, TypeOK, IInv, Typed, Rows
  <2> DEFINE reasons == WithoutAuto(loaded.reasons)
  <2>3. /\ reasons \in Reasons /\ ~ reasons.auto
        /\ reasons.corrections = loaded.reasons.corrections
        /\ ~ loaded.reasons.auto => reasons = loaded.reasons
    BY <2>2, Unmarked
  <2>4. new \in Rows /\ new.status \in {"accepted", "rejected"} /\ new.reasons = reasons
    <3> HIDE DEF reasons, loaded
    <3>1. new = IF reviewer[v].kind = "reject"
                THEN [loaded EXCEPT !.reasons = reasons, !.status = "rejected"]
                ELSE [loaded EXCEPT !.reasons = reasons, !.status = "accepted",
                                    !.product = reviewer[v].product]
      BY DEF DecidedRow, reasons, loaded
    <3> HIDE DEF new
    <3> QED BY <2>2, <2>3, <3>1 DEF Rows
  <2> HIDE DEF new
  <2>5. /\ w \in Rows
        /\ w.status = IF new.status = loaded.status THEN rows[i].status ELSE new.status
        /\ w.reasons = IF reasons = loaded.reasons THEN rows[i].reasons ELSE reasons
    BY <2>2, <2>4, ColumnsWritten
  <2> HIDE DEF w
  <2>6. w.status # "pending"
    <3>1. loaded.status # "pending" => rows[i].status # "pending"
      BY <1>1, <1>4 DEF IInv, Forward, HoldsRow
    <3> QED BY <2>4, <2>5, <3>1
  <2>7. w.reasons.corrections <= reviews /\ (w.reasons.auto => rows[i].reasons.auto)
    BY <2>2, <2>3, <2>5
  <2>8. w.reasons.auto => ~ loaded.reasons.auto
    BY <2>3, <2>5
  <2> HIDE DEF reasons
  <2>9. /\ DOMAIN rows' = DOMAIN rows
        /\ \A id \in DOMAIN rows : rows'[id] = IF id = i THEN w ELSE rows[id]
        /\ \A u \in Reviewers : reviewer'[u] = IF u = v THEN Resting ELSE reviewer[u]
        /\ reviewer' = [u \in Reviewers |-> reviewer'[u]]
        /\ rows' = [id \in DOMAIN rows' |-> rows'[id]]
        /\ DOMAIN verdict' = DOMAIN verdict \cup {i}
    BY <1>2, <2>1
  <2>10. Resting \in ReviewRecords /\ Resting.stage = "idle" /\ Resting.stamp = 0
    BY RestingOK
  <2>11. TypeOK'
    <3>1. decision \in Verdicts
      BY <2>2 DEF Verdicts
    <3>2. \A id \in DOMAIN verdict' : verdict'[id] \in Verdicts
      <4> HIDE DEF decision
      <4> QED BY <1>2, <2>1, <3>1 DEF TypeOK
    <3>3. rule' \in [Items -> [Products -> [accepted : BOOLEAN, stamp : 0 .. clock]]]
      <4> DEFINE S == [accepted : BOOLEAN, stamp : 0 .. clock]
                 it == [accepted |-> reviewer[v].kind # "reject", stamp |-> reviewer[v].stamp]
      <4>1. it \in S
        BY <2>2
      <4>2. reviewer[v].product # NoProduct => reviewer[v].product \in Products
        BY <2>2 DEF Matches
      <4>3. reviewer[v].seen.item \in Items
        BY <2>2 DEF Rows
      <4>4. rule' = rule \/ ( /\ reviewer[v].product # NoProduct
                              /\ rule' = [rule EXCEPT ![reviewer[v].seen.item] =
                                     [rule[reviewer[v].seen.item]
                                        EXCEPT ![reviewer[v].product] = it]])
        BY <1>4 DEF CommitDecision
      <4>5. rule \in [Items -> [Products -> S]]
        BY <1>2 DEF TypeOK
      <4> HIDE DEF S, it
      <4>6. rule' \in [Items -> [Products -> S]]
        BY <4>1, <4>2, <4>3, <4>4, <4>5
      <4> QED BY <4>6 DEF S
    <3>4. \A id \in DOMAIN verdict' : ~ Locked(id)'
      BY <1>1, <1>2, <2>9 DEF TypeOK, Locked
    <3> QED BY <1>1, <1>2, <1>4, <2>5, <2>9, <3>2, <3>3, <3>4 DEF TypeOK
  <2>12. Typed'
    <3>1. \A u \in Reviewers : ReviewerOK(reviewer[u])'
      BY <1>1, <1>2, <2>9, <2>10 DEF IInv, Typed, ReviewerOK, HoldsRow
    <3>2. \A id \in DOMAIN rows' : rows'[id].reasons.corrections <= reviews'
      BY <1>1, <2>7, <2>9 DEF IInv, Typed
    <3> QED BY <1>1, <1>2, <2>9, <2>11, <3>1, <3>2 DEF IInv, Typed, ComparerOK
  <2>13. Undecided'
    BY <2>9, <2>10 DEF IInv, Undecided, SameMark, HoldsRow, Reviewed
  <2>14. Decided'
    <3> SUFFICES ASSUME NEW id \in DOMAIN verdict'
                 PROVE  /\ rows'[id].status # "pending"
                        /\ rows'[id].reasons.auto =>
                             id \in halfCorrected' \/ \E u \in Reviewers : WillClear(reviewer'[u], id)
      BY DEF Decided, WillClear
    <3>1. CASE id = i
      <4>1. ASSUME rows'[id].reasons.auto
            PROVE  id \in halfCorrected \/ \E u \in Reviewers \ {v} : WillClear(reviewer[u], id)
        <5>1. rows[i].reasons.auto /\ ~ loaded.reasons.auto
          BY <1>4, <2>7, <2>8, <2>9, <3>1, <4>1
        <5>2. i \in DOMAIN verdict
          BY <1>1, <1>4, <5>1 DEF IInv, Undecided, SameMark, HoldsRow
        <5>3. ~ WillClear(reviewer[v], i)
          BY <1>1, <5>1 DEF WillClear
        <5> QED BY <3>1, <5>1, <5>2, <5>3 DEF IInv, Decided
      <4> QED BY <1>1, <1>4, <2>6, <2>9, <3>1, <4>1
    <3>2. CASE id # i
      <4>1. id \in DOMAIN verdict /\ rows'[id] = rows[id] /\ ~ WillClear(reviewer[v], id)
        BY <1>2, <2>9, <3>2 DEF TypeOK, WillClear
      <4>2. rows[id].reasons.auto =>
              id \in halfCorrected \/ \E u \in Reviewers \ {v} : WillClear(reviewer[u], id)
        BY <4>1 DEF IInv, Decided
      <4> QED BY <1>1, <2>9, <4>1, <4>2 DEF IInv, Decided
    <3> QED BY <3>1, <3>2
  <2>15. Forward'
    BY <2>6, <2>9, <2>10 DEF IInv, Forward, HoldsRow
  <2> QED BY <2>12, <2>13, <2>14, <2>15 DEF IInv
<1> QED BY <1>3, <1>4

-----------------------------------------------------------------------------
(* Comparisons.                                                            *)

\* What a comparison reports are candidates.
LEMMA ReportsOK ==
    ASSUME NEW i \in Items
    PROVE  Reports(i) \subseteq SUBSET Candidates
<1>1. ASSUME NEW s \in SUBSET Matches, NEW gone, NEW best
      PROVE  Report(i, s, gone, best) \in SUBSET Candidates
  <2> DEFINE candidate(p) == [item |-> i, of |-> p, product |-> IF p \in gone THEN NoProduct ELSE p,
                              auto |-> p = best /\ p \notin gone]
  <2>1. ASSUME NEW p \in s PROVE candidate(p) \in Candidates
    <3>1. (p = best /\ p \notin gone) \in BOOLEAN
      BY Zenon
    <3>2. p \in Matches /\ (IF p \in gone THEN NoProduct ELSE p) \in Matches
      BY DEF Matches
    <3> QED BY <3>1, <3>2, Zenon DEF Candidates
  <2>2. Report(i, s, gone, best) = {candidate(p) : p \in s}
    BY Zenon DEF Report
  <2> HIDE DEF candidate
  <2> QED BY <2>1, <2>2
<1>2. AcceptedBy(i) \subseteq Matches /\ Products \subseteq Matches /\ NoProduct \in Matches
  BY DEF AcceptedBy, Matches
<1>3. FromFeedback(i) \subseteq SUBSET Candidates
  <2>1. \A s \in LatestAccepted(i) : s \in SUBSET Matches
    BY <1>2 DEF LatestAccepted
  <2> QED BY <1>1, <2>1 DEF FromFeedback
<1>4. FromScores(i) \subseteq SUBSET Candidates
  <2>1. \A s \in SUBSET (Products \ RejectedBy(i)) : s \in SUBSET Matches
    BY <1>2
  <2>2. {NoProduct} \in SUBSET Matches
    BY <1>2
  <2> QED BY <1>1, <2>1, <2>2 DEF FromScores
<1> QED BY <1>3, <1>4 DEF Reports

LEMMA CompareKeeps ==
    ASSUME MatchAssumption, IInv, NEW c \in Comparers, Compare(c)
    PROVE  IInv'
<1>1. PICK report \in SUBSET Candidates :
        comparer' = [comparer EXCEPT ![c] =
            [AtRest EXCEPT !.stage = "computed", !.report = report]]
  <2>1. PICK found \in [Items -> UNION {Reports(i) : i \in Items}] :
          /\ \A i \in Items : found[i] \in Reports(i)
          /\ comparer' = [comparer EXCEPT ![c] =
                 [AtRest EXCEPT !.stage = "computed", !.report = UNION {found[i] : i \in Items}]]
    BY Zenon DEF Compare
  <2>2. UNION {found[i] : i \in Items} \in SUBSET Candidates
    BY <2>1, ReportsOK
  <2> QED BY <2>1, <2>2
<1> DEFINE r == [AtRest EXCEPT !.stage = "computed", !.report = report]
<1>2. ComparerOK(r) /\ r.stage = "computed"
  BY DEF ComparerOK, AtRest, CompareStages
<1>3. comparisons' \in 0..MaxComparisons
  BY DEF Compare, IInv, Typed, TypeOK, MatchAssumption
<1>4. UNCHANGED <<stored, reviewer, reviews, clock>>
  BY DEF Compare
<1> HIDE DEF r
<1> QED BY <1>1, <1>2, <1>3, <1>4, CompareMoves DEF r

LEMMA ReadExistingKeeps ==
    ASSUME MatchAssumption, IInv, NEW c \in Comparers, ReadExisting(c)
    PROVE  IInv'
<1> DEFINE reviewed == Restrict(rows, {id \in DOMAIN rows : Reviewed(rows[id])})
           r == [comparer[c] EXCEPT !.stage = "read", !.reviewed = reviewed]
<1>1. comparer' = [comparer EXCEPT ![c] = r]
      /\ UNCHANGED <<stored, reviewer, comparisons, reviews, clock>>
  BY DEF ReadExisting
<1>2. ComparerOK(comparer[c]) /\ comparisons \in 0..MaxComparisons
  BY DEF IInv, Typed, TypeOK
<1> HIDE DEF reviewed
<1>3. ComparerOK(r) /\ r.stage = "read"
  <2>1. comparer[c] \in CompareRecords(comparer[c].reviewed, reviewed)
    BY <1>2 DEF CompareRecords, ComparerOK
  <2>2. r \in CompareRecords(comparer[c].reviewed, reviewed) /\ r.stage = "read"
    BY <2>1 DEF CompareRecords, CompareStages
  <2> HIDE DEF r
  <2> QED BY <2>2, ComparerRecords
<1> HIDE DEF r
<1> QED BY <1>1, <1>2, <1>3, CompareMoves

LEMMA StartDeleteKeeps ==
    ASSUME MatchAssumption, IInv, NEW c \in Comparers, StartDelete(c)
    PROVE  IInv'
<1> DEFINE ids == DOMAIN rows \ DOMAIN comparer[c].reviewed
           r == [comparer[c] EXCEPT !.stage = "deleting", !.targets = ids]
<1>1. /\ comparer' = [comparer EXCEPT ![c] = IF Deletable(ids) THEN r ELSE AtRest]
      /\ UNCHANGED <<stored, reviewer, comparisons, reviews, clock>>
  BY DEF StartDelete
<1>2. ComparerOK(comparer[c]) /\ comparisons \in 0..MaxComparisons /\ ids \in SUBSET Nat
  BY DEF IInv, Typed, TypeOK
<1>3. Deletable(ids) => ids \cap DOMAIN verdict = {}
  BY DEF Deletable, Unreferenced
<1> HIDE DEF ids
<1>4. ComparerOK(r) /\ r.targets = ids
  <2> DEFINE reviewed == comparer[c].reviewed
  <2>1. comparer[c] \in CompareRecords(reviewed, reviewed)
    BY <1>2 DEF CompareRecords, ComparerOK
  <2>2. r \in CompareRecords(reviewed, reviewed) /\ r.targets = ids
    BY <1>2, <2>1 DEF CompareRecords, CompareStages
  <2> HIDE DEF r
  <2> QED BY <2>2, ComparerRecords
<1>5. ComparerOK(AtRest) /\ AtRest.stage = "idle"
  BY DEF ComparerOK, AtRest, CompareStages
<1> HIDE DEF r
<1>6. CASE Deletable(ids)
  BY <1>1, <1>2, <1>3, <1>4, <1>6, CompareMoves
<1>7. CASE ~ Deletable(ids)
  BY <1>1, <1>2, <1>5, <1>7, CompareMoves
<1> QED BY <1>6, <1>7

LEMMA CandidatesFinite ==
    ASSUME MatchAssumption
    PROVE  \A s \in SUBSET Candidates : IsFiniteSet(s)
<1> DEFINE tuples == (Items \X Matches) \X (Matches \X BOOLEAN)
           of == [t \in tuples |-> [item |-> t[1][1], of |-> t[1][2], product |-> t[2][1],
                                    auto |-> t[2][2]]]
           all == {of[t] : t \in tuples}
<1>1. IsFiniteSet(Items) /\ IsFiniteSet(Matches) /\ IsFiniteSet(BOOLEAN)
  <2>1. IsFiniteSet(Products \cup {NoProduct})
    BY FS_AddElement DEF MatchAssumption
  <2>2. BOOLEAN = {TRUE, FALSE}
    OBVIOUS
  <2>3. IsFiniteSet({TRUE} \cup {FALSE})
    BY FS_Singleton, FS_AddElement
  <2>4. {TRUE, FALSE} = {TRUE} \cup {FALSE}
    OBVIOUS
  <2> QED BY <2>1, <2>2, <2>3, <2>4 DEF MatchAssumption, Matches
<1>2. IsFiniteSet(tuples)
  <2>1. IsFiniteSet(Items \X Matches) /\ IsFiniteSet(Matches \X BOOLEAN)
    BY <1>1, FS_Product
  <2> QED BY <2>1, FS_Product
<1>3. IsFiniteSet(all)
  <2>1. of \in [tuples -> all] /\ \A k \in all : \E t \in tuples : of[t] = k
    OBVIOUS
  <2>2. of \in Surjection(tuples, all)
    BY <2>1 DEF Surjection
  <2> HIDE DEF tuples, of, all
  <2> QED BY <1>2, <2>2, FS_Surjection
<1>4. Candidates \subseteq all
  <2> SUFFICES ASSUME NEW k \in Candidates PROVE k \in all
    OBVIOUS
  <2> DEFINE t == <<<<k.item, k.of>>, <<k.product, k.auto>>>>
  <2>1. t \in tuples /\ k = [item |-> k.item, of |-> k.of, product |-> k.product, auto |-> k.auto]
    BY DEF Candidates
  <2>2. of[t] = k
    BY <2>1
  <2> QED BY <2>1, <2>2
<1> HIDE DEF all
<1> QED BY <1>3, <1>4, FS_Subset

LEMMA InSequence ==
    ASSUME NEW S, IsFiniteSet(S)
    PROVE  SetToSeq(S) \in Seq(S)
<1>1. PICK n \in Nat : ExistsBijection(1..n, S) /\ Cardinality(S) = n
  BY FS_CardinalityType
<1>2. \E f \in [1..Cardinality(S) -> S] : IsInjective(f)
  BY <1>1 DEF ExistsBijection, Bijection, Injection, IsInjective
<1>3. SetToSeq(S) \in [1..Cardinality(S) -> S]
  BY <1>2 DEF SetToSeq
<1> QED BY <1>1, <1>3

\* The rows inserted are not reviewed, and their ids nobody has read.
LEMMA CommitComparisonKeeps ==
    ASSUME MatchAssumption, IInv, NEW c \in Comparers, CommitComparison(c)
    PROVE  IInv'
<1> DEFINE new == SetToSeq(Inserted(c))
           targets == comparer[c].targets
<1>1. /\ comparer[c].stage = "deleting"
      /\ rows' = [id \in (DOMAIN rows \ targets) \cup (lastId + 1 .. lastId + Len(new)) |->
                     IF id > lastId THEN NewRow(new[id - lastId]) ELSE rows[id]]
      /\ lastId' = lastId + Len(new)
      /\ halfCorrected' = halfCorrected \ targets
      /\ comparer' = [comparer EXCEPT ![c] = AtRest]
      /\ UNCHANGED <<verdict, rule, reviewer, comparisons, reviews, clock>>
  BY DEF CommitComparison
<1>2. /\ TypeOK /\ lastId \in Nat /\ clock \in Nat
      /\ comparer = [d \in Comparers |-> comparer[d]]
      /\ ComparerOK(comparer[c])
      /\ reviews \in 0..MaxReviews /\ MaxReviews \in Nat
  BY DEF IInv, Typed, TypeOK, MatchAssumption
<1>3. new \in Seq(Candidates) /\ Len(new) \in Nat
  <2>1. Inserted(c) \subseteq Candidates
    BY <1>2 DEF Inserted, ComparerOK
  <2>2. new \in Seq(Inserted(c))
    BY <2>1, CandidatesFinite, InSequence
  <2> HIDE DEF new
  <2> QED BY <2>1, <2>2
<1> HIDE DEF new, targets
<1>4. \A k \in Candidates : /\ NewRow(k) \in Rows /\ ~ Reviewed(NewRow(k))
                            /\ NewRow(k).reasons.corrections = 0
  <2> SUFFICES ASSUME NEW k \in Candidates
               PROVE  /\ NewRow(k) \in Rows /\ ~ Reviewed(NewRow(k))
                      /\ NewRow(k).reasons.corrections = 0
    OBVIOUS
  <2>1. [auto |-> k.auto, corrections |-> 0] \in Reasons
    BY <1>2 DEF Candidates, Reasons
  <2> QED BY <2>1 DEF Candidates, NewRow, Reviewed, Rows
<1>5. ASSUME NEW id \in DOMAIN rows'
      PROVE  \/ id > lastId /\ \E k \in Candidates : rows'[id] = NewRow(k)
             \/ id <= lastId /\ id \in DOMAIN rows \ targets /\ rows'[id] = rows[id]
  <2>1. DOMAIN rows \subseteq 1..lastId
    BY <1>2 DEF TypeOK
  <2>2. CASE id > lastId
    <3>1. id - lastId \in 1..Len(new)
      BY <1>1, <1>2, <1>3, <1>5, <2>1, <2>2
    <3>2. new[id - lastId] \in Candidates
      BY <1>3, <3>1
    <3> QED BY <1>1, <1>5, <2>2, <3>2
  <2>3. CASE ~ (id > lastId)
    BY <1>1, <1>2, <1>3, <1>5, <2>1, <2>3
  <2> QED BY <2>2, <2>3
<1>6. \A id \in DOMAIN verdict : id \in DOMAIN rows' /\ rows'[id] = rows[id] /\ id \notin targets
  <2> SUFFICES ASSUME NEW id \in DOMAIN verdict
               PROVE  id \in DOMAIN rows' /\ rows'[id] = rows[id] /\ id \notin targets
    OBVIOUS
  <2>1. id \in DOMAIN rows /\ id \in 1..lastId /\ id \notin targets
    BY <1>1, <1>2 DEF TypeOK, Locked, targets
  <2> QED BY <1>1, <1>2, <1>3, <2>1
<1>7. \A d \in Comparers : comparer'[d] = IF d = c THEN AtRest ELSE comparer[d]
  BY <1>1, <1>2
<1>8. ComparerOK(AtRest) /\ AtRest.stage = "idle"
  BY DEF ComparerOK, AtRest, CompareStages
<1>9. lastId' \in Nat /\ lastId <= lastId' /\ DOMAIN rows' \subseteq 1..lastId'
  <2>1. DOMAIN rows' = (DOMAIN rows \ targets) \cup (lastId + 1 .. lastId + Len(new))
    BY <1>1
  <2> QED BY <1>1, <1>2, <1>3, <2>1 DEF TypeOK
<1>10. halfCorrected' \subseteq DOMAIN rows'
  <2>1. \A id \in DOMAIN rows \ targets : id \in DOMAIN rows'
    BY <1>1
  <2> QED BY <1>1, <1>2, <2>1 DEF TypeOK
<1>11. TypeOK'
  <2>1. \A id \in DOMAIN rows' : rows'[id] \in Rows
    BY <1>2, <1>4, <1>5 DEF TypeOK
  <2>2. \A id \in DOMAIN verdict : ~ Locked(id)'
    BY <1>2, <1>7, <1>8 DEF TypeOK, Locked
  <2> QED BY <1>1, <1>2, <1>6, <1>9, <1>10, <2>1, <2>2 DEF TypeOK
<1>12. Typed'
  <2>1. \A id \in DOMAIN rows' : rows'[id].reasons.corrections <= reviews'
    <3> SUFFICES ASSUME NEW id \in DOMAIN rows'
                 PROVE  rows'[id].reasons.corrections <= reviews
      BY <1>1
    <3>1. CASE \E k \in Candidates : rows'[id] = NewRow(k)
      <4>1. rows'[id].reasons.corrections = 0
        BY <1>4, <3>1
      <4> QED BY <1>2, <4>1
    <3>2. CASE id \in DOMAIN rows /\ rows'[id] = rows[id]
      BY <3>2 DEF IInv, Typed
    <3> QED BY <1>5, <3>1, <3>2
  <2>2. \A v \in Reviewers : ReviewerOK(reviewer[v])'
    BY <1>1, <1>2, <1>9 DEF IInv, Typed, ReviewerOK, HoldsRow
  <2>3. rows' = [id \in DOMAIN rows' |-> rows'[id]]
    BY <1>1
  <2>4. \A d \in Comparers : ComparerOK(comparer[d])'
    BY <1>7, <1>8 DEF IInv, Typed, ComparerOK
  <2>5. comparer' = [d \in Comparers |-> comparer'[d]]
    BY <1>1, <1>2
  <2> QED BY <1>1, <1>2, <1>9, <1>11, <2>1, <2>2, <2>3, <2>4, <2>5 DEF IInv, Typed
<1>13. Undecided'
  <2> DEFINE Seen(id) == \A v \in Reviewers : reviewer[v].stage # "idle" /\ reviewer[v].id = id =>
                             /\ SameMark(reviewer[v].seen, rows'[id])
                             /\ HoldsRow(reviewer[v]) => SameMark(reviewer[v].loaded, rows'[id])
  <2>1. ASSUME NEW id \in DOMAIN rows', id \notin DOMAIN verdict
        PROVE  ~ Reviewed(rows'[id]) /\ Seen(id)
    <3>1. CASE id > lastId /\ \E k \in Candidates : rows'[id] = NewRow(k)
      <4>1. \A v \in Reviewers : reviewer[v].stage # "idle" => reviewer[v].id # id
        BY <1>2, <3>1 DEF IInv, Typed, ReviewerOK
      <4>2. ~ Reviewed(rows'[id])
        BY <1>4, <3>1
      <4> QED BY <4>1, <4>2
    <3>2. CASE id \in DOMAIN rows /\ rows'[id] = rows[id]
      BY <2>1, <3>2 DEF IInv, Undecided
    <3> QED BY <1>5, <2>1, <3>1, <3>2
  <2>2. \A id \in DOMAIN rows' \ DOMAIN verdict :
           /\ ~ Reviewed(rows'[id])
           /\ \A v \in Reviewers : reviewer[v].stage # "idle" /\ reviewer[v].id = id =>
                /\ SameMark(reviewer[v].seen, rows'[id])
                /\ HoldsRow(reviewer[v]) => SameMark(reviewer[v].loaded, rows'[id])
    BY <2>1
  <2>3. reviewer' = reviewer /\ verdict' = verdict
    BY <1>1
  <2> HIDE DEF Seen
  <2> QED BY <2>2, <2>3 DEF Undecided, SameMark, HoldsRow, Reviewed
<1>14. Decided'
  <2>1. verdict' = verdict /\ reviewer' = reviewer
    BY <1>1
  <2>2. ASSUME NEW id \in DOMAIN verdict
        PROVE  /\ rows'[id].status # "pending"
               /\ rows'[id].reasons.auto =>
                    id \in halfCorrected' \/ \E v \in Reviewers : WillClear(reviewer[v], id)
    <3>1. rows'[id] = rows[id] /\ (id \in halfCorrected => id \in halfCorrected')
      BY <1>1, <1>6, <2>2
    <3> QED BY <2>2, <3>1 DEF IInv, Decided
  <2> QED BY <2>1, <2>2 DEF Decided, WillClear
<1>15. Forward'
  <2> SUFFICES ASSUME NEW v \in Reviewers, HoldsRow(reviewer[v]), reviewer[v].id \in DOMAIN rows',
                      reviewer[v].loaded.status # "pending"
               PROVE  rows'[reviewer[v].id].status # "pending"
    BY <1>1 DEF Forward, HoldsRow
  <2>1. reviewer[v].id \in 1..lastId
    BY DEF IInv, Typed, ReviewerOK, HoldsRow
  <2>2. reviewer[v].id \in DOMAIN rows /\ rows'[reviewer[v].id] = rows[reviewer[v].id]
    BY <1>2, <1>5, <2>1
  <2> QED BY <2>2 DEF IInv, Forward
<1> QED BY <1>12, <1>13, <1>14, <1>15 DEF IInv

-----------------------------------------------------------------------------
\* Every step keeps the invariant.
LEMMA Inductive ==
    ASSUME MatchAssumption, IInv, [Next]_vars
    PROVE  IInv'
<1>1. CASE UNCHANGED vars
  <2>1. Typed'
    BY <1>1 DEF IInv, Typed, TypeOK, Locked, ComparerOK, ReviewerOK, vars
  <2>2. (Undecided /\ Decided /\ Forward)'
    BY <1>1 DEF IInv, Undecided, Decided, Forward, WillClear, HoldsRow, SameMark, Reviewed, vars
  <2> QED BY <2>1, <2>2 DEF IInv
<1>2. ASSUME NEW c \in Comparers, Comparison(c)
      PROVE  IInv'
  BY <1>2, CompareKeeps, ReadExistingKeeps, StartDeleteKeeps, CommitComparisonKeeps
     DEF Comparison
<1>3. ASSUME NEW v \in Reviewers, Review(v)
      PROVE  IInv'
  <2>1. CASE \E id \in DOMAIN rows, kind \in Kinds, p \in Products : ReadCandidate(v, id, kind, p)
    BY <2>1, ReadCandidateKeeps
  <2>2. CASE LoadCorrection(v) \/ LoadDecision(v)
    BY <2>2, LoadRowKeeps DEF LoadCorrection, LoadDecision
  <2>3. CASE CommitCorrection(v) \/ Decide(v) \/ CommitDecision(v) \/ LoseConnection(v)
    BY <2>3, CommitCorrectionKeeps, DecideKeeps, CommitDecisionKeeps, LoseConnectionKeeps
  <2> QED BY <1>3, <2>1, <2>2, <2>3 DEF Review
<1> QED BY <1>1, <1>2, <1>3 DEF Next

\* A comparison keeps the decided rows.
LEMMA ComparisonsKeep ==
    ASSUME MatchAssumption, IInv, [Next]_vars
    PROVE  [(\E c \in Comparers : Comparison(c)) =>
              \A id \in DOMAIN verdict : id \in DOMAIN rows' /\ rows'[id] = rows[id]]_vars
<1> SUFFICES ASSUME NEW c \in Comparers, Comparison(c), NEW id \in DOMAIN verdict
             PROVE  id \in DOMAIN rows' /\ rows'[id] = rows[id]
  OBVIOUS
<1>1. /\ id \in DOMAIN rows /\ DOMAIN rows \subseteq 1..lastId /\ lastId \in Nat
      /\ ~ Locked(id)
  BY DEF IInv, Typed, TypeOK
<1>2. CASE CommitComparison(c)
  <2>1. id \notin comparer[c].targets /\ id <= lastId
    BY <1>1, <1>2 DEF CommitComparison, Locked
  <2> QED BY <1>1, <1>2, <2>1 DEF CommitComparison
<1>3. CASE Compare(c) \/ ReadExisting(c) \/ StartDelete(c)
  BY <1>1, <1>3 DEF Compare, ReadExisting, StartDelete, stored
<1> QED BY <1>2, <1>3 DEF Comparison

\* The tables and the reviews under way keep their types, feedback is of a
\* row there is, and no delete has a row with feedback among its targets.
THEOREM TypeCorrect == Spec => []TypeOK
<1>1. Init => IInv
  BY Initially, MatchAssumption
<1>2. IInv /\ [Next]_vars => IInv'
  BY Inductive, MatchAssumption
<1>3. IInv => TypeOK
  BY DEF IInv, Typed
<1> QED BY <1>1, <1>2, <1>3, PTL DEF Spec

\* A row is reviewed just when a human has decided it, save while a
\* correction of it is under way or after one has failed.
THEOREM ReviewedAreDecided == Spec => []ReviewedIffDecided
<1>1. Init => IInv
  BY Initially, MatchAssumption
<1>2. IInv /\ [Next]_vars => IInv'
  BY Inductive, MatchAssumption
<1>3. IInv => ReviewedIffDecided
  BY DEF IInv, Undecided, Decided, WillClear, ReviewedIffDecided, Reviewed, Correcting
<1> QED BY <1>1, <1>2, <1>3, PTL DEF Spec

\* No comparison deletes or changes a row a human has decided, however the
\* two interleave.
THEOREM DecidedKept == Spec => DecidedRowsKept
<1>1. Init => IInv
  BY Initially, MatchAssumption
<1>2. IInv /\ [Next]_vars => IInv'
  BY Inductive, MatchAssumption
<1>3. IInv /\ [Next]_vars =>
        [(\E c \in Comparers : Comparison(c)) =>
            \A id \in DOMAIN verdict : id \in DOMAIN rows' /\ rows'[id] = rows[id]]_vars
  BY ComparisonsKeep, MatchAssumption
<1> QED BY <1>1, <1>2, <1>3, PTL DEF Spec, DecidedRowsKept
===============================================================================
