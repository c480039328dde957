------------------------- MODULE MCDocumentAnalysis -------------------------
(***************************************************************************)
(* Small sets of answers for DocumentAnalysis.                             *)
(***************************************************************************)
EXTENDS DocumentAnalysis

NoBlocks(incomplete) ==
    [seen |-> TRUE, stray |-> FALSE, incomplete |-> incomplete, blocks |-> <<>>]
Missing(stray) ==
    [seen |-> FALSE, stray |-> stray, incomplete |-> FALSE, blocks |-> <<>>]
Showing(texts, incomplete) ==
    [seen |-> TRUE, stray |-> FALSE, incomplete |-> incomplete,
     blocks |-> [i \in DOMAIN texts |-> [text |-> texts[i], badReference |-> FALSE]]]
BadReference(text) ==
    [seen |-> TRUE, stray |-> FALSE, incomplete |-> TRUE,
     blocks |-> <<[text |-> text, badReference |-> TRUE]>>]

Answer(name, price) ==
    [doubts |-> FALSE, visual |-> FALSE, offers |-> {[name |-> name, price |-> price]}]
Doubtful(name, price) == [Answer(name, price) EXCEPT !.doubts = TRUE]
Unreadable == [doubts |-> FALSE, visual |-> TRUE, offers |-> {}]
NoOffer == [doubts |-> TRUE, visual |-> FALSE, offers |-> {}]

Verdict(route, identity, basis) ==
    [route |-> route, verified |-> {"name", "price"}, identity |-> identity, basis |-> basis]

(* The pipeline: one block at most per page, one that is classified as an  *)
(* offer, and three verdicts.                                              *)
PipelineReports == {Showing(<<"t1">>, FALSE), NoBlocks(FALSE)}
PipelineInterpretations == {Answer("n1", "p1")}
PipelineAssessments ==
    {Verdict("resolved", "prod1", "unit"), Verdict("needs_jev", "pending", "unit"),
     Verdict("needs_human_review", "pending", "unit")}

(* Recovery: one page, two blocks, every way a reread can differ.          *)
RecoveryReports ==
    {Showing(<<"t1">>, FALSE), Showing(<<"t1">>, TRUE), Showing(<<"t1", "t2">>, TRUE),
     Showing(<<"t1", "t1">>, TRUE), NoBlocks(TRUE),
     NoBlocks(FALSE), Missing(FALSE), Missing(TRUE), BadReference("t1")}
RecoveryInterpretations ==
    {Answer("n1", "p1"), Answer("n1", "p2"), Answer("n1", None), Doubtful("n1", "p1"),
     Unreadable, NoOffer}
RecoveryAssessments ==
    {Verdict("resolved", "prod1", "unit"), Verdict("resolved", "prod1", "pack"),
     Verdict("needs_visual_review", "pending", "unit"),
     [route |-> "needs_human_review", verified |-> {"name"},
      identity |-> "prod1", basis |-> "pending"]}
=============================================================================
