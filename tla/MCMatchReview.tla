--------------------------- MODULE MCMatchReview ---------------------------
(***************************************************************************)
(* The comparers, reviewers, items and products of MatchReview's runs, as  *)
(* model values.  Comparers, reviewers and products are interchangeable.   *)
(***************************************************************************)
EXTENDS MatchReview
CONSTANTS i1, i2, p1, p2, none, c1, c2, r1, r2
Symmetry == Permutations(Comparers) \cup Permutations(Reviewers) \cup Permutations(Products)
=============================================================================
