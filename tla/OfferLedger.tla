----------------------------- MODULE OfferLedger -----------------------------
(***************************************************************************)
(* What saving supplier offers promises: a document is recorded at once,   *)
(* with its evidence and all of its items, never changes, and whoever asks *)
(* for it is answered with what was recorded.                              *)
(***************************************************************************)
CONSTANTS
    Documents,
    OffersOf,       \* what may be recorded under a document
    Nothing

VARIABLES recorded, answered

Init == recorded = [d \in Documents |-> Nothing] /\ answered = {}

Record(d) ==
    /\ recorded[d] = Nothing
    /\ \E offer \in OffersOf[d] : recorded' = [recorded EXCEPT ![d] = offer]
    /\ UNCHANGED answered

Answer(d) ==
    /\ recorded[d] # Nothing
    /\ answered' = answered \cup {<<d, recorded[d]>>}
    /\ UNCHANGED recorded

Next == \E d \in Documents : Record(d) \/ Answer(d)

Spec == Init /\ [][Next]_<<recorded, answered>>
=============================================================================
