----------------------------- MODULE MCJevClient -----------------------------
(***************************************************************************)
(* Two workers of one client with one slot, and requests that need two    *)
(* partitions, hold a question too large for any, belong to another run,   *)
(* or mix in a candidate of another business.                              *)
(***************************************************************************)
EXTENDS JevClient

CONSTANTS run, other, w1, w2

\* No property names a worker, and none is temporal.
WorkerSymmetry == Permutations({w1, w2})

Q(id, bytes) == [id |-> id, bytes |-> bytes, options |-> 2]
Small == Q("small", 1)
Large == Q("large", 2)
Tail2 == Q("tail", 2)
Huge  == Q("huge", 9)
Wide  == [id |-> "wide", bytes |-> 1, options |-> 9]

Of(r, questions, candidates) ==
    [run |-> r, subject |-> run, questions |-> questions,
     expected |-> {Small, Large, Tail2, Huge, Wide}, candidates |-> candidates]

SomeRequests ==
    {Of(run, <<Small, Large, Tail2>>, <<>>), Of(run, <<Wide, Small, Huge>>, <<>>),
     Of(other, <<Small>>, <<>>),
     Of(run, <<Small>>, <<[id |-> "c", product |-> "p", run |-> other]>>)}
=============================================================================
