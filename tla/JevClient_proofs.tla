--------------------------- MODULE JevClient_proofs ---------------------------
(***************************************************************************)
(* For every number of workers, slots and calls: the semaphore is out by   *)
(* exactly the workers inside the try block, and calls, grants and records *)
(* agree.  The invariant adds to the two properties that a worker's        *)
(* request, once there is one, is one of the requests; each step moves one *)
(* worker, so the two cardinalities move by at most one.                   *)
(*                                                                         *)
(* That no question is dropped rests on the cut: by induction over the     *)
(* questions, each is in one partition or refused once.  The invariant     *)
(* then follows a question from its partition to its answer, its own       *)
(* reason or the reason of its call.                                       *)
(***************************************************************************)
EXTENDS JevClient, FiniteSetTheorems, TLAPS

Holders == {w \in Workers : Holding(w)}

Shaped(r) ==
    r \in [pc : {r.pc}, request : {r.request}, parts : {r.parts}, begun : {r.begun},
           end : {r.end}, decided : {r.decided}, reasons : {r.reasons}]

Formed ==
    /\ work = [w \in Workers |-> work[w]]
    /\ \A w \in Workers : Shaped(work[w])
    /\ \A w \in Workers : work[w].pc # "idle" => work[w].request \in Requests

IInv == Formed /\ TypeOK /\ CallsAccounted

\* What every step of one worker does: it moves that worker alone, binds the
\* provider at most once, passes at most one slot, and makes or records at
\* most one call.
WorkerMoves(w) ==
    /\ work' = [v \in Workers |-> work'[v]]
    /\ \A v \in Workers \ {w} : work'[v] = work[v]
    /\ Shaped(work'[w])
    /\ work'[w].pc \in {"idle", "next", "waiting", "slot", "checked", "posted", "done"}
    /\ work'[w].pc # "idle" =>
          work'[w].request \in Requests /\ work'[w].request.run = binding'
    /\ binding' \in Runs \cup {None}
    /\ binding \in {None, binding'}
    /\ clock' \in Nat /\ deadline' = deadline /\ batchStart' = batchStart

SlotPasses(w) ==
    \/ slots' = slots /\ (Holding(w) <=> Holding(w)')
    \/ slots > 0 /\ slots' = slots - 1 /\ ~ Holding(w) /\ Holding(w)'
    \/ slots' = slots + 1 /\ Holding(w) /\ ~ Holding(w)'

CallPasses(w) ==
    \/ /\ UNCHANGED <<callCount, granted, recorded, errorCount>>
       /\ work[w].pc # "posted" /\ work'[w].pc # "posted"
    \/ /\ callCount - batchStart < MaxCalls
       /\ callCount' = callCount + 1 /\ granted' = granted + 1
       /\ UNCHANGED <<recorded, errorCount>>
       /\ work[w].pc # "posted" /\ work'[w].pc = "posted"
    \/ /\ UNCHANGED <<callCount, granted>>
       /\ recorded' = recorded + 1 /\ errorCount' \in {errorCount, errorCount + 1}
       /\ work[w].pc = "posted" /\ work'[w].pc # "posted"

\* Two sets that differ at most in one element, and their sizes.
LEMMA OneMoves ==
    ASSUME NEW W, IsFiniteSet(W), NEW A, NEW B, A \subseteq W, B \subseteq W,
           NEW w, \A v \in W \ {w} : v \in A <=> v \in B
    PROVE  /\ Cardinality(A) \in Nat /\ Cardinality(B) \in Nat
           /\ (w \in A <=> w \in B) => Cardinality(B) = Cardinality(A)
           /\ (w \notin A /\ w \in B) => Cardinality(B) = Cardinality(A) + 1
           /\ (w \in A /\ w \notin B) => Cardinality(A) = Cardinality(B) + 1
<1>1. IsFiniteSet(A) /\ IsFiniteSet(B)
  BY FS_Subset
<1>2. Cardinality(A) \in Nat /\ Cardinality(B) \in Nat
  BY <1>1, FS_CardinalityType
<1>3. ASSUME w \in A <=> w \in B PROVE Cardinality(B) = Cardinality(A)
  <2>1. A = B
    BY <1>3
  <2> QED BY <2>1
<1>4. ASSUME w \notin A, w \in B PROVE Cardinality(B) = Cardinality(A) + 1
  <2>1. B = A \cup {w}
    BY <1>4
  <2> QED BY <1>1, <1>4, <2>1, FS_AddElement
<1>5. ASSUME w \in A, w \notin B PROVE Cardinality(A) = Cardinality(B) + 1
  <2>1. A = B \cup {w}
    BY <1>5
  <2> QED BY <1>1, <1>5, <2>1, FS_AddElement
<1> QED BY <1>2, <1>3, <1>4, <1>5

\* EXCEPT on a record of this shape.
LEMMA Retold ==
    ASSUME NEW P, NEW Q, NEW R, NEW S, NEW T, NEW U, NEW V,
           NEW r \in [pc : P, request : Q, parts : R, begun : S, end : T, decided : U, reasons : V],
           NEW pc \in P, NEW parts \in R, NEW decided \in U, NEW reasons \in V
    PROVE  LET after == [r EXCEPT !.pc = pc, !.parts = parts, !.decided = decided,
                                  !.reasons = reasons]
           IN  /\ after \in [pc : P, request : Q, parts : R, begun : S, end : T, decided : U,
                              reasons : V]
               /\ after.pc = pc
               /\ after.request = r.request
OBVIOUS

LEMMA ShapedIn ==
    ASSUME NEW P, NEW Q, NEW R, NEW S, NEW T, NEW U, NEW V,
           NEW r \in [pc : P, request : Q, parts : R, begun : S, end : T, decided : U, reasons : V]
    PROVE  Shaped(r)
BY DEF Shaped

\* An outcome ends an evaluation: the worker goes on or is done, and nobody
\* else moves.
LEMMA OutcomeMoves ==
    ASSUME NEW w \in Workers, NEW error, NEW answered, NEW wrong,
           work = [v \in Workers |-> work[v]], Shaped(work[w]),
           Outcome(w, error, answered, wrong)
    PROVE  /\ work' = [v \in Workers |-> work'[v]]
           /\ \A v \in Workers \ {w} : work'[v] = work[v]
           /\ Shaped(work'[w])
           /\ work'[w].pc \in {"next", "done"}
           /\ work'[w].request = work[w].request
<1> DEFINE stop == error \in Stops
           rest == IF stop THEN <<>> ELSE Tail(work[w].parts)
           decided == work[w].decided \cup [question : answered, at : {clock},
                                            begun : {work[w].begun}]
           reasons == work[w].reasons \cup Questions(wrong, "invalid_answer")
                        \cup IF error = None THEN {}
                             ELSE {[code |-> error, question |-> None]}
           pc == IF rest = <<>> THEN "done" ELSE "next"
           after == [work[w] EXCEPT !.pc = pc, !.parts = rest, !.decided = decided,
                                    !.reasons = reasons]
           Records == [pc : {work[w].pc, "next", "done"}, request : {work[w].request},
                       parts : {work[w].parts, rest}, begun : {work[w].begun},
                       end : {work[w].end}, decided : {work[w].decided, decided},
                       reasons : {work[w].reasons, reasons}]
<1>1. work' = [work EXCEPT ![w] = after]
  BY DEF Outcome
<1>2. pc \in {"next", "done"}
  OBVIOUS
<1> HIDE DEF stop, rest, decided, reasons, pc
<1>3. work[w] \in Records
  BY DEF Shaped
<1>4. after \in Records /\ after.pc = pc /\ after.request = work[w].request
  BY <1>2, <1>3, Retold
<1>5. Shaped(after)
  <2> HIDE DEF after
  <2> QED BY <1>4, ShapedIn
<1> HIDE DEF after, Records
<1>6. work' = [v \in Workers |-> IF v = w THEN after ELSE work[v]]
  BY <1>1
<1> QED BY <1>2, <1>4, <1>5, <1>6

\* The sizes of Holders and Posted after a step of one worker.
LEMMA CountsMove ==
    ASSUME JevAssumption, NEW w \in Workers, \A v \in Workers \ {w} : work'[v] = work[v]
    PROVE  /\ Cardinality(Holders) \in Nat /\ Cardinality(Posted) \in Nat
           /\ (Holding(w) <=> Holding(w)') => Cardinality(Holders') = Cardinality(Holders)
           /\ (~ Holding(w) /\ Holding(w)') => Cardinality(Holders') = Cardinality(Holders) + 1
           /\ (Holding(w) /\ ~ Holding(w)') => Cardinality(Holders) = Cardinality(Holders') + 1
           /\ (work[w].pc = "posted" <=> work'[w].pc = "posted")
                => Cardinality(Posted') = Cardinality(Posted)
           /\ (work[w].pc # "posted" /\ work'[w].pc = "posted")
                => Cardinality(Posted') = Cardinality(Posted) + 1
           /\ (work[w].pc = "posted" /\ work'[w].pc # "posted")
                => Cardinality(Posted) = Cardinality(Posted') + 1
<1> DEFINE A == Holders
           B == Holders'
           C == Posted
           D == Posted'
<1>1. /\ A \subseteq Workers /\ B \subseteq Workers /\ C \subseteq Workers /\ D \subseteq Workers
      /\ \A v \in Workers \ {w} : (v \in A <=> v \in B) /\ (v \in C <=> v \in D)
  BY DEF Holders, Holding, Posted
<1>2. (w \in A <=> Holding(w)) /\ (w \in B <=> Holding(w)')
      /\ (w \in C <=> work[w].pc = "posted") /\ (w \in D <=> work'[w].pc = "posted")
  BY DEF Holders, Holding, Posted
<1> HIDE DEF A, B, C, D
<1>3. IsFiniteSet(Workers)
  BY DEF JevAssumption
<1>4. /\ Cardinality(A) \in Nat
      /\ (w \in A <=> w \in B) => Cardinality(B) = Cardinality(A)
      /\ (w \notin A /\ w \in B) => Cardinality(B) = Cardinality(A) + 1
      /\ (w \in A /\ w \notin B) => Cardinality(A) = Cardinality(B) + 1
  BY <1>1, <1>3, OneMoves
<1>5. /\ Cardinality(C) \in Nat
      /\ (w \in C <=> w \in D) => Cardinality(D) = Cardinality(C)
      /\ (w \notin C /\ w \in D) => Cardinality(D) = Cardinality(C) + 1
      /\ (w \in C /\ w \notin D) => Cardinality(C) = Cardinality(D) + 1
  BY <1>1, <1>3, OneMoves
<1> QED
  BY <1>2, <1>4, <1>5 DEF A, B, C, D

LEMMA Initially ==
    ASSUME JevAssumption, Init
    PROVE  IInv
<1>1. Formed
  BY DEF Init, Formed, Idle, Shaped
<1>2. Holders = {} /\ Posted = {}
  BY DEF Init, Idle, Holders, Holding, Posted
<1>3. Cardinality(Holders) = 0 /\ Cardinality(Posted) = 0
  BY <1>2, FS_EmptySet
<1>4. TypeOK
  <2>1. slots = MaxConcurrency - Cardinality(Holders) /\ slots \in 0 .. MaxConcurrency
    BY <1>3 DEF Init, JevAssumption
  <2>2. \A w \in Workers : work[w].pc = "idle"
    BY DEF Init, Idle
  <2> QED BY <2>1, <2>2 DEF Init, TypeOK, JevAssumption, Holders
<1>5. CallsAccounted
  BY <1>3 DEF Init, Idle, CallsAccounted, JevAssumption
<1> QED BY <1>1, <1>4, <1>5 DEF IInv

LEMMA Preserved ==
    ASSUME JevAssumption, IInv, NEW w \in Workers,
           WorkerMoves(w), SlotPasses(w), CallPasses(w)
    PROVE  IInv'
<1> USE DEF WorkerMoves
<1>1. \A v \in Workers \ {w} : work'[v] = work[v]
  OBVIOUS
<1>2. Formed'
  BY DEF IInv, Formed, Shaped
<1>3. (\A v \in Workers : work[v].pc \in {"idle", "next", "waiting", "slot", "checked",
                                           "posted", "done"})'
  BY DEF IInv, TypeOK
<1>4. (\A v \in Workers : work[v].pc # "idle" => work[v].request.run = binding)'
  <2> SUFFICES ASSUME NEW v \in Workers, work'[v].pc # "idle"
               PROVE  work'[v].request.run = binding'
    OBVIOUS
  <2>1. CASE v = w
    BY <2>1
  <2>2. CASE v # w
    <3>1. work[v].request \in Requests /\ work[v].request.run = binding
      BY <2>2 DEF IInv, Formed, CallsAccounted
    <3>2. binding # None
      BY <3>1 DEF JevAssumption
    <3> QED BY <2>2, <3>1, <3>2
  <2> QED BY <2>1, <2>2
<1>5. slots' \in 0 .. MaxConcurrency /\ slots' = MaxConcurrency - Cardinality(Holders')
  <2>1. slots \in 0 .. MaxConcurrency /\ slots = MaxConcurrency - Cardinality(Holders)
    BY DEF IInv, TypeOK, Holders
  <2>2. MaxConcurrency \in Nat
    BY DEF JevAssumption
  <2> HIDE DEF WorkerMoves
  <2> DEFINE before == Cardinality(Holders)
             after == Cardinality(Holders')
  <2>3. /\ before \in Nat
        /\ \/ slots' = slots /\ after = before
           \/ slots > 0 /\ slots' = slots - 1 /\ after = before + 1
           \/ slots' = slots + 1 /\ before = after + 1 /\ after \in Nat
    <3>1. IsFiniteSet(Holders') /\ Cardinality(Holders') \in Nat
      <4>1. Holders' \subseteq Workers
        BY DEF Holders
      <4> QED BY <4>1, FS_Subset, FS_CardinalityType DEF JevAssumption
    <3> QED BY <1>1, <3>1, CountsMove DEF SlotPasses
  <2> HIDE DEF before, after
  <2>4. slots' \in 0 .. MaxConcurrency /\ slots' = MaxConcurrency - after
    BY <2>1, <2>2, <2>3 DEF before
  <2> QED BY <2>4 DEF after
<1>6. /\ granted' = callCount'
      /\ recorded' + Cardinality(Posted') = callCount'
      /\ callCount' - batchStart' \in 0 .. MaxCalls
      /\ callCount' \in Nat /\ batchStart' \in 0 .. callCount'
      /\ granted' \in Nat /\ recorded' \in Nat /\ errorCount' \in 0 .. recorded'
  <2>1. /\ granted = callCount /\ recorded + Cardinality(Posted) = callCount
        /\ callCount - batchStart \in 0 .. MaxCalls
        /\ callCount \in Nat /\ batchStart \in 0 .. callCount
        /\ granted \in Nat /\ recorded \in Nat /\ errorCount \in 0 .. recorded
    BY DEF IInv, TypeOK, CallsAccounted
  <2>2. MaxCalls \in Nat /\ batchStart' = batchStart
    BY DEF JevAssumption
  <2> HIDE DEF WorkerMoves
  <2> DEFINE before == Cardinality(Posted)
             after == Cardinality(Posted')
  <2>3. /\ before \in Nat
        /\ \/ UNCHANGED <<callCount, granted, recorded, errorCount>> /\ after = before
           \/ /\ callCount - batchStart < MaxCalls
              /\ callCount' = callCount + 1 /\ granted' = granted + 1
              /\ UNCHANGED <<recorded, errorCount>>
              /\ after = before + 1
           \/ /\ UNCHANGED <<callCount, granted>>
              /\ recorded' = recorded + 1 /\ errorCount' \in {errorCount, errorCount + 1}
              /\ before = after + 1 /\ after \in Nat
    <3>1. IsFiniteSet(Posted') /\ Cardinality(Posted') \in Nat
      <4>1. Posted' \subseteq Workers
        BY DEF Posted
      <4> QED BY <4>1, FS_Subset, FS_CardinalityType DEF JevAssumption
    <3> QED BY <1>1, <3>1, CountsMove DEF CallPasses
  <2> HIDE DEF before, after
  <2>4. /\ granted' = callCount' /\ recorded' + after = callCount'
        /\ callCount' - batchStart' \in 0 .. MaxCalls
        /\ callCount' \in Nat /\ batchStart' \in 0 .. callCount'
        /\ granted' \in Nat /\ recorded' \in Nat /\ errorCount' \in 0 .. recorded'
    BY <2>1, <2>2, <2>3 DEF before
  <2> QED BY <2>4 DEF after
<1>7. TypeOK'
  BY <1>3, <1>5, <1>6 DEF IInv, TypeOK, Holders
<1>8. CallsAccounted'
  BY <1>4, <1>6 DEF CallsAccounted
<1> QED BY <1>2, <1>7, <1>8 DEF IInv

-----------------------------------------------------------------------------
\* A step that only names the next place of the evaluation, and one that
\* also fixes when it begins and ends.
LEMMA PlaceMoves ==
    ASSUME NEW w \in Workers, NEW pc,
           work = [v \in Workers |-> work[v]], Shaped(work[w]),
           work' = [work EXCEPT ![w].pc = pc]
    PROVE  /\ work' = [v \in Workers |-> work'[v]]
           /\ \A v \in Workers \ {w} : work'[v] = work[v]
           /\ Shaped(work'[w])
           /\ work'[w].pc = pc
           /\ work'[w].request = work[w].request
<1> DEFINE Records == [pc : {work[w].pc, pc}, request : {work[w].request},
                       parts : {work[w].parts}, begun : {work[w].begun}, end : {work[w].end},
                       decided : {work[w].decided}, reasons : {work[w].reasons}]
           after == [work[w] EXCEPT !.pc = pc]
<1>1. work' = [work EXCEPT ![w] = after]
  OBVIOUS
<1>2. work[w] \in Records
  BY DEF Shaped
<1>3. after \in Records /\ after.pc = pc /\ after.request = work[w].request
  BY <1>2
<1>4. Shaped(after)
  <2> HIDE DEF after
  <2> QED BY <1>3, ShapedIn
<1> HIDE DEF after, Records
<1>5. work' = [v \in Workers |-> IF v = w THEN after ELSE work[v]]
  BY <1>1
<1> QED BY <1>3, <1>4, <1>5

LEMMA BeginningMoves ==
    ASSUME NEW w \in Workers, NEW pc, NEW begun, NEW end,
           work = [v \in Workers |-> work[v]], Shaped(work[w]),
           work' = [work EXCEPT ![w] = [work[w] EXCEPT !.pc = pc, !.begun = begun, !.end = end]]
    PROVE  /\ work' = [v \in Workers |-> work'[v]]
           /\ \A v \in Workers \ {w} : work'[v] = work[v]
           /\ Shaped(work'[w])
           /\ work'[w].pc = pc
           /\ work'[w].request = work[w].request
<1> DEFINE Records == [pc : {work[w].pc, pc}, request : {work[w].request},
                       parts : {work[w].parts}, begun : {work[w].begun, begun},
                       end : {work[w].end, end},
                       decided : {work[w].decided}, reasons : {work[w].reasons}]
           after == [work[w] EXCEPT !.pc = pc, !.begun = begun, !.end = end]
<1>1. work' = [work EXCEPT ![w] = after]
  OBVIOUS
<1>2. work[w] \in Records
  BY DEF Shaped
<1>3. after \in Records /\ after.pc = pc /\ after.request = work[w].request
  BY <1>2
<1>4. Shaped(after)
  <2> HIDE DEF after
  <2> QED BY <1>3, ShapedIn
<1> HIDE DEF after, Records
<1>5. work' = [v \in Workers |-> IF v = w THEN after ELSE work[v]]
  BY <1>1
<1> QED BY <1>3, <1>4, <1>5

\* An evaluation that is under way keeps its request and the run it binds.
LEMMA Keeps ==
    ASSUME JevAssumption, IInv, NEW w \in Workers, work[w].pc # "idle",
           work' = [v \in Workers |-> work'[v]],
           \A v \in Workers \ {w} : work'[v] = work[v],
           Shaped(work'[w]), work'[w].request = work[w].request,
           work'[w].pc \in {"next", "waiting", "slot", "checked", "posted", "done"},
           UNCHANGED <<clock, deadline, binding, batchStart>>
    PROVE  WorkerMoves(w)
BY DEF WorkerMoves, IInv, Formed, TypeOK, CallsAccounted

LEMMA BeginKeeps ==
    ASSUME JevAssumption, IInv, NEW w \in Workers, Begin(w)
    PROVE  IInv'
<1>1. work = [v \in Workers |-> work[v]] /\ Shaped(work[w])
  BY DEF IInv, Formed
<1>2. /\ work' = [v \in Workers |-> work'[v]]
      /\ \A v \in Workers \ {w} : work'[v] = work[v]
      /\ Shaped(work'[w]) /\ work'[w].request = work[w].request
      /\ work'[w].pc \in {"next", "waiting", "done"}
  <2>1. CASE Outcome(w, "deadline_exceeded", {}, {})
    BY <1>1, <2>1, OutcomeMoves
  <2>2. CASE \E end : work' = [work EXCEPT ![w] =
                [work[w] EXCEPT !.pc = "waiting", !.begun = clock, !.end = end]]
    <3> PICK end : work' = [work EXCEPT ![w] =
                [work[w] EXCEPT !.pc = "waiting", !.begun = clock, !.end = end]]
      BY <2>2
    <3> QED BY <1>1, BeginningMoves
  <2> QED BY <2>1, <2>2 DEF Begin
<1>3. WorkerMoves(w)
  BY <1>2, Keeps DEF Begin, counters
<1>4. SlotPasses(w) /\ CallPasses(w)
  BY <1>2 DEF Begin, counters, SlotPasses, CallPasses, Holding
<1> QED BY <1>3, <1>4, Preserved

LEMMA AcquireKeeps ==
    ASSUME JevAssumption, IInv, NEW w \in Workers, Acquire(w)
    PROVE  IInv'
<1>1. work = [v \in Workers |-> work[v]] /\ Shaped(work[w])
  BY DEF IInv, Formed
<1>2. /\ work' = [v \in Workers |-> work'[v]]
      /\ \A v \in Workers \ {w} : work'[v] = work[v]
      /\ Shaped(work'[w]) /\ work'[w].request = work[w].request
      /\ work'[w].pc = "slot"
  BY <1>1, PlaceMoves DEF Acquire
<1>3. WorkerMoves(w)
  BY <1>2, Keeps DEF Acquire, counters
<1>4. SlotPasses(w) /\ CallPasses(w)
  BY <1>2 DEF Acquire, counters, SlotPasses, CallPasses, Holding
<1> QED BY <1>3, <1>4, Preserved

LEMMA AcquireTimesOutKeeps ==
    ASSUME JevAssumption, IInv, NEW w \in Workers, AcquireTimesOut(w)
    PROVE  IInv'
<1>1. work = [v \in Workers |-> work[v]] /\ Shaped(work[w])
  BY DEF IInv, Formed
<1>2. /\ work' = [v \in Workers |-> work'[v]]
      /\ \A v \in Workers \ {w} : work'[v] = work[v]
      /\ Shaped(work'[w]) /\ work'[w].request = work[w].request
      /\ work'[w].pc \in {"next", "done"}
  BY <1>1, OutcomeMoves DEF AcquireTimesOut
<1>3. WorkerMoves(w)
  BY <1>2, Keeps DEF AcquireTimesOut, counters
<1>4. SlotPasses(w) /\ CallPasses(w)
  BY <1>2 DEF AcquireTimesOut, counters, SlotPasses, CallPasses, Holding
<1> QED BY <1>3, <1>4, Preserved

LEMMA CheckClockKeeps ==
    ASSUME JevAssumption, IInv, NEW w \in Workers, CheckClock(w)
    PROVE  IInv'
<1>1. work = [v \in Workers |-> work[v]] /\ Shaped(work[w])
  BY DEF IInv, Formed
<1>2. /\ work' = [v \in Workers |-> work'[v]]
      /\ \A v \in Workers \ {w} : work'[v] = work[v]
      /\ Shaped(work'[w]) /\ work'[w].request = work[w].request
      /\ \/ work'[w].pc \in {"next", "done"} /\ slots' = slots + 1
         \/ work'[w].pc = "checked" /\ slots' = slots
  <2>1. CASE Outcome(w, "deadline_exceeded", {}, {}) /\ Release
    BY <1>1, <2>1, OutcomeMoves DEF Release
  <2>2. CASE work' = [work EXCEPT ![w].pc = "checked"] /\ UNCHANGED slots
    BY <1>1, <2>2, PlaceMoves
  <2> QED BY <2>1, <2>2 DEF CheckClock
<1>3. WorkerMoves(w)
  BY <1>2, Keeps DEF CheckClock, counters
<1>4. SlotPasses(w) /\ CallPasses(w)
  BY <1>2 DEF CheckClock, counters, SlotPasses, CallPasses, Holding
<1> QED BY <1>3, <1>4, Preserved

LEMMA ReserveKeeps ==
    ASSUME JevAssumption, IInv, NEW w \in Workers, Reserve(w)
    PROVE  IInv'
<1>1. work = [v \in Workers |-> work[v]] /\ Shaped(work[w])
  BY DEF IInv, Formed
<1>2. /\ work' = [v \in Workers |-> work'[v]]
      /\ \A v \in Workers \ {w} : work'[v] = work[v]
      /\ Shaped(work'[w]) /\ work'[w].request = work[w].request
      /\ \/ /\ work'[w].pc \in {"next", "done"} /\ slots' = slots + 1
            /\ UNCHANGED <<callCount, granted>>
         \/ /\ work'[w].pc = "posted" /\ slots' = slots
            /\ callCount - batchStart < MaxCalls
            /\ callCount' = callCount + 1 /\ granted' = granted + 1
  <2>1. CASE /\ Outcome(w, "call_budget_exceeded", {}, {}) /\ Release
             /\ UNCHANGED <<callCount, granted>>
    BY <1>1, <2>1, OutcomeMoves DEF Release
  <2>2. CASE /\ callCount - batchStart < MaxCalls
             /\ callCount' = callCount + 1 /\ granted' = granted + 1
             /\ work' = [work EXCEPT ![w].pc = "posted"] /\ UNCHANGED slots
    BY <1>1, <2>2, PlaceMoves
  <2> QED BY <2>1, <2>2 DEF Reserve
<1>3. WorkerMoves(w)
  BY <1>2, Keeps DEF Reserve
<1>4. SlotPasses(w) /\ CallPasses(w)
  BY <1>2 DEF Reserve, SlotPasses, CallPasses, Holding
<1> QED BY <1>3, <1>4, Preserved

LEMMA CallEnds ==
    ASSUME JevAssumption, IInv, NEW w \in Workers, NEW error, NEW answered, NEW wrong,
           Finish(w), Outcome(w, error, answered, wrong),
           errorCount' \in {errorCount, errorCount + 1}
    PROVE  IInv'
<1>1. work = [v \in Workers |-> work[v]] /\ Shaped(work[w])
  BY DEF IInv, Formed
<1>2. /\ work' = [v \in Workers |-> work'[v]]
      /\ \A v \in Workers \ {w} : work'[v] = work[v]
      /\ Shaped(work'[w]) /\ work'[w].request = work[w].request
      /\ work'[w].pc \in {"next", "done"}
  BY <1>1, OutcomeMoves
<1>3. WorkerMoves(w)
  BY <1>2, Keeps DEF Finish, counters
<1>4. SlotPasses(w) /\ CallPasses(w)
  BY <1>2 DEF Finish, Release, counters, SlotPasses, CallPasses, Holding
<1> QED BY <1>3, <1>4, Preserved

\* A request starts a provider that serves nobody, or its own run's.
LEMMA AskKeeps ==
    ASSUME JevAssumption, IInv, NEW w \in Workers, Ask(w)
    PROVE  IInv'
<1>1. work = [v \in Workers |-> work[v]]
  BY DEF IInv, Formed
<1>2. PICK request \in Requests :
        /\ work[w].pc \in {"idle", "done"}
        /\ Bind(request.run)
        /\ \E pc \in {"next", "done"} : \E parts, reasons : work' = [work EXCEPT ![w] =
              [Idle EXCEPT !.pc = pc, !.request = request, !.parts = parts,
                           !.reasons = reasons]]
        /\ UNCHANGED <<clock, deadline, slots, counters, errorCount, recorded>>
  BY DEF Ask
<1>3. PICK pc \in {"next", "done"} : \E parts, reasons : work' = [work EXCEPT ![w] =
              [Idle EXCEPT !.pc = pc, !.request = request, !.parts = parts,
                           !.reasons = reasons]]
  BY <1>2
<1>31. PICK parts, reasons : work' = [work EXCEPT ![w] =
              [Idle EXCEPT !.pc = pc, !.request = request, !.parts = parts,
                           !.reasons = reasons]]
  BY <1>3
<1> DEFINE Records == [pc : {"idle", pc}, request : {None, request}, parts : {<<>>, parts},
                       begun : {0}, end : {0}, decided : {{}}, reasons : {{}, reasons}]
           after == [Idle EXCEPT !.pc = pc, !.request = request, !.parts = parts,
                                 !.reasons = reasons]
<1>4. Idle \in Records
  BY DEF Idle
<1>5. after \in Records /\ after.pc = pc /\ after.request = request
  BY <1>4
<1>6. Shaped(after)
  <2> HIDE DEF after
  <2> QED BY <1>5 DEF Shaped
<1>7. work' = [v \in Workers |-> IF v = w THEN after ELSE work[v]]
  BY <1>1, <1>31
<1> HIDE DEF after, Records
<1>8. WorkerMoves(w)
  <2>1. request.run \in Runs
    BY DEF JevAssumption
  <2> QED
    BY <1>2, <1>3, <1>5, <1>6, <1>7, <2>1 DEF WorkerMoves, Bind, counters, IInv, TypeOK
<1>9. SlotPasses(w) /\ CallPasses(w)
  BY <1>2, <1>3, <1>5, <1>7 DEF counters, SlotPasses, CallPasses, Holding
<1> QED BY <1>8, <1>9, Preserved

LEMMA AskRaisesKeeps ==
    ASSUME JevAssumption, IInv, NEW w \in Workers, AskRaises(w)
    PROVE  IInv'
<1>1. work = [v \in Workers |-> work[v]]
  BY DEF IInv, Formed
<1>2. PICK request \in Requests :
        /\ work[w].pc \in {"idle", "done"}
        /\ UNCHANGED binding \/ Bind(request.run)
        /\ work' = [work EXCEPT ![w] = Idle]
        /\ UNCHANGED <<clock, deadline, slots, counters, errorCount, recorded>>
  BY DEF AskRaises
<1>3. work' = [v \in Workers |-> IF v = w THEN Idle ELSE work[v]]
  BY <1>1, <1>2
<1>4. Shaped(Idle) /\ Idle.pc = "idle"
  BY DEF Shaped, Idle
<1>5. WorkerMoves(w)
  <2>1. request.run \in Runs
    BY DEF JevAssumption
  <2> QED BY <1>2, <1>3, <1>4, <2>1 DEF WorkerMoves, Bind, counters, IInv, TypeOK
<1>6. SlotPasses(w) /\ CallPasses(w)
  BY <1>2, <1>3, <1>4 DEF counters, SlotPasses, CallPasses, Holding
<1> QED BY <1>5, <1>6, Preserved

\* A batch starts with no call posted, so the quota starts from nothing.
LEMMA StartBatchKeeps ==
    ASSUME JevAssumption, IInv, StartBatch
    PROVE  IInv'
<1>1. Formed'
  BY DEF StartBatch, IInv, Formed, Shaped
<1>2. Holders' = Holders /\ Posted' = Posted
  BY DEF StartBatch, Holders, Holding, Posted
<1>3. TypeOK'
  BY <1>2 DEF StartBatch, IInv, TypeOK, Holders, Holding, JevAssumption
<1>4. CallsAccounted'
  BY <1>2 DEF StartBatch, IInv, TypeOK, CallsAccounted, JevAssumption
<1> QED BY <1>1, <1>3, <1>4 DEF IInv

LEMMA OthersKeep ==
    ASSUME JevAssumption, IInv, Tick \/ UNCHANGED vars
    PROVE  IInv'
<1>1. clock' \in Nat
  BY DEF IInv, TypeOK, Tick, vars
<1>2. UNCHANGED <<deadline, slots, callCount, batchStart, granted, errorCount, binding,
                  recorded, work>>
  BY DEF Tick, vars, counters
<1>3. Formed' /\ Holders' = Holders /\ Posted' = Posted
  BY <1>2 DEF IInv, Formed, Shaped, Holders, Holding, Posted
<1>4. TypeOK'
  BY <1>1, <1>2, <1>3 DEF IInv, TypeOK, Holders, Holding
<1>5. CallsAccounted'
  BY <1>2, <1>3 DEF IInv, CallsAccounted
<1> QED BY <1>3, <1>4, <1>5 DEF IInv

-----------------------------------------------------------------------------
\* Every step keeps the invariant.
LEMMA Inductive ==
    ASSUME JevAssumption, IInv, [Next]_vars
    PROVE  IInv'
<1>1. CASE StartBatch
  BY <1>1, StartBatchKeeps
<1>2. CASE Tick \/ UNCHANGED vars
  BY <1>2, OthersKeep
<1>3. CASE \E w \in Workers : Ask(w) \/ AskRaises(w) \/ Evaluate(w)
  <2> PICK w \in Workers : Ask(w) \/ AskRaises(w) \/ Evaluate(w)
    BY <1>3
  <2>1. CASE Ask(w)
    BY <2>1, AskKeeps
  <2>2. CASE AskRaises(w)
    BY <2>2, AskRaisesKeeps
  <2>3. CASE Begin(w)
    BY <2>3, BeginKeeps
  <2>4. CASE Acquire(w)
    BY <2>4, AcquireKeeps
  <2>5. CASE AcquireTimesOut(w)
    BY <2>5, AcquireTimesOutKeeps
  <2>6. CASE CheckClock(w)
    BY <2>6, CheckClockKeeps
  <2>7. CASE Reserve(w)
    BY <2>7, ReserveKeeps
  <2>8. CASE CallFails(w)
    <3> PICK error \in TransportErrors :
          Finish(w) /\ Outcome(w, error, {}, {}) /\ errorCount' = errorCount + 1
      BY <2>8 DEF CallFails
    <3> QED BY CallEnds
  <2>9. CASE Reply(w)
    <3> PICK answered \in SUBSET Head(work[w].parts) :
          /\ Finish(w)
          /\ Outcome(w, None, answered, Head(work[w].parts) \ answered)
          /\ errorCount' \in {errorCount, errorCount + 1}
      BY <2>9 DEF Reply
    <3> QED BY CallEnds
  <2> QED
    BY <2>1, <2>2, <2>3, <2>4, <2>5, <2>6, <2>7, <2>8, <2>9 DEF Evaluate
<1> QED BY <1>1, <1>2, <1>3 DEF Next

\* Whatever the workers, the slots and the quota: the semaphore is out by
\* exactly the workers that hold a slot, so none is leaked or returned twice
\* by a path of JevAnalysisClient.evaluate.
THEOREM TypeCorrect == Spec => []TypeOK
<1>1. Init => IInv
  BY Initially, JevAssumption
<1>2. IInv /\ [Next]_vars => IInv'
  BY Inductive, JevAssumption
<1>3. IInv => TypeOK
  BY DEF IInv
<1> QED BY <1>1, <1>2, <1>3, PTL DEF Spec

\* Whatever the workers and the order of their steps: every call posted was
\* granted once and is recorded once, no batch posts more than its quota, and
\* every call is of the run the provider is bound to.
THEOREM CallsAgree == Spec => []CallsAccounted
<1>1. Init => IInv
  BY Initially, JevAssumption
<1>2. IInv /\ [Next]_vars => IInv'
  BY Inductive, JevAssumption
<1>3. IInv => CallsAccounted
  BY DEF IInv
<1> QED BY <1>1, <1>2, <1>3, PTL DEF Spec

-----------------------------------------------------------------------------
(* What the cut of a request gives, for every sequence of questions.       *)

\* Induction with a set for the property.
LEMMA SetInduction ==
    ASSUME NEW P, 0 \in P, \A n \in Nat : n \in P => n + 1 \in P
    PROVE  Nat \subseteq P
<1> SUFFICES ASSUME NEW n \in Nat, n \notin P PROVE FALSE
  OBVIOUS
<1> DEFINE S == {m \in 0..n : m \notin P}
           before == [m \in S |-> m - 1]
<1>1. IsFiniteSet(S) /\ n \in S
  <2>1. IsFiniteSet(0..n) /\ S \in SUBSET (0..n)
    BY FS_Interval
  <2> HIDE DEF S
  <2>2. IsFiniteSet(S)
    BY <2>1, FS_Subset
  <2> QED BY <2>2 DEF S
<1>2. IsFiniteSet(S \ {n}) /\ Cardinality(S \ {n}) < Cardinality(S)
  <2> HIDE DEF S
  <2>1. IsFiniteSet(S \ {n}) /\ Cardinality(S \ {n}) = Cardinality(S) - 1
    BY <1>1, FS_RemoveElement
  <2>2. Cardinality(S) \in Nat
    BY <1>1, FS_CardinalityType
  <2> QED BY <2>1, <2>2
<1>3. before \in [S -> S \ {n}]
  <2> SUFFICES ASSUME NEW m \in S PROVE m - 1 \in S \ {n}
    OBVIOUS
  <2>1. m \in Nat /\ m # 0 /\ m <= n /\ m \notin P
    OBVIOUS
  <2>2. m - 1 \in Nat /\ m - 1 \notin P
    BY <2>1
  <2> QED BY <2>1, <2>2
<1>4. \A m, k \in S : before[m] = before[k] => m = k
  OBVIOUS
<1> HIDE DEF S, before
<1>5. \E m, k \in S : m # k /\ before[m] = before[k]
  BY <1>1, <1>2, <1>3, FS_PigeonHole
<1> QED BY <1>4, <1>5

LEMMA MaxOf ==
    ASSUME NEW n \in Nat, NEW s \in SUBSET (1..n), s # {}
    PROVE  Max(s) \in s /\ \A i \in s : i <= Max(s)
<1> DEFINE P == {k \in Nat : (\E i \in s : i >= n - k) =>
                                \E i \in s : \A j \in s : i >= j}
<1>1. 0 \in P
  <2> SUFFICES ASSUME NEW i \in s, i >= n PROVE \A j \in s : i >= j
    OBVIOUS
  <2> QED OBVIOUS
<1>2. ASSUME NEW k \in Nat, k \in P PROVE k + 1 \in P
  <2> SUFFICES ASSUME NEW i \in s, i >= n - (k + 1), \A j \in s : j < n - k
               PROVE  \A j \in s : i >= j
    BY <1>2
  <2>1. ASSUME NEW j \in s PROVE i >= j
    <3>1. i \in Nat /\ j \in Nat /\ j < n - k
      OBVIOUS
    <3> QED BY <3>1
  <2> QED BY <2>1
<1> HIDE DEF P
<1>3. n \in P
  BY <1>1, <1>2, SetInduction
<1>4. \E i \in s : i >= n - n
  <2>1. PICK i : i \in s
    OBVIOUS
  <2>2. i \in 1..n
    BY <2>1
  <2>3. i >= n - n
    BY <2>2
  <2> QED BY <2>1, <2>3
<1>5. \E i \in s : \A j \in s : i >= j
  BY <1>3, <1>4 DEF P
<1>6. Max(s) \in s /\ \A j \in s : Max(s) >= j
  BY <1>5 DEF Max
<1>7. \A j \in s : j \in Nat
  OBVIOUS
<1> QED BY <1>6, <1>7

LEMMA MaxOfPrefix ==
    ASSUME NEW k \in Nat
    PROVE  Max(1 .. (k + 1)) = k + 1 /\ (1 .. (k + 1)) \ {k + 1} = 1..k
<1> DEFINE s == 1 .. (k + 1)
<1>1. s \in SUBSET (1 .. (k + 1)) /\ k + 1 \in s /\ \A i \in s : i <= k + 1 /\ i \in Nat
  OBVIOUS
<1> HIDE DEF s
<1>2. Max(s) \in s /\ k + 1 <= Max(s)
  BY <1>1, MaxOf
<1>3. Max(s) = k + 1
  <2> DEFINE m == Max(s)
  <2>1. m \in s /\ k + 1 <= m
    BY <1>2
  <2> HIDE DEF m
  <2>2. m <= k + 1 /\ m \in Nat
    BY <1>1, <2>1
  <2>3. m = k + 1
    BY <2>1, <2>2
  <2> QED BY <2>3 DEF m
<1> QED BY <1>3 DEF s

NoCut == [parts |-> <<>>, current |-> {}, refused |-> {}]
CutBody(questions, f, s) ==
    IF s = {} THEN NoCut ELSE AddQuestion(f[s \ {Max(s)}], questions[Max(s)])

\* There is a function that the recursion of the fold defines.
LEMMA CutExists ==
    ASSUME NEW questions, NEW n \in Nat
    PROVE  \E f : f = [s \in SUBSET (1..n) |-> CutBody(questions, f, s)]
<1> DEFINE D == SUBSET (1..n)
           Upto(k) == {s \in D : \A i \in s : i <= k}
           Solves(f, k) == \A s \in Upto(k) : f[s] = CutBody(questions, f, s)
           P == {k \in Nat : \E f : Solves(f, k)}
<1>1. 0 \in P
  <2> DEFINE f == [s \in D |-> NoCut]
  <2>1. Upto(0) \subseteq {{}} /\ {} \in D
    OBVIOUS
  <2>2. Solves(f, 0)
    BY <2>1 DEF CutBody
  <2> HIDE DEF f
  <2> QED BY <2>2
<1>2. ASSUME NEW k \in Nat, k \in P PROVE k + 1 \in P
  <2>1. PICK f : Solves(f, k)
    BY <1>2
  <2> DEFINE g == [s \in D |-> CutBody(questions, f, s)]
  <2>2. \A s \in Upto(k) : g[s] = f[s]
    BY <2>1
  <2>3. ASSUME NEW s \in Upto(k + 1), s # {} PROVE s \ {Max(s)} \in Upto(k)
    <3>1. s \in D /\ \A i \in s : i \in Nat /\ i <= k + 1
      OBVIOUS
    <3>2. Max(s) \in s /\ \A i \in s : i <= Max(s)
      BY <2>3, MaxOf
    <3> DEFINE m == Max(s)
    <3>3. m \in s /\ \A i \in s : i <= m
      BY <3>2
    <3> HIDE DEF m
    <3>4. ASSUME NEW i \in s \ {m} PROVE i <= k
      BY <3>1, <3>3
    <3>5. s \ {m} \in Upto(k)
      BY <3>1, <3>4
    <3> QED BY <3>5 DEF m
  <2>4. Solves(g, k + 1)
    BY <2>2, <2>3 DEF CutBody
  <2> HIDE DEF g
  <2> QED BY <2>4
<1> HIDE DEF P
<1>3. n \in P
  BY <1>1, <1>2, SetInduction
<1> USE DEF P
<1>4. PICK f : Solves(f, n)
  BY <1>3
<1> DEFINE g == [s \in D |-> CutBody(questions, f, s)]
<1>5. \A s \in D : s \in Upto(n)
  OBVIOUS
<1>6. \A s \in D : g[s] = f[s] /\ s \ {Max(s)} \in D
  BY <1>4, <1>5
<1>7. g = [s \in D |-> CutBody(questions, g, s)]
  BY <1>6 DEF CutBody
<1> HIDE DEF g
<1> QED BY <1>7

\* The fold of CutOpen, prefix by prefix.
LEMMA CutUnfolds ==
    ASSUME NEW questions, NEW n \in Nat, DOMAIN questions = 1..n
    PROVE  \E f : /\ f[1..0] = NoCut
                  /\ \A k \in 0 .. (n - 1) :
                        f[1 .. (k + 1)] = AddQuestion(f[1..k], questions[k + 1])
                  /\ CutOpen(questions) = f[1..n]
<1> DEFINE D == SUBSET (1..n)
           iter == CHOOSE f : f = [s \in D |-> CutBody(questions, f, s)]
<1>1. iter = [s \in D |-> CutBody(questions, iter, s)]
  BY CutExists
<1>2. CutOpen(questions) = iter[DOMAIN questions]
  BY Zenon DEF CutOpen, FoldLeft, MapThenFoldSet, NoCut, CutBody
<1> HIDE DEF iter
<1>3. iter[1..0] = NoCut
  <2>1. 1..0 = {} /\ {} \in D
    OBVIOUS
  <2> QED BY <1>1, <2>1 DEF CutBody
<1>4. ASSUME NEW k \in 0 .. (n - 1)
      PROVE  iter[1 .. (k + 1)] = AddQuestion(iter[1..k], questions[k + 1])
  <2> DEFINE s == 1 .. (k + 1)
  <2>1. k \in Nat /\ s \in D /\ k + 1 \in s
    OBVIOUS
  <2>2. Max(s) = k + 1 /\ s \ {k + 1} = 1..k
    BY <2>1, MaxOfPrefix
  <2> HIDE DEF s
  <2>3. iter[s] = AddQuestion(iter[1..k], questions[k + 1])
    BY <1>1, <2>1, <2>2 DEF CutBody
  <2> QED BY <2>3 DEF s
<1> QED BY <1>2, <1>3, <1>4

\* How a cut stands after the first k questions: the partitions, the open
\* one and the refusals hold each of them, and no question twice.
Pending(parts) == UNION {parts[i] : i \in DOMAIN parts}
Apart(parts) == \A i, j \in DOMAIN parts : i # j => parts[i] \cap parts[j] = {}
Cut(parts, Q) == parts \in Seq(SUBSET Q) /\ Apart(parts)
Refusals(Q) == [code : {Preflight({q}) : q \in Q}, question : Q]
Open(Q) == [parts : Seq(SUBSET Q), current : SUBSET Q, refused : SUBSET Refusals(Q)]

Placed(acc, Q, S) ==
    /\ acc \in Open(Q)
    /\ Apart(acc.parts)
    /\ Pending(acc.parts) \cap acc.current = {}
    /\ \A r \in acc.refused : r.question \notin Pending(acc.parts) \cup acc.current
    /\ \A r, s \in acc.refused : r.question = s.question => r = s
    /\ Pending(acc.parts) \cup acc.current \cup {r.question : r \in acc.refused} = S

\* One more partition.
LEMMA OneMorePart ==
    ASSUME NEW Q, NEW parts, Cut(parts, Q), NEW part \in SUBSET Q,
           Pending(parts) \cap part = {}
    PROVE  /\ Cut(Append(parts, part), Q)
           /\ Pending(Append(parts, part)) = Pending(parts) \cup part
<1> DEFINE after == Append(parts, part)
           n == Len(parts)
<1>1. /\ after \in Seq(SUBSET Q) /\ n \in Nat /\ DOMAIN parts = 1..n
      /\ DOMAIN after = 1 .. (n + 1)
      /\ after[n + 1] = part /\ \A i \in 1..n : after[i] = parts[i]
  BY DEF Cut
<1> HIDE DEF after, n
<1>2. \A i \in DOMAIN after : i \in 1..n \/ i = n + 1
  BY <1>1
<1>3. \A i \in 1..n : i \in DOMAIN after /\ i # n + 1 /\ parts[i] \cap part = {}
  BY <1>1 DEF Pending
<1>4. Apart(after)
  BY <1>1, <1>2, <1>3 DEF Cut, Apart
<1>5. n + 1 \in DOMAIN after
  BY <1>1
<1>6. Pending(after) = Pending(parts) \cup part
  BY <1>1, <1>2, <1>3, <1>5 DEF Pending
<1> QED BY <1>1, <1>4, <1>6 DEF Cut, after

LEMMA AddPlaces ==
    ASSUME NEW Q, NEW S, NEW acc, Placed(acc, Q, S), NEW q \in Q, q \notin S
    PROVE  Placed(AddQuestion(acc, q), Q, S \cup {q})
<1> DEFINE closed == IF acc.current = {} THEN acc.parts ELSE Append(acc.parts, acc.current)
           joined == [acc EXCEPT !.current = @ \cup {q}]
           opened == [acc EXCEPT !.parts = closed, !.current = {q}]
           refused == [parts |-> closed, current |-> {},
                       refused |-> acc.refused \cup {[code |-> Preflight({q}), question |-> q]}]
<1>1. /\ acc \in Open(Q) /\ Cut(acc.parts, Q) /\ acc.current \in SUBSET Q
      /\ acc.refused \in SUBSET Refusals(Q)
      /\ Pending(acc.parts) \cap acc.current = {}
  BY DEF Placed, Open, Cut
<1>2. q \notin Pending(acc.parts) \cup acc.current \cup {r.question : r \in acc.refused}
  BY DEF Placed
<1>3. Cut(closed, Q) /\ Pending(closed) = Pending(acc.parts) \cup acc.current
  <2>1. CASE acc.current = {}
    BY <1>1, <2>1
  <2>2. CASE acc.current # {}
    BY <1>1, <2>2, OneMorePart
  <2> QED BY <2>1, <2>2
<1> HIDE DEF closed
<1>4. AddQuestion(acc, q) \in {joined, opened, refused}
  BY DEF AddQuestion, closed
<1>5. Placed(joined, Q, S \cup {q})
  <2>1. /\ joined \in Open(Q) /\ joined.parts = acc.parts /\ joined.refused = acc.refused
        /\ joined.current = acc.current \cup {q}
    BY <1>1 DEF Open
  <2> HIDE DEF joined
  <2> QED BY <1>2, <2>1 DEF Placed
<1>6. Placed(opened, Q, S \cup {q})
  <2>1. /\ opened \in Open(Q) /\ opened.parts = closed /\ opened.refused = acc.refused
        /\ opened.current = {q}
    BY <1>1, <1>3 DEF Open, Cut
  <2> HIDE DEF opened
  <2> QED BY <1>2, <1>3, <2>1 DEF Placed, Cut
<1>7. Placed(refused, Q, S \cup {q})
  <2> DEFINE new == [code |-> Preflight({q}), question |-> q]
  <2>1. new \in Refusals(Q) /\ new.question = q
    BY DEF Refusals
  <2> HIDE DEF new
  <2>2. /\ refused \in Open(Q) /\ refused.parts = closed /\ refused.refused = acc.refused \cup {new}
        /\ refused.current = {}
    BY <1>1, <1>3, <2>1 DEF Open, Cut, new
  <2> HIDE DEF refused
  <2> QED BY <1>2, <1>3, <2>1, <2>2 DEF Placed, Cut
<1> QED BY <1>4, <1>5, <1>6, <1>7

\* However the wire limits cut a request, each of its questions is in exactly
\* one partition or refused by exactly one reason.
LEMMA PartitionsPlace ==
    ASSUME NEW Q, NEW questions \in Seq(Q),
           \A i, j \in DOMAIN questions : i # j => questions[i] # questions[j]
    PROVE  LET cut == Partitions(questions)
           IN  /\ Cut(cut.parts, Q)
               /\ cut.refused \in SUBSET Refusals(Q)
               /\ \A r \in cut.refused : r.question \notin Pending(cut.parts)
               /\ \A r, s \in cut.refused : r.question = s.question => r = s
               /\ Pending(cut.parts) \cup {r.question : r \in cut.refused} = Range(questions)
<1> DEFINE n == Len(questions)
           Before(k) == {questions[i] : i \in 1..k}
<1>1. n \in Nat /\ DOMAIN questions = 1..n /\ \A i \in 1..n : questions[i] \in Q
  OBVIOUS
<1> HIDE DEF n
<1>2. PICK f : /\ f[1..0] = NoCut
               /\ \A k \in 0 .. (n - 1) :
                     f[1 .. (k + 1)] = AddQuestion(f[1..k], questions[k + 1])
               /\ CutOpen(questions) = f[1..n]
  BY <1>1, CutUnfolds
<1> DEFINE P == {k \in Nat : k <= n => Placed(f[1..k], Q, Before(k))}
<1>3. 0 \in P
  <2>1. NoCut \in Open(Q) /\ NoCut.parts = <<>> /\ NoCut.current = {} /\ NoCut.refused = {}
    BY DEF NoCut, Open
  <2>2. Pending(<<>>) = {} /\ Apart(<<>>) /\ Before(0) = {}
    BY DEF Pending, Apart
  <2>3. Placed(NoCut, Q, Before(0))
    BY <2>1, <2>2 DEF Placed
  <2> QED BY <1>2, <2>3
<1>4. ASSUME NEW k \in Nat, k \in P PROVE k + 1 \in P
  <2> SUFFICES ASSUME k + 1 <= n PROVE Placed(f[1 .. (k + 1)], Q, Before(k + 1))
    OBVIOUS
  <2>1. k <= n /\ k \in 0 .. (n - 1) /\ k + 1 \in 1..n
    BY <1>1
  <2>2. Placed(f[1..k], Q, Before(k))
    BY <1>4, <2>1
  <2>3. questions[k + 1] \in Q /\ questions[k + 1] \notin Before(k)
    <3>1. \A i \in 1..k : i \in 1..n /\ i # k + 1
      BY <1>1, <2>1
    <3> QED BY <1>1, <2>1, <3>1
  <2>4. Before(k + 1) = Before(k) \cup {questions[k + 1]}
    <3>1. 1 .. (k + 1) = (1..k) \cup {k + 1}
      OBVIOUS
    <3> QED BY <3>1
  <2> HIDE DEF Before
  <2> QED BY <1>2, <2>1, <2>2, <2>3, <2>4, AddPlaces
<1> HIDE DEF P
<1>5. n \in P
  BY <1>1, <1>3, <1>4, SetInduction
<1>6. Placed(CutOpen(questions), Q, Before(n))
  BY <1>1, <1>2, <1>5 DEF P
<1>7. Before(n) = Range(questions)
  BY <1>1 DEF Range
<1> DEFINE acc == CutOpen(questions)
           whole == [acc EXCEPT !.parts = Append(@, acc.current)]
<1> HIDE DEF Before, acc
<1>8. Placed(acc, Q, Range(questions))
  BY <1>6, <1>7 DEF acc
<1>9. /\ acc \in Open(Q) /\ Cut(acc.parts, Q) /\ acc.current \in SUBSET Q
      /\ Pending(acc.parts) \cap acc.current = {}
      /\ acc.refused \in SUBSET Refusals(Q)
  BY <1>8 DEF Placed, Open, Cut
<1>10. Partitions(questions) = IF acc.current = {} THEN acc ELSE whole
  BY DEF Partitions, acc
<1>11. CASE acc.current = {}
  BY <1>8, <1>9, <1>10, <1>11 DEF Placed
<1>12. CASE acc.current # {}
  <2>1. /\ Cut(Append(acc.parts, acc.current), Q)
        /\ Pending(Append(acc.parts, acc.current)) = Pending(acc.parts) \cup acc.current
    BY <1>9, OneMorePart
  <2>2. whole.parts = Append(acc.parts, acc.current) /\ whole.refused = acc.refused
    BY <1>9 DEF Open
  <2> HIDE DEF whole
  <2> QED BY <1>8, <1>9, <1>10, <1>12, <2>1, <2>2 DEF Placed
<1> QED BY <1>11, <1>12

-----------------------------------------------------------------------------
(* What becomes of each question.  A question that is in no partition any  *)
(* more was answered, has a reason of its own, or its call has one; no     *)
(* question is in two of these places.                                     *)

Answers(r, q) == {d \in r.decided : d.question = q}
Own(r, q) == {x \in r.reasons : x.question = q}

Once(r, q) ==
    /\ Answers(r, q) = {} \/ Own(r, q) = {}
    /\ \A d, e \in Answers(r, q) : d = e
    /\ \A x, y \in Own(r, q) : x = y

Told(r, Q) ==
    /\ Cut(r.parts, Q)
    /\ \A q \in Q : Once(r, q)
    /\ \A q \in Pending(r.parts) : Answers(r, q) = {} /\ Own(r, q) = {}
    /\ \A q \in Q \ Pending(r.parts) : Answers(r, q) \cup Own(r, q) \cup Own(r, None) # {}

UnderWay == {"waiting", "slot", "checked", "posted"}
InTime(r) ==
    /\ \A d \in r.decided : d.at - d.begun <= Timeout
    /\ r.pc \in UnderWay => r.begun \in Nat /\ r.end \in Nat /\ r.end <= r.begun + Timeout

ToldInTime(r) ==
    /\ Told(r, Range(r.request.questions)) /\ InTime(r)
    /\ r.pc = "done" <=> r.parts = <<>>

AnswerInv == \A w \in Workers : work[w].pc # "idle" => ToldInTime(work[w])

LEMMA HeadAndTail ==
    ASSUME NEW Q, NEW parts, Cut(parts, Q), parts # <<>>
    PROVE  /\ Cut(Tail(parts), Q) /\ Head(parts) \in SUBSET Q
           /\ Pending(parts) = Head(parts) \cup Pending(Tail(parts))
           /\ Head(parts) \cap Pending(Tail(parts)) = {}
<1> DEFINE n == Len(parts)
           rest == Tail(parts)
<1>1. /\ n \in Nat \ {0} /\ DOMAIN parts = 1..n /\ rest \in Seq(SUBSET Q)
      /\ DOMAIN rest = 1 .. (n - 1)
      /\ Head(parts) = parts[1] /\ \A i \in 1 .. (n - 1) : rest[i] = parts[i + 1]
      /\ parts[1] \in SUBSET Q
  BY DEF Cut
<1>2. \A i, j \in 1..n : i # j => parts[i] \cap parts[j] = {}
  BY <1>1 DEF Cut, Apart
<1> HIDE DEF n, rest
<1>3. \A i \in 1 .. (n - 1) : i + 1 \in 1..n /\ i + 1 # 1 /\ 1 \in 1..n
  BY <1>1
<1>4. \A i \in 1..n : i = 1 \/ (i - 1 \in 1 .. (n - 1) /\ i = (i - 1) + 1)
  BY <1>1
<1>5. Apart(rest)
  <2> SUFFICES ASSUME NEW i \in 1 .. (n - 1), NEW j \in 1 .. (n - 1), i # j
               PROVE  rest[i] \cap rest[j] = {}
    BY <1>1 DEF Apart
  <2>1. i + 1 \in 1..n /\ j + 1 \in 1..n /\ i + 1 # j + 1
    BY <1>1
  <2> QED BY <1>1, <1>2, <2>1
<1>6. Pending(parts) = parts[1] \cup Pending(rest)
  <2>1. ASSUME NEW q \in Pending(parts) PROVE q \in parts[1] \cup Pending(rest)
    <3>1. PICK i \in 1..n : q \in parts[i]
      BY <1>1 DEF Pending
    <3>2. CASE i = 1
      BY <3>1, <3>2
    <3>3. CASE i - 1 \in 1 .. (n - 1) /\ i = (i - 1) + 1
      <4>1. q \in rest[i - 1]
        BY <1>1, <3>1, <3>3
      <4> QED BY <1>1, <3>3, <4>1 DEF Pending
    <3> QED BY <1>4, <3>2, <3>3
  <2>2. ASSUME NEW q \in Pending(rest) PROVE q \in Pending(parts)
    <3>1. PICK i \in 1 .. (n - 1) : q \in rest[i]
      BY <1>1 DEF Pending
    <3> QED BY <1>1, <1>3, <3>1 DEF Pending
  <2>3. parts[1] \subseteq Pending(parts)
    <3>1. 1 \in DOMAIN parts
      BY <1>1
    <3> QED BY <3>1 DEF Pending
  <2> QED BY <2>1, <2>2, <2>3
<1>7. parts[1] \cap Pending(rest) = {}
  BY <1>1, <1>2, <1>3 DEF Pending
<1> QED BY <1>1, <1>5, <1>6, <1>7 DEF Cut, rest

\* The end of an evaluation: the questions of its partition are answered or
\* have a reason each, or the call has a reason; a refusal drops the others
\* as well, under its own reason.
LEMMA OutcomeTells ==
    ASSUME NEW Q, None \notin Q, NEW r, NEW after, Told(r, Q), r.parts # <<>>,
           NEW answered, NEW wrong, NEW error, NEW made,
           \A d \in made : d.question \in answered,
           \A q \in answered : \E d \in made : d.question = q,
           \A d, e \in made : d.question = e.question => d = e,
           answered \cap wrong = {},
           error = None => answered \cup wrong = Head(r.parts),
           error # None => answered = {} /\ wrong = {},
           after.parts \in {<<>>, Tail(r.parts)},
           after.parts # Tail(r.parts) => error # None,
           after.decided = r.decided \cup made,
           after.reasons = r.reasons \cup Questions(wrong, "invalid_answer")
                             \cup IF error = None THEN {}
                                  ELSE {[code |-> error, question |-> None]}
    PROVE  Told(after, Q)
<1>1. /\ Cut(Tail(r.parts), Q) /\ Head(r.parts) \in SUBSET Q
      /\ Pending(r.parts) = Head(r.parts) \cup Pending(Tail(r.parts))
      /\ Head(r.parts) \cap Pending(Tail(r.parts)) = {}
  BY HeadAndTail DEF Told
<1>2. Cut(<<>>, Q) /\ Pending(<<>>) = {}
  BY DEF Cut, Apart, Pending
<1>3. Cut(after.parts, Q) /\ Pending(after.parts) \subseteq Pending(Tail(r.parts))
  BY <1>1, <1>2
<1>4. answered \cup wrong \subseteq Head(r.parts)
  OBVIOUS
<1> DEFINE invalid(q) == [code |-> "invalid_answer", question |-> q]
<1>5. ASSUME NEW q \in Q
      PROVE  /\ Own(after, q) = Own(r, q) \cup {x \in Questions(wrong, "invalid_answer") : x.question = q}
             /\ Answers(after, q) = Answers(r, q) \cup {d \in made : d.question = q}
  BY <1>5 DEF Own, Answers
<1>6. \A q : {x \in Questions(wrong, "invalid_answer") : x.question = q}
               = IF q \in wrong THEN {invalid(q)} ELSE {}
  BY DEF Questions
<1> HIDE DEF invalid
<1>7. ASSUME NEW q \in Q, q \notin Head(r.parts)
      PROVE  Own(after, q) = Own(r, q) /\ Answers(after, q) = Answers(r, q)
  <2>1. q \notin answered /\ q \notin wrong
    BY <1>4, <1>7
  <2>2. {d \in made : d.question = q} = {}
    BY <2>1
  <2>3. {x \in Questions(wrong, "invalid_answer") : x.question = q} = {}
    BY <1>6, <2>1
  <2> QED BY <1>5, <2>2, <2>3
<1>8. ASSUME NEW q \in Q, q \in Head(r.parts)
      PROVE  /\ q \in answered => Own(after, q) = {} /\ Answers(after, q) # {}
             /\ q \in wrong => Answers(after, q) = {} /\ Own(after, q) = {invalid(q)}
             /\ q \notin answered \cup wrong => Own(after, q) = {} /\ Answers(after, q) = {}
             /\ \A d, e \in Answers(after, q) : d = e
  <2>1. Own(r, q) = {} /\ Answers(r, q) = {}
    BY <1>1, <1>8 DEF Told
  <2>2. Own(after, q) = IF q \in wrong THEN {invalid(q)} ELSE {}
    BY <1>5, <1>6, <2>1
  <2>3. Answers(after, q) = {d \in made : d.question = q}
    BY <1>5, <2>1
  <2>4. q \in answered => q \notin wrong
    OBVIOUS
  <2>5. q \in answered => Answers(after, q) # {}
    BY <2>3
  <2>6. q \notin answered => Answers(after, q) = {}
    BY <2>3
  <2>7. \A d, e \in Answers(after, q) : d = e
    BY <2>3
  <2> QED BY <2>2, <2>4, <2>5, <2>6, <2>7
<1>9. ASSUME NEW q \in Q PROVE Once(after, q)
  <2>1. CASE q \in Head(r.parts)
    <3>1. \A x, y \in Own(after, q) : x = y
      BY <1>8, <2>1
    <3>2. Answers(after, q) = {} \/ Own(after, q) = {}
      BY <1>8, <2>1
    <3> QED BY <1>8, <2>1, <3>1, <3>2 DEF Once
  <2>2. CASE q \notin Head(r.parts)
    BY <1>7, <2>2 DEF Told, Once
  <2> QED BY <2>1, <2>2
<1>10. ASSUME error # None PROVE Own(after, None) # {}
  <2> DEFINE x == [code |-> error, question |-> None]
  <2>1. x \in after.reasons /\ x.question = None
    BY <1>10
  <2> HIDE DEF x
  <2> QED BY <2>1 DEF Own
<1>11. Own(r, None) \subseteq Own(after, None)
  BY DEF Own
<1>12. ASSUME NEW q \in Pending(after.parts)
       PROVE  Answers(after, q) = {} /\ Own(after, q) = {}
  <2>1. q \in Pending(r.parts) /\ q \notin Head(r.parts)
    BY <1>1, <1>3, <1>12
  <2>2. PICK i \in DOMAIN r.parts : q \in r.parts[i]
    BY <2>1 DEF Pending
  <2>3. r.parts[i] \in SUBSET Q
    BY <2>2 DEF Told, Cut
  <2>4. q \in Q
    BY <2>2, <2>3
  <2> QED BY <1>7, <2>1, <2>4 DEF Told
<1>13. ASSUME NEW q \in Q \ Pending(after.parts), error = None
       PROVE  Answers(after, q) \cup Own(after, q) \cup Own(after, None) # {}
  <2>1. CASE q \in Head(r.parts)
    <3>1. q \in answered \cup wrong
      BY <1>13, <2>1
    <3>2. Answers(after, q) # {} \/ Own(after, q) # {}
      BY <1>8, <2>1, <3>1
    <3> QED BY <3>2
  <2>2. CASE q \notin Head(r.parts)
    <3>1. q \notin Pending(r.parts)
      BY <1>1, <1>13, <2>2
    <3> QED BY <1>7, <1>11, <2>2, <3>1 DEF Told
  <2> QED BY <2>1, <2>2
<1> QED BY <1>3, <1>9, <1>10, <1>12, <1>13 DEF Told
-----------------------------------------------------------------------------
(* Each step of a worker keeps its questions told.                         *)

\* A worker that moves alone and stays told.
LEMMA OneTells ==
    ASSUME AnswerInv, NEW w \in Workers, \A v \in Workers \ {w} : work'[v] = work[v],
           work'[w].pc # "idle" => ToldInTime(work'[w])
    PROVE  AnswerInv'
<1> SUFFICES ASSUME NEW v \in Workers, work'[v].pc # "idle"
             PROVE  ToldInTime(work'[v])
  BY DEF AnswerInv, ToldInTime, Told, InTime, Once, Own, Answers, Cut, Pending, Apart
<1>1. CASE v = w
  BY <1>1
<1>2. CASE v # w
  <2>1. work'[v] = work[v]
    BY <1>2
  <2> QED BY <2>1 DEF AnswerInv
<1> QED BY <1>1, <1>2

\* A step that moves neither questions nor answers.
LEMMA SameTells ==
    ASSUME NEW r, NEW after, ToldInTime(r),
           after.request = r.request, after.parts = r.parts,
           after.decided = r.decided, after.reasons = r.reasons,
           after.pc = "done" <=> r.pc = "done",
           after.pc \in UnderWay =>
              after.begun \in Nat /\ after.end \in Nat /\ after.end <= after.begun + Timeout
    PROVE  ToldInTime(after)
BY DEF ToldInTime, Told, InTime, Once, Own, Answers

LEMMA OutcomeWrites ==
    ASSUME NEW w \in Workers, NEW error, NEW answered, NEW wrong,
           work = [v \in Workers |-> work[v]], Shaped(work[w]),
           Outcome(w, error, answered, wrong)
    PROVE  /\ work'[w].parts = IF error \in Stops THEN <<>> ELSE Tail(work[w].parts)
           /\ work'[w].pc = IF work'[w].parts = <<>> THEN "done" ELSE "next"
           /\ work'[w].decided = work[w].decided \cup [question : answered, at : {clock},
                                                       begun : {work[w].begun}]
           /\ work'[w].reasons = work[w].reasons \cup Questions(wrong, "invalid_answer")
                                   \cup IF error = None THEN {}
                                        ELSE {[code |-> error, question |-> None]}
<1> DEFINE rest == IF error \in Stops THEN <<>> ELSE Tail(work[w].parts)
           decided == work[w].decided \cup [question : answered, at : {clock},
                                            begun : {work[w].begun}]
           reasons == work[w].reasons \cup Questions(wrong, "invalid_answer")
                        \cup IF error = None THEN {}
                             ELSE {[code |-> error, question |-> None]}
           pc == IF rest = <<>> THEN "done" ELSE "next"
           after == [work[w] EXCEPT !.pc = pc, !.parts = rest, !.decided = decided,
                                    !.reasons = reasons]
<1>1. work' = [work EXCEPT ![w] = after]
  BY DEF Outcome
<1> HIDE DEF rest, decided, reasons
<1>2. after.parts = rest /\ after.pc = pc /\ after.decided = decided /\ after.reasons = reasons
  <2> HIDE DEF pc
  <2> QED BY DEF Shaped
<1> HIDE DEF after
<1>3. work'[w] = after
  BY <1>1
<1> QED BY <1>2, <1>3 DEF rest, decided, reasons

LEMMA OutcomeKeepsTold ==
    ASSUME JevAssumption, IInv, AnswerInv, NEW w \in Workers,
           NEW error, NEW answered, NEW wrong,
           work[w].pc \notin {"idle", "done"},
           Outcome(w, error, answered, wrong),
           answered \cap wrong = {},
           error = None => answered \cup wrong = Head(work[w].parts),
           error # None => answered = {} /\ wrong = {},
           answered # {} => clock - work[w].begun <= Timeout
    PROVE  AnswerInv'
<1> DEFINE r == work[w]
           after == work'[w]
           Q == Range(r.request.questions)
           made == [question : answered, at : {clock}, begun : {r.begun}]
<1>1. work = [v \in Workers |-> work[v]] /\ Shaped(r) /\ ToldInTime(r)
  BY DEF IInv, Formed, AnswerInv
<1>2. /\ \A v \in Workers \ {w} : work'[v] = work[v]
      /\ after.request = r.request /\ after.pc \in {"next", "done"}
  BY <1>1, OutcomeMoves
<1>3. /\ after.parts = IF error \in Stops THEN <<>> ELSE Tail(r.parts)
      /\ after.pc = IF after.parts = <<>> THEN "done" ELSE "next"
      /\ after.decided = r.decided \cup made
      /\ after.reasons = r.reasons \cup Questions(wrong, "invalid_answer")
                           \cup IF error = None THEN {}
                                ELSE {[code |-> error, question |-> None]}
  BY <1>1, OutcomeWrites
<1>4. None \notin Q /\ None \notin Stops
  <2>1. r.request \in Requests
    BY DEF IInv, Formed
  <2> QED BY <2>1, QuestionAssumption
<1>5. /\ \A d \in made : d.question \in answered /\ d.at = clock /\ d.begun = r.begun
      /\ \A q \in answered : \E d \in made : d.question = q
      /\ \A d, e \in made : d.question = e.question => d = e
  <2>1. ASSUME NEW q \in answered PROVE \E d \in made : d.question = q
    <3>1. [question |-> q, at |-> clock, begun |-> r.begun] \in made
      OBVIOUS
    <3> QED BY <3>1
  <2> QED BY <2>1
<1>6. Told(r, Q) /\ InTime(r) /\ (r.pc = "done" <=> r.parts = <<>>)
  BY <1>1 DEF ToldInTime
<1>7. r.parts # <<>>
  BY <1>6
<1>8. answered = {} => made = {}
  OBVIOUS
<1> HIDE DEF r, after, Q, made
<1>9. /\ after.parts \in {<<>>, Tail(r.parts)}
      /\ after.parts # Tail(r.parts) => error # None
  BY <1>3, <1>4
<1>10. Told(after, Q)
  BY <1>3, <1>4, <1>5, <1>6, <1>7, <1>9, OutcomeTells DEF r
<1>11. InTime(after)
  <2>1. \A d \in made : d.at - d.begun <= Timeout
    BY <1>5, <1>8 DEF r
  <2> QED BY <1>2, <1>3, <1>6, <2>1 DEF InTime, UnderWay
<1>12. ToldInTime(after)
  BY <1>2, <1>3, <1>10, <1>11 DEF ToldInTime, Q
<1> QED BY <1>2, <1>12, OneTells DEF after

LEMMA StepTells ==
    ASSUME JevAssumption, IInv, AnswerInv, NEW w \in Workers, Evaluate(w)
    PROVE  AnswerInv'
<1>1. work = [v \in Workers |-> work[v]] /\ Shaped(work[w])
  BY DEF IInv, Formed
<1>2. clock \in Nat /\ deadline \in Nat /\ Timeout \in Nat
  BY DEF IInv, TypeOK, JevAssumption
<1>3. work[w].pc # "idle" => ToldInTime(work[w])
  BY DEF AnswerInv
<1>4. "deadline_exceeded" # None /\ "call_budget_exceeded" # None
      /\ \A error \in TransportErrors : error # None
  BY QuestionAssumption DEF Stops
<1>5. ASSUME NEW pc \in {"slot", "checked", "posted"}, work[w].pc \in UnderWay,
             work' = [work EXCEPT ![w].pc = pc]
      PROVE  AnswerInv'
  <2> DEFINE after == [work[w] EXCEPT !.pc = pc]
  <2>1. /\ after.pc = pc /\ after.request = work[w].request /\ after.parts = work[w].parts
        /\ after.decided = work[w].decided /\ after.reasons = work[w].reasons
        /\ after.begun = work[w].begun /\ after.end = work[w].end
    BY <1>1 DEF Shaped
  <2> HIDE DEF after
  <2>2. work' = [v \in Workers |-> IF v = w THEN after ELSE work[v]]
    BY <1>1, <1>5 DEF after
  <2>3. ToldInTime(work[w])
    BY <1>3, <1>5 DEF UnderWay
  <2>4. ToldInTime(after)
    <3>1. /\ work[w].begun \in Nat /\ work[w].end \in Nat
          /\ work[w].end <= work[w].begun + Timeout
      BY <1>5, <2>3 DEF ToldInTime, InTime
    <3>2. after.pc # "done" /\ work[w].pc # "done"
      BY <1>5, <2>1 DEF UnderWay
    <3> QED BY <2>1, <2>3, <3>1, <3>2, SameTells
  <2> QED BY <2>2, <2>4, OneTells
<1>6. ASSUME NEW error \in Stops \cup TransportErrors, work[w].pc \notin {"idle", "done"},
             Outcome(w, error, {}, {})
      PROVE  AnswerInv'
  <2>1. error # None
    BY QuestionAssumption
  <2> QED BY <1>6, <2>1, OutcomeKeepsTold
<1>7. CASE Begin(w)
  <2> DEFINE end == IF clock + Timeout < deadline THEN clock + Timeout ELSE deadline
             after == [work[w] EXCEPT !.pc = "waiting", !.begun = clock, !.end = end]
  <2>1. CASE Outcome(w, "deadline_exceeded", {}, {})
    BY <1>6, <1>7, <2>1 DEF Begin, Stops
  <2>2. CASE work' = [work EXCEPT ![w] = after]
    <3>1. end \in Nat /\ end <= clock + Timeout
      BY <1>2
    <3> HIDE DEF end
    <3>2. /\ after.pc = "waiting" /\ after.request = work[w].request
          /\ after.parts = work[w].parts /\ after.decided = work[w].decided
          /\ after.reasons = work[w].reasons /\ after.begun = clock /\ after.end = end
      BY <1>1 DEF Shaped
    <3> HIDE DEF after
    <3>3. work' = [v \in Workers |-> IF v = w THEN after ELSE work[v]]
      BY <1>1, <2>2
    <3>4. ToldInTime(work[w]) /\ work[w].pc = "next"
      BY <1>3, <1>7 DEF Begin
    <3>5. ToldInTime(after)
      BY <1>2, <3>1, <3>2, <3>4, SameTells
    <3> QED BY <3>3, <3>5, OneTells
  <2> QED BY <1>7, <2>1, <2>2 DEF Begin
<1>8. CASE Acquire(w)
  BY <1>5, <1>8 DEF Acquire, UnderWay
<1>9. CASE AcquireTimesOut(w)
  BY <1>6, <1>9 DEF AcquireTimesOut, Stops
<1>10. CASE CheckClock(w)
  BY <1>5, <1>6, <1>10 DEF CheckClock, UnderWay, Stops
<1>11. CASE Reserve(w)
  BY <1>5, <1>6, <1>11 DEF Reserve, UnderWay, Stops
<1>12. CASE CallFails(w)
  BY <1>6, <1>12 DEF CallFails, Finish
<1>13. CASE Reply(w)
  <2> PICK answered \in SUBSET Head(work[w].parts) :
          Outcome(w, None, answered, Head(work[w].parts) \ answered)
    BY <1>13 DEF Reply
  <2>1. work[w].pc = "posted" /\ clock <= work[w].end
    BY <1>13 DEF Reply, Finish
  <2>2. clock - work[w].begun <= Timeout
    <3>1. /\ work[w].begun \in Nat /\ work[w].end \in Nat
          /\ work[w].end <= work[w].begun + Timeout
      BY <1>3, <2>1 DEF ToldInTime, InTime, UnderWay
    <3> QED BY <1>2, <2>1, <3>1
  <2> QED BY <2>1, <2>2, OutcomeKeepsTold
<1> QED BY <1>7, <1>8, <1>9, <1>10, <1>11, <1>12, <1>13 DEF Evaluate
\* A request that begins is cut: each question waits in one partition or was
\* refused by a reason of its own.
LEMMA AskTells ==
    ASSUME JevAssumption, IInv, AnswerInv, NEW w \in Workers, Ask(w)
    PROVE  AnswerInv'
<1>1. work = [v \in Workers |-> work[v]]
  BY DEF IInv, Formed
<1>2. PICK request \in Requests :
        /\ Valid(request)
        /\ LET cut == Partitions(request.questions)
           IN  work' = [work EXCEPT ![w] =
                  [Idle EXCEPT !.pc = IF cut.parts = <<>> THEN "done" ELSE "next",
                               !.request = request, !.parts = cut.parts,
                               !.reasons = cut.refused]]
  BY DEF Ask
<1> DEFINE questions == request.questions
           Q == Range(questions)
           cut == Partitions(questions)
           pc == IF cut.parts = <<>> THEN "done" ELSE "next"
           after == [Idle EXCEPT !.pc = pc, !.request = request, !.parts = cut.parts,
                                 !.reasons = cut.refused]
<1>3. questions \in Seq(Q)
  BY QuestionAssumption
<1>4. \A i, j \in DOMAIN questions : i # j => questions[i] # questions[j]
  BY <1>2 DEF Valid, OwnQuestions
<1>5. work' = [v \in Workers |-> IF v = w THEN after ELSE work[v]]
  BY <1>1, <1>2
<1>51. Range(questions) = Q
  OBVIOUS
<1> HIDE DEF Q, questions
<1>6. /\ Cut(cut.parts, Q)
      /\ cut.refused \in SUBSET Refusals(Q)
      /\ \A r \in cut.refused : r.question \notin Pending(cut.parts)
      /\ \A r, s \in cut.refused : r.question = s.question => r = s
      /\ Pending(cut.parts) \cup {r.question : r \in cut.refused} = Q
  BY <1>3, <1>4, <1>51, PartitionsPlace
<1> HIDE DEF cut
<1>7. /\ after.pc = pc /\ after.request = request /\ after.parts = cut.parts
      /\ after.decided = {} /\ after.reasons = cut.refused
  BY DEF Idle
<1> HIDE DEF after
<1>8. \A q : Answers(after, q) = {} /\ Own(after, q) = {x \in cut.refused : x.question = q}
  BY <1>7 DEF Answers, Own
<1>9. Told(after, Q)
  <2>1. \A q \in Q : Once(after, q)
    BY <1>6, <1>8 DEF Once
  <2>2. \A q \in Pending(after.parts) : Answers(after, q) = {} /\ Own(after, q) = {}
    BY <1>6, <1>7, <1>8
  <2>3. ASSUME NEW q \in Q \ Pending(after.parts)
        PROVE  Answers(after, q) \cup Own(after, q) \cup Own(after, None) # {}
    <3>1. PICK x \in cut.refused : x.question = q
      BY <1>6, <1>7, <2>3
    <3>2. x \in Own(after, q)
      BY <1>8, <3>1
    <3> QED BY <3>2
  <2> QED BY <1>6, <1>7, <2>1, <2>2, <2>3 DEF Told
<1>10. InTime(after) /\ (after.pc = "done" <=> after.parts = <<>>)
  BY <1>7 DEF InTime, UnderWay
<1>11. ToldInTime(after)
  BY <1>7, <1>9, <1>10 DEF ToldInTime, Q, questions
<1> QED BY <1>5, <1>11, OneTells

\* Every step keeps every question of every worker told.
LEMMA TellsInductive ==
    ASSUME JevAssumption, IInv, AnswerInv, [Next]_vars
    PROVE  AnswerInv'
<1>1. CASE StartBatch \/ Tick \/ UNCHANGED vars
  <2>1. work' = work
    BY <1>1 DEF StartBatch, Tick, vars
  <2> SUFFICES ASSUME NEW v \in Workers, work'[v].pc # "idle"
               PROVE  ToldInTime(work'[v])
    BY DEF AnswerInv, ToldInTime, Told, InTime, Once, Own, Answers, Cut, Pending, Apart
  <2> QED BY <2>1 DEF AnswerInv
<1>2. CASE \E w \in Workers : Ask(w) \/ AskRaises(w) \/ Evaluate(w)
  <2> PICK w \in Workers : Ask(w) \/ AskRaises(w) \/ Evaluate(w)
    BY <1>2
  <2>1. CASE Ask(w)
    BY <2>1, AskTells
  <2>2. CASE AskRaises(w)
    <3>1. work = [v \in Workers |-> work[v]]
      BY DEF IInv, Formed
    <3>2. work' = [v \in Workers |-> IF v = w THEN Idle ELSE work[v]]
      BY <2>2, <3>1 DEF AskRaises
    <3>3. Idle.pc = "idle"
      BY DEF Idle
    <3> QED BY <3>2, <3>3, OneTells
  <2>3. CASE Evaluate(w)
    BY <2>3, StepTells
  <2> QED BY <2>1, <2>2, <2>3
<1> QED BY <1>1, <1>2 DEF Next

LEMMA TellsInitially ==
    ASSUME Init
    PROVE  AnswerInv
BY DEF Init, Idle, AnswerInv

LEMMA AtMostOne ==
    ASSUME NEW S, \A x, y \in S : x = y
    PROVE  Cardinality(S) \in {0, 1} /\ (S = {} => Cardinality(S) = 0)
<1>1. CASE S = {}
  BY <1>1, FS_EmptySet
<1>2. CASE S # {}
  <2>1. PICK x : S = {x}
    BY <1>2
  <2> QED BY <1>2, <2>1, FS_Singleton
<1> QED BY <1>1, <1>2

\* With no partition left, nothing is pending: each question is told.
LEMMA ToldAnswers ==
    ASSUME AnswerInv
    PROVE  AnsweredOrExplained
<1> SUFFICES ASSUME NEW w \in Workers, work[w].pc = "done",
                    NEW q \in Range(work[w].request.questions)
             PROVE  /\ Cardinality(Answers(work[w], q)) + Cardinality(Own(work[w], q)) <= 1
                    /\ \A d \in Answers(work[w], q) : d.at - d.begun <= Timeout
                    /\ Answers(work[w], q) \cup Own(work[w], q) = {} => Own(work[w], None) # {}
  BY DEF AnsweredOrExplained, Answers, Own
<1>1. ToldInTime(work[w])
  BY DEF AnswerInv
<1>2. work[w].parts = <<>> /\ Once(work[w], q)
  BY <1>1 DEF ToldInTime, Told
<1>3. q \notin Pending(work[w].parts)
  BY <1>2 DEF Pending
<1>4. Answers(work[w], q) \cup Own(work[w], q) \cup Own(work[w], None) # {}
  BY <1>1, <1>3 DEF ToldInTime, Told
<1>5. \A d \in Answers(work[w], q) : d.at - d.begun <= Timeout
  BY <1>1 DEF ToldInTime, InTime, Answers
<1>6. Cardinality(Answers(work[w], q)) + Cardinality(Own(work[w], q)) <= 1
  <2> DEFINE A == Answers(work[w], q)
             B == Own(work[w], q)
  <2>1. /\ A = {} \/ B = {}
        /\ \A x, y \in A : x = y
        /\ \A x, y \in B : x = y
    BY <1>2 DEF Once
  <2> HIDE DEF A, B
  <2>2. /\ Cardinality(A) \in {0, 1} /\ (A = {} => Cardinality(A) = 0)
        /\ Cardinality(B) \in {0, 1} /\ (B = {} => Cardinality(B) = 0)
    BY <2>1, AtMostOne
  <2>3. Cardinality(A) + Cardinality(B) <= 1
    BY <2>1, <2>2
  <2> QED BY <2>3 DEF A, B
<1> QED BY <1>4, <1>5, <1>6

\* However the wire limits cut a request and however its calls end: each of
\* its questions is answered at most once, within the time of one evaluation,
\* and a question without an answer has a reason of its own or of its call;
\* _partitions and _evaluate drop no question in silence.
THEOREM QuestionsAnswered == Spec => []AnsweredOrExplained
<1>1. Init => IInv /\ AnswerInv
  BY Initially, TellsInitially, JevAssumption
<1>2. IInv /\ AnswerInv /\ [Next]_vars => (IInv /\ AnswerInv)'
  BY Inductive, TellsInductive, JevAssumption
<1>3. IInv /\ AnswerInv => AnsweredOrExplained
  BY ToldAnswers
<1> QED BY <1>1, <1>2, <1>3, PTL DEF Spec
===============================================================================
