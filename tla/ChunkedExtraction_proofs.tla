----------------------- MODULE ChunkedExtraction_proofs -----------------------
(***************************************************************************)
(* Proofs about ChunkedExtraction, for any document, readers and readings. *)
(***************************************************************************)
EXTENDS ChunkedExtraction, FiniteSetTheorems, SequenceTheorems, TLAPS

(* Two rows score as one offer exactly when they share the name.           *)
LEMMA SameOffer ==
    ASSUME NEW a, NEW b
    PROVE Score(a, b) >= Same <=> a.name = b.name
  BY DEF Score, Same

Says(item, other) ==
    item.page = other.page /\ item.name = other.name /\ item.price = other.price

LEMMA DuplicateIff ==
    ASSUME NEW S, NEW item, NEW old
    PROVE old \in Duplicates(S, item) <=> old \in S /\ Says(old, item)
  BY SameOffer DEF Duplicates, Conflicting, Says

-----------------------------------------------------------------------------
(* _supplement loses no offer of either side.                              *)
LEMMA AgreedKept ==
    ASSUME NEW S, NEW T, NEW item \in S \cup T, item.status = "agreed"
    PROVE \E kept \in Supplement(S, T) : Says(kept, item)
  <1>1. CASE item \in Supplement(S, T)
    BY <1>1 DEF Says
  <1>2. CASE item \notin Supplement(S, T)
    <2>1. item \in T /\ \E old \in Duplicates(S, item) : old.status = "agreed"
      BY <1>2 DEF Supplement
    <2>2. PICK old \in S : Says(old, item) /\ old.status = "agreed"
      BY <2>1, DuplicateIff
    <2>3. old \in Supplement(S, T)
      BY <2>2 DEF Supplement
    <2> QED BY <2>2, <2>3
  <1> QED BY <1>1, <1>2

LEMMA ReplacedKept ==
    ASSUME NEW S, NEW T, NEW item \in S
    PROVE \E kept \in Supplement(S, T) : Says(kept, item)
  <1>1. CASE item \in Supplement(S, T)
    BY <1>1 DEF Says
  <1>2. CASE item \notin Supplement(S, T)
    <2>1. \E better \in Duplicates(T, item) : better.status = "agreed"
      BY <1>2 DEF Supplement
    <2>2. PICK better \in T : Says(better, item) /\ better.status = "agreed"
      BY <2>1, DuplicateIff
    <2>3. better \in S \cup T /\ better.status = "agreed"
      BY <2>2
    <2>4. PICK kept \in Supplement(S, T) : Says(kept, better)
      BY <2>3, AgreedKept
    <2>5. Says(kept, item)
      BY <2>2, <2>4 DEF Says
    <2> QED BY <2>4, <2>5
  <1> QED BY <1>1, <1>2

LEMMA SupplementKeeps ==
    ASSUME NEW S, NEW T, NEW item \in S \cup T
    PROVE \E kept \in Supplement(S, T) : Says(kept, item)
  <1>1. CASE item \in Supplement(S, T)
    BY <1>1 DEF Says
  <1>2. CASE item \in S
    BY <1>2, ReplacedKept
  <1>3. CASE item \in T /\ item \notin Supplement(S, T)
    <2>1. \E old : old \in Duplicates(S, item)
      BY <1>3 DEF Supplement
    <2>2. PICK old \in S : Says(old, item)
      BY <2>1, DuplicateIff
    <2> QED BY <2>2, ReplacedKept DEF Says
  <1> QED BY <1>1, <1>2, <1>3

(* A dispute changes the status of an item and nothing it says.            *)
LEMMA DisputeKeeps ==
    ASSUME NEW S, NEW ledger, NEW item \in S
    PROVE \E kept \in WithDisputes(S, ledger) : Says(kept, item)
  <1> DEFINE kept == IF Disputed(item, ledger) THEN Item(item, "review") ELSE item
  <1>1. kept \in WithDisputes(S, ledger)
    BY DEF WithDisputes
  <1>2. Says(kept, item)
    BY DEF Says, Item
  <1> QED BY <1>1, <1>2

LEMMA UnionKeeps ==
    ASSUME NEW S, NEW T, NEW ledger, NEW item,
           \E other \in S \cup T : Says(other, item)
    PROVE Duplicates(WithDisputes(Supplement(S, T), ledger), item) # {}
  <1>1. PICK other \in S \cup T : Says(other, item)
    OBVIOUS
  <1>2. PICK union \in Supplement(S, T) : Says(union, other)
    BY SupplementKeeps
  <1>3. PICK kept \in WithDisputes(Supplement(S, T), ledger) : Says(kept, union)
    BY DisputeKeeps
  <1>4. Says(kept, item)
    BY <1>1, <1>2, <1>3 DEF Says
  <1> QED BY <1>3, <1>4, DuplicateIff

-----------------------------------------------------------------------------
(* The configured readers stay, and a step completes the extraction only   *)
(* at the end of the rereads or of an unpaged reading.                     *)
LEMMA Steps ==
    ASSUME [Next]_vars
    PROVE /\ UNCHANGED <<paged, providers>>
          /\ phase' = "completed" => EndRetry \/ EndUnpaged \/ UNCHANGED vars
  <1>1. CASE Submit
    BY <1>1 DEF Submit, Working
  <1>2. ASSUME Working, NEW k \in DOMAIN Calls, NEW r \in providers,
               \/ StartRead(k, r) \/ SkipRead(k, r)
               \/ ReadReturns(k, r) \/ ReadFails(k, r) \/ ReadBreaks(k, r)
               \/ Disable(k, r)
        PROVE UNCHANGED <<paged, providers, phase>>
    BY <1>2 DEF StartRead, SkipRead, ReadReturns, ReadFails, ReadBreaks, Disable, Becomes
  <1>3. CASE EndInitial
    BY <1>3 DEF EndInitial
  <1>4. CASE EndRetry \/ EndUnpaged
    BY <1>4 DEF EndRetry, EndUnpaged
  <1>5. CASE Terminated \/ UNCHANGED vars
    BY <1>5 DEF Terminated, vars
  <1> QED BY <1>1, <1>2, <1>3, <1>4, <1>5 DEF Next, Working

(* The rows of the first reading are settled once the rereads are.         *)
LEMMA InitialStay ==
    ASSUME UNCHANGED <<providers, reads>> PROVE InitialItems' = InitialItems
  <1>1. First' = First
    BY DEF First
  <1>2. Others' = Others
    BY <1>1 DEF Others
  <1> QED BY <1>1, <1>2 DEF InitialItems, ChunkRows, Left, Right

LEMMA PricesStep ==
    ASSUME PricesKept, [Next]_vars PROVE PricesKept'
  <1>1. CASE EndRetry
    <2>1. InitialItems' = InitialItems
      BY <1>1, InitialStay DEF EndRetry
    <2>2. PICK S, ledger : items' = WithDisputes(Supplement(S, InitialItems), ledger)
      BY <1>1 DEF EndRetry
    <2>3. ASSUME NEW item \in InitialItems
          PROVE Duplicates(items', item) # {}
      BY <2>2, UnionKeeps DEF Says
    <2>4. \A item : Duplicates(items, item)' = Duplicates(items', item)
      BY DEF Duplicates
    <2> QED BY <2>1, <2>3, <2>4 DEF PricesKept
  <1>2. CASE EndUnpaged
    BY <1>2 DEF EndUnpaged, PricesKept
  <1>3. CASE UNCHANGED vars
    BY <1>3, InitialStay DEF vars, results, PricesKept, Duplicates
  <1>4. CASE phase' # "completed"
    BY <1>4 DEF PricesKept
  <1> QED BY <1>1, <1>2, <1>3, <1>4, Steps

(* Whatever the rereads bring, an offer of the first reading keeps its     *)
(* place and its price.                                                    *)
THEOREM PricesStay == Spec => []PricesKept
  <1>1. Init => PricesKept
    BY DEF Init, PricesKept
  <1>2. PricesKept /\ [Next]_vars => PricesKept'
    BY PricesStep
  <1> QED BY <1>1, <1>2, PTL DEF Spec
-----------------------------------------------------------------------------
(* How often a reader that fails for good is called: while it is enabled,  *)
(* the chunks that wait for it are among the running ones, as many as      *)
(* there are workers; afterwards no other chunk reaches it.                *)
Phases == {"initial", "retry"}
Limit(ph) == IF ph = "retry" THEN RetryWorkers ELSE ChunkWorkers
Step(ph, k, r) == reads[ph][k][r].at

Shape ==
    /\ phase \in Phases \cup {"completed", "unavailable"}
    /\ DOMAIN reads = Phases
    /\ \A ph \in Phases : \E S : reads[ph] \in Seq(S)
    /\ \A ph \in Phases : \A k \in DOMAIN reads[ph] : DOMAIN reads[ph][k] = providers

Reached(ph, r) == {k \in DOMAIN reads[ph] : Step(ph, k, r) \in {"reading", "raised", "broken"}}

Over ==
    /\ \A ph \in Phases \ {phase} : \A k \in DOMAIN reads[ph] : \A r \in providers :
          Step(ph, k, r) \in Ended
    /\ phase = "initial" => DOMAIN reads["retry"] = {}

FewRunning == Working => Cardinality(Running) <= Workers

Broken(r) ==
    /\ \A ph \in Phases : \A k \in DOMAIN reads[ph] : Step(ph, k, r) = "broken" => r \in disabled
    /\ \A ph \in Phases : r \in disabled => Cardinality(Reached(ph, r)) <= Limit(ph)
    /\ BrokenIn("initial", r) = {} \/ Reached("retry", r) = {}

BoundInv == Shape /\ Over /\ FewRunning /\ \A r \in providers : Broken(r)

(* A call that goes on changes no other one.                               *)
LEMMA OneCall ==
    ASSUME Shape, Working, NEW k \in DOMAIN Calls, NEW r \in providers,
           NEW step, NEW reading, Becomes(k, r, step, reading)
    PROVE /\ Shape'
          /\ \A ph \in Phases : DOMAIN reads'[ph] = DOMAIN reads[ph]
          /\ Step(phase, k, r)' = step
          /\ \A ph \in Phases : \A j \in DOMAIN reads[ph] : \A q \in providers :
                ph # phase \/ j # k \/ q # r => Step(ph, j, q)' = Step(ph, j, q)
  <1>1. /\ phase \in Phases /\ phase' = phase /\ providers' = providers
        /\ k \in DOMAIN reads[phase]
        /\ reads' = [reads EXCEPT ![phase][k][r] = Call(step, reading)]
    BY DEF Becomes, Working, Phases, Calls
  <1>2. DOMAIN reads' = Phases /\ \A ph \in Phases \ {phase} : reads'[ph] = reads[ph]
    BY <1>1 DEF Shape
  <1>3. reads'[phase] = [reads[phase] EXCEPT ![k][r] = Call(step, reading)]
    BY <1>1 DEF Shape
  <1>4. /\ \A j \in DOMAIN reads[phase] \ {k} : reads'[phase][j] = reads[phase][j]
        /\ reads'[phase][k] = [reads[phase][k] EXCEPT ![r] = Call(step, reading)]
        /\ DOMAIN reads'[phase] = DOMAIN reads[phase]
    BY <1>1, <1>3
  <1>5. DOMAIN reads'[phase][k] = providers
    BY <1>1, <1>4 DEF Shape
  <1>6. \E S : reads'[phase] \in Seq(S)
    <2>1. PICK S : reads[phase] \in Seq(S)
      BY <1>1 DEF Shape
    <2>2. PICK e : reads'[phase] = [reads[phase] EXCEPT ![k] = e]
      BY <1>3
    <2>3. reads[phase] \in Seq(S \cup {e}) /\ k \in 1..Len(reads[phase])
      BY <1>1, <2>1
    <2>4. [reads[phase] EXCEPT ![k] = e] \in Seq(S \cup {e})
      BY <2>3, ExceptSeq
    <2> QED BY <2>2, <2>4
  <1>7. Shape'
    BY <1>1, <1>2, <1>4, <1>5, <1>6 DEF Shape
  <1>8. Step(phase, k, r)' = step
    BY <1>1, <1>4 DEF Step, Call, Shape
  <1>9. \A q \in providers \ {r} : reads'[phase][k][q] = reads[phase][k][q]
    BY <1>1, <1>4 DEF Shape
  <1> QED BY <1>1, <1>2, <1>4, <1>7, <1>8, <1>9 DEF Step

LEMMA FiniteReads == Shape => \A ph \in Phases : IsFiniteSet(DOMAIN reads[ph])
  <1> SUFFICES ASSUME Shape, NEW ph \in Phases PROVE IsFiniteSet(DOMAIN reads[ph])
    OBVIOUS
  <1>1. PICK S : reads[ph] \in Seq(S)
    BY DEF Shape
  <1>2. DOMAIN reads[ph] = 1..Len(reads[ph]) /\ Len(reads[ph]) \in Nat
    BY <1>1, LenProperties
  <1>3. \A n \in Nat : IsFiniteSet(1..n)
    BY FS_Interval
  <1> QED BY <1>2, <1>3

(* A chunk that waits for an enabled reader is running.                    *)
LEMMA ReachedBounded ==
    ASSUME BoundInv, NEW r \in providers, NEW ph \in Phases
    PROVE IsFiniteSet(Reached(ph, r)) /\ Cardinality(Reached(ph, r)) <= Limit(ph)
  <1>1. IsFiniteSet(DOMAIN reads[ph]) /\ IsFiniteSet(Reached(ph, r))
    BY FiniteReads, FS_Subset DEF BoundInv, Reached
  <1>2. CASE r \in disabled
    BY <1>1, <1>2 DEF BoundInv, Broken
  <1>3. CASE r \notin disabled /\ ph # phase
    <2>1. Reached(ph, r) = {}
      BY <1>3 DEF BoundInv, Broken, Over, Reached, Ended
    <2> QED BY <1>1, <2>1, FS_EmptySet, ExtractionAssumption DEF Limit
  <1>4. CASE r \notin disabled /\ ph = phase
    <2>1. Reached(ph, r) \subseteq Running
      BY <1>4 DEF BoundInv, Broken, Reached, Running, Collected, Calls, Step, Ended
    <2>2. IsFiniteSet(Running)
      BY <1>1, <1>4, FS_Subset DEF Running, Calls
    <2>3. Cardinality(Reached(ph, r)) <= Cardinality(Running)
      BY <2>1, <2>2, FS_Subset
    <2>4. Cardinality(Running) <= Limit(ph)
      BY <1>4 DEF BoundInv, FewRunning, Working, Phases, Workers, Limit
    <2>5. /\ Cardinality(Reached(ph, r)) \in Nat /\ Cardinality(Running) \in Nat
          /\ Limit(ph) \in Nat
      BY <1>1, <2>2, FS_CardinalityType, ExtractionAssumption DEF Limit
    <2> QED BY <1>1, <2>3, <2>4, <2>5
  <1> QED BY <1>2, <1>3, <1>4

(* One call goes on: it comes to its reader only while that is enabled, and *)
(* breaks only as its reader is disabled.                                  *)
LEMMA Advance ==
    ASSUME BoundInv, Working, NEW k \in DOMAIN Calls, NEW r \in providers,
           NEW step, NEW reading, Becomes(k, r, step, reading),
           Step(phase, k, r) \notin Ended,
           step \in {"reading", "raised", "broken"} =>
               Step(phase, k, r) \in {"reading", "raised"} \/ r \notin disabled',
           step = "broken" => r \in disabled',
           disabled \subseteq disabled', disabled' \subseteq disabled \cup {r}
    PROVE BoundInv'
  <1> USE DEF BoundInv
  <1>1. /\ Shape'
        /\ \A ph \in Phases : DOMAIN reads'[ph] = DOMAIN reads[ph]
        /\ Step(phase, k, r)' = step
        /\ \A ph \in Phases : \A j \in DOMAIN reads[ph] : \A q \in providers :
              ph # phase \/ j # k \/ q # r => Step(ph, j, q)' = Step(ph, j, q)
    BY OneCall
  <1>2. phase' = phase /\ providers' = providers /\ phase \in Phases /\ k \in DOMAIN reads[phase]
    BY DEF Becomes, Working, Phases, Calls
  <1>3. Over'
    BY <1>1, <1>2 DEF Over, Phases
  <1>4. FewRunning'
    <2>1. Running' \subseteq Running
      <3> SUFFICES ASSUME NEW j \in Running' PROVE j \in Running
        OBVIOUS
      <3>1. j \in DOMAIN reads[phase] /\ \E q \in providers : Step(phase, j, q)' \notin Ended
        BY <1>1, <1>2 DEF Running, Collected, Calls, Step
      <3>2. \E q \in providers : Step(phase, j, q) \notin Ended
        BY <1>1, <1>2, <3>1
      <3> QED BY <3>1, <3>2 DEF Running, Collected, Calls, Step
    <2>2. IsFiniteSet(Running) /\ IsFiniteSet(Running')
      BY <1>2, <2>1, FiniteReads, FS_Subset DEF Running, Calls
    <2>3. Cardinality(Running') <= Cardinality(Running)
      BY <2>1, <2>2, FS_Subset
    <2>4. Workers' = Workers /\ Workers \in Nat
      BY <1>2, ExtractionAssumption DEF Workers
    <2>5. Cardinality(Running)' = Cardinality(Running')
      OBVIOUS
    <2>6. Cardinality(Running) \in Nat /\ Cardinality(Running') \in Nat
      BY <2>2, FS_CardinalityType
    <2> QED BY <2>3, <2>4, <2>5, <2>6 DEF FewRunning
  <1>5. ASSUME NEW q \in providers PROVE Broken(q)'
    <2>1. ASSUME NEW ph \in Phases, NEW j \in DOMAIN reads'[ph], Step(ph, j, q)' = "broken"
          PROVE q \in disabled'
      BY <1>1, <1>2, <2>1 DEF Broken
    <2>2. ASSUME q \in disabled' PROVE \A ph \in Phases : Reached(ph, q)' \subseteq Reached(ph, q)
      BY <1>1, <1>2, <2>2 DEF Reached
    <2>3. ASSUME NEW ph \in Phases, q \in disabled'
          PROVE Cardinality(Reached(ph, q)') <= Limit(ph)
      <3>1. IsFiniteSet(Reached(ph, q)) /\ Cardinality(Reached(ph, q)) <= Limit(ph)
        BY ReachedBounded
      <3>2. Reached(ph, q)' \subseteq Reached(ph, q)
        BY <2>2, <2>3
      <3>3. /\ IsFiniteSet(Reached(ph, q)')
            /\ Cardinality(Reached(ph, q)') <= Cardinality(Reached(ph, q))
        BY <3>1, <3>2, FS_Subset
      <3>4. /\ Cardinality(Reached(ph, q)) \in Nat /\ Cardinality(Reached(ph, q)') \in Nat
            /\ Limit(ph) \in Nat
        BY <3>1, <3>3, FS_CardinalityType, ExtractionAssumption DEF Limit
      <3> QED BY <3>1, <3>3, <3>4
    <2>4. BrokenIn("initial", q)' = {} \/ Reached("retry", q)' = {}
      <3>1. CASE phase = "initial"
        BY <1>1, <3>1 DEF Over, Reached, Phases
      <3>2. CASE phase = "retry" /\ BrokenIn("initial", q) = {}
        BY <1>1, <3>2 DEF BrokenIn, Step, Phases
      <3>3. CASE phase = "retry" /\ BrokenIn("initial", q) # {}
        <4>1. Reached("retry", q) = {}
          BY <3>3 DEF Broken
        <4>2. PICK j \in DOMAIN reads["initial"] : Step("initial", j, q) \in {"raised", "broken"}
          BY <3>3 DEF BrokenIn, Step
        <4>3. Step("initial", j, q) = "broken"
          BY <3>3, <4>2 DEF Over, Ended, Phases
        <4>4. q \in disabled'
          BY <4>2, <4>3 DEF Broken, Phases
        <4> QED BY <2>2, <4>1, <4>4 DEF Phases
      <3> QED BY <3>1, <3>2, <3>3, <1>2 DEF Phases
    <2>5. \A ph \in Phases : Cardinality(Reached(ph, q))' = Cardinality(Reached(ph, q)')
      OBVIOUS
    <2> QED BY <2>1, <2>3, <2>4, <2>5 DEF Broken
  <1> QED BY <1>1, <1>2, <1>3, <1>4, <1>5

(* A new chunk is submitted only when a worker is free.                    *)
LEMMA Submitted == ASSUME BoundInv, Submit PROVE BoundInv'
  <1> USE DEF BoundInv
  <1>0. PICK new : new = Len(reads[phase]) + 1
    OBVIOUS
  <1>1. /\ Working /\ phase \in Phases /\ Cardinality(Running) < Workers
        /\ phase' = phase /\ providers' = providers /\ disabled' = disabled
        /\ reads' = [reads EXCEPT ![phase] = Append(@, [r \in providers |-> Waiting])]
    BY DEF Submit, Working, Phases
  <1>2. PICK S : reads[phase] \in Seq(S)
    BY <1>1 DEF Shape
  <1>3. /\ DOMAIN reads' = Phases
        /\ \A ph \in Phases \ {phase} : reads'[ph] = reads[ph]
        /\ reads'[phase] = Append(reads[phase], [r \in providers |-> Waiting])
    BY <1>1 DEF Shape
  <1>4. /\ reads'[phase] \in Seq(S \cup {[r \in providers |-> Waiting]})
        /\ DOMAIN reads'[phase] = DOMAIN reads[phase] \cup {new}
        /\ new \notin DOMAIN reads[phase]
        /\ \A j \in DOMAIN reads[phase] : reads'[phase][j] = reads[phase][j]
        /\ reads'[phase][new] = [r \in providers |-> Waiting]
    <2> DEFINE waiting == [r \in providers |-> Waiting]
    <2> HIDE DEF waiting
    <2>1. reads[phase] \in Seq(S \cup {waiting})
      BY <1>2
    <2>2. Append(reads[phase], waiting) \in Seq(S \cup {waiting})
      BY <2>1, AppendProperties
    <2>3. /\ Len(Append(reads[phase], waiting)) = new
          /\ \A j \in 1..Len(reads[phase]) : Append(reads[phase], waiting)[j] = reads[phase][j]
          /\ Append(reads[phase], waiting)[new] = waiting
      BY <1>0, <2>1, AppendProperties
    <2>4. /\ Len(reads[phase]) \in Nat
          /\ DOMAIN reads[phase] = 1..Len(reads[phase])
          /\ DOMAIN Append(reads[phase], waiting) = 1..new
      BY <2>1, <2>2, <2>3, LenProperties
    <2>5. reads'[phase] = Append(reads[phase], waiting)
      BY <1>3 DEF waiting
    <2>6. new \notin DOMAIN reads[phase] /\ 1..new = DOMAIN reads[phase] \cup {new}
      BY <1>0, <2>4
    <2> QED BY <2>2, <2>3, <2>4, <2>5, <2>6 DEF waiting
  <1>5. Shape'
    <2>1. \A ph \in Phases : \E T : reads'[ph] \in Seq(T)
      BY <1>3, <1>4 DEF Shape
    <2>2. ASSUME NEW ph \in Phases, NEW k \in DOMAIN reads'[ph]
          PROVE DOMAIN reads'[ph][k] = providers
      <3>1. CASE k \in DOMAIN reads[ph] /\ reads'[ph][k] = reads[ph][k]
        BY <3>1 DEF Shape
      <3>2. CASE reads'[ph][k] = [r \in providers |-> Waiting]
        BY <3>2
      <3> QED BY <1>3, <1>4, <3>1, <3>2
    <2> QED BY <1>1, <1>3, <2>1, <2>2 DEF Shape
  <1>6. \A r \in providers : Step(phase, new, r)' = "waiting"
    BY <1>1, <1>4 DEF Step, Waiting, Call
  <1>7. \A ph \in Phases : \A k \in DOMAIN reads[ph] : \A r \in providers :
            Step(ph, k, r)' = Step(ph, k, r) /\ k \in DOMAIN reads'[ph]
    BY <1>3, <1>4 DEF Step
  <1>8. \A ph \in Phases : \A k \in DOMAIN reads'[ph] :
            k \in DOMAIN reads[ph] \/ (ph = phase /\ k = new)
    BY <1>3, <1>4
  <1>9. Over'
    BY <1>1, <1>3, <1>7 DEF Over, Phases
  <1>10. FewRunning'
    <2>1. Running' \subseteq Running \cup {new}
      <3> SUFFICES ASSUME NEW k \in Running', k # new PROVE k \in Running
        OBVIOUS
      <3>1. k \in DOMAIN reads[phase] /\ \E r \in providers : Step(phase, k, r)' \notin Ended
        BY <1>1, <1>8 DEF Running, Collected, Calls, Step
      <3>2. \E r \in providers : Step(phase, k, r) \notin Ended
        BY <1>1, <1>7, <3>1
      <3> QED BY <3>1, <3>2 DEF Running, Collected, Calls, Step
    <2>2. IsFiniteSet(Running)
      BY <1>1, FiniteReads, FS_Subset DEF Running, Calls
    <2>3. /\ IsFiniteSet(Running \cup {new})
          /\ Cardinality(Running \cup {new}) <= Cardinality(Running) + 1
      BY <2>2, FS_AddElement, FS_CardinalityType
    <2>4. /\ IsFiniteSet(Running')
          /\ Cardinality(Running') <= Cardinality(Running \cup {new})
      BY <2>1, <2>3, FS_Subset
    <2>5. /\ Cardinality(Running) \in Nat /\ Cardinality(Running') \in Nat
          /\ Cardinality(Running \cup {new}) \in Nat
      BY <2>2, <2>3, <2>4, FS_CardinalityType
    <2>6. Workers' = Workers /\ Workers \in Nat
      BY <1>1, ExtractionAssumption DEF Workers
    <2>7. Cardinality(Running)' = Cardinality(Running')
      OBVIOUS
    <2> QED BY <1>1, <2>3, <2>4, <2>5, <2>6, <2>7 DEF FewRunning
  <1>11. ASSUME NEW r \in providers PROVE Broken(r)'
    <2>1. ASSUME NEW ph \in Phases PROVE Reached(ph, r)' = Reached(ph, r)
      BY <1>1, <1>6, <1>7, <1>8 DEF Reached
    <2>2. BrokenIn("initial", r)' = BrokenIn("initial", r)
      <3>1. ASSUME NEW ph \in Phases
            PROVE {k \in DOMAIN reads'[ph] : Step(ph, k, r)' \in {"raised", "broken"}}
                      = {k \in DOMAIN reads[ph] : Step(ph, k, r) \in {"raised", "broken"}}
        BY <1>1, <1>6, <1>7, <1>8
      <3> QED BY <3>1 DEF BrokenIn, Step, Phases
    <2>3. \A ph \in Phases : Cardinality(Reached(ph, r))' = Cardinality(Reached(ph, r))
      BY <2>1
    <2>4. \A ph \in Phases : \A k \in DOMAIN reads'[ph] :
              Step(ph, k, r)' = "broken" => r \in disabled'
      BY <1>1, <1>6, <1>7, <1>8 DEF Broken
    <2> QED BY <1>1, <2>1, <2>2, <2>3, <2>4 DEF Broken, Phases
  <1> QED BY <1>1, <1>5, <1>9, <1>10, <1>11

(* A phase ends when no chunk of it is running.                            *)
LEMMA Ends ==
    ASSUME BoundInv, EndInitial \/ EndRetry \/ EndUnpaged PROVE BoundInv'
  <1> USE DEF BoundInv
  <1>1. /\ UNCHANGED <<providers, reads, disabled>> /\ Running = {} /\ phase \in Phases
        /\ \/ phase = "initial" /\ phase' = "retry"
           \/ phase' \in {"completed", "unavailable"}
    BY DEF EndInitial, EndRetry, EndUnpaged, PhaseDone, Working, Phases
  <1>2. Shape'
    BY <1>1 DEF Shape, Phases
  <1>3. \A ph \in Phases : \A k \in DOMAIN reads[ph] : \A r \in providers :
            ph # phase' => Step(ph, k, r) \in Ended
    BY <1>1 DEF Over, Running, Collected, Calls, Step, Phases
  <1>4. Over'
    BY <1>1, <1>3 DEF Over, Step, Phases
  <1>5. FewRunning'
    <2>1. CASE phase' = "retry" /\ phase = "initial"
      <3>1. Running' = {}
        BY <1>1, <2>1 DEF Running, Calls, Over
      <3>2. Cardinality(Running)' = 0
        BY <3>1, FS_EmptySet
      <3> QED BY <2>1, <3>2, ExtractionAssumption DEF FewRunning, Workers
    <2>2. CASE phase' \in {"completed", "unavailable"}
      BY <2>2 DEF FewRunning, Working
    <2> QED BY <1>1, <2>1, <2>2
  <1>6. \A r \in providers : Broken(r)'
    BY <1>1 DEF Broken, BrokenIn, Reached, Step, Limit
  <1> QED BY <1>1, <1>2, <1>4, <1>5, <1>6

LEMMA BoundStep == ASSUME BoundInv, [Next]_vars PROVE BoundInv'
  <1>1. CASE Submit
    BY <1>1, Submitted
  <1>2. ASSUME Working, NEW k \in DOMAIN Calls, NEW r \in providers,
               \/ StartRead(k, r) \/ SkipRead(k, r)
               \/ ReadReturns(k, r) \/ ReadFails(k, r) \/ ReadBreaks(k, r)
               \/ Disable(k, r)
        PROVE BoundInv'
    <2>1. Calls[k][r].at = Step(phase, k, r)
      BY DEF Calls, Step
    <2>2. CASE StartRead(k, r)
      BY <1>2, <2>1, <2>2, Advance DEF StartRead, EnabledReader, At, Ended
    <2>3. CASE SkipRead(k, r)
      BY <1>2, <2>1, <2>3, Advance DEF SkipRead, At, Ended
    <2>4. CASE ReadReturns(k, r)
      <3>1. PICK reading : Becomes(k, r, "read", reading)
        BY <2>4 DEF ReadReturns
      <3> QED BY <1>2, <2>1, <2>4, <3>1, Advance DEF ReadReturns, At, Ended
    <2>5. CASE ReadFails(k, r)
      BY <1>2, <2>1, <2>5, Advance DEF ReadFails, At, Ended
    <2>6. CASE ReadBreaks(k, r)
      BY <1>2, <2>1, <2>6, Advance DEF ReadBreaks, At, Ended
    <2>7. CASE Disable(k, r)
      BY <1>2, <2>1, <2>7, Advance DEF Disable, At, Ended
    <2> QED BY <1>2, <2>2, <2>3, <2>4, <2>5, <2>6, <2>7
  <1>3. CASE EndInitial \/ EndRetry \/ EndUnpaged
    BY <1>3, Ends
  <1>4. CASE Terminated \/ UNCHANGED vars
    <2>1. UNCHANGED <<paged, providers, phase, reads, disabled>>
      BY <1>4 DEF Terminated, vars
    <2> QED BY <2>1 DEF BoundInv, Shape, Over, FewRunning, Broken, BrokenIn, Reached, Step,
                        Running, Collected, Calls, Working, Workers
  <1> QED BY <1>1, <1>2, <1>3, <1>4 DEF Next

LEMMA BoundInitially == ASSUME Init PROVE BoundInv
  <1>1. phase = "initial" /\ reads = [initial |-> <<>>, retry |-> <<>>] /\ disabled = {}
    BY DEF Init
  <1>2. DOMAIN reads = Phases /\ \A ph \in Phases : reads[ph] = <<>>
    BY <1>1 DEF Phases
  <1>3. Shape /\ Over
    BY <1>1, <1>2 DEF Shape, Over, Phases
  <1>4. Running = {}
    BY <1>1 DEF Running, Calls
  <1>5. FewRunning
    BY <1>4, FS_EmptySet, ExtractionAssumption DEF FewRunning, Workers
  <1>6. \A r \in providers : Broken(r)
    BY <1>1, <1>2 DEF Broken, BrokenIn, Reached, Phases
  <1> QED BY <1>3, <1>5, <1>6 DEF BoundInv

(* A reader that fails for good is called no more often than there are     *)
(* workers, and never again by the rereads.                                *)
THEOREM BrokenReader == Spec => []BrokenReaderBounded
  <1>1. Init => BoundInv
    BY BoundInitially
  <1>2. BoundInv /\ [Next]_vars => BoundInv'
    BY BoundStep
  <1>3. BoundInv => BrokenReaderBounded
    <2> SUFFICES ASSUME BoundInv, NEW r \in providers
                 PROVE /\ Cardinality(BrokenIn("initial", r)) <= ChunkWorkers
                       /\ Cardinality(BrokenIn("retry", r)) <= RetryWorkers
                       /\ BrokenIn("initial", r) = {} \/ BrokenIn("retry", r) = {}
      BY DEF BrokenReaderBounded
    <2>1. ASSUME NEW ph \in Phases
          PROVE Cardinality(BrokenIn(ph, r)) <= Limit(ph) /\ BrokenIn(ph, r) \subseteq Reached(ph, r)
      <3>1. CASE BrokenIn(ph, r) = {}
        BY <3>1, FS_EmptySet, ExtractionAssumption DEF Limit
      <3>2. CASE BrokenIn(ph, r) # {}
        <4>1. BrokenIn(ph, r) \subseteq Reached(ph, r)
          BY DEF BrokenIn, Reached, Step
        <4>2. IsFiniteSet(Reached(ph, r)) /\ Cardinality(Reached(ph, r)) <= Limit(ph)
          BY ReachedBounded
        <4>3. /\ IsFiniteSet(BrokenIn(ph, r))
              /\ Cardinality(BrokenIn(ph, r)) <= Cardinality(Reached(ph, r))
          BY <4>1, <4>2, FS_Subset
        <4>4. /\ Cardinality(BrokenIn(ph, r)) \in Nat /\ Cardinality(Reached(ph, r)) \in Nat
              /\ Limit(ph) \in Nat
          BY <4>2, <4>3, FS_CardinalityType, ExtractionAssumption DEF Limit
        <4> QED BY <4>1, <4>2, <4>3, <4>4
      <3> QED BY <3>1, <3>2
    <2> QED BY <2>1 DEF Limit, Phases, BoundInv, Broken
  <1> QED BY <1>1, <1>2, <1>3, PTL DEF Spec

-----------------------------------------------------------------------------
(* What the recursive definitions compute.  A set that holds 0 and the     *)
(* successor of each of its members holds every number; with it a          *)
(* recursion that goes down a bounded rank has a solution.                 *)
LEMMA SetInduction ==
    ASSUME NEW P, 0 \in P, \A n \in Nat : n \in P => n + 1 \in P
    PROVE  Nat \subseteq P
<1> SUFFICES ASSUME NEW n \in Nat, n \notin P PROVE FALSE
  OBVIOUS
<1> DEFINE S == {m \in 0..n : m \notin P}
           before == [m \in S |-> m - 1]
<1>1. IsFiniteSet(S) /\ n \in S
  <2>1. IsFiniteSet(0..n) /\ S \in SUBSET (0..n)
    BY FS_Interval
  <2> HIDE DEF S
  <2>2. IsFiniteSet(S)
    BY <2>1, FS_Subset
  <2> QED BY <2>2 DEF S
<1>2. IsFiniteSet(S \ {n}) /\ Cardinality(S \ {n}) < Cardinality(S)
  <2> HIDE DEF S
  <2>1. IsFiniteSet(S \ {n}) /\ Cardinality(S \ {n}) = Cardinality(S) - 1
    BY <1>1, FS_RemoveElement
  <2>2. Cardinality(S) \in Nat
    BY <1>1, FS_CardinalityType
  <2> QED BY <2>1, <2>2
<1>3. before \in [S -> S \ {n}]
  <2> SUFFICES ASSUME NEW m \in S PROVE m - 1 \in S \ {n}
    OBVIOUS
  <2>1. m \in Nat /\ m # 0 /\ m <= n /\ m \notin P
    OBVIOUS
  <2>2. m - 1 \in Nat /\ m - 1 \notin P
    BY <2>1
  <2> QED BY <2>1, <2>2
<1>4. \A m, k \in S : before[m] = before[k] => m = k
  OBVIOUS
<1> HIDE DEF S, before
<1>5. \E m, k \in S : m # k /\ before[m] = before[k]
  BY <1>1, <1>2, <1>3, FS_PigeonHole
<1> QED BY <1>4, <1>5

Descends(D, A, n, rank, Ground, base, before, h) ==
    /\ n \in Nat /\ rank \in [D -> 0..n] /\ Ground \in SUBSET D
    /\ base \in [Ground -> A]
    /\ before \in [D \ Ground -> D] /\ h \in [(D \ Ground) \X A -> A]
    /\ \A s \in D \ Ground : rank[before[s]] < rank[s]
Solution(D, Ground, base, before, h, f) ==
    \A s \in D : f[s] = IF s \in Ground THEN base[s] ELSE h[<<s, f[before[s]]>>]

LEMMA Recursion ==
    ASSUME NEW D, NEW A, NEW n, NEW rank, NEW Ground, NEW base, NEW before, NEW h,
           Descends(D, A, n, rank, Ground, base, before, h)
    PROVE  \E f \in [D -> A] : Solution(D, Ground, base, before, h, f)
<1> USE DEF Descends
<1> DEFINE Low(k) == {s \in D : rank[s] < k}
           Unfold(f, s) == IF s \in Ground THEN base[s] ELSE h[<<s, f[before[s]]>>]
           P == {k \in Nat : \E f \in [D -> A] : \A s \in Low(k) : f[s] = Unfold(f, s)}
<1>0. A # {} \/ D = {}
  <2>1. CASE Ground # {}
    BY <2>1
  <2>2. CASE Ground = {} /\ D # {}
    <3> DEFINE Q == {k \in Nat : \A s \in D : rank[s] >= k}
    <3>1. 0 \in Q
      OBVIOUS
    <3>2. ASSUME NEW k \in Nat, k \in Q PROVE k + 1 \in Q
      <4>1. ASSUME NEW s \in D PROVE rank[s] >= k + 1
        <5>1. before[s] \in D /\ rank[before[s]] < rank[s] /\ rank[before[s]] \in Nat
              /\ rank[s] \in Nat
          BY <2>2
        <5>2. rank[before[s]] >= k
          BY <5>1, <3>2
        <5> QED BY <5>1, <5>2
      <4> QED BY <4>1
    <3> HIDE DEF Q
    <3>3. Nat \subseteq Q
      BY <3>1, <3>2, SetInduction
    <3>4. PICK s \in D : TRUE
      BY <2>2
    <3>5. rank[s] + 1 \in Q /\ rank[s] \in Nat
      BY <3>3
    <3> QED BY <3>5 DEF Q
  <2> QED BY <2>1, <2>2
<1>1. 0 \in P
  <2>1. [D -> A] # {}
    <3>1. CASE D = {}
      BY <3>1
    <3>2. CASE A # {}
      <4>1. PICK a \in A : TRUE
        BY <3>2
      <4>2. [s \in D |-> a] \in [D -> A]
        OBVIOUS
      <4> QED BY <4>2
    <3> QED BY <1>0, <3>1, <3>2
  <2>2. Low(0) = {}
    OBVIOUS
  <2> QED BY <2>1, <2>2
<1>2. ASSUME NEW k \in Nat, k \in P PROVE k + 1 \in P
  <2>1. PICK f \in [D -> A] : \A s \in Low(k) : f[s] = Unfold(f, s)
    BY <1>2
  <2> DEFINE g == [s \in D |-> Unfold(f, s)]
  <2>2. g \in [D -> A]
    OBVIOUS
  <2>3. \A s \in Low(k) : g[s] = f[s]
    BY <2>1
  <2>4. ASSUME NEW s \in Low(k + 1) \ Ground PROVE before[s] \in Low(k)
    OBVIOUS
  <2>5. \A s \in Low(k + 1) : g[s] = Unfold(g, s)
    BY <2>3, <2>4
  <2> HIDE DEF g
  <2> QED BY <2>2, <2>5
<1> HIDE DEF P
<1>3. n + 1 \in P
  BY <1>1, <1>2, SetInduction
<1> USE DEF P
<1>4. Low(n + 1) = D
  OBVIOUS
<1> QED BY <1>3, <1>4 DEF Solution

(* Sequences over S, one after the other, are a sequence over S.           *)
LEMMA Flattened ==
    ASSUME NEW S, NEW n \in Nat, NEW seqs \in [1..n -> Seq(S)]
    PROVE  FlattenSeq(seqs) \in Seq(S)
<1>1. seqs \in Seq(Seq(S)) /\ Len(seqs) = n
  OBVIOUS
<1>2. CASE n = 0
  <2>1. FlattenSeq(seqs) = seqs /\ seqs = <<>>
    BY <1>1, <1>2 DEF FlattenSeq
  <2> QED BY <2>1
<1>3. CASE n # 0
  <2> DEFINE D == 1..n
             Body(f) == [i \in D |-> IF i = 1 THEN seqs[i] ELSE f[i - 1] \o seqs[i]]
             flatten == CHOOSE f : f = Body(f)
             Ground == {1}
             A == Seq(S)
             base == [i \in Ground |-> seqs[1]]
             before == [i \in D \ Ground |-> i - 1]
             h == [p \in (D \ Ground) \X A |-> p[2] \o seqs[p[1]]]
             rank == [i \in D |-> i]
  <2>1. \E f \in [D -> A] : Solution(D, Ground, base, before, h, f)
    <3>1. Ground \in SUBSET D /\ base \in [Ground -> A] /\ rank \in [D -> 0..n]
      BY <1>3
    <3>2. before \in [D \ Ground -> D] /\ \A i \in D \ Ground : rank[before[i]] < rank[i]
      OBVIOUS
    <3>3. h \in [(D \ Ground) \X A -> A]
      <4> SUFFICES ASSUME NEW i \in D \ Ground, NEW s \in A
                   PROVE  s \o seqs[i] \in A
        OBVIOUS
      <4> QED BY ConcatProperties
    <3> HIDE DEF D, A, Ground, base, before, h, rank
    <3>4. Descends(D, A, n, rank, Ground, base, before, h)
      BY <3>1, <3>2, <3>3 DEF Descends
    <3> QED BY <3>4, Recursion
  <2>2. PICK f \in [D -> A] : \A i \in D :
           f[i] = IF i \in Ground THEN base[i] ELSE h[<<i, f[before[i]]>>]
    BY <2>1 DEF Solution
  <2>3. f = Body(f)
    <3>1. ASSUME NEW i \in D, i # 1
          PROVE  f[i] = f[i - 1] \o seqs[i]
      <4>1. i \in D \ Ground /\ before[i] = i - 1 /\ f[i - 1] \in A
        BY <3>1
      <4>2. h[<<i, f[i - 1]>>] = f[i - 1] \o seqs[i]
        BY <4>1
      <4> QED BY <2>2, <4>1, <4>2
    <3>2. \A i \in D : f[i] = IF i = 1 THEN seqs[i] ELSE f[i - 1] \o seqs[i]
      <4>1. 1 \in D => f[1] = seqs[1]
        BY <2>2
      <4> QED BY <3>1, <4>1
    <3> QED BY <3>2
  <2> HIDE DEF base, before, h, rank
  <2>4. flatten = Body(flatten)
    <3> HIDE DEF Body
    <3> QED BY <2>3
  <2>5. FlattenSeq(seqs) = flatten[n]
    BY <1>1, <1>3, Zenon DEF FlattenSeq
  <2> HIDE DEF flatten
  <2> DEFINE P == {k \in Nat : k \in D => flatten[k] \in Seq(S)}
  <2>6. 0 \in P
    OBVIOUS
  <2>7. ASSUME NEW k \in Nat, k \in P PROVE k + 1 \in P
    <3> SUFFICES ASSUME k + 1 \in D PROVE flatten[k + 1] \in Seq(S)
      OBVIOUS
    <3>1. CASE k = 0
      BY <2>4, <3>1
    <3>2. CASE k # 0
      <4>1. k \in D /\ (k + 1) - 1 = k /\ k + 1 # 1 /\ seqs[k + 1] \in Seq(S)
        BY <3>2
      <4>2. flatten[k] \in Seq(S)
        BY <2>7, <4>1
      <4>3. flatten[k + 1] = flatten[k] \o seqs[k + 1]
        BY <2>4, <4>1
      <4> QED BY <4>1, <4>2, <4>3, ConcatProperties
    <3> QED BY <3>1, <3>2
  <2>8. n \in P
    <3> HIDE DEF P
    <3> QED BY <2>6, <2>7, SetInduction
  <2> QED BY <1>3, <2>5, <2>8
<1> QED BY <1>2, <1>3

LEMMA MaxOf ==
    ASSUME NEW n \in Nat, NEW s \in SUBSET (1..n), s # {}
    PROVE  Max(s) \in s /\ \A i \in s : i <= Max(s)
<1> DEFINE P == {k \in Nat : (\E i \in s : i >= n - k) =>
                                \E i \in s : \A j \in s : i >= j}
<1>1. 0 \in P
  <2> SUFFICES ASSUME NEW i \in s, i >= n PROVE \A j \in s : i >= j
    OBVIOUS
  <2> QED OBVIOUS
<1>2. ASSUME NEW k \in Nat, k \in P PROVE k + 1 \in P
  <2> SUFFICES ASSUME NEW i \in s, i >= n - (k + 1), \A j \in s : j < n - k
               PROVE  \A j \in s : i >= j
    BY <1>2
  <2>1. ASSUME NEW j \in s PROVE i >= j
    <3>1. i \in Nat /\ j \in Nat /\ j < n - k
      OBVIOUS
    <3> QED BY <3>1
  <2> QED BY <2>1
<1> HIDE DEF P
<1>3. n \in P
  BY <1>1, <1>2, SetInduction
<1>4. \E i \in s : i >= n - n
  <2>1. PICK i : i \in s
    OBVIOUS
  <2>2. i \in 1..n
    BY <2>1
  <2>3. i >= n - n
    BY <2>2
  <2> QED BY <2>1, <2>3
<1>5. \E i \in s : \A j \in s : i >= j
  BY <1>3, <1>4 DEF P
<1>6. Max(s) \in s /\ \A j \in s : Max(s) >= j
  BY <1>5 DEF Max
<1>7. \A j \in s : j \in Nat
  OBVIOUS
<1> QED BY <1>6, <1>7

LEMMA MaxOfPrefix ==
    ASSUME NEW k \in Nat
    PROVE  Max(1 .. (k + 1)) = k + 1 /\ (1 .. (k + 1)) \ {k + 1} = 1..k
<1> DEFINE s == 1 .. (k + 1)
<1>1. s \in SUBSET (1 .. (k + 1)) /\ k + 1 \in s /\ \A i \in s : i <= k + 1 /\ i \in Nat
  OBVIOUS
<1> HIDE DEF s
<1>2. Max(s) \in s /\ k + 1 <= Max(s)
  BY <1>1, MaxOf
<1>3. Max(s) = k + 1
  <2> DEFINE m == Max(s)
  <2>1. m \in s /\ k + 1 <= m
    BY <1>2
  <2> HIDE DEF m
  <2>2. m <= k + 1 /\ m \in Nat
    BY <1>1, <2>1
  <2>3. m = k + 1
    BY <2>1, <2>2
  <2> QED BY <2>3 DEF m
<1> QED BY <1>3 DEF s

(* A fold that stays in A, with its steps as the function h.               *)
Folded(n, start, step, f) ==
    \A s \in SUBSET (1..n) :
        f[s] = IF s = {} THEN start ELSE step[<<f[s \ {Max(s)}], Max(s)>>]

LEMMA FoldSolved ==
    ASSUME NEW A, NEW n \in Nat, NEW start \in A, NEW step \in [A \X (1..n) -> A]
    PROVE  \E f \in [SUBSET (1..n) -> A] : Folded(n, start, step, f)
<1> DEFINE D == SUBSET (1..n)
           Ground == {{}}
           base == [s \in Ground |-> start]
           before == [s \in D \ Ground |-> s \ {Max(s)}]
           h == [p \in (D \ Ground) \X A |-> step[<<p[2], Max(p[1])>>]]
           rank == [s \in D |-> Cardinality(s)]
<1>1. \A s \in D \ Ground : Max(s) \in s /\ Max(s) \in 1..n
  BY MaxOf
<1>2. \A s \in D : IsFiniteSet(s) /\ Cardinality(s) \in 0..n
  <2> SUFFICES ASSUME NEW s \in D PROVE IsFiniteSet(s) /\ Cardinality(s) \in 0..n
    OBVIOUS
  <2> DEFINE all == 1..n
  <2>1. IsFiniteSet(all) /\ Cardinality(all) = n /\ s \in SUBSET all
    BY FS_Interval
  <2> HIDE DEF all
  <2>2. IsFiniteSet(s) /\ Cardinality(s) <= n
    BY <2>1, FS_Subset
  <2>3. Cardinality(s) \in Nat
    BY <2>2, FS_CardinalityType
  <2> QED BY <2>2, <2>3
<1>3. \A s \in D \ Ground : s \ {Max(s)} \in D /\ Cardinality(s \ {Max(s)}) < Cardinality(s)
  <2> SUFFICES ASSUME NEW s \in D \ Ground
               PROVE  s \ {Max(s)} \in D /\ Cardinality(s \ {Max(s)}) < Cardinality(s)
    OBVIOUS
  <2> DEFINE m == Max(s)
  <2>1. m \in s
    BY <1>1
  <2> HIDE DEF m
  <2>2. IsFiniteSet(s) /\ Cardinality(s) \in Nat
    BY <1>2
  <2>3. Cardinality(s \ {m}) = Cardinality(s) - 1
    BY <2>1, <2>2, FS_RemoveElement
  <2>4. s \ {m} \in D
    OBVIOUS
  <2>5. Cardinality(s \ {m}) < Cardinality(s)
    BY <2>2, <2>3
  <2> QED BY <2>4, <2>5 DEF m
<1>4. Ground \in SUBSET D /\ base \in [Ground -> A] /\ rank \in [D -> 0..n]
  BY <1>2
<1>5. before \in [D \ Ground -> D] /\ \A s \in D \ Ground : rank[before[s]] < rank[s]
  BY <1>3
<1>6. h \in [(D \ Ground) \X A -> A]
  BY <1>1
<1>7. \E f \in [D -> A] : Solution(D, Ground, base, before, h, f)
  <2> HIDE DEF D, Ground, base, before, h, rank
  <2>1. Descends(D, A, n, rank, Ground, base, before, h)
    BY <1>4, <1>5, <1>6 DEF Descends
  <2> QED BY <2>1, Recursion
<1>8. PICK f \in [D -> A] : \A s \in D :
           f[s] = IF s \in Ground THEN base[s] ELSE h[<<s, f[before[s]]>>]
  BY <1>7 DEF Solution
<1>9. ASSUME NEW s \in D, s # {}
      PROVE  f[s] = step[<<f[s \ {Max(s)}], Max(s)>>]
  <2>1. s \in D \ Ground /\ s \ {Max(s)} \in D /\ Max(s) \in 1..n
    BY <1>1, <1>3, <1>9
  <2>2. before[s] = s \ {Max(s)} /\ f[s \ {Max(s)}] \in A
    BY <2>1
  <2> QED BY <1>8, <2>1, <2>2
<1>10. {} \in D /\ f[{}] = start
  BY <1>8
<1> QED BY <1>9, <1>10 DEF Folded

(* The rows of one reader stay rows of one set, whatever is reread.        *)
LEMMA RereadRowStays ==
    ASSUME NEW S, NEW rows \in Seq(S), NEW row \in S
    PROVE  RereadRow(rows, row) \in Seq(S)
<1> DEFINE found == {i \in DOMAIN rows : /\ row.page # 0 /\ rows[i].page = row.page
                                         /\ Score(rows[i], row) >= Same}
           at == CHOOSE i \in found : TRUE
<1>1. CASE Cardinality(found) = 1
  <2>1. found # {}
    <3> HIDE DEF found
    <3>1. Cardinality({}) # 1
      BY FS_EmptySet
    <3> QED BY <1>1, <3>1
  <2>2. at \in found
    BY <2>1
  <2>3. at \in 1..Len(rows) /\ RereadRow(rows, row) = [rows EXCEPT ![at] = row]
    BY <1>1, <2>2 DEF RereadRow
  <2> HIDE DEF at
  <2> QED BY <2>3, ExceptSeq
<1>2. CASE Cardinality(found) # 1
  <2>1. RereadRow(rows, row) = Append(rows, row)
    BY <1>2 DEF RereadRow
  <2> QED BY <2>1, AppendProperties
<1> QED BY <1>1, <1>2

LEMMA RereadStays ==
    ASSUME NEW S, NEW rows \in Seq(S), NEW incoming \in Seq(S)
    PROVE  Reread(rows, incoming) \in Seq(S)
<1> DEFINE n == Len(incoming)
           D == SUBSET (1..n)
           A == Seq(S)
           step == [p \in A \X (1..n) |-> RereadRow(p[1], incoming[p[2]])]
           Body(f) == [s \in D |-> IF s = {} THEN rows
                                   ELSE RereadRow(f[s \ {Max(s)}], incoming[Max(s)])]
           iter == CHOOSE f : f = Body(f)
<1>1. n \in Nat /\ DOMAIN incoming = 1..n /\ rows \in A
  OBVIOUS
<1>2. step \in [A \X (1..n) -> A]
  <2> SUFFICES ASSUME NEW x \in A, NEW i \in 1..n PROVE RereadRow(x, incoming[i]) \in A
    OBVIOUS
  <2> QED BY RereadRowStays
<1>3. PICK f \in [D -> A] : \A s \in D :
          f[s] = IF s = {} THEN rows ELSE step[<<f[s \ {Max(s)}], Max(s)>>]
  <2>1. \E f \in [SUBSET (1..n) -> A] : Folded(n, rows, step, f)
    <3> HIDE DEF n, A, step
    <3> QED BY <1>1, <1>2, FoldSolved
  <2> QED BY <2>1 DEF Folded
<1>4. \A s \in D : s # {} => s \ {Max(s)} \in D /\ Max(s) \in 1..n
  BY <1>1, MaxOf
<1> HIDE DEF A, n
<1>5. f = Body(f)
  <2>1. ASSUME NEW s \in D, s # {}
        PROVE  f[s] = RereadRow(f[s \ {Max(s)}], incoming[Max(s)])
    BY <1>3, <1>4, <2>1
  <2> QED BY <1>3, <2>1
<1>6. iter = Body(iter)
  <2> HIDE DEF Body
  <2> QED BY <1>5
<1>7. Reread(rows, incoming) = iter[1..n]
  <2>1. Reread(rows, incoming) = iter[DOMAIN incoming]
    BY <1>1, Zenon DEF Reread, FoldLeft, MapThenFoldSet
  <2> QED BY <1>1, <2>1
<1> HIDE DEF iter
<1> DEFINE P == {k \in Nat : k <= n => iter[1..k] \in A}
<1>8. 0 \in P
  <2>1. 1..0 = {} /\ {} \in D
    OBVIOUS
  <2> QED BY <1>1, <1>6, <2>1
<1>9. ASSUME NEW k \in Nat, k \in P PROVE k + 1 \in P
  <2> SUFFICES ASSUME k + 1 <= n PROVE iter[1 .. (k + 1)] \in A
    OBVIOUS
  <2> DEFINE s == 1 .. (k + 1)
  <2>1. k <= n /\ s \in D /\ k + 1 \in s /\ k + 1 \in 1..n
    BY <1>1
  <2>2. Max(s) = k + 1 /\ s \ {k + 1} = 1..k
    BY MaxOfPrefix
  <2> HIDE DEF s
  <2>3. iter[s] = RereadRow(iter[1..k], incoming[k + 1])
    BY <1>6, <2>1, <2>2
  <2>4. iter[1..k] \in Seq(S) /\ incoming[k + 1] \in S
    BY <1>1, <1>9, <2>1 DEF A
  <2>5. RereadRow(iter[1..k], incoming[k + 1]) \in Seq(S)
    <3> DEFINE x == iter[1..k]
               row == incoming[k + 1]
    <3>1. x \in Seq(S) /\ row \in S
      BY <2>4
    <3> HIDE DEF x, row
    <3>2. RereadRow(x, row) \in Seq(S)
      BY <3>1, RereadRowStays
    <3> QED BY <3>2 DEF x, row
  <2>6. iter[s] \in A
    BY <2>3, <2>5 DEF A
  <2> QED BY <2>6 DEF s
<1>10. n \in P
  <2> HIDE DEF P
  <2> QED BY <1>1, <1>8, <1>9, SetInduction
<1> QED BY <1>1, <1>7, <1>10 DEF A

-----------------------------------------------------------------------------
(* The pairing of two readings.  The strongest edge exists, so the greedy  *)
(* choice only takes edges.                                                *)
LEMMA EdgesFinite ==
    ASSUME NEW S, NEW L \in Seq(S), NEW R \in Seq(S)
    PROVE  IsFiniteSet(Edges(L, R)) /\ Edges(L, R) \subseteq (1..Len(L)) \X (1..Len(R))
<1> DEFINE m == 1..Len(L)
           n == 1..Len(R)
<1>1. IsFiniteSet(m) /\ IsFiniteSet(n)
  BY FS_Interval
<1>2. Edges(L, R) \subseteq m \X n
  BY DEF Edges
<1> HIDE DEF m, n
<1>3. IsFiniteSet(m \X n)
  BY <1>1, FS_Product
<1>4. IsFiniteSet(Edges(L, R))
  BY <1>2, <1>3, FS_Subset
<1> QED BY <1>2, <1>4 DEF m, n

LEMMA StrongerOrders ==
    ASSUME NEW L, NEW R,
           NEW e \in Nat \X Nat, NEW f \in Nat \X Nat, NEW g \in Nat \X Nat
    PROVE  /\ e # f => Stronger(L, R, e, f) \/ Stronger(L, R, f, e)
           /\ Stronger(L, R, e, f) /\ Stronger(L, R, f, g) => Stronger(L, R, e, g)
<1> DEFINE x == Strength(L, R, e)
           y == Strength(L, R, f)
           z == Strength(L, R, g)
<1>1. x \in Nat /\ y \in Nat /\ z \in Nat
  BY DEF Strength, Score
<1>2. /\ e[1] \in Nat /\ e[2] \in Nat /\ f[1] \in Nat /\ f[2] \in Nat
      /\ g[1] \in Nat /\ g[2] \in Nat
      /\ e # f => e[1] # f[1] \/ e[2] # f[2]
  OBVIOUS
<1> HIDE DEF x, y, z
<1> QED BY <1>1, <1>2 DEF Stronger, x, y, z

StrongestIn(L, R, E, e) == e \in E /\ \A g \in E \ {e} : Stronger(L, R, e, g)

LEMMA StrongestExists ==
    ASSUME NEW L, NEW R, NEW X \in SUBSET (Nat \X Nat), IsFiniteSet(X)
    PROVE  \A E \in SUBSET X : E # {} => \E e : StrongestIn(L, R, E, e)
<1> DEFINE P == {k \in Nat : \A E \in SUBSET X : Cardinality(E) = k + 1 =>
                                \E e : StrongestIn(L, R, E, e)}
<1>1. 0 \in P
  <2> SUFFICES ASSUME NEW E \in SUBSET X, Cardinality(E) = 1
               PROVE  \E e : StrongestIn(L, R, E, e)
    OBVIOUS
  <2>1. IsFiniteSet(E)
    BY FS_Subset
  <2>2. PICK e : E = {e}
    BY <2>1, FS_Singleton
  <2> QED BY <2>2 DEF StrongestIn
<1>2. ASSUME NEW k \in Nat, k \in P PROVE k + 1 \in P
  <2> SUFFICES ASSUME NEW E \in SUBSET X, Cardinality(E) = (k + 1) + 1
               PROVE  \E e : StrongestIn(L, R, E, e)
    OBVIOUS
  <2> HIDE DEF P
  <2>1. IsFiniteSet(E) /\ Cardinality(E) # 0
    BY FS_Subset
  <2>2. PICK e : e \in E
    <3>1. Cardinality({}) = 0
      BY FS_EmptySet
    <3> QED BY <2>1, <3>1
  <2> DEFINE F == E \ {e}
  <2>3. F \in SUBSET X /\ Cardinality(F) = k + 1
    <3>1. Cardinality(F) = Cardinality(E) - 1
      BY <2>1, <2>2, FS_RemoveElement
    <3>2. (k + 1) + 1 - 1 = k + 1
      OBVIOUS
    <3> QED BY <3>1, <3>2
  <2> HIDE DEF F
  <2>4. PICK f : StrongestIn(L, R, F, f)
    BY <1>2, <2>3 DEF P
  <2>5. e \in Nat \X Nat /\ f \in Nat \X Nat /\ e # f /\ f \in E
    BY <2>2, <2>3, <2>4 DEF StrongestIn, F
  <2>6. CASE Stronger(L, R, f, e)
    BY <2>4, <2>5, <2>6 DEF StrongestIn, F
  <2>7. CASE Stronger(L, R, e, f)
    <3>1. ASSUME NEW g \in E \ {e}, g # f PROVE Stronger(L, R, e, g)
      <4>1. Stronger(L, R, f, g) /\ g \in Nat \X Nat
        BY <2>4, <3>1 DEF StrongestIn, F
      <4> QED BY <2>5, <2>7, <4>1, StrongerOrders
    <3> QED BY <2>2, <2>7, <3>1 DEF StrongestIn
  <2> QED BY <2>5, <2>6, <2>7, StrongerOrders
<1> HIDE DEF P
<1>3. Nat \subseteq P
  BY <1>1, <1>2, SetInduction
<1> SUFFICES ASSUME NEW E \in SUBSET X, E # {}
             PROVE  \E e : StrongestIn(L, R, E, e)
  OBVIOUS
<1>4. IsFiniteSet(E) /\ Cardinality(E) \in Nat /\ Cardinality(E) # 0
  BY FS_Subset, FS_CardinalityType, FS_EmptySet
<1>5. Cardinality(E) - 1 \in P /\ (Cardinality(E) - 1) + 1 = Cardinality(E)
  BY <1>3, <1>4
<1> QED BY <1>5 DEF P

LEMMA PairsAreEdges ==
    ASSUME NEW S, NEW L \in Seq(S), NEW R \in Seq(S)
    PROVE  Pairs(L, R) \subseteq Edges(L, R)
<1> DEFINE X == Edges(L, R)
           Best(E) == CHOOSE e \in E : \A g \in E \ {e} : Stronger(L, R, e, g)
           Rest(E) == {f \in E : ~Meet(Best(E), f)}
           D == SUBSET X
           Ground == {{}}
           n == Cardinality(X)
           base == [E \in Ground |-> {}]
           before == [E \in D \ Ground |-> Rest(E)]
           h == [p \in (D \ Ground) \X D |-> {Best(p[1])} \cup p[2]]
           rank == [E \in D |-> Cardinality(E)]
           Body(f) == [E \in D |-> IF E = {} THEN {} ELSE {Best(E)} \cup f[Rest(E)]]
           greedy == CHOOSE f : f = Body(f)
<1>1. IsFiniteSet(X) /\ n \in Nat /\ X \in SUBSET (Nat \X Nat)
  <2>1. \A k \in 1..Len(L), j \in 1..Len(R) : k \in Nat /\ j \in Nat
    OBVIOUS
  <2> QED BY <2>1, EdgesFinite, FS_CardinalityType
<1>2. ASSUME NEW E \in D, E # {}
      PROVE  Best(E) \in E /\ Best(E) \notin Rest(E) /\ Rest(E) \in D
  <2>1. \E e \in E : \A g \in E \ {e} : Stronger(L, R, e, g)
    BY <1>1, <1>2, StrongestExists DEF StrongestIn
  <2>2. Best(E) \in E
    BY <2>1
  <2> HIDE DEF Best
  <2> QED BY <2>2 DEF Meet
<1> HIDE DEF Best
<1>3. ASSUME NEW E \in D
      PROVE  IsFiniteSet(E) /\ Cardinality(E) \in 0..n
  <2>1. IsFiniteSet(E) /\ Cardinality(E) <= n
    BY <1>1, FS_Subset
  <2>2. Cardinality(E) \in Nat
    BY <2>1, FS_CardinalityType
  <2> QED BY <1>1, <2>1, <2>2
<1>4. ASSUME NEW E \in D, E # {}
      PROVE  Cardinality(Rest(E)) < Cardinality(E)
  <2>1. Rest(E) \in SUBSET E /\ Rest(E) # E
    BY <1>2, <1>4
  <2> HIDE DEF Rest
  <2>2. IsFiniteSet(E) /\ Cardinality(Rest(E)) <= Cardinality(E)
        /\ Cardinality(Rest(E)) # Cardinality(E)
    BY <1>3, <2>1, FS_Subset
  <2>3. Cardinality(E) \in Nat /\ Cardinality(Rest(E)) \in Nat
    BY <2>1, <2>2, FS_Subset, FS_CardinalityType
  <2> QED BY <2>2, <2>3
<1> HIDE DEF X, Rest
<1>5. Ground \in SUBSET D /\ base \in [Ground -> D] /\ rank \in [D -> 0..n]
  BY <1>3
<1>6. before \in [D \ Ground -> D] /\ \A E \in D \ Ground : rank[before[E]] < rank[E]
  BY <1>2, <1>4
<1>7. h \in [(D \ Ground) \X D -> D]
  BY <1>2
<1>8. \E f \in [D -> D] : Solution(D, Ground, base, before, h, f)
  <2> HIDE DEF D, Ground, base, before, h, rank, n
  <2>1. Descends(D, D, n, rank, Ground, base, before, h)
    BY <1>1, <1>5, <1>6, <1>7 DEF Descends
  <2> QED BY <2>1, Recursion
<1>9. PICK f \in [D -> D] : \A E \in D :
         f[E] = IF E \in Ground THEN base[E] ELSE h[<<E, f[before[E]]>>]
  BY <1>8 DEF Solution
<1>10. f = Body(f)
  <2>1. ASSUME NEW E \in D, E # {} PROVE f[E] = {Best(E)} \cup f[Rest(E)]
    <3>1. E \in D \ Ground /\ before[E] = Rest(E) /\ f[Rest(E)] \in D
      BY <1>2, <2>1
    <3> QED BY <1>9, <3>1
  <2>2. {} \in D => f[{}] = {}
    BY <1>9
  <2> QED BY <2>1, <2>2
<1>11. greedy = Body(greedy)
  <2> HIDE DEF Body
  <2> QED BY <1>10
<1>12. Pairs(L, R) = greedy[X]
  BY Zenon DEF Pairs, X, Rest, Best
<1> HIDE DEF greedy
<1> DEFINE P == {k \in Nat : \A E \in D : Cardinality(E) <= k => greedy[E] \subseteq E}
<1>13. 0 \in P
  <2> SUFFICES ASSUME NEW E \in D, Cardinality(E) <= 0 PROVE greedy[E] \subseteq E
    OBVIOUS
  <2>1. IsFiniteSet(E) /\ Cardinality(E) = 0
    BY <1>3
  <2>2. E = {}
    BY <2>1, FS_EmptySet
  <2> QED BY <1>11, <2>2
<1>14. ASSUME NEW k \in Nat, k \in P PROVE k + 1 \in P
  <2> SUFFICES ASSUME NEW E \in D, Cardinality(E) <= k + 1
               PROVE  greedy[E] \subseteq E
    OBVIOUS
  <2>0. CASE E = {}
    BY <1>11, <2>0
  <2> SUFFICES ASSUME E # {} PROVE greedy[E] \subseteq E
    BY <2>0
  <2>1. Rest(E) \in D /\ Cardinality(Rest(E)) <= k
    <3>1. Rest(E) \in D /\ Cardinality(Rest(E)) < Cardinality(E)
      BY <1>2, <1>4
    <3>2. Cardinality(Rest(E)) \in 0..n /\ Cardinality(E) \in 0..n
      BY <1>3, <3>1
    <3> QED BY <1>1, <3>1, <3>2
  <2>2. greedy[Rest(E)] \subseteq Rest(E)
    BY <1>14, <2>1
  <2>3. greedy[E] = {Best(E)} \cup greedy[Rest(E)]
    BY <1>11
  <2>4. Rest(E) \subseteq E /\ Best(E) \in E
    BY <1>2 DEF Rest
  <2> QED BY <2>2, <2>3, <2>4
<1>15. n \in P
  <2> HIDE DEF P
  <2> QED BY <1>1, <1>13, <1>14, SetInduction
<1>16. greedy[X] \subseteq X
  <2>1. X \in D /\ Cardinality(X) <= n
    BY <1>1
  <2> QED BY <1>15, <2>1
<1> QED BY <1>12, <1>16 DEF X

(* Every row of two readings is in an item that says the same, or in a     *)
(* pair of the ledger.                                                     *)
LEMMA RowsAccounted ==
    ASSUME NEW S, NEW L \in Seq(S), NEW R \in Seq(S)
    PROVE  /\ \A i \in DOMAIN L : \/ \E pair \in Unresolved(L, R) : L[i] \in pair
                                  \/ \E item \in Reconciled(L, R) : Says(item, L[i])
           /\ \A j \in DOMAIN R : \/ \E pair \in Unresolved(L, R) : R[j] \in pair
                                  \/ \E item \in Reconciled(L, R) : Says(item, R[j])
<1>1. Pairs(L, R) \subseteq Edges(L, R)
  BY PairsAreEdges
<1>2. ASSUME NEW e \in Pairs(L, R), ~Agrees(L, R, e)
      PROVE  \E pair \in Unresolved(L, R) : L[e[1]] \in pair /\ R[e[2]] \in pair
  <2> DEFINE pair == {L[e[1]], R[e[2]]}
  <2>1. pair \in Unresolved(L, R) /\ L[e[1]] \in pair /\ R[e[2]] \in pair
    BY <1>2 DEF Unresolved
  <2> HIDE DEF pair
  <2> QED BY <2>1
<1>3. ASSUME NEW e \in Pairs(L, R), Agrees(L, R, e)
      PROVE  \E item \in Reconciled(L, R) : Says(item, L[e[1]]) /\ Says(item, R[e[2]])
  <2> DEFINE item == Item(L[e[1]], "agreed")
  <2>1. item \in Reconciled(L, R)
    BY <1>3 DEF Reconciled
  <2>2. Says(item, L[e[1]])
    BY DEF Item, Says
  <2>3. /\ L[e[1]].page = R[e[2]].page
        /\ Score(L[e[1]], R[e[2]]) >= Same /\ ~Conflicting(L[e[1]], R[e[2]])
    BY <1>1, <1>3 DEF Edges, Agrees, Strength
  <2>4. Says(L[e[1]], R[e[2]])
    BY <2>3, SameOffer DEF Conflicting, Says
  <2>5. Says(item, R[e[2]])
    BY <2>2, <2>4 DEF Says
  <2> HIDE DEF item
  <2> QED BY <2>1, <2>2, <2>5
<1>4. ASSUME NEW row \in Unpaired(L, R)
      PROVE  \E item \in Reconciled(L, R) : Says(item, row)
  <2>1. Single(row) \in Reconciled(L, R)
    BY DEF Reconciled
  <2>2. Says(Single(row), row)
    BY DEF Single, Item, Says
  <2> QED BY <2>1, <2>2
<1>5. ASSUME NEW i \in DOMAIN L
      PROVE  \/ \E pair \in Unresolved(L, R) : L[i] \in pair
             \/ \E item \in Reconciled(L, R) : Says(item, L[i])
  <2>1. CASE \E e \in Pairs(L, R) : e[1] = i
    BY <1>2, <1>3, <2>1
  <2>2. CASE \A e \in Pairs(L, R) : e[1] # i
    <3>1. L[i] \in Unpaired(L, R)
      BY <2>2 DEF Unpaired
    <3> QED BY <1>4, <3>1
  <2> QED BY <2>1, <2>2
<1>6. ASSUME NEW j \in DOMAIN R
      PROVE  \/ \E pair \in Unresolved(L, R) : R[j] \in pair
             \/ \E item \in Reconciled(L, R) : Says(item, R[j])
  <2>1. CASE \E e \in Pairs(L, R) : e[2] = j
    BY <1>2, <1>3, <2>1
  <2>2. CASE \A e \in Pairs(L, R) : e[2] # j
    <3>1. R[j] \in Unpaired(L, R)
      BY <2>2 DEF Unpaired
    <3> QED BY <1>4, <3>1
  <2> QED BY <2>1, <2>2
<1> QED BY <1>5, <1>6

(* Where items and ledger come from: each item says what a row says, and   *)
(* the ledger is about pages that exist.                                   *)
LEMMA ItemsAreRows ==
    ASSUME NEW S, NEW L \in Seq(S), NEW R \in Seq(S)
    PROVE  /\ \A item \in Reconciled(L, R) : \E row \in S : item.page = row.page
           /\ \A pair \in Unresolved(L, R) : \A row \in pair : row \in S /\ row.page # 0
<1>1. /\ Pairs(L, R) \subseteq Edges(L, R)
      /\ Edges(L, R) \subseteq (DOMAIN L) \X (DOMAIN R)
      /\ \A i \in DOMAIN L : L[i] \in S
      /\ \A j \in DOMAIN R : R[j] \in S
  BY PairsAreEdges DEF Edges
<1>2. \A e \in Pairs(L, R) : L[e[1]] \in S /\ R[e[2]] \in S
  BY <1>1
<1>3. \A e \in Pairs(L, R) : L[e[1]].page # 0 /\ R[e[2]].page # 0
  BY <1>1 DEF Edges
<1>4. \A row, status : Item(row, status).page = row.page
  BY DEF Item
<1>5. \A row : Single(row).page = row.page
  BY <1>4 DEF Single
<1>6. \A row \in Unpaired(L, R) : row \in S
  BY <1>1 DEF Unpaired
<1>7. \A item \in Reconciled(L, R) : \E row \in S : item.page = row.page
  <2> SUFFICES ASSUME NEW item \in Reconciled(L, R)
               PROVE  \E row \in S : item.page = row.page
    OBVIOUS
  <2>1. CASE \E e \in Pairs(L, R) : item = Item(L[e[1]], "agreed")
    BY <1>2, <1>4, <2>1
  <2>2. CASE \E row \in Unpaired(L, R) : item = Single(row)
    BY <1>5, <1>6, <2>2
  <2> QED BY <2>1, <2>2 DEF Reconciled
<1>8. \A pair \in Unresolved(L, R) : \A row \in pair : row \in S /\ row.page # 0
  BY <1>2, <1>3 DEF Unresolved
<1> QED BY <1>7, <1>8

-----------------------------------------------------------------------------
(* What the calls bring.                                                   *)
OfPages(reading) == UNION {Range(RowsOn(page, reading[page].rows)) : page \in 1..NumPages}
Strays(reading) == UNION {Range(RowsOn(0, reading[page].stray)) : page \in 1..NumPages}
RowsRead(call) == OfPages(call.reading) \cup Strays(call.reading)

CallSteps == Ended \cup {"waiting", "reading", "raised"}
CallFormed(call) ==
    /\ call.at \in CallSteps
    /\ call.reading \in [1..NumPages -> PageReading]
    /\ call.at # "read" => call.reading = NoReading

LEMMA RowsOnPage ==
    ASSUME NEW page, NEW S, NEW rows \in Seq(S)
    PROVE  /\ RowsOn(page, rows) \in Seq(Range(RowsOn(page, rows)))
           /\ \A row \in Range(RowsOn(page, rows)) : row.page = page /\ rows # <<>>
<1> DEFINE out == RowsOn(page, rows)
<1>1. out = [i \in 1..Len(rows) |-> out[i]] /\ Len(rows) \in Nat
  BY DEF RowsOn
<1>2. \A i \in 1..Len(rows) : out[i].page = page
  BY DEF RowsOn
<1> HIDE DEF out
<1>3. Range(out) = {out[i] : i \in 1..Len(rows)}
  BY <1>1 DEF Range
<1>4. out \in [1..Len(rows) -> Range(out)]
  BY <1>1, <1>3
<1>5. out \in Seq(Range(out))
  BY <1>1, <1>4
<1>6. rows = <<>> => Range(out) = {}
  BY <1>3
<1> QED BY <1>2, <1>3, <1>5, <1>6 DEF out

LEMMA RowsOfCall ==
    ASSUME ExtractionAssumption, NEW call, CallFormed(call)
    PROVE  /\ RowsOf(call) \in Seq(RowsRead(call))
           /\ \A row \in OfPages(call.reading) :
                 row.page \in 1..NumPages /\ call.reading[row.page].rows # <<>>
           /\ \A row \in Strays(call.reading) : row.page = 0
           /\ call.at # "read" => RowsRead(call) = {}
<1> DEFINE S == RowsRead(call)
           Rows == [name : Names, price : Prices]
           reading == call.reading
           pages == [page \in 1..NumPages |-> RowsOn(page, reading[page].rows)]
           strays == [page \in 1..NumPages |-> RowsOn(0, reading[page].stray)]
<1>1. NumPages \in Nat
  BY DEF ExtractionAssumption
<1>2. ASSUME NEW page \in 1..NumPages
      PROVE  reading[page].rows \in Seq(Rows) /\ reading[page].stray \in Seq(Rows)
  BY DEF CallFormed, PageReading
<1> HIDE DEF Rows
<1>3. ASSUME NEW page \in 1..NumPages
      PROVE  /\ RowsOn(page, reading[page].rows) \in Seq(Range(RowsOn(page, reading[page].rows)))
             /\ RowsOn(0, reading[page].stray) \in Seq(Range(RowsOn(0, reading[page].stray)))
             /\ \A row \in Range(RowsOn(page, reading[page].rows)) :
                   row.page = page /\ reading[page].rows # <<>>
             /\ \A row \in Range(RowsOn(0, reading[page].stray)) :
                   row.page = 0 /\ reading[page].stray # <<>>
  BY <1>2, RowsOnPage
<1>4. ASSUME NEW page \in 1..NumPages
      PROVE  /\ Range(RowsOn(page, reading[page].rows)) \subseteq S
             /\ Range(RowsOn(0, reading[page].stray)) \subseteq S
  BY DEF RowsRead, OfPages, Strays
<1>5. \A T, U : T \subseteq U => Seq(T) \subseteq Seq(U)
  OBVIOUS
<1>6. pages \in [1..NumPages -> Seq(S)] /\ strays \in [1..NumPages -> Seq(S)]
  <2> SUFFICES ASSUME NEW page \in 1..NumPages
               PROVE  /\ RowsOn(page, reading[page].rows) \in Seq(S)
                      /\ RowsOn(0, reading[page].stray) \in Seq(S)
    OBVIOUS
  <2> HIDE DEF S
  <2> QED BY <1>3, <1>4, <1>5
<1>7. RowsOf(call) = FlattenSeq(pages) \o FlattenSeq(strays)
  BY DEF RowsOf
<1> HIDE DEF pages, strays
<1>8. RowsOf(call) \in Seq(S)
  <2> HIDE DEF S
  <2>1. FlattenSeq(pages) \in Seq(S) /\ FlattenSeq(strays) \in Seq(S)
    BY <1>1, <1>6, Flattened
  <2> QED BY <1>7, <2>1, ConcatProperties
<1>9. \A row \in OfPages(reading) :
         row.page \in 1..NumPages /\ reading[row.page].rows # <<>>
  <2> SUFFICES ASSUME NEW page \in 1..NumPages,
                      NEW row \in Range(RowsOn(page, reading[page].rows))
               PROVE  row.page \in 1..NumPages /\ reading[row.page].rows # <<>>
    BY DEF OfPages
  <2> QED BY <1>3
<1>10. \A row \in Strays(reading) : row.page = 0
  BY <1>3 DEF Strays
<1>11. ASSUME call.at # "read" PROVE RowsRead(call) = {}
  <2>1. \A page \in 1..NumPages : reading[page].rows = <<>> /\ reading[page].stray = <<>>
    BY <1>11 DEF CallFormed, NoReading, NothingRead
  <2>2. \A page \in 1..NumPages : /\ Range(RowsOn(page, reading[page].rows)) = {}
                                  /\ Range(RowsOn(0, reading[page].stray)) = {}
    BY <1>3, <2>1
  <2>3. OfPages(reading) = {} /\ Strays(reading) = {}
    <3> HIDE DEF reading
    <3> QED BY <2>2 DEF OfPages, Strays
  <2> QED BY <2>3 DEF RowsRead
<1> QED BY <1>8, <1>9, <1>10, <1>11

LEMMA Least ==
    ASSUME NEW I \in SUBSET Nat, I # {}
    PROVE  \E i \in I : \A j \in I : i <= j
<1> SUFFICES ASSUME \A i \in I : \E j \in I : j < i PROVE FALSE
  <2>1. \A i \in I : (\E j \in I : ~ i <= j) => \E j \in I : j < i
    OBVIOUS
  <2> QED BY <2>1
<1> DEFINE P == {k \in Nat : \A i \in I : i >= k}
<1>1. 0 \in P
  OBVIOUS
<1>2. ASSUME NEW k \in Nat, k \in P PROVE k + 1 \in P
  <2>1. ASSUME NEW i \in I PROVE i >= k + 1
    <3>1. i # k
      BY <1>2
    <3> QED BY <1>2, <3>1
  <2> QED BY <2>1
<1> HIDE DEF P
<1>3. Nat \subseteq P
  BY <1>1, <1>2, SetInduction
<1>4. PICK i \in I : TRUE
  OBVIOUS
<1>5. i + 1 \in P
  BY <1>3
<1> QED BY <1>5 DEF P

(* With one or two readers, the rows of each are one side of the pairing.  *)
OneOrTwo == \E r, s \in ReaderNames : providers = {r, s}

LEMMA Sides ==
    ASSUME ExtractionAssumption, OneOrTwo, NEW rows
    PROVE  /\ First \in providers /\ Left(rows) = rows[First]
           /\ Right(rows) = <<>> \/ \E r \in providers : Right(rows) = rows[r]
           /\ \A r \in providers : rows[r] = Left(rows) \/ rows[r] = Right(rows)
<1>1. PICK r \in ReaderNames, s \in ReaderNames : providers = {r, s}
  BY DEF OneOrTwo
<1>2. First \in providers
  <2> DEFINE I == {i \in DOMAIN Readers : Readers[i] \in providers}
             IsFirst(i) == /\ Readers[i] \in providers
                           /\ \A j \in DOMAIN Readers : Readers[j] \in providers => i <= j
  <2>1. I # {}
    BY <1>1 DEF ReaderNames
  <2>2. I \in SUBSET Nat
    BY DEF ExtractionAssumption
  <2> HIDE DEF I
  <2>3. PICK i \in I : \A j \in I : i <= j
    BY <2>1, <2>2, Least
  <2>4. i \in DOMAIN Readers /\ IsFirst(i)
    BY <2>3 DEF I
  <2>5. First = Readers[CHOOSE k \in DOMAIN Readers : IsFirst(k)]
    BY DEF First
  <2>6. IsFirst(CHOOSE k \in DOMAIN Readers : IsFirst(k))
    <3> HIDE DEF IsFirst
    <3> QED BY <2>4
  <2> QED BY <2>5, <2>6
<1> DEFINE other == CHOOSE q \in Others : TRUE
<1>3. Others # {} => other \in providers
  BY DEF Others
<1>4. Others = {} => Right(rows) = <<>>
  BY DEF Right
<1>5. Others # {} => Right(rows) = rows[other]
  BY DEF Right
<1>6. \A q \in Others : other = q
  BY <1>1, <1>2 DEF Others
<1> HIDE DEF other
<1>7. \A q \in providers : q = First \/ q \in Others
  BY DEF Others
<1> QED BY <1>2, <1>3, <1>4, <1>5, <1>6, <1>7 DEF Left

LEMMA SidesAreRows ==
    ASSUME ExtractionAssumption, OneOrTwo, NEW rows, NEW S,
           \A r \in providers : rows[r] \in Seq(S)
    PROVE  Left(rows) \in Seq(S) /\ Right(rows) \in Seq(S)
<1>1. /\ First \in providers /\ Left(rows) = rows[First]
      /\ Right(rows) = <<>> \/ \E r \in providers : Right(rows) = rows[r]
  BY Sides
<1>2. <<>> \in Seq(S)
  OBVIOUS
<1> QED BY <1>1, <1>2

LEMMA BothAccounted ==
    ASSUME ExtractionAssumption, OneOrTwo, NEW rows, NEW S,
           \A r \in providers : rows[r] \in Seq(S),
           NEW r \in providers, NEW i \in DOMAIN rows[r]
    PROVE  \/ \E pair \in Unresolved(Left(rows), Right(rows)) : rows[r][i] \in pair
           \/ \E item \in Reconciled(Left(rows), Right(rows)) : Says(item, rows[r][i])
<1>1. Left(rows) \in Seq(S) /\ Right(rows) \in Seq(S)
  BY SidesAreRows
<1>2. rows[r] = Left(rows) \/ rows[r] = Right(rows)
  BY Sides
<1>3. CASE rows[r] = Left(rows)
  <2>1. i \in DOMAIN Left(rows) /\ rows[r][i] = Left(rows)[i]
    BY <1>3
  <2> QED BY <1>1, <2>1, RowsAccounted
<1>4. CASE rows[r] = Right(rows)
  <2>1. i \in DOMAIN Right(rows) /\ rows[r][i] = Right(rows)[i]
    BY <1>4
  <2> QED BY <1>1, <2>1, RowsAccounted
<1> QED BY <1>2, <1>3, <1>4

-----------------------------------------------------------------------------
(* Every call that is submitted stays well formed.                         *)
CallsInv ==
    /\ OneOrTwo
    /\ phase = "retry" => paged
    /\ \A ph \in Phases : \A k \in DOMAIN reads[ph] : \A r \in providers :
          CallFormed(reads[ph][k][r])

LEMMA CallFormedWhenMade ==
    ASSUME NEW step \in CallSteps, NEW reading \in [1..NumPages -> PageReading],
           step # "read" => reading = NoReading
    PROVE  CallFormed(Call(step, reading))
BY DEF CallFormed, Call

LEMMA NothingIsReading ==
    NothingRead \in PageReading /\ NoReading \in [1..NumPages -> PageReading]
<1>1. NothingRead \in PageReading
  BY DEF NothingRead, PageReading
<1> QED BY <1>1 DEF NoReading

LEMMA OneCallWritten ==
    ASSUME Shape, Working, NEW k \in DOMAIN Calls, NEW r \in providers,
           NEW step, NEW reading, Becomes(k, r, step, reading),
           NEW ph \in Phases, NEW j \in DOMAIN reads'[ph], NEW q \in providers
    PROVE  /\ j \in DOMAIN reads[ph]
           /\ reads'[ph][j][q] \in {reads[ph][j][q], Call(step, reading)}
<1>1. /\ phase \in Phases /\ k \in DOMAIN reads[phase]
      /\ reads' = [reads EXCEPT ![phase][k][r] = Call(step, reading)]
  BY DEF Becomes, Working, Phases, Calls
<1>2. \A p \in Phases \ {phase} : reads'[p] = reads[p]
  BY <1>1 DEF Shape
<1>3. reads'[phase] = [reads[phase] EXCEPT ![k][r] = Call(step, reading)]
  BY <1>1 DEF Shape
<1>4. /\ \A i \in DOMAIN reads[phase] \ {k} : reads'[phase][i] = reads[phase][i]
      /\ reads'[phase][k] = [reads[phase][k] EXCEPT ![r] = Call(step, reading)]
      /\ DOMAIN reads'[phase] = DOMAIN reads[phase]
  BY <1>1, <1>3
<1>5. \A p \in providers : reads'[phase][k][p] \in {reads[phase][k][p], Call(step, reading)}
  BY <1>1, <1>4 DEF Shape
<1> QED BY <1>2, <1>4, <1>5

LEMMA CallsStep ==
    ASSUME BoundInv, CallsInv, [Next]_vars PROVE CallsInv'
<1>1. OneOrTwo'
  BY Steps DEF CallsInv, OneOrTwo
<1>2. providers' = providers
  BY Steps
<1>21. (phase = "retry" => paged)'
  <2>1. CASE phase' = phase
    BY <2>1, Steps DEF CallsInv
  <2>2. CASE phase' # phase
    <3>1. EndInitial \/ EndRetry \/ EndUnpaged
      BY <2>2 DEF Next, Submit, StartRead, SkipRead, ReadReturns, ReadFails, ReadBreaks, Disable,
                  Becomes, Terminated, vars
    <3> QED BY <3>1 DEF EndInitial, EndRetry, EndUnpaged
  <2> QED BY <2>1, <2>2
<1> SUFFICES ASSUME NEW ph \in Phases, NEW j \in DOMAIN reads'[ph], NEW q \in providers
             PROVE  CallFormed(reads'[ph][j][q])
  BY <1>1, <1>2, <1>21 DEF CallsInv, CallFormed
<1>3. j \in DOMAIN reads[ph] => CallFormed(reads[ph][j][q])
  BY DEF CallsInv
<1>4. CASE Submit
  <2> DEFINE new == [r \in providers |-> Waiting]
  <2>1. /\ phase \in Phases /\ reads' = [reads EXCEPT ![phase] = Append(@, new)]
    BY <1>4 DEF Submit, Working, Phases
  <2>2. CASE ph # phase
    <3>1. reads'[ph] = reads[ph]
      BY <2>1, <2>2 DEF BoundInv, Shape
    <3> QED BY <1>3, <3>1
  <2>3. CASE ph = phase
    <3>1. PICK S : reads[ph] \in Seq(S)
      BY DEF BoundInv, Shape
    <3>2. reads'[ph] = Append(reads[ph], new)
      BY <2>1, <2>3 DEF BoundInv, Shape
    <3> HIDE DEF new
    <3>3. \/ j \in DOMAIN reads[ph] /\ reads'[ph][j] = reads[ph][j]
          \/ reads'[ph][j] = new
      <4>1. reads[ph] \in Seq(S \cup {new})
        BY <3>1
      <4> QED BY <3>2, <4>1, AppendProperties
    <3>4. new[q] = Call("waiting", NoReading)
      BY DEF new, Waiting
    <3>5. CallFormed(Call("waiting", NoReading))
      BY CallFormedWhenMade, NothingIsReading DEF CallSteps
    <3> QED BY <1>3, <3>3, <3>4, <3>5
  <2> QED BY <2>2, <2>3
<1>5. ASSUME Working, NEW k \in DOMAIN Calls, NEW r \in providers,
             \/ StartRead(k, r) \/ SkipRead(k, r)
             \/ ReadReturns(k, r) \/ ReadFails(k, r) \/ ReadBreaks(k, r)
             \/ Disable(k, r)
      PROVE  CallFormed(reads'[ph][j][q])
  <2>1. ASSUME NEW step \in CallSteps, NEW reading \in [1..NumPages -> PageReading],
               step # "read" => reading = NoReading, Becomes(k, r, step, reading)
        PROVE  CallFormed(reads'[ph][j][q])
    <3>1. /\ j \in DOMAIN reads[ph]
          /\ reads'[ph][j][q] \in {reads[ph][j][q], Call(step, reading)}
      BY <1>5, <2>1, OneCallWritten DEF BoundInv
    <3>2. CallFormed(Call(step, reading))
      BY <2>1, CallFormedWhenMade
    <3> QED BY <1>3, <3>1, <3>2
  <2>2. CASE ReadReturns(k, r)
    <3>1. PICK reading \in Readings(Chunks[k]) : Becomes(k, r, "read", reading)
      BY <2>2 DEF ReadReturns
    <3>2. reading \in [1..NumPages -> PageReading]
      <4> DEFINE Read(page) == IF page \in Chunks[k] THEN PageReadings[page] ELSE {NothingRead}
      <4>1. \A page \in 1..NumPages : Read(page) \subseteq PageReading
        BY ExtractionAssumption, NothingIsReading DEF ExtractionAssumption
      <4>2. /\ reading \in [1..NumPages -> UNION {Read(page) : page \in 1..NumPages}]
            /\ \A page \in 1..NumPages : reading[page] \in Read(page)
        BY <3>1 DEF Readings
      <4> HIDE DEF Read
      <4> QED BY <4>1, <4>2
    <3> QED BY <2>1, <3>1, <3>2 DEF CallSteps, Ended
  <2>3. CASE ~ReadReturns(k, r)
    <3>1. PICK step \in CallSteps \ {"read"} : Becomes(k, r, step, NoReading)
      BY <1>5, <2>3 DEF StartRead, SkipRead, ReadFails, ReadBreaks, Disable, CallSteps, Ended
    <3> QED BY <2>1, <3>1, NothingIsReading
  <2> QED BY <2>2, <2>3
<1>6. CASE EndInitial \/ EndRetry \/ EndUnpaged \/ Terminated \/ UNCHANGED vars
  <2>1. reads' = reads
    BY <1>6 DEF EndInitial, EndRetry, EndUnpaged, Terminated, vars
  <2> QED BY <1>3, <2>1
<1> QED BY <1>4, <1>5, <1>6 DEF Next

(* All rows that any call brought, and the ends of the two phases: every   *)
(* reading, first, latest or of one chunk, is a sequence of such rows.     *)
RowsSeen ==
    UNION {UNION {UNION {Range(RowsOf(reads[ph][k][r])) : r \in providers} :
                     k \in DOMAIN reads[ph]} : ph \in Phases}

LEMMA SeqsGrow ==
    ASSUME NEW T, NEW U, T \subseteq U
    PROVE  Seq(T) \subseteq Seq(U)
OBVIOUS

LEMMA CallIsSeen ==
    ASSUME CallsInv, NEW ph \in Phases, NEW k \in DOMAIN reads[ph], NEW r \in providers
    PROVE  /\ RowsOf(reads[ph][k][r]) \in Seq(RowsSeen)
           /\ Range(RowsOf(reads[ph][k][r])) \subseteq RowsRead(reads[ph][k][r])
<1> DEFINE rows == RowsOf(reads[ph][k][r])
<1>1. rows \in Seq(RowsRead(reads[ph][k][r]))
  BY RowsOfCall, ExtractionAssumption DEF CallsInv
<1>2. Range(rows) \subseteq RowsSeen
  BY DEF RowsSeen
<1> HIDE DEF rows
<1>3. rows \in Seq(Range(rows)) /\ Range(rows) \subseteq RowsRead(reads[ph][k][r])
  BY <1>1 DEF Range
<1>4. rows \in Seq(RowsSeen)
  BY <1>2, <1>3, SeqsGrow
<1> QED BY <1>3, <1>4 DEF rows

LEMMA ReadsAreSequences ==
    ASSUME Shape, NEW ph \in Phases
    PROVE  \E n \in Nat : DOMAIN reads[ph] = 1..n /\ Len(reads[ph]) = n
<1>1. PICK S : reads[ph] \in Seq(S)
  BY DEF Shape
<1> QED BY <1>1, LenProperties

LEMMA ChunkIsSeen ==
    ASSUME CallsInv, NEW ph \in Phases, NEW k \in DOMAIN reads[ph], NEW r \in providers
    PROVE  ChunkRows(reads[ph][k])[r] \in Seq(RowsSeen)
BY CallIsSeen DEF ChunkRows

LEMMA InitialIsSeen ==
    ASSUME Shape, CallsInv, NEW r \in providers
    PROVE  InitialRows[r] \in Seq(RowsSeen)
<1>1. PICK n \in Nat : DOMAIN reads["initial"] = 1..n
  BY ReadsAreSequences DEF Phases
<1> DEFINE seqs == [k \in DOMAIN reads["initial"] |-> RowsOf(reads["initial"][k][r])]
<1>2. seqs \in [1..n -> Seq(RowsSeen)]
  BY <1>1, CallIsSeen DEF Phases
<1>3. InitialRows[r] = FlattenSeq(seqs)
  BY DEF InitialRows
<1> HIDE DEF seqs
<1> QED BY <1>2, <1>3, Flattened

LEMMA LatestIsSeen ==
    ASSUME Shape, CallsInv, NEW r \in providers
    PROVE  LatestRows[r] \in Seq(RowsSeen)
<1> DEFINE retry == reads["retry"]
           n == Len(retry)
           start == InitialRows[r]
           D == SUBSET (1..n)
           A == Seq(RowsSeen)
           step == [p \in A \X (1..n) |-> Reread(p[1], RowsOf(retry[p[2]][r]))]
           Body(f) == [s \in D |-> IF s = {} THEN start
                                   ELSE Reread(f[s \ {Max(s)}], RowsOf(retry[Max(s)][r]))]
           iter == CHOOSE f : f = Body(f)
<1>1. n \in Nat /\ DOMAIN retry = 1..n /\ start \in A
  BY ReadsAreSequences, InitialIsSeen DEF Phases
<1>2. \A i \in 1..n : RowsOf(retry[i][r]) \in Seq(RowsSeen)
  BY <1>1, CallIsSeen DEF Phases
<1>3. step \in [A \X (1..n) -> A]
  <2> SUFFICES ASSUME NEW x \in A, NEW i \in 1..n PROVE Reread(x, RowsOf(retry[i][r])) \in A
    OBVIOUS
  <2> QED BY <1>2, RereadStays
<1>4. PICK f \in [D -> A] : \A s \in D :
          f[s] = IF s = {} THEN start ELSE step[<<f[s \ {Max(s)}], Max(s)>>]
  <2>1. \E f \in [SUBSET (1..n) -> A] : Folded(n, start, step, f)
    <3> HIDE DEF n, A, step, start
    <3> QED BY <1>1, <1>3, FoldSolved
  <2> QED BY <2>1 DEF Folded
<1>5. \A s \in D : s # {} => s \ {Max(s)} \in D /\ Max(s) \in 1..n
  BY <1>1, MaxOf
<1> HIDE DEF A, n, start
<1>6. f = Body(f)
  <2>1. ASSUME NEW s \in D, s # {}
        PROVE  f[s] = Reread(f[s \ {Max(s)}], RowsOf(retry[Max(s)][r]))
    BY <1>4, <1>5, <2>1
  <2> QED BY <1>4, <2>1
<1>7. iter = Body(iter)
  <2> HIDE DEF Body
  <2> QED BY <1>6
<1>8. LatestRows[r] = iter[1..n]
  <2>1. LatestRows[r] = FoldLeft(LAMBDA rows, calls : Reread(rows, RowsOf(calls[r])),
                                 start, retry)
    BY DEF LatestRows, start
  <2>2. LatestRows[r] = iter[DOMAIN retry]
    BY <1>1, <2>1, Zenon DEF FoldLeft, MapThenFoldSet
  <2> QED BY <1>1, <2>2
<1> HIDE DEF iter
<1> DEFINE P == {k \in Nat : k <= n => iter[1..k] \in A}
<1>9. 0 \in P
  <2>1. 1..0 = {} /\ {} \in D
    OBVIOUS
  <2> QED BY <1>1, <1>7, <2>1
<1>10. ASSUME NEW k \in Nat, k \in P PROVE k + 1 \in P
  <2> SUFFICES ASSUME k + 1 <= n PROVE iter[1 .. (k + 1)] \in A
    OBVIOUS
  <2> DEFINE s == 1 .. (k + 1)
             x == iter[1..k]
             incoming == RowsOf(retry[k + 1][r])
  <2>1. k <= n /\ s \in D /\ k + 1 \in s /\ k + 1 \in 1..n
    BY <1>1
  <2>2. Max(s) = k + 1 /\ s \ {k + 1} = 1..k
    BY MaxOfPrefix
  <2> HIDE DEF s
  <2>3. iter[s] = Reread(x, incoming)
    BY <1>7, <2>1, <2>2
  <2>4. x \in Seq(RowsSeen) /\ incoming \in Seq(RowsSeen)
    BY <1>2, <1>10, <2>1 DEF A
  <2> HIDE DEF x, incoming
  <2>5. Reread(x, incoming) \in Seq(RowsSeen)
    BY <2>4, RereadStays
  <2> QED BY <2>3, <2>5 DEF s, A
<1>11. n \in P
  <2> HIDE DEF P
  <2> QED BY <1>1, <1>9, <1>10, SetInduction
<1> QED BY <1>1, <1>8, <1>11 DEF A

-----------------------------------------------------------------------------
(* No row of the latest readings is lost on the way to items and ledger.   *)
LEMMA FinalStay ==
    ASSUME UNCHANGED <<paged, providers, reads>> PROVE FinalRows' = FinalRows
<1>1. InitialRows' = InitialRows
  BY DEF InitialRows
<1>2. LatestRows' = LatestRows
  BY <1>1 DEF LatestRows, FoldLeft, MapThenFoldSet
<1> QED BY <1>2 DEF FinalRows, ChunkRows

LEMMA InDuplicates ==
    ASSUME NEW S, NEW item, NEW other \in S, Says(other, item)
    PROVE  Duplicates(S, item) # {}
BY DuplicateIff

LEMMA UnpagedIsRead ==
    ASSUME Shape, CallsInv, EndUnpaged PROVE 1 \in DOMAIN reads["initial"]
<1>1. ~paged /\ phase = "initial" /\ Len(Calls) = Len(Chunks)
  BY DEF EndUnpaged, PhaseDone, Working, CallsInv
<1>2. Len(reads["initial"]) = 1
  BY <1>1 DEF Calls, Chunks
<1>3. PICK n \in Nat : DOMAIN reads["initial"] = 1..n /\ Len(reads["initial"]) = n
  BY ReadsAreSequences DEF Phases
<1> QED BY <1>2, <1>3

LEMMA EvidenceStep ==
    ASSUME BoundInv, CallsInv, EvidenceAccounted, [Next]_vars
    PROVE  EvidenceAccounted'
<1> DEFINE Accounted(rows, ledger, kept) ==
        \A r \in providers : \A i \in DOMAIN rows[r] :
            \/ \E pair \in ledger : rows[r][i] \in pair
            \/ Duplicates(kept, rows[r][i]) # {}
<1>1. EvidenceAccounted <=> (phase = "completed" => Accounted(FinalRows, unresolved, items))
  BY DEF EvidenceAccounted
<1>2. ASSUME UNCHANGED providers,
             phase' = "completed" => Accounted(FinalRows', unresolved', items')
      PROVE  EvidenceAccounted'
  BY <1>2 DEF EvidenceAccounted, Duplicates
<1>3. providers' = providers
  BY Steps
<1>4. CASE EndRetry
  <2> DEFINE L == Left(LatestRows)
             R == Right(LatestRows)
             ledger == Unresolved(L, R)
  <2>1. /\ unresolved' = ledger
        /\ items' = WithDisputes(Supplement(Reconciled(L, R), InitialItems), ledger)
        /\ UNCHANGED <<paged, providers, reads>>
        /\ phase = "retry"
    BY <1>4 DEF EndRetry
  <2>2. FinalRows' = FinalRows
    BY <2>1, FinalStay
  <2>3. FinalRows = LatestRows
    BY <2>1 DEF FinalRows, CallsInv
  <2>4. \A r \in providers : LatestRows[r] \in Seq(RowsSeen)
    BY LatestIsSeen DEF BoundInv
  <2>5. ASSUME NEW r \in providers, NEW i \in DOMAIN LatestRows[r]
        PROVE  \/ \E pair \in unresolved' : LatestRows[r][i] \in pair
               \/ Duplicates(items', LatestRows[r][i]) # {}
    <3> DEFINE row == LatestRows[r][i]
    <3>1. \/ \E pair \in ledger : row \in pair
          \/ \E item \in Reconciled(L, R) : Says(item, row)
      BY <2>4, <2>5, BothAccounted, ExtractionAssumption DEF CallsInv
    <3> HIDE DEF row, L, R, ledger
    <3>2. CASE \E item \in Reconciled(L, R) : Says(item, row)
      <4>1. \E item \in Reconciled(L, R) \cup InitialItems : Says(item, row)
        BY <3>2
      <4>2. Duplicates(items', row) # {}
        BY <2>1, <4>1, UnionKeeps
      <4> QED BY <4>2 DEF row
    <3> QED BY <2>1, <3>1, <3>2 DEF row
  <2> QED BY <1>2, <1>3, <2>2, <2>3, <2>5
<1>5. CASE EndUnpaged
  <2> DEFINE rows == ChunkRows(reads.initial[1])
             L == Left(rows)
             R == Right(rows)
  <2>1. /\ unresolved' = Unresolved(L, R) /\ items' = Reconciled(L, R)
        /\ UNCHANGED <<paged, providers, reads>>
        /\ ~paged
    BY <1>5 DEF EndUnpaged
  <2>2. 1 \in DOMAIN reads["initial"]
    BY <1>5, UnpagedIsRead DEF BoundInv
  <2>3. FinalRows' = FinalRows /\ FinalRows = rows
    BY <2>1, FinalStay DEF FinalRows
  <2>4. \A r \in providers : rows[r] \in Seq(RowsSeen)
    BY <2>2, ChunkIsSeen DEF Phases
  <2>5. ASSUME NEW r \in providers, NEW i \in DOMAIN rows[r]
        PROVE  \/ \E pair \in unresolved' : rows[r][i] \in pair
               \/ Duplicates(items', rows[r][i]) # {}
    <3> DEFINE row == rows[r][i]
    <3> HIDE DEF rows
    <3>1. \/ \E pair \in Unresolved(L, R) : row \in pair
          \/ \E item \in Reconciled(L, R) : Says(item, row)
      BY <2>4, <2>5, BothAccounted, ExtractionAssumption DEF CallsInv
    <3> HIDE DEF row, L, R
    <3>2. CASE \E item \in Reconciled(L, R) : Says(item, row)
      <4>1. Duplicates(items', row) # {}
        BY <2>1, <3>2, InDuplicates
      <4> QED BY <4>1 DEF row
    <3> QED BY <2>1, <3>1, <3>2 DEF row
  <2> QED BY <1>2, <1>3, <2>3, <2>5
<1>6. CASE UNCHANGED vars
  <2>1. UNCHANGED <<paged, providers, reads, phase, items, unresolved>>
    BY <1>6 DEF vars, results
  <2>2. FinalRows' = FinalRows
    BY <2>1, FinalStay
  <2> QED BY <1>1, <1>2, <2>1, <2>2
<1>7. CASE phase' # "completed"
  BY <1>2, <1>3, <1>7
<1> QED BY <1>4, <1>5, <1>6, <1>7, Steps

LEMMA CallsInitially == ASSUME Init PROVE CallsInv
<1>1. /\ phase = "initial" /\ reads = [initial |-> <<>>, retry |-> <<>>] /\ OneOrTwo
  BY DEF Init, OneOrTwo
<1>2. \A ph \in Phases : reads[ph] = <<>>
  BY <1>1 DEF Phases
<1> QED BY <1>1, <1>2 DEF CallsInv

(* Every row of the latest readings is in an item or in the ledger.        *)
THEOREM EvidenceKept == Spec => []EvidenceAccounted
<1> DEFINE Inv == BoundInv /\ CallsInv /\ EvidenceAccounted
<1>1. Init => Inv
  BY BoundInitially, CallsInitially DEF Init, EvidenceAccounted
<1>2. Inv /\ [Next]_vars => Inv'
  BY BoundStep, CallsStep, EvidenceStep
<1> QED BY <1>1, <1>2, PTL DEF Spec

-----------------------------------------------------------------------------
(* What is reported lies in the document.                                  *)
LEMMA RowsHavePages ==
    ASSUME CallsInv PROVE \A row \in RowsSeen : row.page \in 0..NumPages
<1> SUFFICES ASSUME NEW ph \in Phases, NEW k \in DOMAIN reads[ph], NEW r \in providers,
                    NEW row \in Range(RowsOf(reads[ph][k][r]))
             PROVE  row.page \in 0..NumPages
  BY DEF RowsSeen
<1>1. row \in RowsRead(reads[ph][k][r])
  BY CallIsSeen
<1>2. row.page \in 1..NumPages \/ row.page = 0
  BY <1>1, RowsOfCall, ExtractionAssumption DEF CallsInv, RowsRead
<1> QED BY <1>2, ExtractionAssumption DEF ExtractionAssumption

LEMMA ItemsHavePages ==
    ASSUME CallsInv, NEW rows, \A r \in providers : rows[r] \in Seq(RowsSeen)
    PROVE  /\ \A item \in Reconciled(Left(rows), Right(rows)) : item.page \in 0..NumPages
           /\ \A pair \in Unresolved(Left(rows), Right(rows)) : \A row \in pair :
                 row \in RowsSeen /\ row.page \in 1..NumPages
<1>1. Left(rows) \in Seq(RowsSeen) /\ Right(rows) \in Seq(RowsSeen)
  BY SidesAreRows, ExtractionAssumption DEF CallsInv
<1>2. /\ \A item \in Reconciled(Left(rows), Right(rows)) : \E row \in RowsSeen : item.page = row.page
      /\ \A pair \in Unresolved(Left(rows), Right(rows)) : \A row \in pair :
            row \in RowsSeen /\ row.page # 0
  BY <1>1, ItemsAreRows
<1> QED BY <1>2, RowsHavePages, ExtractionAssumption DEF ExtractionAssumption

LEMMA UnionHasPages ==
    ASSUME NEW S, NEW T, NEW ledger, NEW P,
           \A item \in S \cup T : item.page \in P
    PROVE  \A item \in WithDisputes(Supplement(S, T), ledger) : item.page \in P
<1>1. \A item \in Supplement(S, T) : item.page \in P
  BY DEF Supplement
<1> QED BY <1>1 DEF WithDisputes, Item

LEMMA InitialItemsHavePages ==
    ASSUME CallsInv PROVE \A item \in InitialItems : item.page \in 0..NumPages
<1> SUFFICES ASSUME NEW k \in DOMAIN reads["initial"],
                    NEW item \in Reconciled(Left(ChunkRows(reads["initial"][k])),
                                            Right(ChunkRows(reads["initial"][k])))
             PROVE  item.page \in 0..NumPages
  BY DEF InitialItems
<1>1. \A r \in providers : ChunkRows(reads["initial"][k])[r] \in Seq(RowsSeen)
  BY ChunkIsSeen DEF Phases
<1> QED BY <1>1, ItemsHavePages

TypeInv ==
    /\ paged \in BOOLEAN
    /\ disabled \subseteq providers
    /\ needsReview \subseteq 1..NumPages
    /\ \A item \in items : item.page \in 0..NumPages

LEMMA TypeStep ==
    ASSUME BoundInv, CallsInv, TypeInv, [Next]_vars PROVE TypeInv'
<1> USE DEF TypeInv
<1>1. CASE Submit
  BY <1>1 DEF Submit, results
<1>2. ASSUME Working, NEW k \in DOMAIN Calls, NEW r \in providers,
             \/ StartRead(k, r) \/ SkipRead(k, r)
             \/ ReadReturns(k, r) \/ ReadFails(k, r) \/ ReadBreaks(k, r)
             \/ Disable(k, r)
      PROVE  TypeInv'
  BY <1>2 DEF StartRead, SkipRead, ReadReturns, ReadFails, ReadBreaks, Disable, Becomes, results
<1>3. CASE EndInitial
  BY <1>3 DEF EndInitial, Unverified
<1>4. CASE EndRetry
  <2> DEFINE L == Left(LatestRows)
             R == Right(LatestRows)
             ledger == Unresolved(L, R)
             union == Supplement(Reconciled(L, R), InitialItems)
  <2>1. /\ items' = WithDisputes(union, ledger)
        /\ UNCHANGED <<paged, providers, disabled>>
        /\ needsReview' = needsReview \cup StillSuspicious \cup {row.page : row \in UNION ledger}
              \cup IF \E item \in union : item.page = 0
                   THEN {page \in Retried : "invalid_page_numbers" \in reasons[page]}
                   ELSE {}
    BY <1>4 DEF EndRetry
  <2>2. \A r \in providers : LatestRows[r] \in Seq(RowsSeen)
    BY LatestIsSeen DEF BoundInv
  <2>3. /\ \A item \in Reconciled(L, R) : item.page \in 0..NumPages
        /\ \A pair \in ledger : \A row \in pair : row.page \in 1..NumPages
    BY <2>2, ItemsHavePages
  <2>4. StillSuspicious \subseteq 1..NumPages /\ Retried \subseteq 1..NumPages
    BY DEF StillSuspicious, Retried
  <2> HIDE DEF L, R, ledger
  <2>5. \A item \in items' : item.page \in 0..NumPages
    <3>1. \A item \in Reconciled(L, R) \cup InitialItems : item.page \in 0..NumPages
      BY <2>3, InitialItemsHavePages
    <3> QED BY <2>1, <3>1, UnionHasPages
  <2>6. needsReview' \subseteq 1..NumPages
    <3> HIDE DEF union
    <3> QED BY <2>1, <2>3, <2>4
  <2> QED BY <2>1, <2>5, <2>6
<1>5. CASE EndUnpaged
  <2> DEFINE rows == ChunkRows(reads.initial[1])
  <2>1. /\ items' = Reconciled(Left(rows), Right(rows))
        /\ UNCHANGED <<paged, providers, disabled, needsReview>>
    BY <1>5 DEF EndUnpaged
  <2>2. \A r \in providers : rows[r] \in Seq(RowsSeen)
    BY <1>5, UnpagedIsRead, ChunkIsSeen DEF Phases, BoundInv
  <2> HIDE DEF rows
  <2>3. \A item \in items' : item.page \in 0..NumPages
    BY <2>1, <2>2, ItemsHavePages
  <2> QED BY <2>1, <2>3
<1>6. CASE Terminated \/ UNCHANGED vars
  BY <1>6 DEF Terminated, vars, results
<1> QED BY <1>1, <1>2, <1>3, <1>4, <1>5, <1>6 DEF Next

(* The readers, the steps of their calls, the pages a person is asked      *)
(* about and those of the items are what the code's types say.             *)
THEOREM TypeCorrect == Spec => []TypeOK
<1> DEFINE Inv == BoundInv /\ CallsInv /\ TypeInv
<1>1. Init => Inv
  BY BoundInitially, CallsInitially DEF Init, TypeInv
<1>2. Inv /\ [Next]_vars => Inv'
  BY BoundStep, CallsStep, TypeStep
<1>3. Inv => TypeOK
  <2> SUFFICES ASSUME Inv PROVE TypeOK
    OBVIOUS
  <2>1. providers \subseteq ReaderNames
    BY DEF CallsInv, OneOrTwo
  <2>2. phase \in {"initial", "retry", "completed", "unavailable"}
    BY DEF BoundInv, Shape, Phases
  <2>3. ASSUME NEW ph \in {"initial", "retry"}, NEW k \in DOMAIN reads[ph]
        PROVE  /\ DOMAIN reads[ph][k] = providers
               /\ \A r \in providers :
                     reads[ph][k][r].at \in Ended \cup {"waiting", "reading", "raised"}
    BY <2>3 DEF BoundInv, Shape, CallsInv, CallFormed, CallSteps, Phases
  <2> QED BY <2>1, <2>2, <2>3 DEF TypeOK, TypeInv
<1> QED BY <1>1, <1>2, <1>3, PTL DEF Spec

-----------------------------------------------------------------------------
(* Arithmetic of the chunks.                                               *)
LEMMA Times ==
    ASSUME NEW C \in Nat \ {0}, NEW a \in Int, NEW b \in Int
    PROVE  a * C \in Int /\ (a <= b <=> a * C <= b * C) /\ (a - 1) * C = a * C - C
<1>1. a * C \in Int /\ b * C \in Int
  OBVIOUS
<1>2. (a - 1) * C = a * C - C
  OBVIOUS
<1>3. a <= b => a * C <= b * C
  OBVIOUS
<1>4. b < a => b * C < a * C
  OBVIOUS
<1> QED BY <1>1, <1>2, <1>3, <1>4

LEMMA Quotient ==
    ASSUME NEW C \in Nat \ {0}, NEW a \in Nat, NEW k \in Int
    PROVE  a \div C \in Nat /\ (k <= a \div C <=> k * C <= a)
<1> DEFINE q == a \div C
<1>1. q \in Nat 
  OBVIOUS
<1>2. q * C <= a /\ a < (q + 1) * C
  OBVIOUS
<1> HIDE DEF q
<1>3. k <= q => k * C <= q * C
  BY <1>1, Times
<1>4. k > q => (q+1) * C <= k * C
  BY <1>1, Times
<1>5. k * C \in Int /\ q * C \in Int /\ (q+1)*C \in Int
  BY <1>1
<1> QED BY <1>1, <1>2, <1>3, <1>4, <1>5 DEF q

(* Each page is in one chunk, and no chunk is empty.                       *)
LEMMA ChunkOfPage ==
    /\ \A k \in DOMAIN Ranges : Ranges[k] # {} /\ Ranges[k] \subseteq 1..NumPages
    /\ \A page \in 1..NumPages : \E k \in DOMAIN Ranges : page \in Ranges[k]
    /\ \A j, k \in DOMAIN Ranges : Ranges[j] \cap Ranges[k] # {} => j = k
<1> DEFINE C == ChunkSize
           N == NumPages
           last == (N + C - 1) \div C
<1>1. C \in Nat \ {0} /\ N \in Nat \ {0} /\ N + C - 1 \in Nat
  BY ExtractionAssumption DEF ExtractionAssumption
<1>2. DOMAIN Ranges = 1..last /\ \A k \in 1..last : \A page :
         page \in Ranges[k] <=> page \in Int /\ (k - 1) * C < page /\ page <= k * C /\ page <= N
  <2>1. Ranges = [k \in 1..last |-> ((k - 1) * C + 1) .. Smaller(k * C, N)]
    BY DEF Ranges
  <2> HIDE DEF C, N, last
  <2>2. \A k \in 1..last : (k - 1) * C \in Int /\ k * C \in Int
    BY <1>1, Times
  <2>3. ASSUME NEW k \in 1..last, NEW page
        PROVE  page \in Ranges[k] <=> page \in Int /\ (k - 1) * C < page /\ page <= k * C /\ page <= N
    <3>1. Ranges[k] = ((k - 1) * C + 1) .. Smaller(k * C, N)
      BY <2>1
    <3> DEFINE x == (k - 1) * C
               y == k * C
    <3>2. x \in Int /\ y \in Int
      BY <2>2
    <3> HIDE DEF x, y
    <3>3. page \in (x + 1) .. Smaller(y, N) <=> page \in Int /\ x < page /\ page <= y /\ page <= N
      BY <1>1, <3>2 DEF Smaller
    <3> QED BY <3>1, <3>3 DEF x, y
  <2> QED BY <2>1, <2>3
<1>3. last \in Nat /\ \A k \in Int : k <= last <=> k * C <= N + C - 1
  <2> HIDE DEF C, N
  <2> QED BY <1>1, Quotient
<1> HIDE DEF C, N, last
<1>4. \A k \in Int : /\ (k - 1) * C = k * C - C /\ k * C \in Int
                     /\ \A j \in Int : k <= j <=> k * C <= j * C
  BY <1>1, Times
<1>5. ASSUME NEW k \in 1..last PROVE Ranges[k] # {} /\ Ranges[k] \subseteq 1..N
  <2>1. k \in Int /\ 0 <= k - 1 /\ k <= last
    BY <1>3
  <2>2. /\ k * C <= N + C - 1 /\ (k - 1) * C = k * C - C
        /\ k * C \in Int /\ (k - 1) * C \in Int
    <3>1. k - 1 \in Int
      BY <2>1
    <3> QED BY <1>3, <1>4, <2>1, <3>1
  <2>3. (k - 1) * C >= 0
    BY <1>1, <2>1
  <2> DEFINE x == (k - 1) * C
             y == k * C
  <2>4. x + 1 \in Ranges[k]
    <3> HIDE DEF x, y
    <3>1. x \in Int /\ y \in Int /\ x = y - C /\ y <= N + C - 1
      BY <2>2, Zenon DEF x, y
    <3>2. x + 1 \in Int /\ x < x + 1 /\ x + 1 <= y /\ x + 1 <= N
      BY <1>1, <3>1
    <3> QED BY <1>2, <3>2 DEF x, y
  <2>5. \A page \in Ranges[k] : page \in 1..N
    <3> HIDE DEF x, y
    <3>1. x \in Int /\ 0 <= x
      BY <2>2, <2>3 DEF x
    <3>2. \A page \in Ranges[k] : page \in Int /\ x < page /\ page <= N
      BY <1>2 DEF x
    <3> QED BY <1>1, <3>1, <3>2
  <2> QED BY <2>4, <2>5
<1>6. ASSUME NEW page \in 1..N PROVE \E k \in 1..last : page \in Ranges[k]
  <2> DEFINE I == {i \in Nat : page <= i * C}
  <2>1. page \in I
    BY <1>1
  <2>2. PICK k \in I : \A j \in I : k <= j
    <3>1. I \in SUBSET Nat /\ I # {}
      BY <2>1
    <3> HIDE DEF I
    <3> QED BY <3>1, Least
  <2>3. k \in Nat /\ page <= k * C
    OBVIOUS
  <2>4. k # 0
    BY <1>1, <2>3
  <2>5. k - 1 \in Nat /\ ~ (page <= (k - 1) * C)
    BY <2>2, <2>3, <2>4
  <2>6. k * C \in Int /\ (k - 1) * C = k * C - C
    BY <1>4, <2>3
  <2>7. (k - 1) * C < page /\ k * C <= N + C - 1
    BY <1>1, <2>5, <2>6
  <2>8. k \in 1..last
    BY <1>3, <2>3, <2>4, <2>7
  <2> QED BY <1>1, <1>2, <2>3, <2>7, <2>8
<1>7. ASSUME NEW j \in 1..last, NEW k \in 1..last, NEW page \in Ranges[j] \cap Ranges[k]
      PROVE  j = k
  <2>1. /\ (j - 1) * C < page /\ page <= j * C /\ (k - 1) * C < page /\ page <= k * C
        /\ page \in Int
    BY <1>2
  <2>2. ~ (k * C <= (j - 1) * C) /\ ~ (j * C <= (k - 1) * C)
    BY <1>1, <1>4, <2>1
  <2>3. ~ (k <= j - 1) /\ ~ (j <= k - 1)
    BY <1>4, <2>2
  <2> QED BY <2>3
<1> QED BY <1>2, <1>5, <1>6, <1>7 DEF N

(* The retried pages, each at its rank.                                    *)
LEMMA RankOfPage ==
    /\ IsFiniteSet(Retried)
    /\ \A page \in Retried : \E k \in DOMAIN RetriedPages : RetriedPages[k] = {page}
    /\ \A k \in DOMAIN RetriedPages : \E page \in Retried : RetriedPages[k] = {page}
<1> DEFINE n == Cardinality(Retried)
           rank == [page \in Retried |-> Cardinality(UpTo(page))]
<1>1. NumPages \in Nat
  BY ExtractionAssumption DEF ExtractionAssumption
<1>2. IsFiniteSet(Retried) /\ n \in Nat /\ Retried \subseteq Nat
  <2>1. IsFiniteSet(1..NumPages)
    BY <1>1, FS_Interval
  <2>2. Retried \in SUBSET (1..NumPages)
    BY DEF Retried
  <2>3. IsFiniteSet(Retried)
    BY <2>1, <2>2, FS_Subset
  <2> QED BY <2>2, <2>3, FS_CardinalityType
<1>3. ASSUME NEW page \in Retried
      PROVE  IsFiniteSet(UpTo(page)) /\ Cardinality(UpTo(page)) \in 1..n
  <2>1. UpTo(page) \in SUBSET Retried /\ page \in UpTo(page)
    BY <1>2 DEF UpTo
  <2>2. IsFiniteSet(UpTo(page)) /\ Cardinality(UpTo(page)) <= n
    BY <1>2, <2>1, FS_Subset
  <2>3. Cardinality(UpTo(page)) \in Nat /\ Cardinality(UpTo(page)) # 0
    BY <2>1, <2>2, FS_CardinalityType, FS_EmptySet
  <2> QED BY <1>2, <2>2, <2>3
<1>4. ASSUME NEW p \in Retried, NEW q \in Retried, p < q
      PROVE  Cardinality(UpTo(p)) # Cardinality(UpTo(q))
  <2>1. UpTo(p) \in SUBSET UpTo(q) /\ q \in UpTo(q) /\ q \notin UpTo(p)
    <3>1. \A x \in Retried : x \in Nat /\ (x <= p => x <= q) /\ q <= q /\ ~ (q <= p)
      BY <1>2, <1>4
    <3> QED BY <3>1 DEF UpTo
  <2>2. Cardinality(UpTo(q)) = Cardinality(UpTo(p)) => UpTo(q) = UpTo(p)
    BY <1>3, <2>1, FS_Subset
  <2> QED BY <2>1, <2>2
<1>5. \A p, q \in Retried : rank[p] = rank[q] => p = q
  <2> SUFFICES ASSUME NEW p \in Retried, NEW q \in Retried, p # q
               PROVE  Cardinality(UpTo(p)) # Cardinality(UpTo(q))
    OBVIOUS
  <2>1. p < q \/ q < p
    BY <1>2
  <2> QED BY <1>4, <2>1
<1>6. rank \in [Retried -> 1..n]
  BY <1>3
<1>7. rank \in Injection(Retried, 1..n)
  BY <1>5, <1>6 DEF Injection, IsInjective
<1>8. rank \in Surjection(Retried, 1..n)
  <2>1. IsFiniteSet(1..n) /\ Cardinality(1..n) = n
    BY <1>2, FS_Interval
  <2> HIDE DEF rank
  <2> QED BY <1>7, <2>1, FS_Injection
<1>9. ASSUME NEW k \in 1..n, NEW page \in Retried, rank[page] = k
      PROVE  RetriedPages[k] = {page}
  <2>1. RetriedPages[k] = {p \in Retried : rank[p] = k}
    BY DEF RetriedPages
  <2> HIDE DEF rank
  <2> QED BY <1>5, <1>9, <2>1
<1>10. DOMAIN RetriedPages = 1..n
  BY DEF RetriedPages
<1>11. \A k \in 1..n : \E page \in Retried : rank[page] = k
  <2> HIDE DEF rank, n
  <2> QED BY <1>8 DEF Surjection
<1> HIDE DEF rank, n
<1> QED BY <1>2, <1>6, <1>9, <1>10, <1>11

-----------------------------------------------------------------------------
(* A page is read in full, or a person is told.                            *)
SoundIn(calls, page) ==
    \A r \in providers : /\ calls[r].at = "read"
                         /\ calls[r].reading[page].rows # <<>>
                         /\ ~calls[r].reading[page].flagged

LEMMA CountedIff ==
    ASSUME NEW S, NEW rows \in Seq(S), NEW page
    PROVE  CountOn(rows, page) > 0 <=> \E i \in DOMAIN rows : rows[i].page = page
<1> DEFINE found == {i \in DOMAIN rows : rows[i].page = page}
<1>1. IsFiniteSet(found)
  <2>1. IsFiniteSet(1..Len(rows)) /\ found \in SUBSET (1..Len(rows))
    BY FS_Interval
  <2> QED BY <2>1, FS_Subset
<1>2. Cardinality(found) \in Nat /\ (Cardinality(found) = 0 <=> found = {})
  BY <1>1, FS_CardinalityType, FS_EmptySet
<1>3. CountOn(rows, page) = Cardinality(found)
  BY DEF CountOn
<1>4. found # {} <=> \E i \in DOMAIN rows : rows[i].page = page
  OBVIOUS
<1> HIDE DEF found
<1> QED BY <1>2, <1>3, <1>4

(* A page under no suspicion was read in full by every reader.             *)
LEMMA Unsuspected ==
    ASSUME NEW calls, \A r \in providers : CallFormed(calls[r]),
           NEW page \in 1..NumPages, Suspicion(calls, page) = {}
    PROVE  SoundIn(calls, page)
<1> DEFINE rows == ChunkRows(calls)
           seeing == {r \in providers : CountOn(rows[r], page) > 0}
<1>1. /\ Failures(calls) = {} /\ seeing # {} /\ seeing \in {{}, providers}
      /\ \A r \in Succeeded(calls) : ~calls[r].reading[page].flagged
  BY DEF Suspicion
<1>2. seeing = providers
  BY <1>1
<1>3. \A r \in providers : rows[r] = RowsOf(calls[r])
  BY DEF ChunkRows
<1> HIDE DEF rows
<1> SUFFICES ASSUME NEW r \in providers
             PROVE  /\ calls[r].at = "read"
                    /\ calls[r].reading[page].rows # <<>>
                    /\ ~calls[r].reading[page].flagged
  BY DEF SoundIn
<1>4. r \in Succeeded(calls)
  BY <1>1 DEF Failures
<1>5. RowsOf(calls[r]) \in Seq(RowsRead(calls[r]))
  BY RowsOfCall, ExtractionAssumption
<1>6. PICK i \in DOMAIN RowsOf(calls[r]) : RowsOf(calls[r])[i].page = page
  <2>1. CountOn(RowsOf(calls[r]), page) > 0
    BY <1>2, <1>3
  <2> QED BY <1>5, <2>1, CountedIff
<1> DEFINE row == RowsOf(calls[r])[i]
<1>7. row \in RowsRead(calls[r]) /\ row.page = page
  BY <1>5, <1>6
<1> HIDE DEF row
<1>8. page # 0
  BY ExtractionAssumption DEF ExtractionAssumption
<1>9. calls[r].reading[page].rows # <<>>
  BY <1>7, <1>8, RowsOfCall, ExtractionAssumption DEF RowsRead
<1> QED BY <1>1, <1>4, <1>9 DEF Succeeded

(* A row without a page puts every page of its chunk under suspicion.      *)
LEMMA StraysSuspected ==
    ASSUME NEW calls, \A r \in providers : CallFormed(calls[r]), NEW page,
           NEW r \in providers, NEW row \in Range(RowsOf(calls[r])), row.page = 0
    PROVE  "invalid_page_numbers" \in ReasonsOf(calls, page) \cap Suspicion(calls, page)
<1>1. RowsOf(calls[r]) \in Seq(RowsRead(calls[r]))
  BY RowsOfCall, ExtractionAssumption
<1>2. \E i \in DOMAIN RowsOf(calls[r]) : RowsOf(calls[r])[i].page = 0
  BY DEF Range
<1>3. CountOn(RowsOf(calls[r]), 0) > 0
  BY <1>1, <1>2, CountedIff
<1>4. r \in Succeeded(calls)
  <2> SUFFICES ASSUME calls[r].at # "read" PROVE FALSE
    BY DEF Succeeded
  <2>1. RowsRead(calls[r]) = {}
    BY RowsOfCall, ExtractionAssumption
  <2> QED BY <1>1, <1>2, <2>1
<1>5. "invalid_page_numbers" \in Suspicion(calls, page)
  BY <1>3, <1>4 DEF Suspicion, ChunkRows
<1> QED BY <1>5 DEF ReasonsOf

(* After the first reading, each page is reported, is to be reread or was  *)
(* read in full; a row without a page has its whole chunk reread.          *)
Screened ==
    /\ DOMAIN reads["initial"] = DOMAIN Ranges
    /\ \A page \in (1..NumPages) \ (needsReview \cup Retried) : SoundIn(ChunkOf(page), page)
    /\ \A k \in DOMAIN reads["initial"] : \A r \in providers :
          \A row \in Range(RowsOf(reads["initial"][k][r])) :
             row.page = 0 => \A page \in Ranges[k] : "invalid_page_numbers" \in reasons[page]

ReviewInv == phase = "retry" => Screened

LEMMA ChunkOfIs ==
    ASSUME NEW k \in DOMAIN Ranges, NEW page \in Ranges[k]
    PROVE  ChunkOf(page) = reads["initial"][k]
<1> DEFINE at == CHOOSE j \in DOMAIN Ranges : page \in Ranges[j]
<1>1. at \in DOMAIN Ranges /\ page \in Ranges[at]
  OBVIOUS
<1> HIDE DEF at
<1>2. at = k
  BY <1>1, ChunkOfPage
<1> QED BY <1>2 DEF ChunkOf, at

LEMMA ScreenedByFirst ==
    ASSUME BoundInv, CallsInv, EndInitial PROVE Screened'
<1>1. /\ reasons' = [page \in 1..NumPages |-> ReasonsOf(ChunkOf(page), page)]
      /\ needsReview' = Unverified
      /\ UNCHANGED <<providers, reads>>
      /\ paged /\ phase = "initial" /\ Len(Calls) = Len(Chunks)
  BY DEF EndInitial, PhaseDone
<1>2. DOMAIN reads["initial"] = DOMAIN Ranges
  <2>1. Len(reads["initial"]) = Len(Ranges)
    BY <1>1 DEF Calls, Chunks
  <2>2. PICK n \in Nat : DOMAIN reads["initial"] = 1..n /\ Len(reads["initial"]) = n
    BY ReadsAreSequences DEF BoundInv, Phases
  <2>3. \E m \in Nat : DOMAIN Ranges = 1..m /\ Len(Ranges) = m
    <3>1. (NumPages + ChunkSize - 1) \div ChunkSize \in Nat
      BY Quotient, ExtractionAssumption DEF ExtractionAssumption
    <3> QED BY <3>1 DEF Ranges
  <2> QED BY <2>1, <2>2, <2>3
<1>3. \A page : ChunkOf(page)' = ChunkOf(page)
  BY <1>1 DEF ChunkOf
<1>4. \A k \in DOMAIN Ranges : \A r \in providers : CallFormed(reads["initial"][k][r])
  BY <1>2 DEF CallsInv, Phases
<1>5. ASSUME NEW page \in 1..NumPages, page \notin needsReview', page \notin Retried'
      PROVE  SoundIn(ChunkOf(page), page)
  <2>1. ReasonsOf(ChunkOf(page), page) = {} /\ ~OnlyBroken(ChunkOf(page))
    BY <1>1, <1>5 DEF Retried, Unverified
  <2>2. Suspicion(ChunkOf(page), page) = {}
    BY <2>1 DEF ReasonsOf
  <2>3. PICK k \in DOMAIN Ranges : page \in Ranges[k]
    BY ChunkOfPage
  <2>4. ChunkOf(page) = reads["initial"][k]
    BY <2>3, ChunkOfIs
  <2> QED BY <1>4, <2>2, <2>4, Unsuspected
<1>6. ASSUME NEW k \in DOMAIN Ranges, NEW r \in providers,
             NEW row \in Range(RowsOf(reads["initial"][k][r])), row.page = 0,
             NEW page \in Ranges[k]
      PROVE  "invalid_page_numbers" \in reasons'[page]
  <2>1. ChunkOf(page) = reads["initial"][k] /\ page \in 1..NumPages
    BY ChunkOfIs, ChunkOfPage
  <2>2. "invalid_page_numbers" \in ReasonsOf(reads["initial"][k], page)
    BY <1>4, <1>6, StraysSuspected
  <2> QED BY <1>1, <2>1, <2>2
<1>7. (\A page \in (1..NumPages) \ (needsReview \cup Retried) : SoundIn(ChunkOf(page), page))'
  BY <1>1, <1>3, <1>5 DEF SoundIn
<1>8. (\A k \in DOMAIN reads["initial"] : \A r \in providers :
         \A row \in Range(RowsOf(reads["initial"][k][r])) :
            row.page = 0 => \A page \in Ranges[k] : "invalid_page_numbers" \in reasons[page])'
  BY <1>1, <1>2, <1>6
<1> QED BY <1>1, <1>2, <1>7, <1>8 DEF Screened

LEMMA RetrySteps ==
    ASSUME BoundInv, [Next]_vars, phase' = "retry"
    PROVE  \/ EndInitial
           \/ /\ phase = "retry" /\ reads'["initial"] = reads["initial"]
              /\ UNCHANGED <<providers, reasons, needsReview>>
<1>1. CASE Submit
  <2>1. /\ phase' = phase /\ UNCHANGED <<providers, reasons, needsReview>>
        /\ reads' = [reads EXCEPT ![phase] = Append(@, [r \in providers |-> Waiting])]
    BY <1>1 DEF Submit, results
  <2>2. phase = "retry" /\ phase # "initial"
    BY <2>1
  <2> QED BY <2>1, <2>2 DEF BoundInv, Shape, Phases
<1>2. ASSUME Working, NEW k \in DOMAIN Calls, NEW r \in providers,
             \/ StartRead(k, r) \/ SkipRead(k, r)
             \/ ReadReturns(k, r) \/ ReadFails(k, r) \/ ReadBreaks(k, r)
             \/ Disable(k, r)
      PROVE  /\ phase = "retry" /\ reads'["initial"] = reads["initial"]
             /\ UNCHANGED <<providers, reasons, needsReview>>
  <2>1. PICK step, reading : Becomes(k, r, step, reading)
    BY <1>2 DEF StartRead, SkipRead, ReadReturns, ReadFails, ReadBreaks, Disable
  <2>2. /\ phase' = phase /\ UNCHANGED <<providers, reasons, needsReview>>
        /\ reads' = [reads EXCEPT ![phase][k][r] = Call(step, reading)]
    BY <2>1 DEF Becomes, results
  <2>3. phase = "retry" /\ phase # "initial"
    BY <2>2
  <2> QED BY <2>2, <2>3 DEF BoundInv, Shape, Phases
<1>3. CASE EndRetry \/ EndUnpaged
  BY <1>3 DEF EndRetry, EndUnpaged
<1>4. CASE Terminated \/ UNCHANGED vars
  BY <1>4 DEF Terminated, vars, results
<1> QED BY <1>1, <1>2, <1>3, <1>4 DEF Next

LEMMA ReviewStep ==
    ASSUME BoundInv, CallsInv, ReviewInv, [Next]_vars PROVE ReviewInv'
<1> SUFFICES ASSUME phase' = "retry" PROVE Screened'
  BY DEF ReviewInv
<1>1. CASE EndInitial
  BY <1>1, ScreenedByFirst
<1>2. CASE /\ phase = "retry" /\ reads'["initial"] = reads["initial"]
           /\ UNCHANGED <<providers, reasons, needsReview>>
  <2>1. Screened
    BY <1>2 DEF ReviewInv
  <2>2. \A page : ChunkOf(page)' = ChunkOf(page)
    BY <1>2 DEF ChunkOf
  <2>3. Retried' = Retried
    BY <1>2 DEF Retried
  <2> QED BY <1>2, <2>1, <2>2, <2>3 DEF Screened, SoundIn
<1> QED BY <1>1, <1>2, RetrySteps

(* When the rereads end, each suspicious page has one.                     *)
LEMMA RereadsEnd ==
    ASSUME BoundInv, CallsInv, EndRetry
    PROVE  /\ paged /\ phase = "retry" /\ Chunks = RetriedPages
           /\ DOMAIN reads["retry"] = DOMAIN RetriedPages
<1>1. phase = "retry" /\ Len(Calls) = Len(Chunks)
  BY DEF EndRetry, PhaseDone
<1>2. paged /\ Chunks = RetriedPages
  BY <1>1 DEF CallsInv, Chunks
<1>3. Len(reads["retry"]) = Len(RetriedPages)
  BY <1>1, <1>2 DEF Calls
<1>4. PICK n \in Nat : DOMAIN reads["retry"] = 1..n /\ Len(reads["retry"]) = n
  BY ReadsAreSequences DEF BoundInv, Phases
<1>5. \E m \in Nat : DOMAIN RetriedPages = 1..m /\ Len(RetriedPages) = m
  <2>1. Cardinality(Retried) \in Nat
    BY RankOfPage, FS_CardinalityType
  <2> QED BY <2>1 DEF RetriedPages
<1> QED BY <1>1, <1>2, <1>3, <1>4, <1>5

LEMMA LastIsSound ==
    ASSUME BoundInv, CallsInv, Screened, EndRetry,
           NEW page \in (1..NumPages) \ (needsReview \cup StillSuspicious)
    PROVE  SoundIn(LastReading(page), page)
<1>1. /\ Chunks = RetriedPages
      /\ DOMAIN reads["retry"] = DOMAIN RetriedPages
  BY RereadsEnd
<1>2. CASE page \notin Retried
  BY <1>2 DEF Screened, LastReading
<1>3. CASE page \in Retried
  <2> DEFINE at == CHOOSE k \in DOMAIN reads["retry"] : Chunks[k] = {page}
  <2>1. at \in DOMAIN reads["retry"] /\ Chunks[at] = {page}
    BY <1>1, <1>3, RankOfPage
  <2>2. LastReading(page) = reads["retry"][at]
    BY <1>3 DEF LastReading
  <2> HIDE DEF at
  <2>3. Suspicion(reads["retry"][at], page) = {}
    BY <1>3, <2>1 DEF StillSuspicious
  <2>4. \A r \in providers : CallFormed(reads["retry"][at][r])
    BY <2>1 DEF CallsInv, Phases
  <2> QED BY <2>2, <2>3, <2>4, Unsuspected
<1> QED BY <1>2, <1>3

(* A row without a page leaves a page of its chunk or its reread behind.   *)
LEMMA StrayIsReported ==
    ASSUME BoundInv, CallsInv, Screened, EndRetry, NEW row \in RowsSeen, row.page = 0
    PROVE  StillSuspicious \cup {page \in Retried : "invalid_page_numbers" \in reasons[page]} # {}
<1>0. PICK ph \in Phases : \E k \in DOMAIN reads[ph] : \E r \in providers :
          row \in Range(RowsOf(reads[ph][k][r]))
  BY DEF RowsSeen
<1>1. PICK k \in DOMAIN reads[ph], r \in providers : row \in Range(RowsOf(reads[ph][k][r]))
  BY <1>0
<1>2. CASE ph = "initial"
  <2>1. PICK page \in Ranges[k] : page \in 1..NumPages
    BY <1>2, ChunkOfPage DEF Screened
  <2>2. "invalid_page_numbers" \in reasons[page]
    BY <1>1, <1>2, <2>1 DEF Screened
  <2> QED BY <2>1, <2>2 DEF Retried
<1>3. CASE ph = "retry"
  <2>1. PICK page \in Retried : RetriedPages[k] = {page}
    BY <1>3, RereadsEnd, RankOfPage
  <2>2. Chunks[k] = {page}
    BY <2>1, RereadsEnd
  <2>3. \A q \in providers : CallFormed(reads["retry"][k][q])
    BY <1>3 DEF CallsInv, Phases
  <2>4. Suspicion(reads["retry"][k], page) # {}
    BY <1>1, <1>3, <2>3, StraysSuspected
  <2>5. page \in StillSuspicious
    BY <1>3, <2>2, <2>4 DEF StillSuspicious
  <2> QED BY <2>5
<1> QED BY <1>2, <1>3 DEF Phases

LEMMA ItemsAreSeen ==
    ASSUME CallsInv, NEW rows, \A r \in providers : rows[r] \in Seq(RowsSeen),
           NEW item \in Reconciled(Left(rows), Right(rows))
    PROVE  \E row \in RowsSeen : item.page = row.page
<1>1. Left(rows) \in Seq(RowsSeen) /\ Right(rows) \in Seq(RowsSeen)
  BY SidesAreRows, ExtractionAssumption DEF CallsInv
<1> QED BY <1>1, ItemsAreRows

LEMMA LastReadingStays ==
    ASSUME UNCHANGED <<paged, providers, reads, reasons>>, phase \in {"retry", "completed"},
           phase' = "completed", NEW page
    PROVE  LastReading(page)' = LastReading(page)
<1>1. Retried' = Retried
  BY DEF Retried
<1>2. Chunks' = Chunks
  BY <1>1 DEF Chunks, RetriedPages, UpTo
<1>3. ChunkOf(page)' = ChunkOf(page)
  BY DEF ChunkOf
<1> QED BY <1>1, <1>2, <1>3 DEF LastReading

LEMMA ReportStep ==
    ASSUME BoundInv, CallsInv, ReviewInv, ReadOrReported, [Next]_vars
    PROVE  ReadOrReported'
<1>1. CASE EndRetry
  <2> DEFINE L == Left(LatestRows)
             R == Right(LatestRows)
             ledger == Unresolved(L, R)
             union == Supplement(Reconciled(L, R), InitialItems)
             strays == {page \in Retried : "invalid_page_numbers" \in reasons[page]}
  <2>1. /\ items' = WithDisputes(union, ledger)
        /\ UNCHANGED <<paged, providers, reads, reasons>>
        /\ phase = "retry" /\ phase' = "completed"
        /\ needsReview' = needsReview \cup StillSuspicious \cup {row.page : row \in UNION ledger}
              \cup IF \E item \in union : item.page = 0 THEN strays ELSE {}
    BY <1>1 DEF EndRetry
  <2>2. Screened
    BY <2>1 DEF ReviewInv
  <2> HIDE DEF L, R, ledger, union, strays
  <2>3. ASSUME NEW page \in (1..NumPages) \ needsReview'
        PROVE  SoundIn(LastReading(page), page)
    BY <1>1, <2>1, <2>2, LastIsSound
  <2>4. \A page : LastReading(page)' = LastReading(page)
    BY <2>1, LastReadingStays
  <2>5. ASSUME NEW item \in items', item.page = 0
        PROVE  needsReview' # {}
    <3>1. PICK whole \in union : whole.page = 0
      BY <2>1, <2>5 DEF WithDisputes, Item
    <3>2. whole \in Reconciled(L, R) \/ whole \in InitialItems
      BY DEF union, Supplement
    <3>3. PICK row \in RowsSeen : row.page = 0
      <4>1. CASE whole \in Reconciled(L, R)
        <5>1. \A r \in providers : LatestRows[r] \in Seq(RowsSeen)
          BY LatestIsSeen DEF BoundInv
        <5> QED BY <3>1, <4>1, <5>1, ItemsAreSeen DEF L, R
      <4>2. CASE whole \in InitialItems
        <5>1. PICK k \in DOMAIN reads["initial"] :
                 whole \in Reconciled(Left(ChunkRows(reads["initial"][k])),
                                      Right(ChunkRows(reads["initial"][k])))
          BY <4>2 DEF InitialItems
        <5>2. \A r \in providers : ChunkRows(reads["initial"][k])[r] \in Seq(RowsSeen)
          BY ChunkIsSeen DEF Phases
        <5> QED BY <3>1, <5>1, <5>2, ItemsAreSeen
      <4> QED BY <3>2, <4>1, <4>2
    <3>4. StillSuspicious \cup strays # {}
      BY <1>1, <2>2, <3>3, StrayIsReported DEF strays
    <3> QED BY <2>1, <3>1, <3>4
  <2> QED BY <2>1, <2>3, <2>4, <2>5 DEF ReadOrReported, Sound, SoundIn
<1>2. CASE EndUnpaged
  BY <1>2 DEF EndUnpaged, ReadOrReported
<1>3. CASE UNCHANGED vars
  <2>1. UNCHANGED <<paged, providers, reads, reasons, needsReview, items, phase>>
    BY <1>3 DEF vars, results
  <2> SUFFICES ASSUME phase = "completed", paged PROVE ReadOrReported'
    BY <2>1 DEF ReadOrReported
  <2>2. \A page : LastReading(page)' = LastReading(page)
    BY <2>1, LastReadingStays
  <2> QED BY <2>1, <2>2 DEF ReadOrReported, Sound
<1>4. CASE phase' # "completed"
  BY <1>4 DEF ReadOrReported
<1> QED BY <1>1, <1>2, <1>3, <1>4, Steps

(* Each page of a finished PDF is reported to a person or was read in full *)
(* by every reader; a row without a page leaves some page to a person.     *)
THEOREM NothingUnread == Spec => []ReadOrReported
<1> DEFINE Inv == BoundInv /\ CallsInv /\ ReviewInv /\ ReadOrReported
<1>1. Init => Inv
  BY BoundInitially, CallsInitially DEF Init, ReviewInv, ReadOrReported
<1>2. Inv /\ [Next]_vars => Inv'
  BY BoundStep, CallsStep, ReviewStep, ReportStep
<1> QED BY <1>1, <1>2, PTL DEF Spec
=============================================================================
