-------------------------- MODULE SalesImport_proofs --------------------------
(***************************************************************************)
(* Proofs about SalesImport, for any exports, batch sizes, failures and    *)
(* crashes.                                                                *)
(***************************************************************************)
EXTENDS SalesImport, WellFoundedInduction, TLAPS

(* The steps of the next-state relation.                                   *)
LEMMA NextCases ==
    ASSUME [Next]_vars
    PROVE \/ CatalogCommits \/ \E file \in Files : Begin(file)
          \/ Resolve \/ InsertLines \/ ReadGroups \/ WriteDays \/ Complete
          \/ BatchFails \/ ImportFails \/ Crash \/ UNCHANGED vars
  BY DEF Next

(* What ends an import: its status changes and nothing else is stored.     *)
LEMMA Endings ==
    ASSUME BatchFails \/ ImportFails
    PROVE stage # "idle" /\ Ended("failed")
  BY DEF BatchFails, ImportFails

LEMMA LastOfSeq ==
    ASSUME NEW S, NEW s \in Seq(S), s # <<>>
    PROVE Len(s) \in DOMAIN s /\ s[Len(s)] \in S
  OBVIOUS

(* A row of the import under way is a row, and its line a line.            *)
LEMMA RowOK ==
    ASSUME TypeOK, stage # "idle"
    PROVE /\ imports # <<>> /\ Len(imports) \in DOMAIN imports
          /\ Current \in [file : Files, status : Statuses]
          /\ Current.status = "pending"
          /\ Rows \in Seq(Row)
          /\ \A i \in DOMAIN Rows : Rows[i] \in Row /\ Line(Rows[i]) \in Lines
  <1>1. imports # <<>> /\ Current.status = "pending"
    BY DEF TypeOK
  <1>2. imports \in Seq([file : Files, status : Statuses])
    BY DEF TypeOK
  <1>3. Len(imports) \in DOMAIN imports /\ Current \in [file : Files, status : Statuses]
    BY <1>1, <1>2, LastOfSeq DEF Current
  <1>4. Rows \in Seq(Row)
    BY <1>3, SalesAssumption DEF Rows, File
  <1>5. \A i \in DOMAIN Rows : Rows[i] \in Row
    BY <1>4
  <1>6. \A row \in Row : Line(row) \in Lines
    BY DEF Row, Line, Lines
  <1> QED BY <1>1, <1>2, <1>3, <1>4, <1>5, <1>6

LEMMA GroupOK ==
    ASSUME TypeOK, NEW l \in lines PROVE GroupOf(l) \in Groups
  BY DEF TypeOK, GroupOf, Groups, Lines

(* Ending an import keeps the types.                                       *)
LEMMA EndedOK ==
    ASSUME TypeOK, stage # "idle", NEW st \in Statuses, Ended(st)
    PROVE TypeOK'
  <1>1. imports' \in Seq([file : Files, status : Statuses])
    <2>1. imports \in Seq([file : Files, status : Statuses])
      BY DEF TypeOK
    <2>2. Len(imports) \in DOMAIN imports /\ Current \in [file : Files, status : Statuses]
      BY RowOK
    <2>3. [Current EXCEPT !.status = st] \in [file : Files, status : Statuses]
      BY <2>2
    <2>4. imports' = [imports EXCEPT ![Len(imports)] = [Current EXCEPT !.status = st]]
      BY DEF Ended, Current
    <2> QED BY <2>1, <2>2, <2>3, <2>4
  <1> QED BY <1>1 DEF Ended, TypeOK

-----------------------------------------------------------------------------
(* The types of the tables and of the import under way.                    *)
THEOREM TypeCorrect == Spec => []TypeOK
  <1>1. Init => TypeOK
    BY DEF Init, TypeOK, Groups, Lines
  <1>2. TypeOK /\ [Next]_vars => TypeOK'
    <2> SUFFICES ASSUME TypeOK, [Next]_vars PROVE TypeOK'
      OBVIOUS
    <2>1. CASE CatalogCommits
      BY <2>1, SalesAssumption DEF CatalogCommits, TypeOK, tables, Current
    <2>2. CASE \E file \in Files : Begin(file)
      <3> PICK file \in Files : Begin(file)
        BY <2>2
      <3>1. imports' = Append(imports, [file |-> file, status |-> "pending"])
        BY DEF Begin
      <3>2. imports' \in Seq([file : Files, status : Statuses])
        BY <3>1 DEF TypeOK, Statuses
      <3>3. imports' # <<>> /\ Current'.status = "pending"
        BY <3>1 DEF TypeOK, Current
      <3> QED BY <3>2, <3>3 DEF Begin, TypeOK
    <2>3. CASE Resolve
      BY <2>3 DEF Resolve, TypeOK, tables, Current
    <2>4. CASE InsertLines
      <3>1. lines' \subseteq Lines
        BY <2>4, RowOK DEF InsertLines, TypeOK, Batch
      <3> QED BY <2>4, <3>1, SalesAssumption DEF InsertLines, TypeOK, Current
    <2>5. CASE ReadGroups
      <3>1. pending' \subseteq Groups
        BY <2>5, GroupOK DEF ReadGroups
      <3> QED BY <2>5, <3>1 DEF ReadGroups, TypeOK, tables, Current
    <2>6. CASE WriteDays
      BY <2>6 DEF WriteDays, DayBatches, Upserted, TypeOK, Current
    <2>7. CASE Complete
      BY <2>7, EndedOK DEF Complete, Statuses
    <2>8. CASE BatchFails \/ ImportFails
      BY <2>8, Endings, EndedOK DEF Statuses
    <2>9. CASE Crash
      BY <2>9 DEF Crash, TypeOK, tables
    <2>10. CASE UNCHANGED vars
      BY <2>10 DEF vars, tables, TypeOK, Current
    <2> QED BY <2>1, <2>2, <2>3, <2>4, <2>5, <2>6, <2>7, <2>8, <2>9, <2>10, NextCases
  <1> QED BY <1>1, <1>2, PTL DEF Spec

(* Overlapping files and retries never store a sale twice: only InsertLines *)
(* adds lines, and of two rows with one id the second conflicts.           *)
THEOREM SalesStoredOnce == Spec => []EachSaleOnce
  <1>1. Init => EachSaleOnce
    BY DEF Init, EachSaleOnce
  <1>2. TypeOK /\ EachSaleOnce /\ [Next]_vars => EachSaleOnce'
    <2> SUFFICES ASSUME TypeOK, EachSaleOnce, [Next]_vars PROVE EachSaleOnce'
      OBVIOUS
    <2>1. CASE InsertLines
      <3> DEFINE fresh == {b \in Batch : ~Conflicting(b)}
      <3>1. lines' = lines \cup {Line(Rows[i]) : i \in fresh}
        BY <2>1 DEF InsertLines
      <3>2. \A i \in fresh : i \in Nat /\ \A l \in lines : l.id # Line(Rows[i]).id
        BY <2>1, RowOK DEF InsertLines, Batch, Conflicting, Line
      <3>3. \A i, j \in fresh : Line(Rows[i]).id = Line(Rows[j]).id => i = j
        BY <3>2 DEF Batch, Conflicting, Line
      <3> HIDE DEF fresh
      <3> QED BY <3>1, <3>2, <3>3 DEF EachSaleOnce
    <2>2. CASE UNCHANGED lines
      BY <2>2 DEF EachSaleOnce
    <2>3. InsertLines \/ UNCHANGED lines
      BY NextCases, Endings DEF CatalogCommits, Begin, Resolve, ReadGroups, WriteDays,
         Complete, Ended, Crash, tables, vars
    <2> QED BY <2>1, <2>2, <2>3
  <1> QED BY <1>1, <1>2, TypeCorrect, PTL DEF Spec

-----------------------------------------------------------------------------
(* What a rebuild works on: each summary has sales of its key, each group  *)
(* read is the group of a stored line, and a key of the span whose group   *)
(* is not waiting to be written is right already.                          *)
RebuildInv ==
    /\ \A g \in daily : \E l \in lines : Key(l) = Key(g)
    /\ \A g \in pending : stage = "summing" => \E l \in lines : g = GroupOf(l)
    /\ stage = "summing" =>
         \A p \in Products, d \in Span(Current.file) :
            \/ Split(<<p, d>>)
            \/ \E g \in pending : Key(g) = <<p, d>>
            \/ ~Lags(<<p, d>>)

LEMMA SpanDays == ASSUME NEW file PROVE Span(file) \subseteq Days
  BY DEF Span

(* The group of a line that is not of a split key has all its key's sales. *)
LEMMA WholeGroup ==
    ASSUME NEW l \in lines, ~Split(Key(l))
    PROVE GroupOf(l).ids = {m.id : m \in LinesOf(Key(l))}
  <1>1. l \in LinesOf(Key(l))
    BY DEF LinesOf
  <1>2. \A m \in LinesOf(Key(l)) : Alike(l, m)
    BY <1>1 DEF Split
  <1>3. \A m \in lines : Alike(l, m) => m \in LinesOf(Key(l))
    BY DEF Alike, LinesOf
  <1>4. {n \in lines : Alike(l, n)} = LinesOf(Key(l))
    BY <1>2, <1>3 DEF LinesOf
  <1> QED BY <1>4 DEF GroupOf

LEMMA GroupKey == ASSUME NEW l PROVE Key(GroupOf(l)) = Key(l)
  BY DEF GroupOf, Key

(* What a key says depends on the lines and summaries of that key alone.   *)
LEMMA SameKey ==
    ASSUME NEW k, LinesOf(k)' = LinesOf(k), Counted(k)' = Counted(k)
    PROVE /\ Lags(k)' <=> Lags(k)
          /\ Split(k)' <=> Split(k)
  BY DEF Lags, Split, Alike, Key

(* One batch of summaries puts its keys right and leaves the others alone. *)
LEMMA WriteOneBatch ==
    ASSUME RebuildInv, stage = "summing", NEW B \in SUBSET pending,
           \A g, h \in B : Key(g) = Key(h) => g = h,
           daily' = Upserted(B), lines' = lines, NEW k
    PROVE /\ Split(k)' <=> Split(k)
          /\ k \notin Keys(B) => (Lags(k)' <=> Lags(k))
          /\ k \in Keys(B) /\ ~Split(k) => ~Lags(k)'
  <1>1. LinesOf(k)' = LinesOf(k)
    BY DEF LinesOf, Key
  <1>2. Split(k)' <=> Split(k)
    BY <1>1 DEF Split, Alike, Key
  <1>3. ASSUME k \notin Keys(B) PROVE Lags(k)' <=> Lags(k)
    <2>1. {h \in daily' : Key(h) = k} = {h \in daily : Key(h) = k}
      BY <1>3 DEF Upserted, Keys
    <2>2. Counted(k)' = Counted(k)
      BY <2>1 DEF Counted, Key
    <2> QED BY <1>1, <2>2, SameKey
  <1>4. ASSUME k \in Keys(B), ~Split(k) PROVE ~Lags(k)'
    <2>1. PICK g \in B : Key(g) = k
      BY <1>4 DEF Keys
    <2>2. PICK l \in lines : g = GroupOf(l)
      BY DEF RebuildInv
    <2>3. Key(l) = k
      BY <2>1, <2>2, GroupKey
    <2>4. g.ids = {m.id : m \in LinesOf(k)}
      BY <1>4, <2>2, <2>3, WholeGroup
    <2>5. {h \in daily' : Key(h) = k} = {g}
      BY <1>4, <2>1 DEF Upserted
    <2>6. Counted(k)' = g.ids
      BY <2>5 DEF Counted, Key
    <2> QED BY <1>1, <2>4, <2>6 DEF Lags
  <1> QED BY <1>2, <1>3, <1>4

(* The inserted lines are of days the import spans.                        *)
LEMMA InsertedDays ==
    ASSUME TypeOK, InsertLines
    PROVE /\ lines \subseteq lines'
          /\ \A l \in lines' \ lines : l.day \in Span(Current.file)
          /\ UNCHANGED <<daily, imports, stage, pending>>
          /\ stage = "inserting"
  <1>1. stage # "idle" /\ stage = "inserting"
    BY DEF InsertLines
  <1>2. \A i \in DOMAIN Rows : Rows[i].day \in Days /\ Rows[i].day \in Nat
    BY <1>1, RowOK, SalesAssumption DEF Row
  <1>3. \A i \in DOMAIN Rows : Rows[i].day \in Span(Current.file)
    BY <1>1, <1>2, RowOK DEF Span, Rows
  <1>4. lines' = lines \cup {Line(Rows[i]) : i \in {b \in Batch : ~Conflicting(b)}}
    BY DEF InsertLines
  <1>5. \A i \in Batch : i \in DOMAIN Rows /\ Line(Rows[i]).day = Rows[i].day
    BY DEF Batch, Line
  <1> QED BY <1>1, <1>3, <1>4, <1>5 DEF InsertLines

LEMMA RebuildStep ==
    ASSUME TypeOK, RebuildInv, [Next]_vars PROVE RebuildInv'
  <1>1. CASE InsertLines
    <2>1. /\ lines \subseteq lines' /\ UNCHANGED <<daily, stage>> /\ stage' # "summing"
      BY <1>1, InsertedDays
    <2> QED BY <2>1 DEF RebuildInv, Key
  <1>2. CASE ReadGroups
    <2>1. /\ stage' = "summing" /\ UNCHANGED <<lines, daily, imports>>
          /\ pending' = {GroupOf(l) : l \in {m \in lines : m.day \in Span(Current.file)}}
      BY <1>2 DEF ReadGroups, tables
    <2>2. \A g \in pending' : \E l \in lines' : g = GroupOf(l)'
      BY <2>1 DEF GroupOf, Alike, Key
    <2>3. ASSUME NEW p \in Products, NEW d \in Span(Current.file),
                 ~ \E g \in pending' : Key(g) = <<p, d>>
          PROVE ~Lags(<<p, d>>)'
      <3>1. \A l \in lines : Key(l) # <<p, d>>
        BY <2>1, <2>3, GroupKey DEF Key
      <3>2. LinesOf(<<p, d>>) = {} /\ {h \in daily : Key(h) = <<p, d>>} = {}
        BY <3>1 DEF LinesOf, RebuildInv
      <3>3. ~Lags(<<p, d>>)
        BY <3>2 DEF Lags, Counted
      <3> QED BY <2>1, <3>3 DEF Lags, Counted, LinesOf, Key
    <2>4. Span(Current.file)' = Span(Current.file)
      BY <2>1 DEF Current, Span
    <2>5. \A g \in daily' : \E l \in lines' : Key(l) = Key(g)
      BY <2>1 DEF RebuildInv
    <2> QED BY <2>2, <2>3, <2>4, <2>5 DEF RebuildInv, Key
  <1>3. CASE WriteDays
    <2>1. PICK B \in DayBatches : /\ \A g, h \in B : Key(g) = Key(h) => g = h
                                  /\ daily' = Upserted(B) /\ pending' = pending \ B
      BY <1>3 DEF WriteDays
    <2>2. /\ stage = "summing" /\ stage' = "summing" /\ UNCHANGED <<lines, imports>>
          /\ B \in SUBSET pending
      BY <1>3 DEF WriteDays, DayBatches
    <2>3. \A g \in daily' : \E l \in lines' : Key(l) = Key(g)
      BY <2>1, <2>2, GroupKey DEF Upserted, RebuildInv
    <2>4. \A g \in pending' : \E l \in lines' : g = GroupOf(l)'
      BY <2>1, <2>2 DEF RebuildInv, GroupOf, Alike, Key
    <2>5. Span(Current.file)' = Span(Current.file)
      BY <2>2 DEF Current, Span
    <2>6. ASSUME NEW p \in Products, NEW d \in Span(Current.file)
          PROVE \/ Split(<<p, d>>)'
                \/ \E g \in pending' : Key(g) = <<p, d>>
                \/ ~Lags(<<p, d>>)'
      <3>1. /\ Split(<<p, d>>)' <=> Split(<<p, d>>)
            /\ <<p, d>> \notin Keys(B) => (Lags(<<p, d>>)' <=> Lags(<<p, d>>))
            /\ <<p, d>> \in Keys(B) /\ ~Split(<<p, d>>) => ~Lags(<<p, d>>)'
        BY <2>1, <2>2, WriteOneBatch
      <3>2. \/ Split(<<p, d>>)
            \/ \E g \in pending : Key(g) = <<p, d>>
            \/ ~Lags(<<p, d>>)
        BY <2>2 DEF RebuildInv
      <3>3. \A g \in pending : g \in pending' \/ Key(g) \in Keys(B)
        BY <2>1 DEF Keys
      <3> QED BY <3>1, <3>2, <3>3
    <2> QED BY <2>2, <2>3, <2>4, <2>5, <2>6 DEF RebuildInv, Key
  <1>4. ASSUME UNCHANGED <<lines, daily>>, stage' # "summing" PROVE RebuildInv'
    BY <1>4 DEF RebuildInv, Key
  <1>5. CASE CatalogCommits \/ UNCHANGED vars
    <2>1. UNCHANGED <<lines, daily, imports, stage, pending>>
      BY <1>5 DEF CatalogCommits, vars, tables
    <2>2. \A l \in lines : GroupOf(l)' = GroupOf(l)
      BY <2>1 DEF GroupOf, Alike, Key
    <2>3. ASSUME NEW k PROVE (Lags(k)' <=> Lags(k)) /\ (Split(k)' <=> Split(k))
      BY <2>1, SameKey DEF Counted, LinesOf, Key
    <2>4. Span(Current.file)' = Span(Current.file)
      BY <2>1 DEF Current, Span
    <2> QED BY <2>1, <2>2, <2>3, <2>4 DEF RebuildInv, Key
  <1>6. \/ InsertLines \/ ReadGroups \/ WriteDays \/ CatalogCommits \/ UNCHANGED vars
        \/ UNCHANGED <<lines, daily>> /\ stage' # "summing"
    BY NextCases, Endings DEF Begin, Resolve, Complete, Ended, Crash, tables
  <1> QED BY <1>1, <1>2, <1>3, <1>4, <1>5, <1>6

-----------------------------------------------------------------------------
LEMMA LagStep ==
    ASSUME TypeOK, RebuildInv, LagExplained, [Next]_vars PROVE LagExplained'
  <1> DEFINE Explained(d) == \E n \in DOMAIN imports : /\ imports[n].status # "completed"
                                                       /\ d \in Span(imports[n].file)
  <1> SUFFICES ASSUME NEW p \in Products, NEW d \in Days, Lags(<<p, d>>)', ~Split(<<p, d>>)'
               PROVE Explained(d)'
    BY DEF LagExplained
  <1>1. Lags(<<p, d>>) => Split(<<p, d>>) \/ Explained(d)
    BY DEF LagExplained
  <1>2. ASSUME UNCHANGED <<lines, daily>> PROVE Lags(<<p, d>>) /\ ~Split(<<p, d>>)
    BY <1>2 DEF Lags, Counted, LinesOf, Key, Split, Alike
  <1>3. CASE UNCHANGED tables
    BY <1>1, <1>2, <1>3 DEF tables, Span
  <1>4. CASE \E file \in Files : Begin(file)
    <2>1. PICK file \in Files : imports' = Append(imports, [file |-> file, status |-> "pending"])
      BY <1>4 DEF Begin
    <2>2. \A n \in DOMAIN imports : n \in DOMAIN imports' /\ imports'[n] = imports[n]
      BY <2>1 DEF TypeOK
    <2>3. UNCHANGED <<lines, daily>>
      BY <1>4 DEF Begin
    <2> QED BY <1>1, <1>2, <2>2, <2>3 DEF Span
  <1>5. CASE InsertLines
    <2>1. /\ lines \subseteq lines' /\ UNCHANGED <<daily, imports>> /\ stage # "idle"
          /\ \A l \in lines' \ lines : l.day \in Span(Current.file)
      BY <1>5, InsertedDays
    <2>2. CASE d \in Span(Current.file)
      BY <2>1, <2>2, RowOK DEF Current, Span
    <2>3. CASE d \notin Span(Current.file)
      <3>1. LinesOf(<<p, d>>)' = LinesOf(<<p, d>>)
        BY <2>1, <2>3 DEF LinesOf, Key
      <3>2. Counted(<<p, d>>)' = Counted(<<p, d>>)
        BY <2>1 DEF Counted, Key
      <3> QED BY <1>1, <2>1, <3>1, <3>2, SameKey DEF Span
    <2> QED BY <2>2, <2>3
  <1>6. CASE WriteDays
    <2>1. PICK B \in DayBatches : /\ \A g, h \in B : Key(g) = Key(h) => g = h
                                  /\ daily' = Upserted(B)
      BY <1>6 DEF WriteDays
    <2>2. stage = "summing" /\ UNCHANGED <<lines, imports>> /\ B \in SUBSET pending
      BY <1>6 DEF WriteDays, DayBatches
    <2>3. Lags(<<p, d>>) /\ ~Split(<<p, d>>)
      BY <2>1, <2>2, WriteOneBatch
    <2> QED BY <1>1, <2>2, <2>3 DEF Span
  <1>7. ASSUME NEW st \in {"completed", "failed"}, stage # "idle", Ended(st),
               st = "completed" => stage = "summing" /\ pending = {}
        PROVE Explained(d)'
    <2>1. UNCHANGED <<lines, daily>>
      BY <1>7 DEF Ended
    <2>2. PICK n \in DOMAIN imports : imports[n].status # "completed" /\ d \in Span(imports[n].file)
      BY <1>1, <1>2, <2>1
    <2>3. /\ imports \in Seq([file : Files, status : Statuses])
          /\ imports' = [imports EXCEPT ![Len(imports)].status = st]
      BY <1>7 DEF TypeOK, Ended
    <2>4. DOMAIN imports' = DOMAIN imports /\ imports'[n].file = imports[n].file
      BY <2>3
    <2>5. CASE n # Len(imports)
      BY <2>2, <2>3, <2>4, <2>5 DEF Span
    <2>6. CASE n = Len(imports) /\ st = "failed"
      BY <2>2, <2>3, <2>4, <2>6 DEF Span
    <2>7. CASE n = Len(imports) /\ st = "completed"
      BY <1>2, <1>7, <2>1, <2>2, <2>7 DEF RebuildInv, Current
    <2> QED BY <2>5, <2>6, <2>7
  <1>8. CASE Complete
    BY <1>7, <1>8 DEF Complete
  <1>9. CASE BatchFails \/ ImportFails
    BY <1>7, <1>9, Endings
  <1>10. \/ UNCHANGED tables \/ \E file \in Files : Begin(file)
         \/ InsertLines \/ WriteDays \/ Complete \/ BatchFails \/ ImportFails
    BY NextCases DEF CatalogCommits, Resolve, ReadGroups, Crash, vars
  <1> QED BY <1>3, <1>4, <1>5, <1>6, <1>8, <1>9, <1>10

LEMMA RebuildInvariant == Spec => []RebuildInv
  <1>1. Init => RebuildInv
    BY DEF Init, RebuildInv
  <1>2. TypeOK /\ RebuildInv /\ [Next]_vars => RebuildInv'
    BY RebuildStep
  <1> QED BY <1>1, <1>2, TypeCorrect, PTL DEF Spec

(* Every lagging summary of an unsplit key is of a day of an import that   *)
(* sales_imports shows as not completed.                                   *)
THEOREM LagsAudited == Spec => []LagExplained
  <1>1. Init => LagExplained
    BY DEF Init, LagExplained, Lags, Counted, LinesOf
  <1>2. TypeOK /\ RebuildInv /\ LagExplained /\ [Next]_vars => LagExplained'
    BY LagStep
  <1> QED BY <1>1, <1>2, TypeCorrect, RebuildInvariant, PTL DEF Spec

-----------------------------------------------------------------------------
(* The rows behind the insertion are stored, under their id.               *)
StoredInv ==
    stage \in {"inserting", "summing"} =>
        /\ \A i \in DOMAIN Rows : i <= inserted => \E l \in lines : l.id = Rows[i].id
        /\ stage = "summing" => inserted >= Len(Rows)

(* The first of several.                                                   *)
LEMMA SmallestTwin ==
    ASSUME NEW S \in SUBSET Nat, S # {} PROVE \E j \in S : \A n \in S : j <= n
  <1>1. \E j \in S : \A n \in S : <<n, j>> \notin OpToRel(<, Nat)
    BY NatLessThanWellFounded, WFMin
  <1>2. \A n, j \in Nat : n < j => <<n, j>> \in OpToRel(<, Nat)
    BY DEF OpToRel
  <1>3. PICK j \in S : \A n \in S : ~(n < j)
    BY <1>1, <1>2
  <1> QED BY <1>3

LEMMA StoredStep ==
    ASSUME TypeOK, StoredInv, [Next]_vars PROVE StoredInv'
  <1>1. CASE Resolve
    <2>1. inserted' = 0 /\ imports' = imports /\ stage' = "inserting" /\ stage # "idle"
      BY <1>1 DEF Resolve, tables
    <2>2. \A i \in DOMAIN Rows : i \in Nat \ {0}
      BY <2>1, RowOK
    <2> QED BY <2>1, <2>2 DEF StoredInv, Rows, Current
  <1>2. CASE InsertLines
    <2>1. /\ lines \subseteq lines' /\ UNCHANGED <<imports, stage>>
          /\ stage = "inserting" /\ stage # "idle"
      BY <1>2, InsertedDays
    <2>2. /\ inserted' = inserted + LineBatch /\ inserted \in Nat
          /\ lines' = lines \cup {Line(Rows[i]) : i \in {b \in Batch : ~Conflicting(b)}}
      BY <1>2 DEF InsertLines, TypeOK
    <2>3. \A i \in Batch : ~Conflicting(i) => \E l \in lines' : l.id = Rows[i].id
      <3>1. \A i \in Batch : ~Conflicting(i) => Line(Rows[i]) \in lines'
        BY <2>2
      <3> QED BY <3>1 DEF Line
    <2>4. ASSUME NEW i \in DOMAIN Rows, i <= inserted'
          PROVE \E l \in lines' : l.id = Rows[i].id
      <3>1. CASE i <= inserted
        BY <2>1, <3>1 DEF StoredInv
      <3>2. CASE ~(i <= inserted)
        <4>1. i \in Nat
          BY <2>1, RowOK
        <4>2. i \in Batch
          BY <2>2, <2>4, <3>2, <4>1 DEF Batch
        <4>3. CASE \E l \in lines : l.id = Rows[i].id
          BY <2>1, <4>3
        <4>4. CASE ~Conflicting(i)
          BY <4>2, <4>4, <2>3
        <4>5. CASE \E j \in Batch : j < i /\ Rows[j].id = Rows[i].id
          <5> DEFINE twins == {j \in Batch : Rows[j].id = Rows[i].id}
          <5>1. twins \subseteq Nat /\ twins # {}
            BY <2>1, <4>2, RowOK DEF Batch
          <5>2. PICK j \in twins : \A n \in twins : j <= n
            BY <5>1, SmallestTwin
          <5>3. j \in Batch /\ Rows[j].id = Rows[i].id /\ j \in Nat
            BY <5>1, <5>2
          <5>4. \A n \in Batch : n < j => Rows[n].id # Rows[j].id
            BY <5>1, <5>2, <5>3
          <5>5. CASE Conflicting(j)
            BY <2>1, <5>3, <5>4, <5>5 DEF Conflicting
          <5>6. CASE ~Conflicting(j)
            BY <2>3, <5>3, <5>6
          <5> QED BY <5>5, <5>6
        <4> QED BY <4>3, <4>4, <4>5 DEF Conflicting
      <3> QED BY <3>1, <3>2
    <2> QED BY <2>1, <2>4 DEF StoredInv, Rows, Current
  <1>3. CASE ReadGroups
    BY <1>3 DEF ReadGroups, StoredInv, tables, Rows, Current
  <1>4. CASE WriteDays
    BY <1>4 DEF WriteDays, StoredInv, Rows, Current
  <1>5. CASE CatalogCommits \/ UNCHANGED vars
    BY <1>5 DEF CatalogCommits, vars, tables, StoredInv, Rows, Current
  <1>6. CASE stage' \in {"idle", "resolving"}
    BY <1>6 DEF StoredInv
  <1>7. \/ Resolve \/ InsertLines \/ ReadGroups \/ WriteDays
        \/ CatalogCommits \/ UNCHANGED vars \/ stage' \in {"idle", "resolving"}
    BY NextCases, Endings DEF Begin, Complete, Ended, Crash
  <1> QED BY <1>1, <1>2, <1>3, <1>4, <1>5, <1>6, <1>7

LEMMA StoredInvariant == Spec => []StoredInv
  <1>1. Init => StoredInv
    BY DEF Init, StoredInv
  <1>2. TypeOK /\ StoredInv /\ [Next]_vars => StoredInv'
    BY StoredStep
  <1> QED BY <1>1, <1>2, TypeCorrect, PTL DEF Spec

(* Only Complete completes an import.                                      *)
LEMMA CompletingStep ==
    ASSUME TypeOK, [Next]_vars, Completing PROVE Complete
  <1>1. PICK n \in DOMAIN imports :
            imports[n].status # "completed" /\ imports'[n].status = "completed"
    BY DEF Completing
  <1>2. imports' # imports
    BY <1>1
  <1>3. ASSUME NEW file \in Files, Begin(file) PROVE FALSE
    <2>1. imports' = Append(imports, [file |-> file, status |-> "pending"])
      BY <1>3 DEF Begin
    <2>2. imports \in Seq([file : Files, status : Statuses])
      BY DEF TypeOK
    <2>3. imports'[n] = imports[n]
      BY <2>1, <2>2
    <2> QED BY <1>1, <2>3
  <1>4. ~(BatchFails \/ ImportFails)
    <2>1. Ended("failed") => imports'[n].status = IF n = Len(imports) THEN "failed"
                                                   ELSE imports[n].status
      BY <1>1 DEF Ended, TypeOK
    <2> QED BY <1>1, <2>1, Endings
  <1> QED BY <1>2, <1>3, <1>4, NextCases DEF CatalogCommits, Resolve, InsertLines, ReadGroups,
         WriteDays, Crash, vars, tables

(* An import that completes has stored its rows and put the days it spans  *)
(* right, whatever was interrupted before it.                              *)
THEOREM CompletionIsWhole == Spec => CompletionRepairs
  <1>1. TypeOK /\ RebuildInv /\ StoredInv /\ [Next]_vars =>
            [Completing =>
                /\ StoredRows
                /\ \A p \in Products, d \in Span(Current.file) :
                      Lags(<<p, d>>) => Split(<<p, d>>)]_vars
    <2> SUFFICES ASSUME TypeOK, RebuildInv, StoredInv, [Next]_vars, Completing
                 PROVE /\ StoredRows
                       /\ \A p \in Products, d \in Span(Current.file) :
                             Lags(<<p, d>>) => Split(<<p, d>>)
      OBVIOUS
    <2>1. stage = "summing" /\ pending = {} /\ stage # "idle"
      BY CompletingStep DEF Complete
    <2>2. StoredRows
      <3>1. \A i \in DOMAIN Rows : i <= Len(Rows) /\ i \in Nat /\ Len(Rows) \in Nat
        BY <2>1, RowOK
      <3>2. inserted \in Nat /\ inserted >= Len(Rows)
        BY <2>1 DEF StoredInv, TypeOK
      <3>3. \A i \in DOMAIN Rows : i <= inserted
        BY <3>1, <3>2
      <3> QED BY <2>1, <3>3 DEF StoredInv, StoredRows
    <2>3. \A p \in Products, d \in Span(Current.file) : Lags(<<p, d>>) => Split(<<p, d>>)
      BY <2>1 DEF RebuildInv
    <2> QED BY <2>2, <2>3
  <1> QED BY <1>1, TypeCorrect, RebuildInvariant, StoredInvariant, PTL DEF Spec, CompletionRepairs
=============================================================================
