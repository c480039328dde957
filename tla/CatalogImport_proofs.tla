------------------------- MODULE CatalogImport_proofs -------------------------
(***************************************************************************)
(* For any files, any number of imports and any way they overlap, raise    *)
(* and die: what the catalog says of a product comes from one file, an     *)
(* article has one row and its family, save where two imports overlap.     *)
(* The invariant says what an import knows at each phase: the families it  *)
(* brought are saved before it resolves its rows, a row it found is still  *)
(* there, and an identity it did not find was in no row it read.           *)
(***************************************************************************)
EXTENDS CatalogImport, WellFoundedInduction, TLAPS

\* LastRow as a function of the file, what is known and the identity alone.
RowOf(f, resolved, k) ==
    LET n == CHOOSE n \in Usable(f) :
                /\ f.rows[n].identity = k
                /\ \A m \in Usable(f) : f.rows[m].identity = k => m <= n
    IN  ProductFromRow(f.rows[n], resolved)

Brought(f) == FamilyIds(f) \cap f.families
Over == {"reporting", "failing", "failed", "pending", "completed"}

\* What a selection of products found: rows that stay, and for an identity
\* without a target no row at all.
Looked(i) ==
    /\ \A p \in ProductIds : seen[i][p] # Absent =>
          seen[i][p].identity = p[2] /\ products[p] # Absent
    /\ \A k \in Touched(i) :
          \/ target[i][k] = None /\ \A p \in ProductIds : seen[i][p].identity # k
          \/ target[i][k] \in ProductIds /\ seen[i][target[i][k]].identity = k

Knows(i) ==
    /\ phase[i] = "saved" => file[i].families \subseteq families
    /\ (phase[i] \in {"parsed", "upserting"} \/ i \in committed) => Brought(file[i]) \subseteq known[i]
    /\ known[i] \subseteq families
    /\ i \in committed => phase[i] \in Over
    /\ phase[i] = "upserting" => Looked(i)

\* A row is of the article its id says, and its import has committed.
Named == \A p \in ProductIds : products[p] # Absent =>
    products[p].identity = p[2] /\ p[1] \in committed

Whole(i) == \A k \in Touched(i) : \E p \in ProductIds : products[p].identity = k

IInv ==
    /\ TypeOK
    /\ \A i \in Imports : Knows(i)
    /\ Named /\ RowsOfOneFile /\ OneRowPerIdentity
    /\ \A i \in committed : Whole(i)

-----------------------------------------------------------------------------
(* The rows of a file.                                                     *)

LEMMA LastIsRow ==
    ASSUME NEW i, NEW k
    PROVE  /\ LastRow(i, k) = RowOf(file[i], known[i], k)
           /\ LastRow(i, k)' = RowOf(file'[i], known'[i], k)
BY DEF LastRow, RowOf, Usable

LEMMA Largest ==
    ASSUME NEW n \in Nat, NEW S \in SUBSET (1 .. n), S # {}
    PROVE  \E j \in S : \A m \in S : m <= j
<1> DEFINE T == {n - j : j \in S}
<1>1. T \in SUBSET Nat /\ T # {}
  OBVIOUS
<1>2. \E t \in T : \A u \in T : <<u, t>> \notin OpToRel(<, Nat)
  BY <1>1, NatLessThanWellFounded, WFMin
<1>3. \A u, t \in Nat : u < t => <<u, t>> \in OpToRel(<, Nat)
  BY DEF OpToRel
<1>4. PICK t \in T : \A u \in T : ~ (u < t)
  BY <1>1, <1>2, <1>3
<1>5. PICK j \in S : t = n - j
  BY <1>4
<1>6. \A m \in S : n - m \in T
  OBVIOUS
<1>7. \A m \in S : ~ (n - m < n - j)
  BY <1>4, <1>5, <1>6
<1> QED BY <1>7

LEMMA RowKept ==
    ASSUME CatalogAssumption, NEW f \in File, NEW resolved \in SUBSET Families,
           NEW k \in {f.rows[n].identity : n \in Usable(f)}
    PROVE  /\ RowOf(f, resolved, k) \in Stored
           /\ RowOf(f, resolved, k).identity = k
           /\ RowOf(f, resolved, k).link \in resolved \cup {None}
           /\ (Brought(f) \subseteq resolved /\ RowOf(f, resolved, k).family \in f.families)
                => RowOf(f, resolved, k).link # None
<1> DEFINE S == {n \in Usable(f) : f.rows[n].identity = k}
<1>1. f.rows \in Seq(Row) /\ f.families \subseteq Families
  BY DEF File
<1>2. DOMAIN f.rows = 1 .. Len(f.rows) /\ Len(f.rows) \in Nat
  BY <1>1
<1>3. S \in SUBSET (1 .. Len(f.rows)) /\ S # {}
  BY <1>2 DEF Usable
<1>4. \E j \in S : \A m \in S : m <= j
  BY <1>2, <1>3, Largest
<1> DEFINE n == CHOOSE n \in Usable(f) :
                    /\ f.rows[n].identity = k
                    /\ \A m \in Usable(f) : f.rows[m].identity = k => m <= n
<1>5. n \in Usable(f) /\ f.rows[n].identity = k
  BY <1>4
<1>6. RowOf(f, resolved, k) = ProductFromRow(f.rows[n], resolved)
  BY DEF RowOf
<1> HIDE DEF n, S
<1>7. n \in DOMAIN f.rows /\ f.rows[n] \in Row /\ f.rows[n].identity # None
  BY <1>1, <1>2, <1>5 DEF Usable
<1>8. f.rows[n].family # None => f.rows[n].family \in FamilyIds(f)
  BY <1>7 DEF FamilyIds
<1> QED BY <1>1, <1>5, <1>6, <1>7, <1>8
        DEF ProductFromRow, Stored, Row, Brought, CatalogAssumption

LEMMA FilesAre ==
    ASSUME CatalogAssumption, TypeOK, NEW i \in Imports
    PROVE  /\ file[i] \in File /\ known[i] \in SUBSET Families
           /\ Touched(i) = {file[i].rows[n].identity : n \in Usable(file[i])}
           /\ Touched(i) \subseteq Identities
<1>1. NoFile \in File
  BY DEF NoFile, File
<1>2. file[i] \in File
  BY <1>1 DEF TypeOK, CatalogAssumption
<1>3. file[i].rows \in Seq(Row)
  BY <1>2 DEF File
<1>4. \A n \in Usable(file[i]) : file[i].rows[n] \in Row /\ file[i].rows[n].identity # None
  BY <1>3 DEF Usable
<1>5. Touched(i) = {file[i].rows[n].identity : n \in Usable(file[i])}
  BY DEF Touched
<1>6. Touched(i) \subseteq Identities
  BY <1>4, <1>5 DEF Row
<1> QED BY <1>2, <1>5, <1>6 DEF TypeOK

\* What the import of a file would store for an article.
LEMMA RowsAre ==
    ASSUME CatalogAssumption, TypeOK, NEW i \in Imports, known[i] \subseteq families,
           NEW k \in Touched(i)
    PROVE  /\ LastRow(i, k) \in Stored /\ LastRow(i, k).identity = k
           /\ LastRow(i, k).link \in families \cup {None}
           /\ (Brought(file[i]) \subseteq known[i] /\ LastRow(i, k).family \in file[i].families)
                => LastRow(i, k).link # None
BY FilesAre, RowKept, LastIsRow

LEMMA Present ==
    ASSUME CatalogAssumption, TypeOK, NEW p \in ProductIds
    PROVE  /\ products[p] # Absent <=> products[p] \in Stored
           /\ products[p] # Absent <=> products[p].identity \in Identities
           /\ products[p] = Absent <=> products[p].identity = None
BY DEF TypeOK, Absent, Stored, CatalogAssumption

-----------------------------------------------------------------------------
(* The steps that leave the products alone.                                *)

LEMMA Moves ==
    ASSUME CatalogAssumption, IInv, NEW i \in Imports, NEW q \in Phases,
           phase' = [phase EXCEPT ![i] = q],
           families \subseteq families', families' \subseteq Families,
           UNCHANGED <<products, history>>,
           file' \in [Imports -> Files \cup {NoFile}],
           listed' \in [Imports -> SUBSET Families], known' \in [Imports -> SUBSET Families],
           seen' \in [Imports -> [ProductIds -> Stored \cup {Absent}]],
           target' \in [Imports -> [Identities -> ProductIds \cup {None}]],
           \A j \in Imports \ {i} :
              /\ file'[j] = file[j] /\ known'[j] = known[j]
              /\ seen'[j] = seen[j] /\ target'[j] = target[j],
           i \in committed => file'[i] = file[i] /\ known'[i] = known[i],
           Knows(i)'
    PROVE  IInv'
<1>1. /\ TypeOK /\ Named /\ RowsOfOneFile /\ OneRowPerIdentity
      /\ \A j \in Imports : Knows(j)
      /\ \A j \in committed : Whole(j)
  BY DEF IInv
<1>2. /\ products' = products /\ committed' = committed /\ raced' = raced /\ twins' = twins
      /\ committed \subseteq Imports
  BY <1>1 DEF history, TypeOK
<1>3. TypeOK'
  BY <1>1, <1>2 DEF TypeOK
<1>4. ASSUME NEW j \in Imports PROVE Knows(j)'
  <2>1. CASE j = i
    BY <2>1
  <2>2. CASE j # i
    <3>1. /\ phase'[j] = phase[j] /\ file'[j] = file[j] /\ known'[j] = known[j]
          /\ seen'[j] = seen[j] /\ target'[j] = target[j]
      BY <1>1, <2>2 DEF TypeOK
    <3>2. Touched(j)' = Touched(j)
      BY <3>1 DEF Touched, Usable
    <3>3. Looked(j) => Looked(j)'
      BY <1>2, <3>1, <3>2 DEF Looked
    <3>4. Knows(j)
      BY <1>1
    <3> QED BY <1>2, <3>1, <3>3, <3>4 DEF Knows
  <2> QED BY <2>1, <2>2
<1>5. \A j \in committed : file'[j] = file[j] /\ known'[j] = known[j]
  BY <1>2
<1>6. \A j \in committed : Touched(j)' = Touched(j) /\ \A k : LastRow(j, k)' = LastRow(j, k)
  <2> SUFFICES ASSUME NEW j \in committed
               PROVE  Touched(j)' = Touched(j) /\ \A k : LastRow(j, k)' = LastRow(j, k)
    OBVIOUS
  <2>1. Touched(j)' = Touched(j)
    BY <1>5 DEF Touched, Usable
  <2> QED BY <1>5, <2>1, LastIsRow
<1>7. Named' /\ OneRowPerIdentity'
  BY <1>1, <1>2 DEF Named, OneRowPerIdentity
<1>8. RowsOfOneFile'
  BY <1>1, <1>2, <1>6 DEF RowsOfOneFile
<1>9. \A j \in committed' : Whole(j)'
  BY <1>1, <1>2, <1>6 DEF Whole
<1> QED BY <1>3, <1>4, <1>7, <1>8, <1>9 DEF IInv

\* Of the import that moves, what each step needs.
LEMMA Here ==
    ASSUME CatalogAssumption, IInv, NEW i \in Imports
    PROVE  /\ TypeOK /\ Knows(i)
           /\ phase \in [Imports -> Phases] /\ families \subseteq Families
           /\ file \in [Imports -> Files \cup {NoFile}]
           /\ listed \in [Imports -> SUBSET Families] /\ known \in [Imports -> SUBSET Families]
           /\ seen \in [Imports -> [ProductIds -> Stored \cup {Absent}]]
           /\ target \in [Imports -> [Identities -> ProductIds \cup {None}]]
BY DEF IInv, TypeOK

LEMMA RegisterKeeps ==
    ASSUME CatalogAssumption, IInv, NEW i \in Imports, Register(i)
    PROVE  IInv'
<1>1. /\ phase[i] = "none" /\ phase' = [phase EXCEPT ![i] = "started"]
      /\ UNCHANGED <<tables, listed, known, seen, target, history>>
  BY DEF Register, Goes
<1>2. PICK f \in Files : file' = [file EXCEPT ![i] = f]
  BY DEF Register
<1>3. i \notin committed
  BY <1>1, Here DEF Knows, Over
<1>4. Knows(i)'
  BY <1>1, <1>3, Here DEF Knows, tables, history
<1>5. /\ file' \in [Imports -> Files \cup {NoFile}]
      /\ \A j \in Imports \ {i} : file'[j] = file[j]
      /\ "started" \in Phases
  BY <1>2, Here DEF Phases, Trying
<1>6. UNCHANGED <<families, products, listed, known, seen, target, history>>
  BY <1>1 DEF tables
<1> QED BY <1>1, <1>3, <1>4, <1>5, <1>6, Here, Moves

\* A step that only moves an import on.
LEMMA PhaseKeeps ==
    ASSUME CatalogAssumption, IInv, NEW i \in Imports, NEW q \in Phases,
           phase' = [phase EXCEPT ![i] = q], q \notin {"parsed", "upserting"},
           i \in committed => q \in Over,
           q = "saved" => file[i].families = {},
           UNCHANGED <<tables, file, listed, known, history>>,
           seen' \in [Imports -> [ProductIds -> Stored \cup {Absent}]],
           target' \in [Imports -> [Identities -> ProductIds \cup {None}]],
           \A j \in Imports \ {i} : seen'[j] = seen[j] /\ target'[j] = target[j]
    PROVE  IInv'
<1>1. Knows(i)'
  BY Here DEF Knows, tables, history
<1> QED BY <1>1, Here, Moves DEF tables

LEMMA FamiliesKeep ==
    ASSUME CatalogAssumption, IInv, NEW i \in Imports,
           SelectFamilies(i) \/ CommitFamilies(i) \/ NoFamiliesFile(i)
    PROVE  IInv'
<1>1. phase[i] \in {"started", "families"} /\ i \notin committed
  BY Here DEF SelectFamilies, CommitFamilies, NoFamiliesFile, Goes, Knows, Over
<1>2. CASE SelectFamilies(i)
  <2>1. /\ phase' = [phase EXCEPT ![i] = "families"]
        /\ listed' = [listed EXCEPT ![i] = families \cap file[i].families]
        /\ UNCHANGED <<tables, file, known, seen, target, history>>
    BY <1>2 DEF SelectFamilies, Goes
  <2>2. Knows(i)'
    BY <1>1, <2>1, Here DEF Knows, tables, history
  <2> QED BY <1>1, <2>1, <2>2, Here, Moves DEF tables, Phases, Trying
<1>3. CASE NoFamiliesFile(i)
  <2>1. /\ phase' = [phase EXCEPT ![i] = "saved"] /\ file[i].families = {} /\ "saved" \in Phases
        /\ UNCHANGED <<tables, file, listed, known, seen, target, history>>
    BY <1>3 DEF NoFamiliesFile, Goes, Phases, Trying
  <2> QED BY <1>1, <2>1, Here, PhaseKeeps
<1>4. CASE CommitFamilies(i)
  <2>1. UNCHANGED <<products, file, listed, known, seen, target, history>>
    BY <1>4 DEF CommitFamilies
  <2>2. CASE families' = families \cup file[i].families /\ phase' = [phase EXCEPT ![i] = "saved"]
    <3>1. file[i].families \subseteq Families
      BY Here, FilesAre DEF File
    <3>2. Knows(i)'
      BY <1>1, <2>1, <2>2, Here DEF Knows, history
    <3>3. /\ "saved" \in Phases /\ families \subseteq families' /\ families' \subseteq Families
      BY <2>2, <3>1, Here DEF Phases, Trying
    <3> QED BY <1>1, <2>1, <2>2, <3>2, <3>3, Here, Moves
  <2>3. CASE families' = families /\ phase' = [phase EXCEPT ![i] = "failing"]
    <3>1. "failing" \in Phases /\ UNCHANGED <<tables, file, listed, known, seen, target, history>>
      BY <2>1, <2>3 DEF tables, Phases
    <3> QED BY <1>1, <2>3, <3>1, Here, PhaseKeeps
  <2> QED BY <1>4, <2>2, <2>3 DEF CommitFamilies, Goes
<1> QED BY <1>2, <1>3, <1>4

\* The families the file brought are saved by now, so its rows find them.
LEMMA ReadFamiliesKeeps ==
    ASSUME CatalogAssumption, IInv, NEW i \in Imports, ReadFamilies(i)
    PROVE  IInv'
<1>1. /\ phase[i] = "saved" /\ phase' = [phase EXCEPT ![i] = "parsed"]
      /\ known' = [known EXCEPT ![i] = families \cap FamilyIds(file[i])]
      /\ UNCHANGED <<tables, file, listed, seen, target, history>>
  BY DEF ReadFamilies, Goes
<1>2. i \notin committed /\ file[i].families \subseteq families
  BY <1>1, Here DEF Knows, Over
<1>3. Brought(file[i]) \subseteq families \cap FamilyIds(file[i])
  BY <1>2 DEF Brought
<1>4. Knows(i)'
  BY <1>1, <1>2, <1>3, Here DEF Knows, tables, history
<1> QED BY <1>1, <1>2, <1>4, Here, Moves DEF tables, Phases, Trying

LEMMA SelectProductsKeeps ==
    ASSUME CatalogAssumption, IInv, NEW i \in Imports, SelectProducts(i)
    PROVE  IInv'
<1>1. /\ phase[i] = "parsed" /\ phase' = [phase EXCEPT ![i] = "upserting"]
      /\ seen' = [seen EXCEPT ![i] = products]
      /\ UNCHANGED <<tables, file, listed, known, history>>
  BY DEF SelectProducts, Goes
<1>2. PICK t \in [Identities -> ProductIds \cup {None}] :
        /\ \A k \in Identities :
            IF Matching(k) = {} \/ k \notin Touched(i) THEN t[k] = None ELSE t[k] \in Matching(k)
        /\ target' = [target EXCEPT ![i] = t]
  BY DEF SelectProducts
<1>3. i \notin committed
  BY <1>1, Here DEF Knows, Over
<1>4. seen'[i] = products /\ target'[i] = t /\ products' = products /\ Touched(i)' = Touched(i)
  BY <1>1, <1>2, Here DEF tables, Touched, Usable
<1>5. Touched(i) \subseteq Identities
  BY Here, FilesAre
<1>6. Looked(i)'
  <2>1. \A p \in ProductIds : products[p] # Absent => products[p].identity = p[2]
    BY DEF IInv, Named
  <2>2. \A k \in Touched(i) :
          \/ t[k] = None /\ \A p \in ProductIds : products[p].identity # k
          \/ t[k] \in ProductIds /\ products[t[k]].identity = k
    BY <1>2, <1>5 DEF Matching, Holding
  <2> QED BY <1>4, <2>1, <2>2 DEF Looked
<1>7. Knows(i)'
  BY <1>1, <1>3, <1>6, Here DEF Knows, tables, history
<1>8. products \in [ProductIds -> Stored \cup {Absent}]
  BY Here DEF TypeOK
<1> QED BY <1>1, <1>2, <1>3, <1>7, <1>8, Here, Moves DEF tables, Phases, Trying

LEMMA EndsKeep ==
    ASSUME CatalogAssumption, IInv, NEW i \in Imports,
           Complete(i) \/ MarkFailed(i) \/ Raise(i) \/ Die(i)
    PROVE  IInv'
<1>1. NoProducts \in [ProductIds -> Stored \cup {Absent}]
      /\ NoTarget \in [Identities -> ProductIds \cup {None}]
  BY DEF NoProducts, NoTarget
<1>2. PICK q \in {"completed", "failed", "failing", "pending"} : phase' = [phase EXCEPT ![i] = q]
  BY DEF Complete, MarkFailed, Raise, Die, Goes
<1>3. UNCHANGED <<tables, file, listed, known, history>>
  BY DEF Complete, MarkFailed, Raise, Die
<1>4. /\ seen' \in {seen, [seen EXCEPT ![i] = NoProducts]}
      /\ target' \in {target, [target EXCEPT ![i] = NoTarget]}
  BY DEF Complete, MarkFailed, Raise, Die
<1>5. /\ seen' \in [Imports -> [ProductIds -> Stored \cup {Absent}]]
      /\ target' \in [Imports -> [Identities -> ProductIds \cup {None}]]
      /\ \A j \in Imports \ {i} : seen'[j] = seen[j] /\ target'[j] = target[j]
  <2>1. CASE seen' = seen
    <3>1. CASE target' = target
      BY <2>1, <3>1, Here
    <3>2. CASE target' = [target EXCEPT ![i] = NoTarget]
      BY <1>1, <2>1, <3>2, Here
    <3> QED BY <1>4, <3>1, <3>2
  <2>2. CASE seen' = [seen EXCEPT ![i] = NoProducts]
    <3>1. /\ seen' \in [Imports -> [ProductIds -> Stored \cup {Absent}]]
          /\ \A j \in Imports \ {i} : seen'[j] = seen[j]
      BY <1>1, <2>2, Here
    <3>2. CASE target' = target
      BY <3>1, <3>2, Here
    <3>3. CASE target' = [target EXCEPT ![i] = NoTarget]
      BY <1>1, <3>1, <3>3, Here
    <3> QED BY <1>4, <3>2, <3>3
  <2> QED BY <1>4, <2>1, <2>2
<1>6. q \in Phases /\ q \in Over /\ q \notin {"parsed", "upserting", "saved"}
  BY <1>2 DEF Phases, Over
<1> QED BY <1>2, <1>3, <1>5, <1>6, PhaseKeeps

-----------------------------------------------------------------------------
(* The commit of the products.                                             *)

LEMMA RowApplied ==
    ASSUME CatalogAssumption, NEW row \in Stored, NEW before \in Stored, NEW after \in Stored,
           row.identity = before.identity, after.identity = before.identity
    PROVE  /\ Apply(row, before, after) \in Stored
           /\ Apply(row, before, after).identity = before.identity
           /\ Apply(row, before, after).link \in {row.link, after.link}
           /\ row = before => Apply(row, before, after) = after
           /\ after = before => Apply(row, before, after) = row
<1> DEFINE pick(a, b, c) == IF a = b THEN c ELSE a
           it == [identity |-> pick(after.identity, before.identity, row.identity),
                  family |-> pick(after.family, before.family, row.family),
                  link |-> pick(after.link, before.link, row.link),
                  price |-> pick(after.price, before.price, row.price),
                  stock |-> pick(after.stock, before.stock, row.stock)]
<1>1. DOMAIN after = {"identity", "family", "link", "price", "stock"}
  BY DEF Stored
<1>2. Apply(row, before, after) = it
  BY <1>1 DEF Apply
<1>3. \A r \in Stored : r = [identity |-> r.identity, family |-> r.family, link |-> r.link,
                              price |-> r.price, stock |-> r.stock]
  BY DEF Stored
<1>4. it \in Stored
  BY DEF Stored
<1>5. row = before => it = after
  BY <1>3
<1>6. after = before => it = row
  BY <1>3
<1> QED BY <1>2, <1>4, <1>5, <1>6

\* A product the import found is still there, under the identity read.
LEMMA FoundOnes ==
    ASSUME CatalogAssumption, IInv, NEW i \in Imports, phase[i] = "upserting",
           NEW p \in Found(i)
    PROVE  /\ p \in ProductIds /\ p[2] \in Touched(i)
           /\ seen[i][p] \in Stored /\ seen[i][p].identity = p[2]
           /\ products[p] \in Stored /\ products[p].identity = p[2]
<1>1. TypeOK /\ Looked(i)
  BY Here DEF Knows
<1>2. PICK k \in Touched(i) : p = target[i][k] /\ p # None
  BY DEF Found
<1>3. p \in ProductIds /\ seen[i][p].identity = k
  BY <1>1, <1>2 DEF Looked
<1>4. k \in Identities
  BY <1>1, <1>2, FilesAre
<1>5. seen[i][p] \in Stored
  BY <1>1, <1>3, <1>4 DEF TypeOK, Absent, CatalogAssumption
<1>6. seen[i][p] # Absent
  BY <1>3, <1>4 DEF Absent, CatalogAssumption
<1>7. seen[i][p].identity = p[2] /\ products[p] # Absent
  BY <1>1, <1>3, <1>6 DEF Looked
<1>8. products[p] \in Stored /\ products[p].identity = p[2]
  BY <1>1, <1>3, <1>7 DEF IInv, Named, TypeOK
<1> QED BY <1>2, <1>3, <1>5, <1>7, <1>8

\* The rows after the commit: applied to those found, new for those that
\* were not, and the rest as they were.
Result(i) == [p \in ProductIds |-> Upserted(i, p)]

LEMMA FamilyLinks ==
    ASSUME IInv, NEW p \in ProductIds, products[p] # Absent
    PROVE  products[p].link \in families \cup {None}
BY DEF IInv, TypeOK

LEMMA Upserts ==
    ASSUME CatalogAssumption, IInv, NEW i \in Imports, phase[i] = "upserting",
           NEW p \in ProductIds
    PROVE  \/ /\ p \in Found(i) /\ p[2] \in Touched(i)
              /\ products[p] \in Stored /\ Upserted(i, p) \in Stored
              /\ Upserted(i, p).identity = p[2]
              /\ Upserted(i, p).link \in families \cup {None}
              /\ products[p] = seen[i][p] => Upserted(i, p) = LastRow(i, p[2])
              /\ p \notin Changed(i) => Upserted(i, p) = products[p]
           \/ /\ p \notin Found(i) /\ p[1] = i /\ p[2] \in Fresh(i)
              /\ products[p] = Absent /\ Upserted(i, p) = LastRow(i, p[2])
              /\ Upserted(i, p) \in Stored /\ Upserted(i, p).identity = p[2]
              /\ Upserted(i, p).link \in families \cup {None}
           \/ /\ p \notin Found(i) /\ ~ (p[1] = i /\ p[2] \in Fresh(i))
              /\ Upserted(i, p) = products[p]
<1>1. TypeOK /\ Knows(i) /\ known[i] \subseteq families /\ i \notin committed
  BY Here DEF Knows, Over
<1>2. CASE p \in Found(i)
  <2>1. /\ p[2] \in Touched(i)
        /\ seen[i][p] \in Stored /\ seen[i][p].identity = p[2]
        /\ products[p] \in Stored /\ products[p].identity = p[2]
    BY <1>2, FoundOnes
  <2>2. /\ LastRow(i, p[2]) \in Stored /\ LastRow(i, p[2]).identity = p[2]
        /\ LastRow(i, p[2]).link \in families \cup {None}
    BY <1>1, <2>1, RowsAre
  <2>4. products[p] # Absent
    BY <1>1, <2>1, Present
  <2>8. p[1] # i
    BY <1>1, <2>4 DEF IInv, Named
  <2>3. Upserted(i, p) = Apply(products[p], seen[i][p], LastRow(i, p[2]))
    <3>1. Upserted(i, p) = Apply(products[p], seen[i][p], LastRow(i, seen[i][p].identity))
      BY <1>2, <2>8 DEF Upserted
    <3> QED BY <2>1, <3>1
  <2>5. products[p].link \in families \cup {None}
    BY <2>4, FamilyLinks
  <2>6. p \notin Changed(i) => LastRow(i, p[2]) = seen[i][p]
    BY <1>2, <2>1 DEF Changed
  <2> DEFINE after == LastRow(i, p[2])
             it == Apply(products[p], seen[i][p], after)
  <2> HIDE DEF after, it
  <2>7. /\ it \in Stored /\ it.identity = p[2] /\ it.link \in {products[p].link, after.link}
        /\ products[p] = seen[i][p] => it = after
        /\ after = seen[i][p] => it = products[p]
    BY <2>1, <2>2, RowApplied DEF after, it
  <2> QED BY <1>2, <2>1, <2>2, <2>3, <2>5, <2>6, <2>7 DEF after, it
<1>3. CASE p \notin Found(i) /\ p[1] = i /\ p[2] \in Fresh(i)
  <2>1. products[p] = Absent
    BY <1>1, <1>3 DEF IInv, Named
  <2>2. p[2] \in Touched(i)
    BY <1>3 DEF Fresh
  <2>3. Upserted(i, p) = LastRow(i, p[2])
    BY <1>3 DEF Upserted
  <2>4. /\ LastRow(i, p[2]) \in Stored /\ LastRow(i, p[2]).identity = p[2]
        /\ LastRow(i, p[2]).link \in families \cup {None}
    BY <1>1, <2>2, RowsAre
  <2> QED BY <1>3, <2>1, <2>3, <2>4
<1>4. CASE p \notin Found(i) /\ ~ (p[1] = i /\ p[2] \in Fresh(i))
  BY <1>4 DEF Upserted
<1> QED BY <1>2, <1>3, <1>4

LEMMA CommitProductsKeeps ==
    ASSUME CatalogAssumption, IInv, NEW i \in Imports, CommitProducts(i)
    PROVE  IInv'
<1>1. /\ phase[i] = "upserting"
      /\ seen' = [seen EXCEPT ![i] = NoProducts] /\ target' = [target EXCEPT ![i] = NoTarget]
      /\ UNCHANGED <<families, file, listed, known>>
  BY DEF CommitProducts
<1>2. /\ NoProducts \in [ProductIds -> Stored \cup {Absent}]
      /\ NoTarget \in [Identities -> ProductIds \cup {None}]
  BY DEF NoProducts, NoTarget
<1>3. /\ seen' \in [Imports -> [ProductIds -> Stored \cup {Absent}]]
      /\ target' \in [Imports -> [Identities -> ProductIds \cup {None}]]
      /\ \A j \in Imports \ {i} : seen'[j] = seen[j] /\ target'[j] = target[j]
  BY <1>1, <1>2, Here
<1>4. /\ TypeOK /\ Knows(i) /\ Looked(i) /\ i \notin committed
      /\ Brought(file[i]) \subseteq known[i]
  BY <1>1, Here DEF Knows, Over
<1>5. CASE \E k \in Fresh(i) \cap ExternalIds : Holding(k) # {}
  <2>1. /\ phase' = [phase EXCEPT ![i] = "failing"] /\ UNCHANGED <<products, history>>
        /\ "failing" \in Phases
    BY <1>5 DEF CommitProducts, Goes, Phases
  <2>2. "failing" \notin {"parsed", "upserting"} /\ "failing" # "saved"
    OBVIOUS
  <2>3. UNCHANGED <<tables, file, listed, known, history>>
    BY <1>1, <2>1 DEF tables
  <2> DEFINE q == "failing"
  <2>4. /\ q \in Phases /\ phase' = [phase EXCEPT ![i] = q] /\ q \notin {"parsed", "upserting"}
        /\ q # "saved"
    BY <2>1, <2>2
  <2> HIDE DEF q
  <2> QED BY <1>3, <1>4, <2>3, <2>4, PhaseKeeps
<1>6. CASE \A k \in Fresh(i) \cap ExternalIds : Holding(k) = {}
  <2>1. /\ products' = [p \in ProductIds |-> Upserted(i, p)]
        /\ phase' = [phase EXCEPT ![i] = "reporting"]
        /\ committed' = committed \cup {i}
        /\ raced' = (raced \ {p \in Found(i) : products[p] = seen[i][p]})
                        \cup {p \in Changed(i) : products[p] # seen[i][p]}
        /\ twins' = twins \cup {k \in Fresh(i) : Holding(k) # {}
                                /\ \A p \in ProductIds : seen[i][p].identity # k}
    BY <1>6 DEF CommitProducts, Goes
  <2>2. \A p \in ProductIds : products'[p] = Upserted(i, p)
    BY <2>1
  <2>3. ASSUME NEW j \in Imports
        PROVE  /\ phase'[j] = IF j = i THEN "reporting" ELSE phase[j]
               /\ Touched(j)' = Touched(j) /\ known'[j] = known[j] /\ file'[j] = file[j]
               /\ \A k : LastRow(j, k)' = LastRow(j, k)
    <3>1. phase'[j] = IF j = i THEN "reporting" ELSE phase[j]
      BY <2>1, Here
    <3>2. file'[j] = file[j] /\ known'[j] = known[j]
      BY <1>1
    <3>3. Touched(j)' = Touched(j)
      BY <1>1 DEF Touched, Usable
    <3> QED BY <3>1, <3>2, <3>3, LastIsRow
  \* Rows stay, and each is of the article of its id.
  <2>4. ASSUME NEW p \in ProductIds
        PROVE  /\ products[p] # Absent => products'[p] # Absent
               /\ products'[p] \in Stored \cup {Absent}
               /\ products'[p] # Absent =>
                     /\ products'[p].identity = p[2] /\ p[1] \in committed'
                     /\ products'[p].link \in families \cup {None}
    <3>1. products[p] \in Stored \cup {Absent}
      BY <1>4 DEF TypeOK
    <3>2. products[p] # Absent => products[p].identity = p[2] /\ p[1] \in committed
      BY DEF IInv, Named
    <3>3. \A row \in Stored : row # Absent
      BY DEF Stored, Absent, CatalogAssumption
    <3>4. products[p] # Absent => products[p].link \in families \cup {None}
      BY FamilyLinks
    <3>5. p[2] \in Fresh(i) /\ p[1] = i => p[1] \in committed'
      BY <2>1
    <3>6. committed \subseteq committed' /\ products'[p] = Upserted(i, p)
      BY <2>1, <2>2
    <3>7. CASE Upserted(i, p) = products[p]
      BY <3>1, <3>2, <3>4, <3>6, <3>7
    <3>8. CASE /\ Upserted(i, p) \in Stored /\ Upserted(i, p).identity = p[2]
               /\ Upserted(i, p).link \in families \cup {None} /\ p[1] \in committed'
      BY <3>3, <3>6, <3>8
    <3>9. p \in Found(i) => p[1] \in committed
      <4>1. p \in Found(i) => products[p] \in Stored
        BY <1>1, FoundOnes
      <4> QED BY <3>2, <3>3, <4>1
    <3> QED BY <1>1, <3>5, <3>6, <3>7, <3>8, <3>9, Upserts
  <2>5. TypeOK'
    <3>1. /\ "reporting" \in Phases /\ Found(i) \subseteq ProductIds /\ Changed(i) \subseteq ProductIds
          /\ Fresh(i) \subseteq Identities
      BY <1>1, <1>4, FoundOnes, FilesAre DEF Phases, Trying, Changed, Fresh
    <3>2. phase' \in [Imports -> Phases]
      BY <2>1, <3>1, Here
    <3>3. committed' \subseteq Imports /\ raced' \subseteq ProductIds /\ twins' \subseteq Identities
      BY <1>4, <2>1, <3>1 DEF TypeOK
    <3>4. /\ products' \in [ProductIds -> Stored \cup {Absent}]
          /\ \A p \in ProductIds : products'[p] # Absent => products'[p].link \in families \cup {None}
      BY <2>1, <2>4
    <3> QED BY <1>1, <1>3, <1>4, <3>2, <3>3, <3>4 DEF TypeOK
  <2>6. ASSUME NEW j \in Imports PROVE Knows(j)'
    <3>1. Knows(j)
      BY DEF IInv
    <3>2. CASE j = i
      BY <1>1, <1>4, <2>1, <2>3, <3>1, <3>2 DEF Knows, Over
    <3>3. CASE j # i
      <4>1. Looked(j) => Looked(j)'
        <5>1. seen'[j] = seen[j] /\ target'[j] = target[j] /\ Touched(j)' = Touched(j)
          BY <1>3, <2>3, <3>3
        <5>2. \A p \in ProductIds : products[p] # Absent => products'[p] # Absent
          BY <2>4
        <5> QED BY <5>1, <5>2 DEF Looked
      <4> QED BY <1>1, <2>1, <2>3, <3>1, <3>3, <4>1 DEF Knows
    <3> QED BY <3>2, <3>3
  <2>7. Named'
    BY <2>4 DEF Named
  <2>8. RowsOfOneFile'
    <3> SUFFICES ASSUME NEW p \in ProductIds, p \notin raced', products'[p] # Absent
                 PROVE  \E j \in committed' : p[2] \in Touched(j) /\ products'[p] = LastRow(j, p[2])
      <4>1. \A j \in committed' : j \in Imports
        BY <1>4, <2>1 DEF TypeOK
      <4>2. ASSUME NEW p \in ProductIds, NEW j \in committed',
                   p[2] \in Touched(j) /\ products'[p] = LastRow(j, p[2])
            PROVE  p[2] \in Touched(j)' /\ products'[p] = LastRow(j, p[2])'
        BY <2>3, <4>1, <4>2
      <4> QED BY <4>2 DEF RowsOfOneFile
    <3>1. CASE products'[p] = LastRow(i, p[2]) /\ p[2] \in Touched(i)
      BY <2>1, <3>1
    <3>2. CASE products'[p] = products[p] /\ p \notin raced
      BY <2>1, <3>2 DEF IInv, RowsOfOneFile
    <3>3. p \notin Found(i) => p \notin raced
      BY <2>1
    <3>4. p \in Found(i) /\ products[p] # seen[i][p] => p \notin raced /\ p \notin Changed(i)
      BY <2>1
    <3>5. Fresh(i) \subseteq Touched(i)
      BY DEF Fresh
    <3> QED BY <1>1, <2>2, <3>1, <3>2, <3>3, <3>4, <3>5, Upserts
  <2>9. OneRowPerIdentity'
    <3> SUFFICES ASSUME NEW p \in ProductIds, NEW q \in ProductIds, p # q,
                        products'[p] # Absent, products'[q] # Absent, p[2] = q[2]
                 PROVE  p[2] \in Barcodes \cap twins'
      <4>1. \A p \in ProductIds : products'[p] # Absent => products'[p].identity = p[2]
        BY <2>4
      <4> SUFFICES ASSUME NEW p \in ProductIds, NEW q \in ProductIds, p # q,
                          products'[p] # Absent, products'[p].identity = products'[q].identity
                   PROVE  products'[p].identity \in Barcodes \cap twins'
        BY DEF OneRowPerIdentity
      <4>2. products'[q] # Absent
        <5>1. products'[p].identity \in Identities
          BY <4>1 DEF ProductIds
        <5> QED BY <5>1 DEF Absent, CatalogAssumption
      <4> QED BY <4>1, <4>2
    \* One of the two new: what the import did not find, another had saved.
    <3>1. ASSUME NEW r \in ProductIds, NEW s \in ProductIds, r[1] = i, r[2] \in Fresh(i),
                 products[s] # Absent, s[2] = r[2]
          PROVE  r[2] \in Barcodes \cap twins'
      <4>1. s \in Holding(r[2])
        BY <3>1 DEF IInv, Named, Holding
      <4>2. r[2] \in Identities \ ExternalIds
        BY <1>4, <1>6, <3>1, <4>1, FilesAre DEF Fresh
      <4>3. \A t \in ProductIds : seen[i][t].identity # r[2]
        BY <1>4, <3>1, <4>2 DEF Fresh, Looked, CatalogAssumption, ProductIds, Imports
      <4> QED BY <2>1, <3>1, <4>1, <4>2, <4>3 DEF Identities
    <3>2. \A r \in ProductIds : products'[r] # Absent =>
             products[r] # Absent \/ (r[1] = i /\ r[2] \in Fresh(i))
      BY <1>1, <1>4, <2>2, Upserts, Present
    <3>3. CASE products[p] # Absent /\ products[q] # Absent
      <4>1. products[p].identity = p[2] /\ products[q].identity = p[2]
        BY <3>3 DEF IInv, Named
      <4>2. p[2] \in Barcodes \cap twins
        BY <3>3, <4>1 DEF IInv, OneRowPerIdentity
      <4> QED BY <2>1, <4>2
    <3>4. CASE products[p] # Absent /\ q[1] = i /\ q[2] \in Fresh(i)
      BY <3>1, <3>4
    <3>5. CASE products[q] # Absent /\ p[1] = i /\ p[2] \in Fresh(i)
      BY <3>1, <3>5
    <3>6. CASE p[1] = i /\ q[1] = i
      BY <3>6 DEF ProductIds
    <3> QED BY <3>2, <3>3, <3>4, <3>5, <3>6
  <2>10. ASSUME NEW j \in committed' PROVE Whole(j)'
    <3>1. j \in Imports
      BY <1>4, <2>1 DEF TypeOK
    <3> SUFFICES ASSUME NEW k \in Touched(j)
                 PROVE  \E p \in ProductIds : products'[p].identity = k
      <4>1. Touched(j)' = Touched(j)
        BY <2>3, <3>1
      <4> QED BY <4>1 DEF Whole
    <3>2. k \in Identities
      BY <1>4, <3>1, FilesAre
    <3>3. CASE \E p \in ProductIds : products[p].identity = k
      <4>1. PICK p \in ProductIds : products[p].identity = k
        BY <3>3
      <4>2. products[p] # Absent
        BY <1>4, <3>2, <4>1, Present
      <4>3. products[p].identity = p[2]
        BY <4>2 DEF IInv, Named
      <4> QED BY <2>4, <4>1, <4>2, <4>3
    <3>4. CASE j = i /\ \A p \in ProductIds : products[p].identity # k
      <4>1. k \in Fresh(i)
        <5>1. target[i][k] = None \/ (target[i][k] \in ProductIds /\ seen[i][target[i][k]].identity = k)
          BY <1>4, <3>4 DEF Looked
        <5>2. CASE target[i][k] \in ProductIds /\ seen[i][target[i][k]].identity = k /\ target[i][k] # None
          <6>1. target[i][k] \in Found(i)
            BY <3>4, <5>2 DEF Found
          <6> QED BY <1>1, <3>4, <5>2, <6>1, FoundOnes
        <5> QED BY <3>4, <5>1, <5>2 DEF Fresh
      <4> DEFINE p == <<i, k>>
      <4>2. p \in ProductIds /\ p[1] = i /\ p[2] = k
        BY <3>2 DEF ProductIds
      <4>3. products[p] = Absent
        BY <1>4, <4>2 DEF IInv, Named
      <4>4. p \notin Found(i)
        BY <1>1, <1>4, <4>2, <4>3, FoundOnes, Present
      <4> HIDE DEF p
      <4> QED BY <1>1, <2>2, <4>1, <4>2, <4>3, <4>4, Upserts
    <3>5. CASE j # i
      BY <2>1, <3>3, <3>5 DEF IInv, Whole
    <3> QED BY <3>3, <3>4, <3>5
  <2> QED BY <2>5, <2>6, <2>7, <2>8, <2>9, <2>10 DEF IInv
<1> QED BY <1>5, <1>6

LEMMA Initially == ASSUME CatalogAssumption, Init PROVE IInv
<1>1. TypeOK
  BY DEF Init, TypeOK, NoProducts, NoTarget, Phases, Absent
<1>2. \A p \in ProductIds : products[p] = Absent
  BY DEF Init, NoProducts
<1>3. committed = {}
  BY DEF Init
<1>4. \A i \in Imports : Knows(i)
  BY <1>3 DEF Init, Knows
<1> QED BY <1>1, <1>2, <1>3, <1>4 DEF IInv, Named, RowsOfOneFile, OneRowPerIdentity

\* Every step keeps the invariant.
LEMMA Inductive ==
    ASSUME CatalogAssumption, IInv, [Next]_vars
    PROVE  IInv'
<1>1. CASE UNCHANGED vars
  <2>1. TypeOK' /\ Named' /\ OneRowPerIdentity'
    BY <1>1 DEF IInv, TypeOK, Named, OneRowPerIdentity, vars, tables, history
  <2>2. \A i \in Imports : Touched(i)' = Touched(i) /\ \A k : LastRow(i, k)' = LastRow(i, k)
    <3>1. file' = file /\ known' = known
      BY <1>1 DEF vars
    <3> QED BY <3>1, LastIsRow DEF Touched, Usable
  <2>3. \A i \in Imports : Knows(i)' /\ (Whole(i) => Whole(i)')
    BY <1>1, <2>2 DEF IInv, Knows, Looked, Whole, vars, tables, history
  <2>4. RowsOfOneFile'
    BY <1>1, <2>2 DEF IInv, RowsOfOneFile, vars, tables, history, TypeOK
  <2> QED BY <1>1, <2>1, <2>3, <2>4 DEF IInv, TypeOK, vars, history
<1>2. ASSUME NEW i \in Imports, Register(i) \/ Proceed(i) \/ Raise(i) \/ Die(i)
      PROVE  IInv'
  BY <1>2, RegisterKeeps, FamiliesKeep, ReadFamiliesKeeps, SelectProductsKeeps,
     CommitProductsKeeps, EndsKeep DEF Proceed
<1> QED BY <1>1, <1>2 DEF Next

THEOREM Invariant == Spec => []IInv
<1>1. Init => IInv
  BY Initially, CatalogAssumption
<1>2. IInv /\ [Next]_vars => IInv'
  BY Inductive, CatalogAssumption
<1> QED BY <1>1, <1>2, PTL DEF Spec

\* The tables keep their types, and a product links only to a family that
\* is saved.
THEOREM TypeCorrect == Spec => []TypeOK
<1>1. IInv => TypeOK
  BY DEF IInv
<1> QED BY <1>1, Invariant, PTL

\* Whatever overlaps, raises or dies, a product that no import wrote over a
\* version it had not read is in all its columns a row of one file.
THEOREM OneFile == Spec => []RowsOfOneFile
<1>1. IInv => RowsOfOneFile
  BY DEF IInv
<1> QED BY <1>1, Invariant, PTL

\* An article has one row, unless it has no POS id and two imports that
\* overlap inserted it.
THEOREM OneRow == Spec => []OneRowPerIdentity
<1>1. IInv => OneRowPerIdentity
  BY DEF IInv
<1> QED BY <1>1, Invariant, PTL

\* A file whose products are saved has a product for each usable row, and
\* the last row of each article has its family's link.
THEOREM FamiliesFirst == Spec => []ImportedWithItsFamilies
<1>1. ASSUME CatalogAssumption, IInv PROVE ImportedWithItsFamilies
  <2> SUFFICES ASSUME NEW i \in committed, NEW k \in Touched(i)
               PROVE  /\ Holding(k) # {}
                      /\ LastRow(i, k).family \in file[i].families => LastRow(i, k).link # None
    BY DEF ImportedWithItsFamilies
  <2>1. i \in Imports /\ TypeOK /\ known[i] \subseteq families /\ Brought(file[i]) \subseteq known[i]
    BY <1>1 DEF IInv, TypeOK, Knows
  <2>2. Holding(k) # {}
    BY <1>1 DEF IInv, Whole, Holding
  <2> QED BY <1>1, <2>1, <2>2, RowsAre
<1> QED BY <1>1, Invariant, CatalogAssumption, PTL
=============================================================================
