---------------------------- MODULE CatalogImport ----------------------------
(***************************************************************************)
(* PosCatalogImportService.import_csv over product_families, products and  *)
(* catalog_imports.                                                        *)
(*                                                                         *)
(* An import is recorded, its families are saved, the families of its rows *)
(* are read back, its products are saved and its result is written, each   *)
(* in a transaction of its own.  A transaction that saves selects what it  *)
(* knows and commits later.  Imports run on the event loop, on threads of  *)
(* the server and from the command line, so they may overlap; any call may *)
(* raise and the process may die.                                          *)
(*                                                                         *)
(* A row keeps its identity (the POS id or, without one, the barcode), its *)
(* family, and two columns, price and stock, that stand for all those an   *)
(* import writes; the category follows from the family and its link.       *)
(***************************************************************************)
EXTENDS Integers, Sequences, FiniteSets

CONSTANTS
    ExternalIds,    \* identities by id: unique in the table
    Barcodes,       \* identities by barcode, without id: only indexed
    Families,
    Prices, Stocks,
    None,
    Files,          \* the files imported
    MaxImports      \* bound: imports begun

Identities == ExternalIds \cup Barcodes
Row == [identity : Identities \cup {None}, family : Families \cup {None},
        price : Prices, stock : Stocks]
File == [rows : Seq(Row), families : SUBSET Families]

ASSUME CatalogAssumption ==
    /\ MaxImports \in Nat
    /\ ExternalIds \cap Barcodes = {}
    /\ None \notin Identities \cup Families \cup ((1..MaxImports) \X Identities)
    /\ Files \subseteq File

Imports == 1..MaxImports
ProductIds == Imports \X Identities     \* the import that made the row, and of what
Stored == [identity : Identities, family : Families \cup {None},
           link : Families \cup {None}, price : Prices, stock : Stocks]
Absent == [identity |-> None]

VARIABLES
    families,   \* product_families
    products,   \* products
    phase,      \* of each import: its status, or what the service does next
    file,       \* what it imports
    listed,     \* the families it selected before saving its own
    known,      \* the families it resolves its rows with
    seen,       \* the products it selected before saving its own
    target,     \* the row it found for each identity of its file
    committed,  \* history: the imports whose products are saved
    raced,      \* history: rows written over a version that was not the one read
    twins       \* history: identities inserted twice by overlapping imports

tables == <<families, products>>
history == <<committed, raced, twins>>
vars == <<tables, phase, file, listed, known, seen, target, history>>

NoFile == [rows |-> <<>>, families |-> {}]
NoProducts == [p \in ProductIds |-> Absent]
NoTarget == [k \in Identities |-> None]

Init ==
    /\ families = {} /\ products = NoProducts
    /\ phase = [i \in Imports |-> "none"]
    /\ file = [i \in Imports |-> NoFile]
    /\ listed = [i \in Imports |-> {}] /\ known = [i \in Imports |-> {}]
    /\ seen = [i \in Imports |-> NoProducts]
    /\ target = [i \in Imports |-> NoTarget]
    /\ committed = {} /\ raced = {} /\ twins = {}

Goes(i, before, after) == phase[i] = before /\ phase' = [phase EXCEPT ![i] = after]

Register(i) ==
    /\ \A j \in Imports : j < i => phase[j] # "none"
    /\ Goes(i, "none", "started")
    /\ \E f \in Files : file' = [file EXCEPT ![i] = f]
    /\ UNCHANGED <<tables, listed, known, seen, target, history>>

-----------------------------------------------------------------------------
(* The families of the file.                                               *)

SelectFamilies(i) ==
    /\ file[i].families # {}
    /\ Goes(i, "started", "families")
    /\ listed' = [listed EXCEPT ![i] = families \cap file[i].families]
    /\ UNCHANGED <<tables, file, known, seen, target, history>>

CommitFamilies(i) ==
    /\ phase[i] = "families"
    /\ IF (file[i].families \ listed[i]) \cap families = {}
       THEN /\ families' = families \cup file[i].families
            /\ Goes(i, "families", "saved")
       ELSE Goes(i, "families", "failing") /\ UNCHANGED families
    /\ UNCHANGED <<products, file, listed, known, seen, target, history>>

NoFamiliesFile(i) ==
    /\ file[i].families = {}
    /\ Goes(i, "started", "saved")
    /\ UNCHANGED <<tables, file, listed, known, seen, target, history>>

-----------------------------------------------------------------------------
(* The products of the file.                                               *)

Usable(f) == {n \in DOMAIN f.rows : f.rows[n].identity # None}
FamilyIds(f) == {f.rows[n].family : n \in DOMAIN f.rows} \ {None}

(* For checking the properties: the families as they were before saving.  *)
ReadFamiliesBeforeSaving(i) ==
    /\ Goes(i, "saved", "parsed")
    /\ known' = [known EXCEPT ![i] = listed[i] \cap FamilyIds(file[i])]
    /\ UNCHANGED <<tables, file, listed, seen, target, history>>

ReadFamilies(i) ==
    /\ Goes(i, "saved", "parsed")
    /\ known' = [known EXCEPT ![i] = families \cap FamilyIds(file[i])]
    /\ UNCHANGED <<tables, file, listed, seen, target, history>>

(* For checking the properties: a link to a family that may not be there.  *)
ProductWithAnyFamily(row, resolved) ==
    [identity |-> row.identity, family |-> row.family, link |-> row.family,
     price |-> row.price, stock |-> row.stock]

ProductFromRow(row, resolved) ==
    [identity |-> row.identity, family |-> row.family,
     link |-> IF row.family \in resolved THEN row.family ELSE None,
     price |-> row.price, stock |-> row.stock]

Touched(i) == {file[i].rows[n].identity : n \in Usable(file[i])}

(* A row of the file that repeats an identity is applied to the same model. *)
LastRow(i, k) ==
    LET n == CHOOSE n \in Usable(file[i]) :
                /\ file[i].rows[n].identity = k
                /\ \A m \in Usable(file[i]) : file[i].rows[m].identity = k => m <= n
    IN  ProductFromRow(file[i].rows[n], known[i])

Holding(k) == {p \in ProductIds : products[p].identity = k}

(* For checking the properties: no lookup by barcode.                      *)
MatchingById(k) == IF k \in ExternalIds THEN Holding(k) ELSE {}

Matching(k) == Holding(k)

SelectProducts(i) ==
    /\ Goes(i, "parsed", "upserting")
    /\ seen' = [seen EXCEPT ![i] = products]
    /\ \E t \in [Identities -> ProductIds \cup {None}] :
        /\ \A k \in Identities :
            IF Matching(k) = {} \/ k \notin Touched(i) THEN t[k] = None ELSE t[k] \in Matching(k)
        /\ target' = [target EXCEPT ![i] = t]
    /\ UNCHANGED <<tables, file, listed, known, history>>

Fresh(i) == {k \in Touched(i) : target[i][k] = None}
Found(i) == {target[i][k] : k \in Touched(i)} \ {None}

Changed(i) == {p \in Found(i) : LastRow(i, seen[i][p].identity) # seen[i][p]}

(* For checking the properties: a column that is never updated.            *)
ApplyPrice(row, before, after) ==
    [row EXCEPT !.price = after.price, !.family = after.family, !.link = after.link]

(* The columns that differ from those read.                                *)
Apply(row, before, after) ==
    [c \in DOMAIN after |-> IF after[c] = before[c] THEN row[c] ELSE after[c]]

Upserted(i, p) ==
    CASE p \in Found(i) -> Apply(products[p], seen[i][p], LastRow(i, seen[i][p].identity))
      [] p[1] = i /\ p[2] \in Fresh(i) -> LastRow(i, p[2])
      [] OTHER -> products[p]

CommitProducts(i) ==
    /\ phase[i] = "upserting"
    /\ IF \E k \in Fresh(i) \cap ExternalIds : Holding(k) # {}
       THEN Goes(i, "upserting", "failing") /\ UNCHANGED <<products, history>>
       ELSE /\ products' = [p \in ProductIds |-> Upserted(i, p)]
            /\ Goes(i, "upserting", "reporting")
            /\ committed' = committed \cup {i}
            /\ raced' = (raced \ {p \in Found(i) : products[p] = seen[i][p]})
                            \cup {p \in Changed(i) : products[p] # seen[i][p]}
            /\ twins' = twins \cup {k \in Fresh(i) : Holding(k) # {}
                                    /\ \A p \in ProductIds : seen[i][p].identity # k}
    /\ seen' = [seen EXCEPT ![i] = NoProducts]
    /\ target' = [target EXCEPT ![i] = NoTarget]
    /\ UNCHANGED <<families, file, listed, known>>

-----------------------------------------------------------------------------
(* The result.  What raises between the first line of the try and the last *)
(* leaves the import failed; what dies, or fails to write that, pending.   *)

Complete(i) ==
    /\ Goes(i, "reporting", "completed")
    /\ UNCHANGED <<tables, file, listed, known, seen, target, history>>

Trying == {"started", "families", "saved", "parsed", "upserting", "reporting"}

Raise(i) ==
    /\ phase[i] \in Trying
    /\ phase' = [phase EXCEPT ![i] = "failing"]
    /\ seen' = [seen EXCEPT ![i] = NoProducts]
    /\ target' = [target EXCEPT ![i] = NoTarget]
    /\ UNCHANGED <<tables, file, listed, known, history>>

MarkFailed(i) ==
    /\ Goes(i, "failing", "failed")
    /\ UNCHANGED <<tables, file, listed, known, seen, target, history>>

Die(i) ==
    /\ phase[i] \in Trying \cup {"failing"}
    /\ phase' = [phase EXCEPT ![i] = "pending"]
    /\ seen' = [seen EXCEPT ![i] = NoProducts]
    /\ target' = [target EXCEPT ![i] = NoTarget]
    /\ UNCHANGED <<tables, file, listed, known, history>>

Proceed(i) ==
    \/ SelectFamilies(i) \/ CommitFamilies(i) \/ NoFamiliesFile(i)
    \/ ReadFamilies(i) \/ SelectProducts(i) \/ CommitProducts(i)
    \/ Complete(i) \/ MarkFailed(i)

Next == \E i \in Imports : Register(i) \/ Proceed(i) \/ Raise(i) \/ Die(i)

Spec == Init /\ [][Next]_vars

-----------------------------------------------------------------------------
Phases == {"none", "pending", "failing", "failed", "completed"} \cup Trying

TypeOK ==
    /\ families \subseteq Families
    /\ \A p \in ProductIds :
        products[p] # Absent => products[p].link \in families \cup {None}
    /\ products \in [ProductIds -> Stored \cup {Absent}]
    /\ phase \in [Imports -> Phases]
    /\ file \in [Imports -> Files \cup {NoFile}]
    /\ listed \in [Imports -> SUBSET Families] /\ known \in [Imports -> SUBSET Families]
    /\ seen \in [Imports -> [ProductIds -> Stored \cup {Absent}]]
    /\ target \in [Imports -> [Identities -> ProductIds \cup {None}]]
    /\ committed \subseteq Imports /\ raced \subseteq ProductIds /\ twins \subseteq Identities

(* A product whose last writer had read the version it replaced is, in all *)
(* its columns, a row of one file: only imports that overlap mix the price *)
(* of one with the stock of another (upsert_products writes the columns    *)
(* that differ from those it read).                                        *)
RowsOfOneFile ==
    \A p \in ProductIds \ raced :
        products[p] # Absent =>
            \E i \in committed : p[2] \in Touched(i) /\ products[p] = LastRow(i, p[2])

(* A product without POS id has one row, whatever its files repeat, unless *)
(* two imports looked it up before either had saved it: no constraint      *)
(* keeps barcodes apart, and only one of the two rows is updated later.    *)
OneRowPerIdentity ==
    \A p, q \in ProductIds :
        p # q /\ products[p] # Absent /\ products[p].identity = products[q].identity
            => products[p].identity \in Barcodes \cap twins

(* Every usable row of a file whose products are saved has a product, and  *)
(* is saved with its family linked if the file brought the family, also    *)
(* when an import that failed or died had already saved it: the families   *)
(* are committed before the rows resolve theirs.                           *)
ImportedWithItsFamilies ==
    \A i \in committed : \A k \in Touched(i) :
        /\ Holding(k) # {}
        /\ LastRow(i, k).family \in file[i].families => LastRow(i, k).link # None
=============================================================================
