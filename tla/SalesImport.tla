----------------------------- MODULE SalesImport -----------------------------
(***************************************************************************)
(* PosSalesImportService.import_csv over the sales tables.                 *)
(*                                                                         *)
(* An import is recorded, its lines are inserted and then the daily        *)
(* summaries of its days are rebuilt from all the stored lines, every      *)
(* batch in a transaction of its own.  Imports run on the event loop, one  *)
(* at a time; catalog imports commit from other threads at any point.      *)
(* The process may die between two transactions and start again.           *)
(*                                                                         *)
(* A line keeps what its grouping reads: its id, product, SKU, day, and    *)
(* whether the catalog had the product when the line came in; the amounts  *)
(* of a summary are those of the lines it counts.                          *)
(***************************************************************************)
EXTENDS Integers, Sequences, FiniteSets

CONSTANTS
    Ids, Products, Skus,
    Days,           \* a set of numbers
    Files,          \* the exports: the rows that parse, and the file's period
    LineBatch, DayBatch,    \* lines and summaries of one transaction
    MaxImports,     \* bound: imports begun
    MaxCatalogs     \* bound: catalog imports committed

Row == [id : Ids, product : Products, sku : Skus, day : Days]
File == [rows : Seq(Row), from : Days, to : Days]

ASSUME SalesAssumption ==
    /\ Days \subseteq Nat
    /\ Files \subseteq File
    /\ LineBatch \in Nat \ {0} /\ DayBatch \in Nat \ {0}
    /\ MaxImports \in Nat /\ MaxCatalogs \in Nat

Lines == [id : Ids, product : Products, sku : Skus, day : Days, matched : BOOLEAN]
Groups == [product : Products, sku : Skus, day : Days, matched : BOOLEAN, ids : SUBSET Ids]
Statuses == {"pending", "completed", "failed"}

VARIABLES
    catalog,    \* the POS products of the catalog
    catalogs,   \* catalog imports so far
    lines,      \* sales_item_lines
    daily,      \* product_sales_daily
    imports,    \* sales_imports, in order
    stage,      \* of the last import: what the service does next
    matched,    \* the products it resolved
    inserted,   \* the rows of the file it has inserted
    pending     \* the groups it has read and not yet written

tables == <<lines, daily, imports>>
vars == <<catalog, catalogs, tables, stage, matched, inserted, pending>>

Init ==
    /\ catalog = {} /\ catalogs = 0
    /\ lines = {} /\ daily = {} /\ imports = <<>>
    /\ stage = "idle" /\ matched = {} /\ inserted = 0 /\ pending = {}

Current == imports[Len(imports)]
Rows == Current.file.rows

(* min(dates) to max(dates), the period of the name without a date.       *)
OpenSpan(file) ==
    {d \in Days : \E i, j \in DOMAIN file.rows :
        file.rows[i].day <= d /\ d < file.rows[j].day}
Span(file) ==
    IF file.rows = <<>> THEN {d \in Days : file.from <= d /\ d <= file.to}
    ELSE {d \in Days : \E i, j \in DOMAIN file.rows :
            file.rows[i].day <= d /\ d <= file.rows[j].day}

CatalogCommits ==
    /\ catalogs < MaxCatalogs /\ catalogs' = catalogs + 1
    /\ \E S \in SUBSET Products : catalog' = catalog \cup S
    /\ UNCHANGED <<tables, stage, matched, inserted, pending>>

-----------------------------------------------------------------------------
Begin(file) ==
    /\ stage = "idle" /\ Len(imports) < MaxImports
    /\ imports' = Append(imports, [file |-> file, status |-> "pending"])
    /\ stage' = "resolving"
    /\ UNCHANGED <<catalog, catalogs, lines, daily, matched, inserted, pending>>

Resolve ==
    /\ stage = "resolving"
    /\ matched' = {p \in catalog : \E i \in DOMAIN Rows : Rows[i].product = p}
    /\ inserted' = 0
    /\ stage' = "inserting"
    /\ UNCHANGED <<catalog, catalogs, tables, pending>>

Line(row) == [id |-> row.id, product |-> row.product, sku |-> row.sku,
              day |-> row.day, matched |-> row.product \in matched]

Batch == {i \in DOMAIN Rows : inserted < i /\ i <= inserted + LineBatch}
ConflictingStored(i) == \E l \in lines : l.id = Rows[i].id
Conflicting(i) ==
    \/ \E l \in lines : l.id = Rows[i].id
    \/ \E j \in Batch : j < i /\ Rows[j].id = Rows[i].id

(* INSERT ... ON CONFLICT DO NOTHING of one batch.                         *)
InsertLines ==
    /\ stage = "inserting" /\ inserted < Len(Rows)
    /\ lines' = lines \cup {Line(Rows[i]) : i \in {b \in Batch : ~Conflicting(b)}}
    /\ inserted' = inserted + LineBatch
    /\ UNCHANGED <<catalog, catalogs, daily, imports, stage, matched, pending>>

-----------------------------------------------------------------------------
Key(x) == <<x.product, x.day>>
Alike(l, m) == Key(l) = Key(m) /\ l.sku = m.sku /\ l.matched = m.matched
GroupOf(l) ==
    [product |-> l.product, sku |-> l.sku, day |-> l.day, matched |-> l.matched,
     ids |-> {m.id : m \in {n \in lines : Alike(l, n)}}]

(* SELECT ... GROUP BY product_id, external_product_id, sku, sale_date.    *)
ReadGroups ==
    /\ stage = "inserting" /\ inserted >= Len(Rows)
    /\ pending' = {GroupOf(l) : l \in {m \in lines : m.day \in Span(Current.file)}}
    /\ stage' = "summing"
    /\ UNCHANGED <<catalog, catalogs, tables, matched, inserted>>

Keys(B) == {Key(g) : g \in B}

(* The next batch, in whatever order the groups came.                      *)
DayBatches ==
    {B \in SUBSET pending :
        \/ Cardinality(B) = DayBatch
        \/ B = pending /\ Cardinality(B) < DayBatch}

(* INSERT ... ON CONFLICT (business, external product, date) DO UPDATE.    *)
InsertedOnly(B) == daily \cup {g \in B : Key(g) \notin Keys(daily)}
Upserted(B) == {g \in daily : Key(g) \notin Keys(B)} \cup B

WriteDays ==
    /\ stage = "summing" /\ pending # {}
    /\ \E B \in DayBatches :
        /\ \A g, h \in B : Key(g) = Key(h) => g = h
        /\ daily' = Upserted(B)
        /\ pending' = pending \ B
    /\ UNCHANGED <<catalog, catalogs, lines, imports, stage, matched, inserted>>

EndedYetRunning(status) ==
    /\ imports' = [imports EXCEPT ![Len(imports)].status = status]
    /\ UNCHANGED <<catalog, catalogs, lines, daily, stage, matched, inserted, pending>>
Ended(status) ==
    /\ imports' = [imports EXCEPT ![Len(imports)].status = status]
    /\ stage' = "idle"
    /\ UNCHANGED <<catalog, catalogs, lines, daily, matched, inserted, pending>>

Complete == stage = "summing" /\ pending = {} /\ Ended("completed")

(* Two groups of one key in a batch are an error of the statement.         *)
BatchFails ==
    /\ stage = "summing"
    /\ \E B \in DayBatches : \E g, h \in B : Key(g) = Key(h) /\ g # h
    /\ Ended("failed")

(* Any other exception, in the file or the database.                       *)
ImportFails == stage # "idle" /\ Ended("failed")

(* The process dies, or the failure itself cannot be recorded.             *)
Crash ==
    /\ stage # "idle" /\ stage' = "idle"
    /\ UNCHANGED <<catalog, catalogs, tables, matched, inserted, pending>>

Next ==
    \/ CatalogCommits
    \/ \E file \in Files : Begin(file)
    \/ Resolve \/ InsertLines \/ ReadGroups \/ WriteDays \/ Complete
    \/ BatchFails \/ ImportFails \/ Crash

Spec == Init /\ [][Next]_vars

-----------------------------------------------------------------------------
(* The types of the tables and of the import under way.                    *)
TypeOK ==
    /\ catalog \subseteq Products /\ catalogs \in Nat
    /\ lines \subseteq Lines
    /\ daily \subseteq Groups /\ pending \subseteq Groups
    /\ imports \in Seq([file : Files, status : Statuses])
    /\ stage \in {"idle", "resolving", "inserting", "summing"}
    /\ stage # "idle" => imports # <<>> /\ Current.status = "pending"
    /\ matched \subseteq Products
    /\ inserted \in Nat

(* insert_sales_item_lines: overlapping files, retries and rows repeated   *)
(* in a file never store a sale twice, whatever batches they fall in.      *)
EachSaleOnce == \A l, m \in lines : l.id = m.id => l = m

LinesOf(k) == {l \in lines : Key(l) = k}
Counted(k) == UNION {g.ids : g \in {h \in daily : Key(h) = k}}
Split(k) == \E l, m \in LinesOf(k) : ~Alike(l, m)
Lags(k) == Counted(k) # {l.id : l \in LinesOf(k)}

(* A summary that does not count exactly the stored sales of its product   *)
(* and day is of a key with several groups, or of a day of an import that  *)
(* sales_imports shows as failed or still pending: the audit table      *)
(* tells which days to import again, after a crash too.                    *)
LagExplained ==
    \A p \in Products, d \in Days :
        Lags(<<p, d>>) =>
            \/ Split(<<p, d>>)
            \/ \E n \in DOMAIN imports : /\ imports[n].status # "completed"
                                         /\ d \in Span(imports[n].file)

(* An import that completes has stored every row of its file, and the days *)
(* it spans count exactly their sales, those of earlier interrupted        *)
(* imports included, save for keys with several groups.                    *)
Completing == \E n \in DOMAIN imports :
    imports[n].status # "completed" /\ imports'[n].status = "completed"
StoredRows == \A i \in DOMAIN Rows : \E l \in lines : l.id = Rows[i].id
CompletionRepairs ==
    [][Completing =>
          /\ StoredRows
          /\ \A p \in Products, d \in Span(Current.file) :
                Lags(<<p, d>>) => Split(<<p, d>>)]_vars

(* docs/SPRINT_6_SALES_DEMAND.md: product_id is nullable so that no sales  *)
(* are lost when the catalog changes.  So an import that completes counts  *)
(* every stored sale of its days.                                          *)
NoSaleLost ==
    [][Completing => \A p \in Products, d \in Span(Current.file) : ~Lags(<<p, d>>)]_vars
=============================================================================
