---------------------------- MODULE AssistantTools ----------------------------
(***************************************************************************)
(* What the read-only tools of the assistant answer: the terms of a query  *)
(* resolved against the catalog, the period, the ranking of the products,  *)
(* and the ranks that were asked for.  The tools read one business; days   *)
(* are numbers, names and terms are sequences of words.                    *)
(*                                                                         *)
(* The tools read what the sales import stored: the lines of the tickets   *)
(* and their daily summaries.  A row has the external id of the POS and    *)
(* the catalog product that the import found for it, None if the catalog   *)
(* had none yet.  Rankings and histories are of the summaries, totals and  *)
(* periods of the lines.                                                   *)
(***************************************************************************)
EXTENDS Integers, FiniteSets, SequencesExt

CONSTANTS
    Businesses,
    Terms,              \* what a query may name
    Products,           \* of the catalog
    OwnerOf(_),         \* the business of a product
    NameOf(_),          \* its name
    PlaceOf(_),         \* the place of its name in the order of names
    IdentifiersOf(_),   \* its SKU, barcode and external id, as terms
    CodesOf(_),         \* of those, its SKU and barcode
    FamilyOf(_),        \* the name of its family, or its category, None without either
    StockOf(_),
    Active,             \* those still sold
    Families(_),        \* the families of a business, empty ones included
    Lines,              \* sale lines [business, ticket] with the fields of a row
    Summaries,          \* rows [business, day, product, external, sku, quantity, revenue, margin]
    Parts,              \* pairs <<term, name or code that contains it>>
    Beginnings,         \* pairs <<word, longer word it begins>>
    Similarity(_, _),   \* what SequenceMatcher says of two texts, 0..99
    MaxRank,            \* the last rank a query may ask for: 50
    DefaultRanks,       \* the ranks shown if the query names no number: 10
    None

\* External ids are strings, ordered as the numbers that stand for them.
ASSUME ToolsAssumption ==
    /\ None \notin Int /\ None \notin Products
    /\ MaxRank \in Nat \ {0, 1} /\ DefaultRanks \in 1 .. MaxRank
    /\ IsFiniteSet(Lines) /\ IsFiniteSet(Summaries)
    /\ \A r \in Lines \cup Summaries :
          r.product \in Products \cup {None} /\ {r.quantity, r.revenue, r.margin} \subseteq Int
    /\ \A r \in Summaries : r.external \in Int

Best(S, score) == CHOOSE x \in S : \A y \in S : score[x] >= score[y]

-----------------------------------------------------------------------------
(* CatalogResolverService.                                                 *)

Begins(word, name) == \E w \in Range(name) : word = w \/ <<word, w>> \in Beginnings
Share(words, term) == (Cardinality(words) * 100) \div Cardinality(Range(term))

\* _score_text, in hundredths: the same, a part, all the words in any order,
\* or the best of likeness, common words and begun words.
TextScore(term, name) ==
    LET likeness == {Similarity(term, name),
                     (Share(Range(term) \cap Range(name), term) * 85) \div 100,
                     (Share({w \in Range(term) : Begins(w, name)}, term) * 88) \div 100}
    IN  CASE term = name -> 100
          [] term # name /\ (\E i \in 0 .. Len(name) - Len(term) :
                                SubSeq(name, i + 1, i + Len(term)) = term) -> 92
          [] OTHER -> IF Range(term) \subseteq Range(name) THEN 90 ELSE Max(likeness)

ProductScore(term, p) ==
    IF term \in IdentifiersOf(p) THEN 100 ELSE TextScore(term, NameOf(p))

ResolveCategory == [business \in Businesses, term \in Terms |->
    LET score == [f \in Families(business) |-> TextScore(term, f)]
    IN  IF Families(business) = {} THEN None
        ELSE LET best == Best(Families(business), score)
             IN  IF score[best] < 58 THEN None ELSE best]

Catalog(business) == {p \in Products : OwnerOf(p) = business}

\* [product, sure]: sure if the term names it exactly or nothing else comes close.
ResolveProduct == [business \in Businesses, term \in Terms |->
    LET score == [p \in Catalog(business) |-> ProductScore(term, p)]
        close == {p \in Catalog(business) \cap Active : score[p] >= 45}
    IN  IF close = {} THEN [product |-> None, sure |-> FALSE]
        ELSE LET best == Best(close, score)
             IN  [product |-> IF score[best] < 68 THEN None ELSE best,
                  sure |-> score[best] = 100 \/ Cardinality(close) = 1]]

\* The food, whatever the pack, and no chocolate egg.
IsEgg(p) ==
    /\ Range(NameOf(p)) \cap {"huevo", "huevos"} # {}
    /\ \/ Len(NameOf(p)) = 1
       \/ Range(NameOf(p)) \cap {"maple", "docena", "organicos", "blancos", "colorados",
                                  "oferta"} # {}

\* Every presentation of an excluded product, sold no more or not: by identifier, else eggs, else
\* by the beginnings of the words of the name, else the best resolution.
ResolveProductGroup == [business \in Businesses, term \in Terms |->
    LET identified == {p \in Catalog(business) : term \in IdentifiersOf(p)}
        words == Range(term) \ {"de", "la", "el"}
        named == {p \in Catalog(business) : words # {} /\ \A w \in words : Begins(w, NameOf(p))}
        resolved == ResolveProduct[business, term].product
    IN  CASE identified # {} -> identified
          [] identified = {} /\ term \in {<<"huevo">>, <<"huevos">>} ->
                {p \in Catalog(business) : IsEgg(p)}
          [] OTHER -> IF named # {} THEN named ELSE {resolved} \ {None}]

-----------------------------------------------------------------------------
(* A query names its period [from, to, days, allTime], the ranks [rankFrom,*)
(* rankTo, limit], the order and the filters; what it leaves out is None.  *)

\* TopProductsQuery, SalesSummaryQuery and ComparePeriodsQuery reject what
\* the text left contradictory, and what belongs to another tool.
ValidQuery(query) ==
    /\ ~ query.invalidDates
    /\ query.from # None /\ query.to # None => query.from <= query.to
    /\ query.rankFrom # None /\ query.rankTo # None => query.rankFrom <= query.rankTo
    /\ (query.comparisonFrom = None) <=> (query.comparisonTo = None)
    /\ query.comparisonFrom # None => query.comparisonFrom <= query.comparisonTo
    /\ query.limit \in 1 .. MaxRank
    /\ {query.rankFrom, query.rankTo} \subseteq 1 .. MaxRank \cup {None}

Days(business) == {l.day : l \in {k \in Lines : k.business = business}}

EndDay(query, days, today) ==
    CASE query.to # None -> query.to
      [] query.to = None /\ days # {} -> Max(days)
      [] OTHER -> today

StartDay(query, days, end) ==
    CASE query.from # None -> query.from
      [] query.from = None /\ query.allTime /\ days # {} -> Min(days)
      [] OTHER -> end - (query.days - 1)

Filtered(query, families, unwanted, groups) ==
    IF None \in families \cup unwanted \/ families \cap unwanted # {} \/ {} \in groups
    THEN None
    ELSE [families |-> families, excludeFamilies |-> unwanted,
          excludeProducts |-> query.excludeIds \cup UNION groups,
          excludeSkus |-> query.excludeSkus]

\* resolve_sales_filters: the filters, or None if a term is not resolved or a
\* family is both wanted and unwanted.
Filters(business, query) ==
    Filtered(query, {ResolveCategory[business, t] : t \in query.families},
             {ResolveCategory[business, t] : t \in query.excludeFamilies},
             {ResolveProductGroup[business, t] : t \in query.excludeProducts})

\* The period and the filters of a query.
From(business, query, to) ==
    [from |-> StartDay(query, Days(business), to), to |-> to, filters |-> Filters(business, query)]
Scope(business, query, today) == From(business, query, EndDay(query, Days(business), today))
Unclear(scope) == scope.from > scope.to \/ scope.filters = None

\* The rows a query is about.  A row without a catalog product or without an
\* SKU escapes their exclusions, one without a family is in no wanted family.
FamilyAt(row) == IF row.product = None THEN None ELSE FamilyOf(row.product)
Selected(rows, business, from, to, filters) ==
    {r \in rows :
        /\ r.business = business /\ r.day \in from .. to
        /\ r.product = None \/ r.product \notin filters.excludeProducts
        /\ r.sku = None \/ r.sku \notin filters.excludeSkus
        /\ filters.families # {} => FamilyAt(r) \in filters.families
        /\ FamilyAt(r) \notin filters.excludeFamilies}

Total(rows, sort) ==
    FoldSet(LAMBDA r, sum : sum + CASE sort = "quantity" -> r.quantity
                                    [] sort = "revenue"  -> r.revenue
                                    [] sort = "margin"   -> r.margin, 0, rows)

First(found, limit) == SubSeq(found, 1, Min({limit, Len(found)}))

\* What top_products groups the summaries by: the days before a product was in
\* the catalog are ranked apart from those after, and so are two SKUs.
Identity(row) == [product |-> row.product, external |-> row.external, sku |-> row.sku]
Of(rows, i) == {r \in rows : Identity(r) = i}
Sold(rows, least) ==
    {i \in {Identity(r) : r \in rows} : least = None \/ Total(Of(rows, i), "quantity") >= least}

\* Those of one external id may be equal in all that ORDER BY names; the
\* database then puts them in any order.
Identities == {Identity(r) : r \in Summaries}
Tied == {i \in Identities : \E j \in Identities \ {i} : j.external = i.external}
Ties == Bijection(Tied, 1 .. Cardinality(Tied))

Before(sales, tie, i, j) ==
    \/ sales[i] > sales[j]
    \/ sales[i] = sales[j] /\ i.external < j.external
    \/ sales[i] = sales[j] /\ i.external = j.external /\ i # j /\ tie[i] < tie[j]
Ordered(S, sales, tie) ==
    [k \in 1 .. Cardinality(S) |->
        CHOOSE i \in S : Cardinality({j \in S : Before(sales, tie, j, i)}) = k - 1]

FetchLimitWithoutSkipped(query) == IF query.rankTo # None THEN query.rankTo ELSE query.limit
FetchLimit(query) ==
    CASE query.rankTo # None -> query.rankTo
      [] query.rankTo = None /\ query.rankFrom # None ->
            Min({query.rankFrom + query.limit - 1, MaxRank})
      [] OTHER -> query.limit

\* top_products: grouped, ordered, limited.
TopProducts(rows, query, tie) ==
    LET sold == Sold(rows, query.minQuantity)
    IN  First(Ordered(sold, [i \in sold |-> Total(Of(rows, i), query.sort)], tie),
              FetchLimit(query))

Slice(products, query) ==
    IF query.rankFrom = None /\ query.rankTo = None THEN products
    ELSE LET start == IF query.rankFrom = None THEN 1 ELSE query.rankFrom
             end == IF query.rankTo # None THEN query.rankTo ELSE start - 1 + query.limit
         IN  SubSeq(products, start, Min({end, Len(products)}))

-----------------------------------------------------------------------------
(* The tools.  An answer has the period it is about and the rows or totals *)
(* it shows; Asks stands for a reply that asks for a clarification.  A tool*)
(* whose query leaves an order open has several answers.                   *)

Asks == [asks |-> TRUE, from |-> None, to |-> None, shows |-> None]
Shows(from, to, data) == [asks |-> FALSE, from |-> from, to |-> to, shows |-> data]

\* SalesTopProductsTool.
TopProductsTool(business, query, scope) ==
    IF Unclear(scope) THEN {Asks}
    ELSE {Shows(scope.from, scope.to,
              Slice(TopProducts(Selected(Summaries, business, scope.from, scope.to, scope.filters),
                                query, tie), query)) : tie \in Ties}

TotalsOf(lines) ==
    [revenue |-> Total(lines, "revenue"), quantity |-> Total(lines, "quantity"),
     tickets |-> Cardinality({l.ticket : l \in lines})]
Summary(business, from, to, filters) == TotalsOf(Selected(Lines, business, from, to, filters))

\* SalesQueryTool: sales.summary, and sales.compare_periods with the second
\* period, or the one of equal length just before the first.
SummaryTool(business, query, scope) ==
    IF Unclear(scope) THEN Asks
    ELSE Shows(scope.from, scope.to, Summary(business, scope.from, scope.to, scope.filters))

CompareTool(business, query, scope) ==
    LET to == IF query.comparisonTo # None THEN query.comparisonTo ELSE scope.from - 1
        from == IF query.comparisonFrom # None THEN query.comparisonFrom
                ELSE to - (scope.to - scope.from)
    IN  IF Unclear(scope) THEN Asks
        ELSE Shows(scope.from, scope.to,
                 [totals |-> Summary(business, scope.from, scope.to, scope.filters),
                  previous |-> Summary(business, from, to, scope.filters)])

\* sales.product_history: one product, of which the query is sure, and at
\* most a year.
HistoryTool(business, resolution, scope) ==
    LET rows == {r \in Summaries : /\ r.business = business /\ r.day \in scope.from .. scope.to
                                   /\ r.product = resolution.product}
    IN  IF \/ resolution.product = None \/ ~ resolution.sure
           \/ scope.from > scope.to \/ scope.to - scope.from >= 365
        THEN Asks
        ELSE Shows(scope.from, scope.to,
                 [d \in {r.day : r \in rows} |-> Total({r \in rows : r.day = d}, "quantity")])

\* CatalogQueryTool: those sold now whose name, SKU or barcode contains the
\* words, of one family, with so little stock, the first ones by name.
Means(query, p) ==
    query.product = None
    \/ \E text \in {NameOf(p)} \cup CodesOf(p) :
          query.product = text \/ <<query.product, text>> \in Parts
ByName(order) ==
    \A j, k \in DOMAIN order : j < k => PlaceOf(order[j]) <= PlaceOf(order[k])
SearchTool(business, query) ==
    LET family == IF query.family = None THEN None ELSE ResolveCategory[business, query.family]
        found == {p \in Catalog(business) \cap Active :
                     /\ family # None => FamilyOf(p) = family
                     /\ query.maxStock # None => StockOf(p) <= query.maxStock
                     /\ Means(query, p)}
    IN  IF query.family # None /\ family = None THEN {Asks}
        ELSE {Shows(None, None, First(order, query.limit)) :
                 order \in {o \in SetToSeqs(found) : ByName(o)}}

\* catalog.resolve_families and catalog.resolve_products: each term with what it stands for.
ResolveFamiliesTool(business, query) ==
    Shows(None, None, [t \in query.terms |-> ResolveCategory[business, t]])
ResolveProductsTool(business, query) ==
    Shows(None, None, [t \in query.terms |-> ResolveProduct[business, t].product])

=============================================================================
