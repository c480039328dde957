---------------------------- MODULE IntentRouting ----------------------------
(***************************************************************************)
(* How a message becomes an intent: IntentRouter, a cascade of rules over  *)
(* the words of the text, and LLMIntentRouter, which trusts what a model   *)
(* extracted only in some cases and falls back to the cascade in the rest. *)
(*                                                                         *)
(* A text is a record: the trigger words it contains, of which one stands  *)
(* for all that are in the same lists of the router, and what the regular  *)
(* expressions capture in it (None for no match).  An extraction is what   *)
(* the model answered.                                                     *)
(***************************************************************************)
EXTENDS Integers, FiniteSetsExt

CONSTANTS MaxRank, DefaultRanks, None

ListWords     == {"ver"}
ReminderWords == {"recordatorio", "pendiente"}
DoneWords     == {"hecho"}
DoneTopics    == ReminderWords \cup {"recordame"}
CreateWords   == {"recordame"}
SummaryWords  == {"resumen diario"}
AlertWords    == {"alertas"}
PanelWords    == {"panel general"}
StockWords    == {"stock", "stock bajo", "sin stock"}
BusinessWords == StockWords \cup {"negocio", "ventas"}
SearchWords   == {"buscar"}
CompareTopics == {"ventas", "facturacion", "semana"}
TotalWords    == {"cuanto vendi", "cuanto vendi de"}
HistoryWords  == {"historial de", "cuanto vendi de"}
ProductWords  == {"productos"}
SalesWords    == {"vendidos", "ventas", "facturacion", "margen"}
RankingWords  == {"mas", "top"}

Has(text, words) == text.words \cap words # {}
Clamp(n, low, high) == Max({low, Min({n, high})})

-----------------------------------------------------------------------------
(* What the router reads in the text of a sales query.                     *)

Yesterday == "yesterday"

\* "del 3 al 5": both ends clamped to 1..MaxRank, dropped if they are reversed.
RankRange(text) ==
    IF text.range = None THEN None
    ELSE LET from == Clamp(text.range[1], 1, MaxRank)
             to == Clamp(text.range[2], 1, MaxRank)
         IN  IF from <= to THEN <<from, to>> ELSE None

\* _extract_period: a range or a day that the calendar resolves.
Period(text, today) ==
    CASE text.period = Yesterday  -> [from |-> today - 1, to |-> today - 1]
      [] text.period = "today"    -> [from |-> today, to |-> today]
      [] text.period = "calendar" -> text.dates
      [] OTHER                    -> [from |-> None, to |-> None]

RelativeDays(text) ==
    CASE text.lastDays # None -> Clamp(text.lastDays, 1, 365)
      [] text.lastDays = None /\ text.period = Yesterday -> 1
      [] OTHER -> 7

Limit(text) ==
    CASE RankRange(text) # None -> RankRange(text)[2] - RankRange(text)[1] + 1
      [] RankRange(text) = None /\ text.top # None -> Clamp(text.top, 1, MaxRank)
      [] OTHER -> DefaultRanks

Skipped(text) == IF text.skip = None THEN None ELSE Clamp(text.skip, 1, MaxRank - 1)

\* _extract_sales_filters: clauses of what to leave out, each [ranks, families,
\* names, any]: one about the first ranks says nothing of names, and before
\* a family "any product" is no name.  Families are those called so, or else
\* those the products are of.
Clauses(text) == {c \in text.exclusions : ~ c.ranks}
ExcludedFamilies(text) == UNION {c.families : c \in Clauses(text)}
ExcludedNames(text) == UNION {c.names : c \in {d \in Clauses(text) : d.families = {} \/ ~ d.any}}
IncludedFamilies(text) == IF text.called # {} THEN text.called ELSE text.productsOf

\* _extract_sales_top_products_entities.
Entities(text, today) ==
    LET range == RankRange(text)
        period == Period(text, today)
    IN  [from |-> IF period.from # None THEN period.from ELSE text.since,
         to |-> period.to,
         days |-> RelativeDays(text),
         allTime |-> text.period = "all time",
         invalidDates |-> text.period = "invalid",
         rankFrom |-> CASE range # None -> range[1]
                        [] range = None /\ Skipped(text) # None -> Skipped(text) + 1
                        [] OTHER -> None,
         rankTo |-> IF range # None THEN range[2] ELSE None,
         limit |-> Limit(text),
         sort |-> CASE "margen" \in text.words -> "margin"
                    [] "margen" \notin text.words /\ "facturacion" \in text.words -> "revenue"
                    [] OTHER -> "quantity",
         families |-> IncludedFamilies(text), excludeFamilies |-> ExcludedFamilies(text),
         excludeProducts |-> ExcludedNames(text),
         excludeIds |-> {}, excludeSkus |-> {}, minQuantity |-> None,
         comparisonFrom |-> text.compared[1], comparisonTo |-> text.compared[2],
         product |-> None, business |-> None]

\* The entities of a sales query that is no ranking.
WithoutRanks(entities) ==
    [entities EXCEPT !.rankFrom = None, !.rankTo = None, !.limit = DefaultRanks,
                     !.sort = "quantity"]

\* Of a product's history only the dates.
HistoryEntities(text, entities) ==
    [WithoutRanks(entities) EXCEPT
        !.comparisonFrom = None, !.comparisonTo = None, !.allTime = FALSE, !.families = {},
        !.excludeFamilies = {}, !.excludeProducts = {}, !.product = text.subject]

\* parse_due_at: so long from now, or a time of the clock, days ahead; a time
\* that is past today, if the text does not say today, is tomorrow's.
DueAt(text, now) ==
    LET time == text.due.hour * 60 + text.due.minute
        at == (now \div 1440 + text.due.ahead) * 1440 + time
    IN  CASE text.delay # None -> now + text.delay
          [] text.delay = None /\ text.due # None ->
                IF text.due.hour > 23 \/ text.due.minute > 59 THEN None
                ELSE IF text.due.ahead = 0 /\ ~ text.due.today /\ at <= now THEN at + 1440
                ELSE at
          [] OTHER -> None

\* The words searched for, and no stock if the text says so.
SearchEntities(text) ==
    [product |-> text.subject, family |-> None, limit |-> 20,
     maxStock |-> IF "sin stock" \in text.words THEN 0 ELSE None]

-----------------------------------------------------------------------------
(* The cascade.                                                            *)

Intent(name, entities) ==
    [by |-> "rules", intent |-> name, entities |-> entities, tool |-> None, asks |-> FALSE]
Query(tool, entities) == [Intent("query_tool", entities) EXCEPT !.tool = tool]
Asking(name) == [Intent(name, None) EXCEPT !.asks = TRUE]

\* _extract_common_query, again a cascade: None if no tool answers the text.
\* A subject is not captured when it speaks of a family or of a period.
CommonQuery(text, entities) ==
    LET totals == Has(text, TotalWords)
    IN  IF "stock bajo" \in text.words THEN Asking("query_tool")
        ELSE IF Has(text, StockWords) THEN Query("inventory.stock_status", SearchEntities(text))
        ELSE IF Has(text, SearchWords) THEN Query("catalog.search_products", SearchEntities(text))
        ELSE IF "compar" \in text.words /\ Has(text, CompareTopics)
             THEN Query("sales.compare_periods", WithoutRanks(entities))
        ELSE IF totals /\ "cuanto vendi de" \notin text.words
             THEN Query("sales.summary", WithoutRanks(entities))
        ELSE IF Has(text, HistoryWords) /\ text.subject # None
             THEN Query("sales.product_history", HistoryEntities(text, entities))
        ELSE IF totals THEN Query("sales.summary", WithoutRanks(entities))
        ELSE None

AsksForAlerts(text) ==
    Has(text, AlertWords) /\ (Has(text, BusinessWords) \/ text.short)

AsksForRanking(text) ==
    Has(text, ProductWords) /\ Has(text, SalesWords) /\ Has(text, RankingWords)

\* The first rule that matches decides.
Rules(text, now, entities, common) ==
    <<[if |-> Has(text, ListWords) /\ Has(text, ReminderWords),
       then |-> Intent("list_reminders", None)],
      [if |-> Has(text, SummaryWords), then |-> Intent("get_daily_summary", None)],
      [if |-> AsksForAlerts(text), then |-> Intent("list_operational_alerts", None)],
      [if |-> Has(text, PanelWords), then |-> Intent("get_operations_dashboard", None)],
      [if |-> common # None, then |-> common],
      [if |-> AsksForRanking(text),
       then |-> Intent("query_sales_top_products", entities)],
      [if |-> Has(text, DoneWords) /\ Has(text, DoneTopics),
       then |-> Intent("mark_reminder_done", [id |-> text.reminder, title |-> text.title])],
      [if |-> Has(text, CreateWords),
       then |-> Intent("create_reminder", [title |-> text.title, due |-> DueAt(text, now)])],
      [if |-> TRUE, then |-> Intent("unknown", None)]>>

FirstOf(rules) == rules[Min({i \in DOMAIN rules : rules[i].if})].then
RouteWith(text, now, entities) ==
    FirstOf(Rules(text, now, entities, CommonQuery(text, entities)))
Route(text, now) == RouteWith(text, now, Entities(text, now \div 1440))

-----------------------------------------------------------------------------
(* LLMIntentRouter.  An extraction is [intent, sure, asks, title, due,     *)
(* query], or None when the provider raises.                               *)

\* A list or a completion is taken as extracted; its entities have neither
\* an id nor a query for the title of the reminder.
FromExtraction(extraction) ==
    [Intent(extraction.intent, [id |-> None, title |-> None]) EXCEPT !.asks = extraction.asks]

Extracted(extraction, dueInText) ==
    LET doubtful == extraction.asks \/ ~ extraction.sure
    IN  CASE extraction.intent \in {"list_reminders", "mark_reminder_done"} ->
                FromExtraction(extraction)
          [] extraction.intent = "query_sales_top_products" ->
                IF doubtful THEN Asking(extraction.intent)
                ELSE Intent(extraction.intent, extraction.query)
          [] extraction.intent = "create_reminder" ->
                IF doubtful \/ extraction.title = None THEN Asking(extraction.intent)
                ELSE Intent(extraction.intent,
                       [title |-> extraction.title,
                        due |-> IF extraction.due # None THEN extraction.due ELSE dueInText])

Understood == {"list_reminders", "mark_reminder_done", "query_sales_top_products",
               "create_reminder"}

\* A provider that raises, an intent that is unknown to the router or no
\* text at all: the rules decide.
LLMRoute(text, extraction, now) ==
    IF extraction # None /\ ~ text.empty /\ extraction.intent \in Understood
    THEN [Extracted(extraction, DueAt(text, now)) EXCEPT !.by = "model"]
    ELSE Route(text, now)
=============================================================================
