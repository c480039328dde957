----------------------------- MODULE MCAssistant -----------------------------
(***************************************************************************)
(* A webhook and a thread, a delivery of two messages, five products of    *)
(* one business in two families and one of another business.               *)
(*                                                                         *)
(* Product 1 was sold a day before it was in the catalog and a day after,  *)
(* as much each time; so did 2 and 3 sell equally.  3 is no longer sold,   *)
(* 5 was not yet, and 4 has no family.                                     *)
(***************************************************************************)
EXTENDS Assistant

CONSTANTS shop, other

-----------------------------------------------------------------------------
SomeTerms == {<<"sku1">>, <<"panad">>, <<"nada">>}
SomeProducts == 1 .. 6
Owner(p) == IF p = 6 THEN other ELSE shop
Unknown(p, day, quantity, revenue) ==
    [business |-> Owner(p), day |-> day, product |-> None, external |-> p,
     sku |-> IF p = 2 THEN "sku2" ELSE None,
     quantity |-> quantity, revenue |-> revenue, margin |-> 1]
Known(p, day, quantity, revenue) == [Unknown(p, day, quantity, revenue) EXCEPT !.product = p]
SomeSummaries == {Known(1, 9, 4, 6), Unknown(1, 8, 4, 4), Known(1, 1, 1, 1), Known(2, 9, 5, 20),
                  Known(3, 8, 5, 5), Known(4, 8, 3, 90), Known(6, 9, 50, 50)}
LineOf(row) ==
    [business |-> row.business, ticket |-> <<row.day, row.quantity>>, day |-> row.day,
     product |-> row.product, sku |-> row.sku, quantity |-> row.quantity,
     revenue |-> row.revenue, margin |-> row.margin]
SomeLines == {LineOf(row) : row \in SomeSummaries}
Name(p) == CASE p = 1 -> <<"cola">> [] p = 2 -> <<"cola", "light">> [] p = 3 -> <<"pan">>
             [] p = 4 -> <<"huevos">> [] OTHER -> <<"pan", "dulce">>
Stock(p) == p - 2
Place(p) == CASE p = 1 -> 1 [] p = 2 -> 2 [] p = 3 -> 4 [] p = 4 -> 3 [] OTHER -> 5
Identifiers(p) == IF p = 1 THEN {<<"sku1">>, <<"7790">>} ELSE {}
Codes(p) == Identifiers(p) \ {<<"7790">>}
Contained == {<<<<"col">>, <<"cola">>>>, <<<<"col">>, <<"cola", "light">>>>}
Family(p) ==
    CASE p \in {1, 2} -> <<"bebidas">> [] p \in {3, 5, 6} -> <<"panaderia">> [] OTHER -> None
FamiliesOf(b) == {Family(p) : p \in {q \in SomeProducts : Owner(q) = b}} \ {None}
Begun == {<<"panad", "panaderia">>}
Likeness(term, name) == 20

-----------------------------------------------------------------------------
Plain == [words |-> {}, empty |-> FALSE, short |-> FALSE,
          range |-> None, skip |-> None, top |-> None, lastDays |-> None, period |-> None, dates |-> None, since |-> None, subject |-> None,
          called |-> {}, productsOf |-> {}, exclusions |-> {},
          compared |-> <<None, None>>, reminder |-> None, title |-> None,
          delay |-> None, due |-> None]

Names(term) == [ranks |-> FALSE, families |-> {}, names |-> {term}, any |-> FALSE]
AnyOf(family) == [ranks |-> FALSE, families |-> {family}, names |-> {<<"nada">>}, any |-> TRUE]
FirstRanks == [ranks |-> TRUE, families |-> {}, names |-> {<<"nada">>}, any |-> FALSE]

Ranking == [Plain EXCEPT !.words = {"productos", "vendidos", "mas"}]
Ranks   == [Ranking EXCEPT !.range = <<2, 9>>, !.exclusions = {Names(<<"sku1">>)}]
Skip    == [Ranking EXCEPT !.skip = 3, !.top = 3, !.exclusions = {FirstRanks}]
NoBread == [Ranking EXCEPT !.skip = 0, !.exclusions = {AnyOf(<<"panad">>)}]
Lost    == [Ranking EXCEPT !.exclusions = {Names(<<"nada">>)}]
Bad     == [Ranking EXCEPT !.period = "invalid"]
Totals  == [Plain EXCEPT !.words = {"cuanto vendi"}]
Past    == [Plain EXCEPT !.words = {"historial de"}, !.subject = <<"sku1">>]
Versus  == [Plain EXCEPT !.words = {"compar", "ventas"}, !.period = "calendar",
                       !.dates = [from |-> 8, to |-> 9]]
Empty   == [Plain EXCEPT !.words = {"stock", "sin stock"}, !.subject = <<"col">>]
Panel   == [Plain EXCEPT !.words = {"panel general"}]
Remind  == [Plain EXCEPT !.words = {"recordame"}, !.title = "pan",
                       !.due = [hour |-> 9, minute |-> 0, ahead |-> 0, today |-> FALSE]]
Mark    == [Plain EXCEPT !.words = {"hecho", "pendiente"}, !.title = "pan"]

Text == [first |-> Remind, second |-> Ranks, broken |-> Plain, mark |-> Mark,
         skip |-> Skip, bread |-> NoBread, bad |-> Bad, past |-> Past,
         versus |-> Versus, empty |-> Empty, panel |-> Panel]
SomeMessages == DOMAIN Text
TextSaid(m) == Text[m]
Shop(m) == shop
SomeUsable == SomeMessages \ {"broken"}
SomeReachable == SomeMessages \ {"second"}
SomeDirect == SomeMessages \ {"first", "second", "broken"}
SomeBatches == {[signed |-> TRUE, event |-> None, messages |-> <<"first", "second">>],
                [signed |-> TRUE, event |-> None, messages |-> <<"mark", "broken">>]}
SomeReminders == <<[business |-> other, title |-> "pan", due |-> None, status |-> "pending",
                    by |-> None]>>

\* An unsure one, one whose second step raises, one that asks, one to the end, one too long.
QueryOf(text) == Intents!Entities(text, 10)
Top(text) == [tool |-> "sales.top_products", query |-> QueryOf(text)]
Resolve == [tool |-> "catalog.resolve_families", query |-> [terms |-> {<<"panad">>, <<"nada">>}]]
Sellers == [Top(NoBread) EXCEPT !.query.minQuantity = 4, !.query.excludeSkus = {"sku2"}]
Sum == [tool |-> "sales.summary", query |-> QueryOf(Totals)]
Other == [Top(Skip) EXCEPT !.query.business = other]
Plan(sure, mode, steps) == [sure |-> sure, mode |-> mode, steps |-> steps]
ThePlans == <<Plan(FALSE, "execute_plan", <<Top(Skip)>>),
              Plan(TRUE, "execute_plan", <<Sum, Other>>),
              Plan(TRUE, "execute_plan", <<Top(Lost), Top(Skip)>>),
              Plan(TRUE, "execute_plan", <<Resolve, Sellers>>),
              Plan(TRUE, "execute_plan", <<Top(Skip), Top(NoBread), Top(Ranks)>>)>>
SomePlans == DOMAIN ThePlans
PlanNamed(plan) == ThePlans[plan]

Answers(intent, sure, title, query) ==
    [intent |-> intent, sure |-> sure, asks |-> FALSE,
     title |-> title, due |-> None, query |-> query]
SomeExtractions ==
    {None, Answers("create_reminder", TRUE, "pan", None)}
=============================================================================
