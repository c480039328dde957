--------------------------- MODULE PriceComparison ---------------------------
(***************************************************************************)
(* How quotations are compared: pricing.py and the comparison of           *)
(* SupplierPriceComparisonService.  Money is in cents; a quotation has a   *)
(* supplier, a product, a cost, the units of its package (0 when it is not *)
(* known), what the cost is a price of, and the time it was observed.      *)
(***************************************************************************)
EXTENDS Integers

CONSTANT None

PriceTypes == {"unit", "pack", "unknown"}

HalfUp(amount, units) == (2 * amount + units) \div (2 * units)

NormalizeOfferPrice(cost, units, type) ==
    CASE type = "unit" -> cost
      [] type = "pack" /\ units > 0 -> HalfUp(cost, units)
      [] OTHER -> None

Distance(a, b) == IF a > b THEN a - b ELSE b - a

IsLikelyPackPrice(cost, current, units) ==
    /\ current # None /\ units > 1
    /\ current > 0
    /\ 100 * Distance(cost, current * units) <= 15 * current * units

EffectiveUnitCost(quote, current) ==
    IF quote.type \in {"unit", "unknown"} /\ IsLikelyPackPrice(quote.cost, current, quote.units)
    THEN NormalizeOfferPrice(quote.cost, quote.units, "pack")
    ELSE NormalizeOfferPrice(quote.cost, quote.units, quote.type)

(* For checking the properties: the cheapest, whenever it was observed.    *)
CheapestEver(quotes) ==
    {q \in quotes : \A r \in quotes : r.supplier = q.supplier => q.cost <= r.cost}

(* The rows come by cost and only a newer one replaces a supplier's.       *)
LatestPerSupplier(quotes) ==
    {q \in quotes : \A r \in quotes : r.supplier = q.supplier =>
        r.at < q.at \/ (r.at = q.at /\ q.cost <= r.cost)}

(* Of quotations that tie, any: their order in the answer is the database's. *)
BestPrices(quotes, current, wanted) ==
    LET shown == {q \in LatestPerSupplier(quotes) : wanted = {} \/ q.supplier \in wanted}
        comparable == {q \in shown : EffectiveUnitCost(q, current) # None}
    IN  {q \in comparable : \A r \in comparable :
            EffectiveUnitCost(q, current) <= EffectiveUnitCost(r, current)}
=============================================================================
