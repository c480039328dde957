-------------------------- MODULE MCSupplierOffers --------------------------
(***************************************************************************)
(* Two extractions of one run, a manual offer, and the price lists of two  *)
(* suppliers: by pack and by unit, an unknown product, and an old price.   *)
(***************************************************************************)
EXTENDS SupplierOffers

CONSTANT run

Extraction(r, ledger, items, review) ==
    [run |-> r, ledger |-> ledger, supplier |-> "vital", items |-> items, review |-> review]

SomeOffers ==
    {Extraction(run, "l1", {"i1", "i2"}, FALSE), Extraction(run, "l2", {}, TRUE),
     Extraction(None, None, {"i1"}, FALSE)}

Price(product, cost, units, type, at) ==
    [product |-> product, cost |-> cost, units |-> units, type |-> type, at |-> at]
List(supplier, quotes) == [supplier |-> supplier, prices |-> quotes]

(* Product 1 costs 100; 540 for six, said to be a unit price, is a pack.   *)
SomeLists ==
    {List("vital", <<Price(1, 540, 6, "unit", 2), Price(2, 80, 0, "unit", 2)>>),
     List("vital", <<Price(1, 95, 0, "unit", 1)>>),
     List("maxi", <<Price(1, 93, 0, "unit", 1), Price(3, 70, 0, "unit", 1),
                    Price(2, 75, 0, "unknown", 1)>>),
     List("maxi", <<Price(1, 600, 6, "pack", 2)>>)}

SystemCost(product) == IF product = 1 THEN 100 ELSE None
=============================================================================
