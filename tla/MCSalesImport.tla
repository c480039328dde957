---------------------------- MODULE MCSalesImport ----------------------------
(***************************************************************************)
(* Exports of a POS: part of a day, the whole day, two days, a day after,  *)
(* and one with an id repeated and without rows of its period.             *)
(***************************************************************************)
EXTENDS SalesImport

Sale(id, product, sku, day) == [id |-> id, product |-> product, sku |-> sku, day |-> day]
Export(rows, from, to) == [rows |-> rows, from |-> from, to |-> to]

Half == Export(<<Sale(1, "eggs", "s1", 1)>>, 1, 1)
Whole == Export(<<Sale(1, "eggs", "s1", 1), Sale(2, "eggs", "s1", 1)>>, 1, 1)
Both == Export(<<Sale(2, "eggs", "s1", 1), Sale(3, "milk", "s1", 1), Sale(4, "eggs", "s2", 2)>>,
               1, 2)
Repeated == Export(<<Sale(4, "eggs", "s2", 2), Sale(4, "eggs", "s1", 2)>>, 2, 2)
Empty == Export(<<>>, 1, 2)

SomeFiles == {Half, Whole, Both, Repeated, Empty}
=============================================================================
