--------------------------- MODULE MCCatalogImport ---------------------------
(***************************************************************************)
(* Files of two POS articles: one with an id and one with only a barcode.  *)
(***************************************************************************)
EXTENDS CatalogImport

Line(identity, family, price, stock) ==
    [identity |-> identity, family |-> family, price |-> price, stock |-> stock]

(* The catalog and its families.                                           *)
First == [rows |-> <<Line("id1", "drinks", 1, 1), Line("ean", None, 1, 1)>>,
          families |-> {"drinks"}]
(* Another price; the barcode twice, a row with neither name nor identity. *)
Repriced == [rows |-> <<Line("ean", "drinks", 1, 2), Line(None, None, 1, 1),
                        Line("ean", "drinks", 2, 1), Line("id1", "drinks", 2, 1)>>,
             families |-> {}]
(* Another stock.                                                          *)
Restocked == [rows |-> <<Line("id1", "drinks", 1, 2), Line("ean", "drinks", 1, 2)>>,
              families |-> {"drinks"}]

SomeFiles == {First, Repriced, Restocked}
=============================================================================
