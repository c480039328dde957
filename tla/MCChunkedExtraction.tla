------------------------- MODULE MCChunkedExtraction -------------------------
(***************************************************************************)
(* Two pages, a chunk each.  The first shows an offer, another price of    *)
(* it, it beside one of a similar name, or few rows for its estimate; the  *)
(* second an offer or a row under a page number that does not exist.       *)
(***************************************************************************)
EXTENDS ChunkedExtraction

Row(name, price) == [name |-> name, price |-> price]
Page(rows) == [rows |-> rows, stray |-> <<>>, flagged |-> FALSE]

SomeReadings ==
    <<{Page(<<Row("milk", 1)>>), Page(<<Row("milk", 2)>>),
       Page(<<Row("milk 1l", 1), Row("milk", 1)>>),
       [Page(<<Row("milk", 1)>>) EXCEPT !.flagged = TRUE]},
      {Page(<<Row("eggs", 1)>>), [Page(<<>>) EXCEPT !.stray = <<Row("eggs", 1)>>]}>>

SimilarNames == {{"milk", "milk 1l"}}
ReaderSeq == <<"gemini", "openai">>
=============================================================================
