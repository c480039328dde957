--------------------------- MODULE SupplierOffers ---------------------------
(***************************************************************************)
(* SupplierOfferService and SupplierPriceComparisonService over suppliers, *)
(* supplier_offer_documents, supplier_offer_items and supplier_products.   *)
(*                                                                         *)
(* A caller saves an offer (the supplier, the document, all of its items,  *)
(* and the document again, now complete) or the prices of a supplier, one  *)
(* by one, every step a transaction of its own.  Callers are requests on   *)
(* threads and the command line; any step may raise, or its process die,   *)
(* and a request may be repeated.                                          *)
(*                                                                         *)
(* A document of an analysis has the id of its run and keeps its ledger;   *)
(* other documents get an id of their own.  A supplier is its normalized   *)
(* name, an item one value.                                                *)
(***************************************************************************)
EXTENDS Integers, Sequences, FiniteSets

CONSTANTS
    Callers, Suppliers, Runs, Ledgers, Items,
    Catalog,        \* the products of the business
    Current(_),     \* their cost in the system, or None
    None,
    Offers,         \* the extractions and manual offers that are saved
    PriceLists,     \* the requests to record prices
    MaxRequests     \* bound: requests begun

PC == INSTANCE PriceComparison

Offer == [run : Runs \cup {None}, ledger : Ledgers \cup {None}, supplier : Suppliers,
          items : SUBSET Items, review : BOOLEAN]
Quote == [product : Nat, cost : Nat, units : Nat, type : PC!PriceTypes, at : Nat]
PriceList == [supplier : Suppliers, prices : Seq(Quote)]

ASSUME OffersAssumption ==
    /\ MaxRequests \in Nat
    /\ Offers \subseteq Offer /\ PriceLists \subseteq PriceList
    /\ \A l \in PriceLists : l.prices # <<>>
    /\ Runs \cap Nat = {} /\ None \notin Runs \cup Nat

Documents == Runs \cup 1..MaxRequests
Statuses == {"pending", "extracted", "failed"}
Document == [ledger : Ledgers \cup {None}, status : Statuses, complete : BOOLEAN]
Saved == [ledger : Ledgers \cup {None}, items : SUBSET Items]
Requests == 1..MaxRequests

ASSUME NoneAssumption == None \notin Document \cup Saved

VARIABLES
    suppliers,  \* suppliers
    documents,  \* supplier_offer_documents, by id
    saved,      \* supplier_offer_items, by document
    prices,     \* supplier_products
    phase,      \* of each caller: what its service call does next
    request,    \* the number of its request
    asked,      \* the offer or price list of each request
    found,      \* whether the caller's lookup of the supplier found it
    next,       \* how many prices of its list the caller has recorded
    reply,      \* the caller's document and items, to be answered
    answered    \* history: what was answered, offers and price lists

tables == <<suppliers, documents, saved, prices>>
vars == <<tables, phase, request, asked, found, next, reply, answered>>

NoReply == <<None, None>>

Init ==
    /\ suppliers = {} /\ documents = [d \in Documents |-> None]
    /\ saved = [d \in Documents |-> {}] /\ prices = {}
    /\ phase = [c \in Callers |-> "idle"] /\ request = [c \in Callers |-> 0]
    /\ asked = <<>>
    /\ found = [c \in Callers |-> FALSE] /\ next = [c \in Callers |-> 1]
    /\ reply = [c \in Callers |-> NoReply]
    /\ answered = [offers |-> {}, lists |-> {}]

Goes(c, before, after) == phase[c] = before /\ phase' = [phase EXCEPT ![c] = after]
Asked(c) == asked[request[c]]

(* The id of the document the caller writes.                               *)
Target(c) == IF Asked(c).run = None THEN request[c] ELSE Asked(c).run

-----------------------------------------------------------------------------
Ask(c, what, after) ==
    /\ Len(asked) < MaxRequests
    /\ Goes(c, "idle", after)
    /\ asked' = Append(asked, what)
    /\ request' = [request EXCEPT ![c] = Len(asked) + 1]
    /\ found' = [found EXCEPT ![c] = FALSE] /\ next' = [next EXCEPT ![c] = 1]
    /\ reply' = [reply EXCEPT ![c] = NoReply]
    /\ UNCHANGED <<tables, answered>>

CreateOffer(c) ==
    \E offer \in Offers : Ask(c, offer, IF offer.run = None THEN "supplier" ELSE "previous")
RecordSupplierPrices(c) == \E list \in PriceLists : Ask(c, list, "supplier")

(* For checking the properties: a document without its completion.         *)
SameLedger(previous, ledger) == previous.ledger = ledger

Reusable(previous, ledger) == previous.ledger = ledger /\ previous.complete

(* A run that is already saved: refused, or answered with what was saved.  *)
GetPrevious(c) ==
    LET previous == documents[Target(c)]
    IN  /\ phase[c] = "previous"
        /\ \/ /\ previous = None
              /\ Goes(c, "previous", "supplier")
           \/ /\ previous # None
              /\ ~Reusable(previous, Asked(c).ledger)
              /\ Goes(c, "previous", "idle")
           \/ /\ previous # None
              /\ Reusable(previous, Asked(c).ledger)
              /\ Goes(c, "previous", "reload")
        /\ UNCHANGED <<tables, request, asked, found, next, reply, answered>>

ListItems(c) ==
    /\ Goes(c, "reload", "answer")
    /\ reply' = [reply EXCEPT ![c] = <<Asked(c).ledger, saved[Target(c)]>>]
    /\ UNCHANGED <<tables, request, asked, found, next, answered>>

-----------------------------------------------------------------------------
SelectSupplier(c) ==
    /\ Goes(c, "supplier", "upsert")
    /\ found' = [found EXCEPT ![c] = Asked(c).supplier \in suppliers]
    /\ UNCHANGED <<tables, request, asked, next, reply, answered>>

IsPriceList(what) == "prices" \in DOMAIN what

(* The names of a business's suppliers are unique.                         *)
CommitSupplier(c) ==
    LET clash == ~found[c] /\ Asked(c).supplier \in suppliers
    IN  /\ phase[c] = "upsert"
        /\ Goes(c, "upsert", IF clash THEN "idle"
                             ELSE IF IsPriceList(Asked(c)) THEN "prices" ELSE "document")
        /\ suppliers' = suppliers \cup {Asked(c).supplier}
        /\ UNCHANGED <<documents, saved, prices, request, asked, found, next, reply, answered>>

AddDocument(c) ==
    /\ phase[c] = "document"
    /\ \/ /\ documents[Target(c)] = None
          /\ Goes(c, "document", "items")
          /\ documents' = [documents EXCEPT ![Target(c)] =
                [ledger |-> Asked(c).ledger, status |-> "pending", complete |-> FALSE]]
       \/ /\ documents[Target(c)] # None
          /\ Goes(c, "document", "idle")
          /\ UNCHANGED documents
    /\ UNCHANGED <<suppliers, saved, prices, request, asked, found, next, reply, answered>>

AddItems(c) ==
    /\ Goes(c, "items", "complete")
    /\ saved' = [saved EXCEPT ![Target(c)] = Asked(c).items]
    /\ UNCHANGED <<suppliers, documents, prices, request, asked, found, next, reply, answered>>

(* For checking the properties: no completed_at.                           *)
UpdateStatusOnly(c) ==
    /\ Goes(c, "complete", "answer")
    /\ documents' = [documents EXCEPT ![Target(c)] =
            [ledger |-> Asked(c).ledger, complete |-> FALSE, status |-> "extracted"]]
    /\ reply' = [reply EXCEPT ![c] = <<Asked(c).ledger, Asked(c).items>>]
    /\ UNCHANGED <<suppliers, saved, prices, request, asked, found, next, answered>>

UpdateDocument(c) ==
    /\ Goes(c, "complete", "answer")
    /\ documents' = [documents EXCEPT ![Target(c)] =
            [ledger |-> Asked(c).ledger, complete |-> TRUE,
             status |-> IF Asked(c).items = {} /\ Asked(c).review THEN "failed"
                        ELSE "extracted"]]
    /\ reply' = [reply EXCEPT ![c] = <<Asked(c).ledger, Asked(c).items>>]
    /\ UNCHANGED <<suppliers, saved, prices, request, asked, found, next, answered>>

AnswerOffer(c) ==
    /\ Goes(c, "answer", "idle")
    /\ answered' = [answered EXCEPT !.offers =
            answered.offers \cup {<<Target(c), [ledger |-> reply[c][1], items |-> reply[c][2]]>>}]
    /\ UNCHANGED <<tables, request, asked, found, next, reply>>

-----------------------------------------------------------------------------
Quoted(c) == Asked(c).prices[next[c]]

(* For checking the properties: a list that skips an unknown product.      *)
AddOrSkipSupplierProduct(c) ==
    /\ phase[c] = "prices" /\ next[c] <= Len(Asked(c).prices)
    /\ prices' = IF Quoted(c).product \notin Catalog THEN prices
                 ELSE prices \cup {[supplier |-> Asked(c).supplier, quote |-> Quoted(c),
                                    request |-> request[c], place |-> next[c]]}
    /\ next' = [next EXCEPT ![c] = next[c] + 1]
    /\ UNCHANGED <<suppliers, documents, saved, phase, request, asked, found, reply, answered>>

(* The rows of a price list that were saved before an unknown product, or  *)
(* before the call failed, stay.                                           *)
AddSupplierProduct(c) ==
    /\ phase[c] = "prices" /\ next[c] <= Len(Asked(c).prices)
    /\ \/ /\ Quoted(c).product \in Catalog
          /\ prices' = prices \cup {[supplier |-> Asked(c).supplier, quote |-> Quoted(c),
                                     request |-> request[c], place |-> next[c]]}
          /\ next' = [next EXCEPT ![c] = next[c] + 1]
          /\ UNCHANGED phase
       \/ /\ Quoted(c).product \notin Catalog
          /\ Goes(c, "prices", "idle")
          /\ UNCHANGED <<prices, next>>
    /\ UNCHANGED <<suppliers, documents, saved, request, asked, found, reply, answered>>

AnswerPrices(c) ==
    /\ phase[c] = "prices" /\ next[c] > Len(Asked(c).prices)
    /\ Goes(c, "prices", "idle")
    /\ answered' = [answered EXCEPT !.lists = answered.lists \cup {request[c]}]
    /\ UNCHANGED <<tables, request, asked, found, next, reply>>

(* A call raises, or its process dies, between two transactions.           *)
Fail(c) ==
    /\ phase[c] # "idle"
    /\ phase' = [phase EXCEPT ![c] = "idle"]
    /\ UNCHANGED <<tables, request, asked, found, next, reply, answered>>

Next == \E c \in Callers :
    \/ CreateOffer(c) \/ RecordSupplierPrices(c)
    \/ GetPrevious(c) \/ ListItems(c)
    \/ SelectSupplier(c) \/ CommitSupplier(c)
    \/ AddDocument(c) \/ AddItems(c) \/ UpdateDocument(c) \/ AnswerOffer(c)
    \/ AddSupplierProduct(c) \/ AnswerPrices(c)
    \/ Fail(c)

Spec == Init /\ [][Next]_vars

-----------------------------------------------------------------------------
Phases == {"idle", "previous", "reload", "supplier", "upsert", "document", "items", "complete",
           "answer", "prices"}
PriceRows == [supplier : Suppliers, quote : Quote, request : Requests, place : Nat \ {0}]

TypeOK ==
    /\ suppliers \subseteq Suppliers
    /\ documents \in [Documents -> Document \cup {None}]
    /\ \A d \in Documents : documents[d] # None =>
        (documents[d].complete <=> documents[d].status # "pending")
    /\ saved \in [Documents -> SUBSET Items]
    /\ prices \subseteq PriceRows
    /\ phase \in [Callers -> Phases]
    /\ asked \in Seq(Offers \cup PriceLists) /\ Len(asked) <= MaxRequests
    /\ request \in [Callers -> 0..Len(asked)]
    /\ found \in [Callers -> BOOLEAN] /\ next \in [Callers -> Nat \ {0}]
    /\ reply \in [Callers -> (Ledgers \cup {None}) \X ((SUBSET Items) \cup {None})]
    /\ answered \in [offers : SUBSET (Documents \X Saved), lists : SUBSET Requests]

(* The ledger a reader of complete documents sees.                         *)
Recorded == [d \in Documents |->
    IF documents[d] = None THEN None
    ELSE IF documents[d].complete
         THEN [ledger |-> documents[d].ledger, items |-> saved[d]] ELSE None]

(* The offers that may be saved under a document.                          *)
OffersOf == [d \in Documents |->
    {[ledger |-> o.ledger, items |-> o.items] :
        o \in {o \in Offers : o.run = d \/ (o.run = None /\ d \notin Runs)}}]

Ledger == INSTANCE OfferLedger WITH
    OffersOf <- OffersOf, Nothing <- None, recorded <- Recorded, answered <- answered.offers

(* Whatever fails, repeats or overlaps, a document that is complete was    *)
(* recorded at once with the evidence and all the items of one request,    *)
(* never changes, and every caller of its run is answered with just that:  *)
(* a second save of the run, or evidence that differs, never shows.        *)
OffersRecordedOnce == Ledger!Spec

(* The prices of a list that fails are those before the failure, none left *)
(* out, and a list that is answered was recorded whole.                    *)
PartialListsArePrefixes ==
    \A n \in DOMAIN asked : IsPriceList(asked[n]) =>
        LET rows == {r \in prices : r.request = n}
        IN  /\ \E k \in 0..Len(asked[n].prices) :
                rows = {[supplier |-> asked[n].supplier, quote |-> asked[n].prices[i],
                         request |-> n, place |-> i] : i \in 1..k}
            /\ n \in answered.lists =>
                Cardinality(rows) = Len(asked[n].prices)

QuotesOf(product) ==
    {[supplier |-> r.supplier, cost |-> r.quote.cost, units |-> r.quote.units,
      type |-> r.quote.type, at |-> r.quote.at] : r \in {r \in prices : r.quote.product = product}}

Newer(q, r) == q.at > r.at \/ (q.at = r.at /\ q.cost <= r.cost)

(* Once a list is answered, the comparison of a product recommends no      *)
(* price of its supplier that is older than the one it recorded, and no    *)
(* price dearer per unit than it, unless the supplier quoted again.        *)
RecommendedIsCurrent ==
    \A n \in answered.lists : \A i \in DOMAIN asked[n].prices :
        LET mine == asked[n].prices[i]
            quotes == QuotesOf(mine.product)
            unit(q) == PC!EffectiveUnitCost(q, Current(mine.product))
        IN  \A best \in PC!BestPrices(quotes, Current(mine.product), {}) :
                /\ best.supplier = asked[n].supplier => Newer(best, mine)
                /\ \/ unit(mine) = None
                   \/ unit(best) <= unit(mine)
                   \/ \E q \in quotes : q.supplier = asked[n].supplier /\ ~Newer(mine, q)
=============================================================================
