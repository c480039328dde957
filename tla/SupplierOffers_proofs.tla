------------------------ MODULE SupplierOffers_proofs ------------------------
(***************************************************************************)
(* For every number of callers, runs and requests: saving supplier offers  *)
(* implements OfferLedger.  The invariant says who may still write a       *)
(* document: only the caller that inserted it, until it completes it, so a *)
(* complete document never changes, and what a caller is about to answer   *)
(* is what its document says.                                              *)
(***************************************************************************)
EXTENDS SupplierOffers, FiniteSetTheorems, FunctionTheorems, TLAPS

OfferPhases == {"previous", "reload", "document", "items", "complete", "answer"}
Writing == {"items", "complete"}

WellAsked == \A c \in Callers :
    /\ phase[c] # "idle" => request[c] \in 1..Len(asked)
    /\ phase[c] \in OfferPhases => Asked(c) \in Offers
    /\ phase[c] = "prices" => Asked(c) \in PriceLists

\* The only writer of an unfinished document is the caller that inserted it.
Writers == \A c \in Callers : phase[c] \in Writing =>
    /\ documents[Target(c)] # None /\ ~ documents[Target(c)].complete
    /\ phase[c] = "complete" => saved[Target(c)] = Asked(c).items
    /\ \A d \in Callers \ {c} : phase[d] \in Writing => Target(d) # Target(c)

Finished(d) == documents[d] # None /\ documents[d].complete

\* A caller that will answer has the offer of a complete document.
Answers == \A c \in Callers :
    /\ phase[c] = "reload" =>
          Finished(Target(c)) /\ documents[Target(c)].ledger = Asked(c).ledger
    /\ phase[c] = "answer" =>
          /\ Finished(Target(c))
          /\ reply[c] = <<documents[Target(c)].ledger, saved[Target(c)]>>

IInv == TypeOK /\ WellAsked /\ Writers /\ Answers

-----------------------------------------------------------------------------
LEMMA Stays ==
    ASSUME UNCHANGED <<asked, request>>, NEW c
    PROVE  Asked(c)' = Asked(c) /\ Target(c)' = Target(c)
BY DEF Asked, Target

\* What a caller saves is an offer that may be recorded under its document.
LEMMA Targets ==
    ASSUME OffersAssumption, IInv, NEW c \in Callers,
           phase[c] # "idle", Asked(c) \in Offers
    PROVE  /\ Target(c) \in Documents
           /\ Asked(c).ledger \in Ledgers \cup {None}
           /\ Asked(c).items \in SUBSET Items
           /\ [ledger |-> Asked(c).ledger, items |-> Asked(c).items] \in OffersOf[Target(c)]
<1>1. Asked(c) \in Offer
  BY DEF OffersAssumption
<1>2. request[c] \in 1..MaxRequests
  BY DEF IInv, WellAsked, TypeOK, OffersAssumption
<1>3. Target(c) \in Documents
  BY <1>1, <1>2 DEF Target, Documents, Offer
<1>4. Asked(c).run = Target(c) \/ (Asked(c).run = None /\ Target(c) \notin Runs)
  BY <1>2 DEF Target, OffersAssumption
<1>5. [ledger |-> Asked(c).ledger, items |-> Asked(c).items] \in OffersOf[Target(c)]
  BY <1>3, <1>4 DEF OffersOf
<1> QED BY <1>1, <1>3, <1>5 DEF Offer

\* A step that moves one caller and leaves every document alone.
LEMMA OneMoves ==
    ASSUME IInv, NEW c \in Callers, NEW p,
           phase' = [phase EXCEPT ![c] = p],
           UNCHANGED <<asked, request, documents, saved>>,
           \A d \in Callers \ {c} : reply'[d] = reply[d],
           p \notin Writing,
           p # "idle" => phase[c] # "idle",
           p \in OfferPhases => Asked(c) \in Offers,
           p = "prices" => Asked(c) \in PriceLists,
           p = "reload" => /\ Finished(Target(c))
                           /\ documents[Target(c)].ledger = Asked(c).ledger,
           p = "answer" => /\ Finished(Target(c))
                           /\ reply'[c] = <<documents[Target(c)].ledger, saved[Target(c)]>>
    PROVE  (WellAsked /\ Writers /\ Answers)'
<1>1. \A d \in Callers : Asked(d)' = Asked(d) /\ Target(d)' = Target(d)
  BY Stays
<1>2. \A d \in Callers : phase'[d] = IF d = c THEN p ELSE phase[d]
  BY DEF IInv, TypeOK
<1>3. WellAsked'
  BY <1>1, <1>2 DEF IInv, WellAsked
<1>4. Writers'
  BY <1>1, <1>2 DEF IInv, Writers
<1>5. Answers'
  BY <1>1, <1>2 DEF IInv, Answers, Finished
<1> QED BY <1>3, <1>4, <1>5

LEMMA Initially ==
    ASSUME OffersAssumption, Init
    PROVE  IInv
<1>1. TypeOK
  BY DEF Init, TypeOK, OffersAssumption, NoReply, Phases, Documents
<1>2. WellAsked /\ Writers /\ Answers
  BY DEF Init, WellAsked, Writers, Answers, OfferPhases, Writing
<1> QED BY <1>1, <1>2 DEF IInv

-----------------------------------------------------------------------------
\* A new request disturbs nobody else's: the ones before it keep their place.
LEMMA AskKeeps ==
    ASSUME OffersAssumption, IInv, NEW c \in Callers, NEW what \in Offers \cup PriceLists,
           NEW after \in {"previous", "supplier"}, after = "previous" => what \in Offers,
           Ask(c, what, after)
    PROVE  IInv'
<1>1. /\ asked \in Seq(Offers \cup PriceLists) /\ Len(asked) \in Nat
      /\ asked' = Append(asked, what) /\ Len(asked) < MaxRequests
      /\ MaxRequests \in Nat
  BY DEF IInv, TypeOK, Ask, OffersAssumption
<1>2. /\ asked' \in Seq(Offers \cup PriceLists) /\ Len(asked') = Len(asked) + 1
      /\ asked'[Len(asked) + 1] = what
      /\ \A n \in 1..Len(asked) : asked'[n] = asked[n]
  BY <1>1
<1>3. /\ request \in [Callers -> 0..Len(asked)]
      /\ \A d \in Callers : request'[d] = IF d = c THEN Len(asked) + 1 ELSE request[d]
      /\ \A d \in Callers : phase'[d] = IF d = c THEN after ELSE phase[d]
      /\ \A d \in Callers : reply'[d] = IF d = c THEN NoReply ELSE reply[d]
      /\ UNCHANGED <<tables, answered>>
  BY DEF IInv, TypeOK, Ask, Goes
<1>4. \A d \in Callers \ {c} : phase[d] # "idle" =>
        Asked(d)' = Asked(d) /\ Target(d)' = Target(d)
  BY <1>2, <1>3 DEF IInv, WellAsked, Asked, Target
<1>5. Asked(c)' = what
  BY <1>2, <1>3 DEF Asked
<1>6. TypeOK'
  <2>1. /\ request' \in [Callers -> 0..Len(asked')] /\ Len(asked') <= MaxRequests
        /\ request' = [request EXCEPT ![c] = Len(asked) + 1]
    BY <1>1, <1>2, <1>3 DEF Ask
  <2>2. /\ phase' \in [Callers -> Phases] /\ found' \in [Callers -> BOOLEAN]
        /\ next' \in [Callers -> Nat \ {0}]
    BY DEF IInv, TypeOK, Ask, Goes, Phases
  <2>3. reply' \in [Callers -> (Ledgers \cup {None}) \X ((SUBSET Items) \cup {None})]
    BY DEF IInv, TypeOK, Ask, NoReply
  <2> QED BY <1>2, <1>3, <2>1, <2>2, <2>3 DEF IInv, TypeOK, tables
<1>7. WellAsked'
  <2> SUFFICES ASSUME NEW d \in Callers
               PROVE  /\ phase'[d] # "idle" => request'[d] \in 1..Len(asked')
                      /\ phase'[d] \in OfferPhases => Asked(d)' \in Offers
                      /\ phase'[d] = "prices" => Asked(d)' \in PriceLists
    BY DEF WellAsked
  <2>1. CASE d = c
    BY <1>1, <1>2, <1>3, <1>5, <2>1 DEF OfferPhases
  <2>2. CASE d # c
    BY <1>1, <1>2, <1>3, <1>4, <2>2 DEF IInv, WellAsked, OfferPhases
  <2> QED BY <2>1, <2>2
<1>8. Writers'
  BY <1>3, <1>4 DEF IInv, Writers, Writing, tables
<1>9. Answers'
  BY <1>3, <1>4 DEF IInv, Answers, Finished, tables
<1> QED BY <1>6, <1>7, <1>8, <1>9 DEF IInv

LEMMA CreateOfferKeeps ==
    ASSUME OffersAssumption, IInv, NEW c \in Callers, CreateOffer(c)
    PROVE  IInv'
BY AskKeeps DEF CreateOffer

LEMMA RecordSupplierPricesKeeps ==
    ASSUME OffersAssumption, IInv, NEW c \in Callers, RecordSupplierPrices(c)
    PROVE  IInv'
BY AskKeeps DEF RecordSupplierPrices

LEMMA GetPreviousKeeps ==
    ASSUME OffersAssumption, IInv, NEW c \in Callers, GetPrevious(c)
    PROVE  IInv'
<1>1. PICK p \in {"supplier", "idle", "reload"} :
        /\ phase' = [phase EXCEPT ![c] = p]
        /\ p = "reload" => Finished(Target(c)) /\ documents[Target(c)].ledger = Asked(c).ledger
  BY DEF GetPrevious, Goes, Reusable, Finished
<1>2. Asked(c) \in Offers /\ phase[c] = "previous"
  BY DEF GetPrevious, IInv, WellAsked, OfferPhases
<1>3. UNCHANGED <<tables, request, asked, found, next, reply, answered>>
  BY DEF GetPrevious
<1>4. TypeOK'
  BY <1>1, <1>3 DEF IInv, TypeOK, Phases, tables
<1>5. (WellAsked /\ Writers /\ Answers)'
  <2>1. p \notin Writing /\ p # "prices" /\ p # "answer"
    BY DEF Writing
  <2> QED BY <1>1, <1>2, <1>3, <2>1, OneMoves DEF tables
<1> QED BY <1>4, <1>5 DEF IInv

\* The reply is the ledger asked for, which is the document's, and its items.
LEMMA ListItemsKeeps ==
    ASSUME OffersAssumption, IInv, NEW c \in Callers, ListItems(c)
    PROVE  IInv'
<1>1. Asked(c) \in Offers /\ phase[c] = "reload"
  BY DEF ListItems, Goes, IInv, WellAsked, OfferPhases
<1>2. Target(c) \in Documents /\ Asked(c).ledger \in Ledgers \cup {None}
  BY <1>1, Targets
<1>3. /\ phase' = [phase EXCEPT ![c] = "answer"]
      /\ reply' = [reply EXCEPT ![c] = <<Asked(c).ledger, saved[Target(c)]>>]
      /\ UNCHANGED <<tables, request, asked, found, next, answered>>
  BY DEF ListItems, Goes
<1>4. TypeOK'
  BY <1>2, <1>3 DEF IInv, TypeOK, Phases, tables
<1>5. /\ Finished(Target(c))
      /\ reply'[c] = <<documents[Target(c)].ledger, saved[Target(c)]>>
      /\ \A d \in Callers \ {c} : reply'[d] = reply[d]
  BY <1>1, <1>3 DEF IInv, TypeOK, Answers
<1>6. (WellAsked /\ Writers /\ Answers)'
  BY <1>1, <1>3, <1>5, OneMoves DEF tables, Writing
<1> QED BY <1>4, <1>6 DEF IInv

LEMMA SelectSupplierKeeps ==
    ASSUME OffersAssumption, IInv, NEW c \in Callers, SelectSupplier(c)
    PROVE  IInv'
<1>1. /\ phase[c] = "supplier" /\ phase' = [phase EXCEPT ![c] = "upsert"]
      /\ UNCHANGED <<tables, request, asked, next, reply, answered>>
  BY DEF SelectSupplier, Goes
<1>2. TypeOK'
  BY <1>1 DEF SelectSupplier, IInv, TypeOK, Phases, tables
<1>3. (WellAsked /\ Writers /\ Answers)'
  BY <1>1, OneMoves DEF tables, Writing, OfferPhases
<1> QED BY <1>2, <1>3 DEF IInv

LEMMA CommitSupplierKeeps ==
    ASSUME OffersAssumption, IInv, NEW c \in Callers, CommitSupplier(c)
    PROVE  IInv'
<1>1. /\ phase[c] = "upsert"
      /\ phase' \in {[phase EXCEPT ![c] = p] : p \in {"idle", "prices", "document"}}
      /\ UNCHANGED <<documents, saved, prices, request, asked, found, next, reply, answered>>
  BY DEF CommitSupplier, Goes
<1>2. PICK p \in {"idle", "prices", "document"} :
        /\ phase' = [phase EXCEPT ![c] = p]
        /\ p = "prices" => IsPriceList(Asked(c))
        /\ p = "document" => ~ IsPriceList(Asked(c))
  BY DEF CommitSupplier, Goes
<1>3. Asked(c) \in Offers \cup PriceLists
  <2>1. request[c] \in 1..Len(asked) /\ asked \in Seq(Offers \cup PriceLists)
    BY <1>1 DEF IInv, TypeOK, WellAsked
  <2> QED BY <2>1 DEF Asked
<1>4. \A o \in Offers : ~ IsPriceList(o)
  <2>1. \A o \in Offer : DOMAIN o = {"run", "ledger", "supplier", "items", "review"}
    BY DEF Offer
  <2> QED BY <2>1 DEF OffersAssumption, IsPriceList
<1>5. \A l \in PriceLists : IsPriceList(l) /\ l.supplier \in Suppliers
  BY DEF OffersAssumption, IsPriceList, PriceList
<1>6. Asked(c).supplier \in Suppliers
  BY <1>3, <1>5 DEF OffersAssumption, Offer
<1>7. TypeOK'
  BY <1>1, <1>2, <1>6 DEF CommitSupplier, IInv, TypeOK, Phases
<1>8. (WellAsked /\ Writers /\ Answers)'
  <2>1. /\ p \notin Writing /\ p # "reload" /\ p # "answer"
        /\ p \in OfferPhases => Asked(c) \in Offers
        /\ p = "prices" => Asked(c) \in PriceLists
    BY <1>2, <1>3, <1>4, <1>5 DEF Writing, OfferPhases
  <2> QED BY <1>1, <1>2, <2>1, OneMoves
<1> QED BY <1>7, <1>8 DEF IInv

\* The document is new, so nobody writes it.
LEMMA AddDocumentKeeps ==
    ASSUME OffersAssumption, IInv, NEW c \in Callers, AddDocument(c)
    PROVE  IInv'
<1>1. /\ phase[c] = "document" /\ Asked(c) \in Offers
      /\ UNCHANGED <<suppliers, saved, prices, request, asked, found, next, reply, answered>>
  BY DEF AddDocument, IInv, WellAsked, OfferPhases
<1>2. Target(c) \in Documents /\ Asked(c).ledger \in Ledgers \cup {None}
  BY <1>1, Targets
<1>3. CASE documents[Target(c)] # None
  <2>1. UNCHANGED documents /\ phase' = [phase EXCEPT ![c] = "idle"]
    BY <1>3 DEF AddDocument, Goes
  <2>2. TypeOK'
    BY <1>1, <2>1 DEF IInv, TypeOK, Phases
  <2>3. (WellAsked /\ Writers /\ Answers)'
    BY <1>1, <2>1, OneMoves DEF Writing, OfferPhases
  <2> QED BY <2>2, <2>3 DEF IInv
<1>4. CASE documents[Target(c)] = None
  <2> DEFINE new == [ledger |-> Asked(c).ledger, status |-> "pending", complete |-> FALSE]
  <2>1. documents' = [documents EXCEPT ![Target(c)] = new]
        /\ phase' = [phase EXCEPT ![c] = "items"]
    BY <1>4 DEF AddDocument, Goes
  <2>2. /\ new \in Document /\ ~ new.complete /\ new.status = "pending" /\ new # None
        /\ new.ledger = Asked(c).ledger
    <3>1. new \in Document
      BY <1>2 DEF Document, Statuses
    <3>2. new # None
      BY <3>1, NoneAssumption
    <3> QED BY <3>1, <3>2
  <2> HIDE DEF new
  <2>3. \A d \in Documents : documents'[d] = IF d = Target(c) THEN new ELSE documents[d]
    BY <2>1 DEF IInv, TypeOK
  <2>4. \A d \in Callers : phase'[d] = IF d = c THEN "items" ELSE phase[d]
    BY <2>1 DEF IInv, TypeOK
  <2>5. \A d \in Callers : Asked(d)' = Asked(d) /\ Target(d)' = Target(d)
    BY <1>1, Stays
  <2>6. \A d \in Callers : phase[d] \in OfferPhases => Target(d) \in Documents
    BY Targets DEF IInv, WellAsked, OfferPhases
  <2>7. TypeOK'
    <3>1. documents' \in [Documents -> Document \cup {None}]
      BY <2>1, <2>2 DEF IInv, TypeOK
    <3>2. \A d \in Documents : documents'[d] # None =>
            (documents'[d].complete <=> documents'[d].status # "pending")
      BY <2>2, <2>3 DEF IInv, TypeOK
    <3> QED BY <1>1, <2>1, <3>1, <3>2 DEF IInv, TypeOK, Phases
  <2>8. WellAsked'
    BY <1>1, <2>4, <2>5 DEF IInv, WellAsked, OfferPhases
  <2>9. Writers'
    BY <1>1, <1>2, <1>4, <2>2, <2>3, <2>4, <2>5, <2>6 DEF IInv, Writers, Writing, OfferPhases
  <2>10. Answers'
    BY <1>1, <1>4, <2>3, <2>4, <2>5, <2>6 DEF IInv, Answers, Finished, OfferPhases
  <2> QED BY <2>7, <2>8, <2>9, <2>10 DEF IInv
<1> QED BY <1>3, <1>4

LEMMA AddItemsKeeps ==
    ASSUME OffersAssumption, IInv, NEW c \in Callers, AddItems(c)
    PROVE  IInv'
<1>1. /\ phase[c] = "items" /\ phase' = [phase EXCEPT ![c] = "complete"]
      /\ Asked(c) \in Offers
      /\ saved' = [saved EXCEPT ![Target(c)] = Asked(c).items]
      /\ UNCHANGED <<suppliers, documents, prices, request, asked, found, next, reply, answered>>
  BY DEF AddItems, Goes, IInv, WellAsked, OfferPhases
<1>2. Target(c) \in Documents /\ Asked(c).items \in SUBSET Items
  BY <1>1, Targets
<1>3. \A d \in Documents : saved'[d] = IF d = Target(c) THEN Asked(c).items ELSE saved[d]
  BY <1>1 DEF IInv, TypeOK
<1>4. \A d \in Callers : phase'[d] = IF d = c THEN "complete" ELSE phase[d]
  BY <1>1 DEF IInv, TypeOK
<1>5. \A d \in Callers : Asked(d)' = Asked(d) /\ Target(d)' = Target(d)
  BY <1>1, Stays
<1>6. \A d \in Callers : phase[d] \in OfferPhases => Target(d) \in Documents
  BY Targets DEF IInv, WellAsked, OfferPhases
<1>7. TypeOK'
  BY <1>1, <1>2 DEF IInv, TypeOK, Phases
<1>8. WellAsked'
  BY <1>1, <1>4, <1>5 DEF IInv, WellAsked, OfferPhases
<1>9. Writers'
  BY <1>1, <1>2, <1>3, <1>4, <1>5, <1>6 DEF IInv, Writers, Writing, OfferPhases
<1>10. Answers'
  BY <1>1, <1>3, <1>4, <1>5, <1>6 DEF IInv, Answers, Writers, Writing, Finished, OfferPhases
<1> QED BY <1>7, <1>8, <1>9, <1>10 DEF IInv

LEMMA UpdateDocumentKeeps ==
    ASSUME OffersAssumption, IInv, NEW c \in Callers, UpdateDocument(c)
    PROVE  IInv'
<1> DEFINE new == [ledger |-> Asked(c).ledger, complete |-> TRUE,
                   status |-> IF Asked(c).items = {} /\ Asked(c).review THEN "failed"
                              ELSE "extracted"]
<1>1. /\ phase[c] = "complete" /\ phase' = [phase EXCEPT ![c] = "answer"]
      /\ Asked(c) \in Offers
      /\ documents' = [documents EXCEPT ![Target(c)] = new]
      /\ reply' = [reply EXCEPT ![c] = <<Asked(c).ledger, Asked(c).items>>]
      /\ UNCHANGED <<suppliers, saved, prices, request, asked, found, next, answered>>
  BY DEF UpdateDocument, Goes, IInv, WellAsked, OfferPhases
<1>2. /\ Target(c) \in Documents /\ Asked(c).items \in SUBSET Items
      /\ Asked(c).ledger \in Ledgers \cup {None}
  BY <1>1, Targets
<1>3. /\ new \in Document /\ new.complete /\ new.status # "pending" /\ new # None
      /\ new.ledger = Asked(c).ledger
  <2>1. new \in Document
    BY <1>2 DEF Document, Statuses
  <2>2. new # None
    BY <2>1, NoneAssumption
  <2> QED BY <2>1, <2>2
<1> HIDE DEF new
<1>4. \A d \in Documents : documents'[d] = IF d = Target(c) THEN new ELSE documents[d]
  BY <1>1 DEF IInv, TypeOK
<1>5. /\ \A d \in Callers : phase'[d] = IF d = c THEN "answer" ELSE phase[d]
      /\ \A d \in Callers : reply'[d] = IF d = c THEN <<Asked(c).ledger, Asked(c).items>>
                                        ELSE reply[d]
  BY <1>1 DEF IInv, TypeOK
<1>6. \A d \in Callers : Asked(d)' = Asked(d) /\ Target(d)' = Target(d)
  BY <1>1, Stays
<1>7. \A d \in Callers : phase[d] \in OfferPhases => Target(d) \in Documents
  BY Targets DEF IInv, WellAsked, OfferPhases
<1>8. TypeOK'
  <2>1. documents' \in [Documents -> Document \cup {None}]
    BY <1>1, <1>3 DEF IInv, TypeOK
  <2>2. \A d \in Documents : documents'[d] # None =>
          (documents'[d].complete <=> documents'[d].status # "pending")
    BY <1>3, <1>4 DEF IInv, TypeOK
  <2>3. reply' \in [Callers -> (Ledgers \cup {None}) \X ((SUBSET Items) \cup {None})]
    BY <1>1, <1>2 DEF IInv, TypeOK
  <2> QED BY <1>1, <2>1, <2>2, <2>3 DEF IInv, TypeOK, Phases
<1>9. WellAsked'
  BY <1>1, <1>5, <1>6 DEF IInv, WellAsked, OfferPhases
<1>10. Writers'
  BY <1>1, <1>2, <1>4, <1>5, <1>6, <1>7 DEF IInv, Writers, Writing, OfferPhases
<1>11. saved[Target(c)] = Asked(c).items /\ ~ Finished(Target(c))
  BY <1>1 DEF IInv, Writers, Writing, Finished
<1>12. Answers'
  BY <1>1, <1>2, <1>3, <1>4, <1>5, <1>6, <1>7, <1>11 DEF IInv, Answers, Finished, OfferPhases
<1> QED BY <1>8, <1>9, <1>10, <1>12 DEF IInv

LEMMA AnswerOfferKeeps ==
    ASSUME OffersAssumption, IInv, NEW c \in Callers, AnswerOffer(c)
    PROVE  IInv'
<1>1. /\ phase[c] = "answer" /\ phase' = [phase EXCEPT ![c] = "idle"]
      /\ Asked(c) \in Offers
      /\ UNCHANGED <<tables, request, asked, found, next, reply>>
  BY DEF AnswerOffer, Goes, IInv, WellAsked, OfferPhases
<1>2. Target(c) \in Documents
  BY <1>1, Targets
<1>3. /\ reply[c] = <<documents[Target(c)].ledger, saved[Target(c)]>>
      /\ documents[Target(c)] \in Document
  BY <1>1, <1>2 DEF IInv, TypeOK, Answers, Finished
<1>4. [ledger |-> reply[c][1], items |-> reply[c][2]] \in Saved
  BY <1>2, <1>3 DEF IInv, TypeOK, Document, Saved
<1>5. answered' \in [offers : SUBSET (Documents \X Saved), lists : SUBSET Requests]
  <2> DEFINE more == answered.offers \cup
                       {<<Target(c), [ledger |-> reply[c][1], items |-> reply[c][2]]>>}
  <2>1. answered \in [offers : SUBSET (Documents \X Saved), lists : SUBSET Requests]
    BY DEF IInv, TypeOK
  <2>2. more \in SUBSET (Documents \X Saved)
    BY <1>2, <1>4, <2>1
  <2>3. answered' = [answered EXCEPT !.offers = more]
    BY DEF AnswerOffer
  <2> HIDE DEF more
  <2> QED BY <2>1, <2>2, <2>3
<1>6. TypeOK'
  BY <1>1, <1>5 DEF IInv, TypeOK, Phases, tables
<1>7. (WellAsked /\ Writers /\ Answers)'
  BY <1>1, OneMoves DEF tables, Writing, OfferPhases
<1> QED BY <1>6, <1>7 DEF IInv

LEMMA AddSupplierProductKeeps ==
    ASSUME OffersAssumption, IInv, NEW c \in Callers, AddSupplierProduct(c)
    PROVE  IInv'
<1>1. /\ phase[c] = "prices" /\ Asked(c) \in PriceLists
      /\ request[c] \in Requests /\ next[c] \in Nat \ {0}
      /\ next[c] <= Len(Asked(c).prices)
      /\ UNCHANGED <<suppliers, documents, saved, request, asked, found, reply, answered>>
  BY DEF AddSupplierProduct, IInv, WellAsked, TypeOK, Requests, OffersAssumption
<1>2. Asked(c).supplier \in Suppliers /\ Asked(c).prices \in Seq(Quote)
  BY <1>1 DEF OffersAssumption, PriceList
<1>3. Quoted(c) \in Quote
  <2>1. Len(Asked(c).prices) \in Nat /\ next[c] \in 1..Len(Asked(c).prices)
    BY <1>1, <1>2
  <2> QED BY <1>2, <2>1 DEF Quoted
<1>4. CASE Quoted(c).product \in Catalog
  <2>1. /\ prices' = prices \cup {[supplier |-> Asked(c).supplier, quote |-> Quoted(c),
                                   request |-> request[c], place |-> next[c]]}
        /\ next' = [next EXCEPT ![c] = next[c] + 1]
        /\ UNCHANGED phase
    BY <1>4 DEF AddSupplierProduct
  <2>2. prices' \subseteq PriceRows
    BY <1>1, <1>2, <1>3, <2>1 DEF IInv, TypeOK, PriceRows
  <2>3. next' \in [Callers -> Nat \ {0}]
    BY <1>1, <2>1 DEF IInv, TypeOK
  <2>4. TypeOK'
    BY <1>1, <2>1, <2>2, <2>3 DEF IInv, TypeOK
  <2>5. \A d \in Callers : Asked(d)' = Asked(d) /\ Target(d)' = Target(d)
    BY <1>1, Stays
  <2>6. (WellAsked /\ Writers /\ Answers)'
    BY <1>1, <2>1, <2>5 DEF IInv, WellAsked, Writers, Answers, Finished
  <2> QED BY <2>4, <2>6 DEF IInv
<1>5. CASE Quoted(c).product \notin Catalog
  <2>1. phase' = [phase EXCEPT ![c] = "idle"] /\ UNCHANGED <<prices, next>>
    BY <1>5 DEF AddSupplierProduct, Goes
  <2>2. TypeOK'
    BY <1>1, <2>1 DEF IInv, TypeOK, Phases
  <2>3. (WellAsked /\ Writers /\ Answers)'
    BY <1>1, <2>1, OneMoves DEF Writing, OfferPhases
  <2> QED BY <2>2, <2>3 DEF IInv
<1> QED BY <1>4, <1>5

LEMMA AnswerPricesKeeps ==
    ASSUME OffersAssumption, IInv, NEW c \in Callers, AnswerPrices(c)
    PROVE  IInv'
<1>1. /\ phase[c] = "prices" /\ phase' = [phase EXCEPT ![c] = "idle"]
      /\ request[c] \in Requests
      /\ UNCHANGED <<tables, request, asked, found, next, reply>>
  BY DEF AnswerPrices, Goes, IInv, WellAsked, TypeOK, Requests, OffersAssumption
<1>2. answered' \in [offers : SUBSET (Documents \X Saved), lists : SUBSET Requests]
  BY <1>1 DEF AnswerPrices, IInv, TypeOK
<1>3. TypeOK'
  BY <1>1, <1>2 DEF IInv, TypeOK, Phases, tables
<1>4. (WellAsked /\ Writers /\ Answers)'
  BY <1>1, OneMoves DEF tables, Writing, OfferPhases
<1> QED BY <1>3, <1>4 DEF IInv

\* Whoever fails stops writing: its document stays unfinished for good.
LEMMA FailKeeps ==
    ASSUME OffersAssumption, IInv, NEW c \in Callers, Fail(c)
    PROVE  IInv'
<1>1. /\ phase[c] # "idle" /\ phase' = [phase EXCEPT ![c] = "idle"]
      /\ UNCHANGED <<tables, request, asked, found, next, reply, answered>>
  BY DEF Fail
<1>2. TypeOK'
  BY <1>1 DEF IInv, TypeOK, Phases, tables
<1>3. (WellAsked /\ Writers /\ Answers)'
  BY <1>1, OneMoves DEF tables, Writing, OfferPhases
<1> QED BY <1>2, <1>3 DEF IInv

-----------------------------------------------------------------------------
\* Every step keeps the invariant.
LEMMA Inductive ==
    ASSUME OffersAssumption, IInv, [Next]_vars
    PROVE  IInv'
<1>1. CASE UNCHANGED vars
  <2>1. UNCHANGED <<tables, phase, request, asked, found, next, reply, answered>>
    BY <1>1 DEF vars
  <2>2. \A d \in Callers : Asked(d)' = Asked(d) /\ Target(d)' = Target(d)
    BY <2>1, Stays
  <2>3. TypeOK'
    BY <2>1 DEF IInv, TypeOK, tables
  <2>4. (WellAsked /\ Writers /\ Answers)'
    BY <2>1, <2>2 DEF IInv, WellAsked, Writers, Answers, Finished, tables
  <2> QED BY <2>3, <2>4 DEF IInv
<1>2. ASSUME NEW c \in Callers,
             \/ CreateOffer(c) \/ RecordSupplierPrices(c) \/ GetPrevious(c) \/ ListItems(c)
             \/ SelectSupplier(c) \/ CommitSupplier(c)
             \/ AddDocument(c) \/ AddItems(c) \/ UpdateDocument(c) \/ AnswerOffer(c)
             \/ AddSupplierProduct(c) \/ AnswerPrices(c) \/ Fail(c)
      PROVE  IInv'
  BY <1>2, CreateOfferKeeps, RecordSupplierPricesKeeps, GetPreviousKeeps, ListItemsKeeps,
     SelectSupplierKeeps, CommitSupplierKeeps, AddDocumentKeeps, AddItemsKeeps,
     UpdateDocumentKeeps, AnswerOfferKeeps, AddSupplierProductKeeps, AnswerPricesKeeps,
     FailKeeps
<1> QED BY <1>1, <1>2 DEF Next

-----------------------------------------------------------------------------
(* The refinement: completing a document records it, answering answers,    *)
(* and every other step stutters.                                          *)

LEMMA InitRefines ==
    ASSUME Init
    PROVE  Ledger!Init
BY DEF Init, Ledger!Init, Recorded

\* Recorded, one document at a time.
LEMMA WhatIsRecorded ==
    ASSUME NEW d \in Documents
    PROVE  /\ Finished(d) => Recorded[d] = [ledger |-> documents[d].ledger, items |-> saved[d]]
           /\ ~ Finished(d) => Recorded[d] = None
BY DEF Recorded, Finished

LEMMA Untouched ==
    ASSUME UNCHANGED <<documents, saved>>
    PROVE  UNCHANGED Recorded
BY DEF Recorded

LEMMA AddDocumentStutters ==
    ASSUME OffersAssumption, IInv, NEW c \in Callers, AddDocument(c)
    PROVE  UNCHANGED <<Recorded, answered.offers>>
<1>1. Asked(c) \in Offers /\ phase[c] # "idle"
  BY DEF AddDocument, IInv, WellAsked, OfferPhases
<1>2. Target(c) \in Documents
  BY <1>1, Targets
<1> DEFINE new == [ledger |-> Asked(c).ledger, status |-> "pending", complete |-> FALSE]
<1>3. CASE UNCHANGED documents
  BY <1>3, Untouched DEF AddDocument
<1>4. CASE /\ documents[Target(c)] = None
           /\ documents' = [documents EXCEPT ![Target(c)] = new]
  <2>1. ~ new.complete
    OBVIOUS
  <2> HIDE DEF new
  <2>2. \A d \in Documents : documents'[d] = IF d = Target(c) THEN new ELSE documents[d]
    BY <1>4 DEF IInv, TypeOK
  <2>3. UNCHANGED <<saved, answered>>
    BY DEF AddDocument
  <2> QED BY <1>4, <2>1, <2>2, <2>3 DEF Recorded
<1> QED BY <1>3, <1>4 DEF AddDocument

LEMMA AddItemsStutters ==
    ASSUME OffersAssumption, IInv, NEW c \in Callers, AddItems(c)
    PROVE  UNCHANGED <<Recorded, answered.offers>>
<1>1. phase[c] = "items" /\ Asked(c) \in Offers
  BY DEF AddItems, Goes, IInv, WellAsked, OfferPhases
<1>2. Target(c) \in Documents /\ ~ documents[Target(c)].complete
  BY <1>1, Targets DEF IInv, Writers, Writing
<1>3. \A d \in Documents : d # Target(c) => saved'[d] = saved[d]
  BY DEF AddItems, IInv, TypeOK
<1> QED BY <1>2, <1>3 DEF AddItems, Recorded

LEMMA UpdateDocumentRecords ==
    ASSUME OffersAssumption, IInv, NEW c \in Callers, UpdateDocument(c)
    PROVE  Ledger!Record(Target(c)) /\ Target(c) \in Documents
<1> DEFINE new == [ledger |-> Asked(c).ledger, complete |-> TRUE,
                   status |-> IF Asked(c).items = {} /\ Asked(c).review THEN "failed"
                              ELSE "extracted"]
           offer == [ledger |-> Asked(c).ledger, items |-> Asked(c).items]
<1>1. /\ phase[c] = "complete" /\ Asked(c) \in Offers
      /\ documents' = [documents EXCEPT ![Target(c)] = new]
      /\ UNCHANGED <<saved, answered>>
  BY DEF UpdateDocument, Goes, IInv, WellAsked, OfferPhases
<1>2. /\ Target(c) \in Documents /\ Asked(c).ledger \in Ledgers \cup {None}
      /\ offer \in OffersOf[Target(c)]
  BY <1>1, Targets
<1>3. /\ saved[Target(c)] = Asked(c).items
      /\ documents[Target(c)] # None /\ ~ documents[Target(c)].complete
  BY <1>1 DEF IInv, Writers, Writing
<1>4. new.complete /\ new.ledger = Asked(c).ledger /\ new # None
  <2>1. new \in Document
    BY <1>2 DEF Document, Statuses
  <2>2. new # None
    BY <2>1, NoneAssumption
  <2> QED BY <2>2
<1> HIDE DEF new
<1>5. \A d \in Documents : documents'[d] = IF d = Target(c) THEN new ELSE documents[d]
  BY <1>1 DEF IInv, TypeOK
<1>6. \A d \in Documents : Recorded'[d] = IF d = Target(c) THEN offer ELSE Recorded[d]
  BY <1>1, <1>2, <1>3, <1>4, <1>5 DEF Recorded
<1>7. Recorded' = [Recorded EXCEPT ![Target(c)] = offer]
  <2>1. /\ Recorded = [d \in Documents |-> Recorded[d]]
        /\ Recorded' = [d \in Documents |-> Recorded'[d]]
    BY DEF Recorded
  <2> HIDE DEF offer
  <2> QED BY <1>2, <1>6, <2>1
<1>8. Recorded[Target(c)] = None
  BY <1>2, <1>3 DEF Recorded
<1> QED BY <1>1, <1>2, <1>7, <1>8 DEF Ledger!Record

LEMMA AnswerOfferAnswers ==
    ASSUME OffersAssumption, IInv, NEW c \in Callers, AnswerOffer(c)
    PROVE  Ledger!Answer(Target(c)) /\ Target(c) \in Documents
<1>1. phase[c] = "answer" /\ Asked(c) \in Offers
  BY DEF AnswerOffer, Goes, IInv, WellAsked, OfferPhases
<1>2. Target(c) \in Documents
  BY <1>1, Targets
<1>3. /\ Finished(Target(c)) /\ documents[Target(c)] \in Document
      /\ reply[c] = <<documents[Target(c)].ledger, saved[Target(c)]>>
  BY <1>1, <1>2 DEF IInv, TypeOK, Answers, Finished
<1> DEFINE offer == [ledger |-> documents[Target(c)].ledger, items |-> saved[Target(c)]]
<1>4. Recorded[Target(c)] = offer
  BY <1>2, <1>3, WhatIsRecorded
<1>5. offer # None
  <2>1. offer \in Saved
    BY <1>2, <1>3 DEF IInv, TypeOK, Document, Saved
  <2> QED BY <2>1, NoneAssumption
<1>6. answered'.offers = answered.offers \cup {<<Target(c), offer>>}
  <2>1. answered \in [offers : SUBSET (Documents \X Saved), lists : SUBSET Requests]
    BY DEF IInv, TypeOK
  <2>2. [ledger |-> reply[c][1], items |-> reply[c][2]] = offer
    BY <1>3
  <2> DEFINE more == answered.offers \cup
                       {<<Target(c), [ledger |-> reply[c][1], items |-> reply[c][2]]>>}
  <2>3. answered' = [answered EXCEPT !.offers = more]
    BY DEF AnswerOffer
  <2>4. more = answered.offers \cup {<<Target(c), offer>>}
    BY <2>2
  <2> HIDE DEF more, offer
  <2> QED BY <2>1, <2>3, <2>4
<1>7. UNCHANGED Recorded
  BY Untouched DEF AnswerOffer, tables
<1> QED BY <1>2, <1>4, <1>5, <1>6, <1>7 DEF Ledger!Answer

LEMMA NextRefines ==
    ASSUME OffersAssumption, IInv, [Next]_vars
    PROVE  [Ledger!Next]_<<Recorded, answered.offers>>
<1>1. CASE UNCHANGED vars
  BY <1>1, Untouched DEF vars, tables
<1>2. ASSUME NEW c \in Callers,
             \/ CreateOffer(c) \/ RecordSupplierPrices(c) \/ GetPrevious(c) \/ ListItems(c)
             \/ SelectSupplier(c) \/ CommitSupplier(c) \/ AddSupplierProduct(c) \/ Fail(c)
      PROVE  UNCHANGED <<Recorded, answered.offers>>
  BY <1>2, Untouched DEF CreateOffer, RecordSupplierPrices, Ask, GetPrevious, ListItems,
     SelectSupplier, CommitSupplier, AddSupplierProduct, Fail, tables
<1>3. ASSUME NEW c \in Callers, AnswerPrices(c)
      PROVE  UNCHANGED <<Recorded, answered.offers>>
  <2>1. answered \in [offers : SUBSET (Documents \X Saved), lists : SUBSET Requests]
    BY DEF IInv, TypeOK
  <2>2. answered'.offers = answered.offers
    BY <1>3, <2>1 DEF AnswerPrices
  <2> QED BY <1>3, <2>2, Untouched DEF AnswerPrices, tables
<1>4. ASSUME NEW c \in Callers, AddDocument(c) \/ AddItems(c)
      PROVE  UNCHANGED <<Recorded, answered.offers>>
  BY <1>4, AddDocumentStutters, AddItemsStutters
<1>5. ASSUME NEW c \in Callers, UpdateDocument(c) \/ AnswerOffer(c)
      PROVE  Ledger!Next
  BY <1>5, UpdateDocumentRecords, AnswerOfferAnswers DEF Ledger!Next
<1> QED BY <1>1, <1>2, <1>3, <1>4, <1>5 DEF Next

-----------------------------------------------------------------------------
\* The tables of the supplier offers keep their shape, and a document is
\* pending exactly until it is complete (SupplierOfferService, SqlSupplierOfferRepository).
THEOREM TypeCorrect == Spec => []TypeOK
<1>1. Init => IInv
  BY Initially, OffersAssumption
<1>2. IInv /\ [Next]_vars => IInv'
  BY Inductive, OffersAssumption
<1>3. IInv => TypeOK
  BY DEF IInv
<1> QED BY <1>1, <1>2, <1>3, PTL DEF Spec

\* Saving supplier offers implements the ledger: whatever fails, repeats or
\* overlaps, a complete document was recorded at once with all its items,
\* never changes, and its run is answered with just that.
THEOREM OffersImplementLedger == Spec => OffersRecordedOnce
<1>1. Init => IInv /\ Ledger!Init
  BY Initially, InitRefines, OffersAssumption
<1>2. IInv /\ [Next]_vars => IInv'
  BY Inductive, OffersAssumption
<1>3. IInv /\ [Next]_vars => [Ledger!Next]_<<Recorded, answered.offers>>
  BY NextRefines, OffersAssumption
<1> QED BY <1>1, <1>2, <1>3, PTL DEF Spec, Ledger!Spec, OffersRecordedOnce

-----------------------------------------------------------------------------
(* Price lists.                                                            *)

Seen(rows, n) == {r \in rows : r.request = n}
Prefix(list, n, k) == {[supplier |-> list.supplier, quote |-> list.prices[i],
                        request |-> n, place |-> i] : i \in 1..k}

\* A list is recorded up to the next price of the only caller that may go on
\* with it, who has not answered it.
ListInv ==
    /\ \A r \in prices : r.request \in DOMAIN asked
    /\ answered.lists \subseteq DOMAIN asked
    /\ \A c, d \in Callers :
          c # d /\ phase[c] # "idle" /\ phase[d] # "idle" => request[c] # request[d]
    /\ \A c \in Callers : phase[c] # "idle" /\ IsPriceList(Asked(c)) =>
          /\ next[c] <= Len(Asked(c).prices) + 1
          /\ Seen(prices, request[c]) = Prefix(asked[request[c]], request[c], next[c] - 1)
          /\ request[c] \notin answered.lists
    /\ \A n \in DOMAIN asked : IsPriceList(asked[n]) =>
          /\ \E k \in 0..Len(asked[n].prices) : Seen(prices, n) = Prefix(asked[n], n, k)
          /\ n \in answered.lists => Seen(prices, n) = Prefix(asked[n], n, Len(asked[n].prices))

LEMMA ListsAre ==
    ASSUME OffersAssumption, IInv, NEW n \in DOMAIN asked
    PROVE  /\ n \in 1..Len(asked) /\ Len(asked) \in Nat
           /\ asked[n] \in PriceLists => IsPriceList(asked[n])
           /\ IsPriceList(asked[n]) =>
                asked[n].prices \in Seq(Quote) /\ Len(asked[n].prices) \in Nat
<1>1. asked \in Seq(Offers \cup PriceLists)
  BY DEF IInv, TypeOK
<1>2. n \in 1..Len(asked) /\ Len(asked) \in Nat /\ asked[n] \in Offers \cup PriceLists
  BY <1>1
<1>3. \A o \in Offers : ~ IsPriceList(o)
  BY DEF OffersAssumption, Offer, IsPriceList
<1>4. \A l \in PriceLists : l \in PriceList /\ IsPriceList(l)
  BY DEF OffersAssumption, PriceList, IsPriceList
<1>5. \A l \in PriceList : l.prices \in Seq(Quote) /\ Len(l.prices) \in Nat
  BY DEF PriceList
<1> QED BY <1>2, <1>3, <1>4, <1>5

LEMMA RecordsAList ==
    ASSUME OffersAssumption, IInv, NEW c \in Callers, phase[c] = "prices"
    PROVE  /\ request[c] \in DOMAIN asked /\ asked[request[c]] = Asked(c)
           /\ IsPriceList(Asked(c)) /\ next[c] \in Nat \ {0}
           /\ Len(Asked(c).prices) \in Nat
<1>1. asked \in Seq(Offers \cup PriceLists) /\ next[c] \in Nat \ {0}
  BY DEF IInv, TypeOK
<1>2. request[c] \in 1..Len(asked) /\ Asked(c) \in PriceLists
  BY DEF IInv, WellAsked
<1>3. DOMAIN asked = 1..Len(asked)
  BY <1>1
<1>4. asked[request[c]] = Asked(c)
  BY DEF Asked
<1> QED BY <1>1, <1>2, <1>3, <1>4, ListsAre

\* A step that records no price and answers no list.
LEMMA ListsStay ==
    ASSUME OffersAssumption, IInv, ListInv, NEW c \in Callers, NEW p,
           phase' = [phase EXCEPT ![c] = p], p # "idle" => phase[c] # "idle",
           UNCHANGED <<prices, asked, request, next>>, answered'.lists = answered.lists
    PROVE  ListInv'
<1>1. \A d \in Callers : phase'[d] # "idle" => phase[d] # "idle"
  BY DEF IInv, TypeOK
<1> QED BY <1>1 DEF ListInv, Seen, Prefix, Asked

LEMMA AskLists ==
    ASSUME OffersAssumption, IInv, ListInv, NEW c \in Callers,
           NEW what \in Offers \cup PriceLists, NEW after, Ask(c, what, after)
    PROVE  ListInv'
<1>1. /\ asked \in Seq(Offers \cup PriceLists) /\ Len(asked) \in Nat
      /\ asked' = Append(asked, what) /\ phase[c] = "idle"
      /\ prices' = prices /\ answered' = answered
  BY DEF IInv, TypeOK, Ask, Goes, tables
<1>2. /\ DOMAIN asked = 1..Len(asked) /\ DOMAIN asked' = 1..(Len(asked) + 1)
      /\ asked'[Len(asked) + 1] = what
      /\ \A n \in DOMAIN asked : asked'[n] = asked[n]
  BY <1>1
<1>3. /\ \A d \in Callers : request'[d] = IF d = c THEN Len(asked) + 1 ELSE request[d]
      /\ \A d \in Callers : phase'[d] = IF d = c THEN after ELSE phase[d]
      /\ \A d \in Callers : next'[d] = IF d = c THEN 1 ELSE next[d]
  BY DEF IInv, TypeOK, Ask, Goes
<1>4. \A n : Seen(prices', n) = Seen(prices, n)
  BY <1>1 DEF Seen
<1>5. \A n \in DOMAIN asked : \A k : Prefix(asked'[n], n, k) = Prefix(asked[n], n, k)
  BY <1>2 DEF Prefix
<1>6. LET n == Len(asked) + 1
      IN  Seen(prices', n) = {} /\ Prefix(asked'[n], n, 0) = {} /\ n \notin answered'.lists
  BY <1>1, <1>2 DEF ListInv, Seen, Prefix
<1>7. \A d \in Callers \ {c} : phase[d] # "idle" => request[d] \in DOMAIN asked
  BY <1>2 DEF IInv, WellAsked
<1>8. ASSUME NEW d \in Callers, NEW e \in Callers, d # e, phase'[d] # "idle", phase'[e] # "idle"
      PROVE  request'[d] # request'[e]
  BY <1>2, <1>3, <1>7, <1>8 DEF ListInv
<1>9. ASSUME NEW d \in Callers, phase'[d] # "idle", IsPriceList(asked'[request'[d]])
      PROVE  /\ next'[d] <= Len(asked'[request'[d]].prices) + 1
             /\ Seen(prices', request'[d]) = Prefix(asked'[request'[d]], request'[d], next'[d] - 1)
             /\ request'[d] \notin answered'.lists
  <2>1. CASE d = c
    <3>1. what \in PriceLists
      BY <1>2, <1>3, <1>9, <2>1 DEF OffersAssumption, Offer, IsPriceList
    <3>2. Len(what.prices) \in Nat
      BY <3>1 DEF OffersAssumption, PriceList
    <3>3. /\ request'[d] = Len(asked) + 1 /\ next'[d] = 1 /\ next'[d] - 1 = 0
          /\ asked'[request'[d]] = what
      BY <1>2, <1>3, <2>1
    <3>4. next'[d] <= Len(what.prices) + 1
      BY <3>2, <3>3
    <3> QED BY <1>6, <3>3, <3>4
  <2>2. CASE d # c
    <3>1. /\ request'[d] = request[d] /\ next'[d] = next[d] /\ phase[d] # "idle"
          /\ request[d] \in DOMAIN asked
      BY <1>3, <1>7, <1>9, <2>2
    <3>2. asked'[request'[d]] = Asked(d)
      BY <1>2, <3>1 DEF Asked
    <3> QED BY <1>1, <1>4, <1>5, <1>9, <3>1, <3>2 DEF ListInv
  <2> QED BY <2>1, <2>2
<1>10. ASSUME NEW n \in DOMAIN asked', IsPriceList(asked'[n])
       PROVE  /\ \E k \in 0..Len(asked'[n].prices) : Seen(prices', n) = Prefix(asked'[n], n, k)
              /\ n \in answered'.lists => Seen(prices', n) = Prefix(asked'[n], n, Len(asked'[n].prices))
  <2>1. CASE n \in DOMAIN asked
    BY <1>1, <1>2, <1>4, <1>5, <1>10, <2>1 DEF ListInv
  <2>2. CASE n = Len(asked) + 1
    <3>1. what \in PriceLists
      BY <1>2, <1>10, <2>2 DEF OffersAssumption, Offer, IsPriceList
    <3>2. Len(what.prices) \in Nat
      BY <3>1 DEF OffersAssumption, PriceList
    <3>3. 0 \in 0..Len(asked'[n].prices)
      BY <1>2, <2>2, <3>2
    <3> QED BY <1>6, <2>2, <3>3
  <2> QED BY <1>1, <1>2, <2>1, <2>2
<1>11. (\A r \in prices' : r.request \in DOMAIN asked') /\ answered'.lists \subseteq DOMAIN asked'
  BY <1>1, <1>2 DEF ListInv
<1> QED BY <1>8, <1>9, <1>10, <1>11 DEF ListInv, Asked

LEMMA AddSupplierProductLists ==
    ASSUME OffersAssumption, IInv, ListInv, NEW c \in Callers, AddSupplierProduct(c)
    PROVE  ListInv'
<1> DEFINE n == request[c]
           row == [supplier |-> Asked(c).supplier, quote |-> Quoted(c),
                   request |-> n, place |-> next[c]]
<1>1. /\ phase[c] = "prices" /\ n \in DOMAIN asked /\ asked[n] = Asked(c)
      /\ IsPriceList(Asked(c)) /\ next[c] \in Nat \ {0} /\ next[c] <= Len(Asked(c).prices)
      /\ Len(Asked(c).prices) \in Nat
      /\ UNCHANGED <<asked, request, answered>>
  <2>1. phase[c] = "prices" /\ next[c] <= Len(Asked(c).prices) /\ UNCHANGED <<asked, request, answered>>
    BY DEF AddSupplierProduct
  <2> QED BY <2>1, RecordsAList
<1>2. CASE Quoted(c).product \notin Catalog
  <2>1. phase' = [phase EXCEPT ![c] = "idle"] /\ UNCHANGED <<prices, next>>
    BY <1>2 DEF AddSupplierProduct, Goes
  <2> QED BY <1>1, <2>1, ListsStay
<1>3. CASE Quoted(c).product \in Catalog
  <2>1. /\ prices' = prices \cup {row} /\ phase' = phase
        /\ next' = [next EXCEPT ![c] = next[c] + 1]
    BY <1>3 DEF AddSupplierProduct, Goes
  <2>2. \A d \in Callers : next'[d] = IF d = c THEN next[c] + 1 ELSE next[d]
    BY <2>1 DEF IInv, TypeOK
  <2>3. row.request = n
    OBVIOUS
  <2>4. \A m, k : Prefix(asked'[m], m, k) = Prefix(asked[m], m, k)
    BY <1>1 DEF Prefix
  <2>5. Seen(prices', n) = Seen(prices, n) \cup {row} /\ \A m : m # n => Seen(prices', m) = Seen(prices, m)
    BY <2>1, <2>3 DEF Seen
  <2>6. /\ Seen(prices, n) = Prefix(asked[n], n, next[c] - 1) /\ n \notin answered.lists
    BY <1>1 DEF ListInv
  <2>7. Prefix(asked[n], n, next[c]) = Prefix(asked[n], n, next[c] - 1) \cup {row}
    <3>1. 1..next[c] = 1..(next[c] - 1) \cup {next[c]}
      BY <1>1
    <3> QED BY <1>1, <3>1 DEF Prefix, Quoted
  <2>8. Seen(prices', n) = Prefix(asked'[n], n, next[c])
    BY <2>4, <2>5, <2>6, <2>7
  <2> HIDE DEF row, n
  <2>9. \A d \in Callers \ {c} : phase[d] # "idle" => request[d] # n
    BY <1>1 DEF ListInv, n
  <2>10. ASSUME NEW d \in Callers, phase'[d] # "idle", IsPriceList(asked'[request'[d]])
         PROVE  /\ next'[d] <= Len(asked'[request'[d]].prices) + 1
                /\ Seen(prices', request'[d]) = Prefix(asked'[request'[d]], request'[d], next'[d] - 1)
                /\ request'[d] \notin answered'.lists
    <3>1. CASE d = c
      <4>1. request'[d] = n /\ next'[d] - 1 = next[c] /\ asked'[request'[d]] = Asked(c)
        BY <1>1, <2>2, <3>1 DEF n
      <4> QED BY <1>1, <2>2, <2>6, <2>8, <3>1, <4>1
    <3>2. CASE d # c
      BY <1>1, <2>1, <2>2, <2>4, <2>5, <2>9, <2>10, <3>2 DEF ListInv, Asked
    <3> QED BY <3>1, <3>2
  <2>11. ASSUME NEW m \in DOMAIN asked', IsPriceList(asked'[m])
         PROVE  /\ \E k \in 0..Len(asked'[m].prices) : Seen(prices', m) = Prefix(asked'[m], m, k)
                /\ m \in answered'.lists => Seen(prices', m) = Prefix(asked'[m], m, Len(asked'[m].prices))
    <3>1. CASE m = n
      <4>1. next[c] \in 0..Len(asked'[m].prices)
        BY <1>1, <3>1
      <4> QED BY <1>1, <2>6, <2>8, <3>1, <4>1
    <3>2. CASE m # n
      BY <1>1, <2>4, <2>5, <2>11, <3>2 DEF ListInv
    <3> QED BY <3>1, <3>2
  <2>12. \A r \in prices' : r.request \in DOMAIN asked'
    BY <1>1, <2>1, <2>3 DEF ListInv, row
  <2>13. /\ answered'.lists \subseteq DOMAIN asked'
         /\ \A d, e \in Callers : d # e /\ phase'[d] # "idle" /\ phase'[e] # "idle"
                                    => request'[d] # request'[e]
    BY <1>1, <2>1 DEF ListInv
  <2> QED BY <2>10, <2>11, <2>12, <2>13 DEF ListInv, Asked
<1> QED BY <1>2, <1>3

LEMMA AnswerPricesLists ==
    ASSUME OffersAssumption, IInv, ListInv, NEW c \in Callers, AnswerPrices(c)
    PROVE  ListInv'
<1> DEFINE n == request[c]
<1>1. /\ phase[c] = "prices" /\ n \in DOMAIN asked /\ asked[n] = Asked(c)
      /\ IsPriceList(asked[n]) /\ next[c] \in Nat \ {0} /\ next[c] > Len(asked[n].prices)
      /\ Len(asked[n].prices) \in Nat
      /\ UNCHANGED <<prices, asked, request, next>>
      /\ phase' = [phase EXCEPT ![c] = "idle"]
  <2>1. /\ phase[c] = "prices" /\ next[c] > Len(Asked(c).prices)
        /\ UNCHANGED <<prices, asked, request, next>> /\ phase' = [phase EXCEPT ![c] = "idle"]
    BY DEF AnswerPrices, Goes, tables
  <2> QED BY <2>1, RecordsAList
<1>2. answered'.lists = answered.lists \cup {n}
  <2>1. answered \in [offers : SUBSET (Documents \X Saved), lists : SUBSET Requests]
    BY DEF IInv, TypeOK
  <2> QED BY <2>1 DEF AnswerPrices
<1>3. Seen(prices, n) = Prefix(asked[n], n, Len(asked[n].prices))
  <2>1. next[c] <= Len(asked[n].prices) + 1 /\ Seen(prices, n) = Prefix(asked[n], n, next[c] - 1)
    BY <1>1 DEF ListInv
  <2>2. next[c] - 1 = Len(asked[n].prices)
    BY <1>1, <2>1
  <2> QED BY <2>1, <2>2
<1>4. \A d \in Callers : phase'[d] # "idle" => d # c /\ phase[d] # "idle"
  BY <1>1 DEF IInv, TypeOK
<1>5. \A m, k : Seen(prices', m) = Seen(prices, m) /\ Prefix(asked'[m], m, k) = Prefix(asked[m], m, k)
  BY <1>1 DEF Seen, Prefix
<1>6. \A d \in Callers : phase'[d] # "idle" => request[d] # n
  BY <1>1, <1>4 DEF ListInv
<1> HIDE DEF n
<1>7. ASSUME NEW d \in Callers, phase'[d] # "idle", IsPriceList(asked'[request'[d]])
      PROVE  /\ next'[d] <= Len(asked'[request'[d]].prices) + 1
             /\ Seen(prices', request'[d]) = Prefix(asked'[request'[d]], request'[d], next'[d] - 1)
             /\ request'[d] \notin answered'.lists
  BY <1>1, <1>2, <1>4, <1>5, <1>6, <1>7 DEF ListInv, Asked
<1>8. ASSUME NEW m \in DOMAIN asked', IsPriceList(asked'[m])
      PROVE  /\ \E k \in 0..Len(asked'[m].prices) : Seen(prices', m) = Prefix(asked'[m], m, k)
             /\ m \in answered'.lists => Seen(prices', m) = Prefix(asked'[m], m, Len(asked'[m].prices))
  BY <1>1, <1>2, <1>3, <1>5, <1>8 DEF ListInv
<1>9. /\ \A r \in prices' : r.request \in DOMAIN asked'
      /\ answered'.lists \subseteq DOMAIN asked'
      /\ \A d, e \in Callers : d # e /\ phase'[d] # "idle" /\ phase'[e] # "idle"
                                 => request'[d] # request'[e]
  BY <1>1, <1>2, <1>4 DEF ListInv
<1> QED BY <1>7, <1>8, <1>9 DEF ListInv, Asked

LEMMA ListsInductive ==
    ASSUME OffersAssumption, IInv, ListInv, [Next]_vars
    PROVE  ListInv'
<1>1. CASE UNCHANGED vars
  BY <1>1 DEF ListInv, Seen, Prefix, Asked, vars, tables
<1>2. ASSUME NEW c \in Callers, CreateOffer(c) \/ RecordSupplierPrices(c)
      PROVE  ListInv'
  BY <1>2, AskLists DEF CreateOffer, RecordSupplierPrices
<1>3. ASSUME NEW c \in Callers,
             \/ GetPrevious(c) \/ ListItems(c) \/ SelectSupplier(c) \/ CommitSupplier(c)
             \/ AddDocument(c) \/ AddItems(c) \/ UpdateDocument(c) \/ AnswerOffer(c) \/ Fail(c)
      PROVE  ListInv'
  <2>1. UNCHANGED <<prices, asked, request, next>> /\ phase[c] # "idle"
    BY <1>3 DEF GetPrevious, ListItems, SelectSupplier, CommitSupplier, AddDocument, AddItems,
       UpdateDocument, AnswerOffer, Fail, Goes, tables
  <2>2. \E p : phase' = [phase EXCEPT ![c] = p]
    BY <1>3 DEF GetPrevious, ListItems, SelectSupplier, CommitSupplier, AddDocument, AddItems,
       UpdateDocument, AnswerOffer, Fail, Goes
  <2>3. answered'.lists = answered.lists
    <3>1. answered \in [offers : SUBSET (Documents \X Saved), lists : SUBSET Requests]
      BY DEF IInv, TypeOK
    <3>2. CASE AnswerOffer(c)
      BY <3>1, <3>2 DEF AnswerOffer
    <3> QED BY <1>3, <3>2 DEF GetPrevious, ListItems, SelectSupplier, CommitSupplier,
            AddDocument, AddItems, UpdateDocument, Fail
  <2>4. PICK p : phase' = [phase EXCEPT ![c] = p]
    BY <2>2
  <2> QED BY <2>1, <2>3, <2>4, ListsStay
<1> QED BY <1>1, <1>2, <1>3, AddSupplierProductLists, AnswerPricesLists DEF Next

\* A prefix of as many rows as it has places.
LEMMA PrefixSize ==
    ASSUME NEW n, NEW k \in Nat
    PROVE  Cardinality(Prefix(asked[n], n, k)) = k
<1> DEFINE f == [i \in 1..k |-> [supplier |-> asked[n].supplier, quote |-> asked[n].prices[i],
                                  request |-> n, place |-> i]]
<1>1. f \in [1..k -> Prefix(asked[n], n, k)] /\ \A r \in Prefix(asked[n], n, k) : \E i \in 1..k : f[i] = r
  BY DEF Prefix
<1>2. \A i, j \in 1..k : f[i] = f[j] => i = j
  <2>1. \A i \in 1..k : f[i].place = i
    OBVIOUS
  <2> HIDE DEF f
  <2> QED BY <2>1
<1>3. f \in Bijection(1..k, Prefix(asked[n], n, k))
  <2> HIDE DEF f
  <2> QED BY <1>1, <1>2, Fun_IsBij
<1>4. ExistsBijection(1..k, Prefix(asked[n], n, k))
  BY <1>3 DEF ExistsBijection
<1>5. IsFiniteSet(1..k) /\ Cardinality(1..k) = k
  BY FS_Interval
<1> QED BY <1>4, <1>5, FS_Bijection

\* Whatever fails or overlaps, the prices recorded of a list are those before
\* the failure, and a list that was answered was recorded whole
\* (record_supplier_prices commits price by price).
THEOREM ListsArePrefixes == Spec => []PartialListsArePrefixes
<1>1. Init => IInv /\ ListInv
  <2>1. Init => ListInv
    BY DEF Init, ListInv
  <2> QED BY <2>1, Initially, OffersAssumption
<1>2. IInv /\ ListInv /\ [Next]_vars => (IInv /\ ListInv)'
  BY Inductive, ListsInductive, OffersAssumption
<1>3. ASSUME IInv, ListInv PROVE PartialListsArePrefixes
  <2> SUFFICES ASSUME NEW n \in DOMAIN asked, IsPriceList(asked[n])
               PROVE  /\ \E k \in 0..Len(asked[n].prices) : Seen(prices, n) = Prefix(asked[n], n, k)
                      /\ n \in answered.lists => Cardinality(Seen(prices, n)) = Len(asked[n].prices)
    BY DEF PartialListsArePrefixes, Seen, Prefix
  <2>1. Len(asked[n].prices) \in Nat
    BY <1>3, ListsAre, OffersAssumption
  <2>2. Cardinality(Prefix(asked[n], n, Len(asked[n].prices))) = Len(asked[n].prices)
    BY <2>1, PrefixSize
  <2> QED BY <1>3, <2>2 DEF ListInv
<1> QED BY <1>1, <1>2, <1>3, PTL DEF Spec

-----------------------------------------------------------------------------
(* The comparison of a product.                                            *)

\* What is answered as a list was asked as one.
OnlyListsAnswered == \A n \in answered.lists : IsPriceList(asked[n])

LEMMA OnlyListsInductive ==
    ASSUME OffersAssumption, IInv, ListInv, OnlyListsAnswered, [Next]_vars
    PROVE  OnlyListsAnswered'
<1>1. asked \in Seq(Offers \cup PriceLists) /\ answered.lists \subseteq DOMAIN asked
  BY DEF IInv, TypeOK, ListInv
<1>2. CASE UNCHANGED vars
  BY <1>2 DEF OnlyListsAnswered, vars
<1>3. ASSUME NEW c \in Callers, NEW what \in Offers \cup PriceLists, NEW after,
             Ask(c, what, after)
      PROVE  OnlyListsAnswered'
  <2>1. asked' = Append(asked, what) /\ answered' = answered
    BY <1>3 DEF Ask
  <2>2. \A n \in DOMAIN asked : asked'[n] = asked[n]
    BY <1>1, <2>1
  <2> QED BY <1>1, <2>1, <2>2 DEF OnlyListsAnswered
<1>4. ASSUME NEW c \in Callers, AnswerPrices(c)
      PROVE  OnlyListsAnswered'
  <2>1. answered \in [offers : SUBSET (Documents \X Saved), lists : SUBSET Requests]
    BY DEF IInv, TypeOK
  <2>2. asked' = asked /\ answered'.lists = answered.lists \cup {request[c]}
    BY <1>4, <2>1 DEF AnswerPrices
  <2>3. IsPriceList(asked[request[c]])
    <3>1. phase[c] = "prices"
      BY <1>4 DEF AnswerPrices
    <3> QED BY <3>1, RecordsAList
  <2> QED BY <2>2, <2>3 DEF OnlyListsAnswered
<1>5. ASSUME NEW c \in Callers,
             \/ GetPrevious(c) \/ ListItems(c) \/ SelectSupplier(c) \/ CommitSupplier(c)
             \/ AddDocument(c) \/ AddItems(c) \/ UpdateDocument(c) \/ AnswerOffer(c)
             \/ AddSupplierProduct(c) \/ Fail(c)
      PROVE  OnlyListsAnswered'
  <2>1. asked' = asked
    BY <1>5 DEF GetPrevious, ListItems, SelectSupplier, CommitSupplier, AddDocument, AddItems,
       UpdateDocument, AnswerOffer, AddSupplierProduct, Fail
  <2>2. answered'.lists = answered.lists
    <3>1. answered \in [offers : SUBSET (Documents \X Saved), lists : SUBSET Requests]
      BY DEF IInv, TypeOK
    <3>2. CASE AnswerOffer(c)
      BY <3>1, <3>2 DEF AnswerOffer
    <3> QED BY <1>5, <3>2 DEF GetPrevious, ListItems, SelectSupplier, CommitSupplier,
            AddDocument, AddItems, UpdateDocument, AddSupplierProduct, Fail
  <2> QED BY <2>1, <2>2 DEF OnlyListsAnswered
<1> QED BY <1>2, <1>3, <1>4, <1>5 DEF Next, CreateOffer, RecordSupplierPrices

\* A price of a list that was answered is among the quotes of its product.
LEMMA ListIsQuoted ==
    ASSUME OffersAssumption, IInv, ListInv, OnlyListsAnswered,
           NEW n \in answered.lists, NEW i \in DOMAIN asked[n].prices
    PROVE  LET mine == asked[n].prices[i]
           IN  [supplier |-> asked[n].supplier, cost |-> mine.cost, units |-> mine.units,
                type |-> mine.type, at |-> mine.at] \in QuotesOf(mine.product)
<1> DEFINE row == [supplier |-> asked[n].supplier, quote |-> asked[n].prices[i],
                   request |-> n, place |-> i]
<1>1. n \in DOMAIN asked /\ IsPriceList(asked[n])
  BY DEF ListInv, OnlyListsAnswered
<1>2. Seen(prices, n) = Prefix(asked[n], n, Len(asked[n].prices))
  BY <1>1 DEF ListInv
<1>3. i \in 1..Len(asked[n].prices)
  BY <1>1, ListsAre
<1>4. row \in prices
  BY <1>2, <1>3 DEF Seen, Prefix
<1>5. row.quote = asked[n].prices[i] /\ row.supplier = asked[n].supplier
  OBVIOUS
<1> HIDE DEF row
<1> QED BY <1>4, <1>5 DEF QuotesOf

\* The comparison of a price that is among the quotes, whatever the others.
LEMMA BestIsCurrent ==
    ASSUME NEW quotes, NEW mine \in quotes, NEW current,
           NEW best \in PC!BestPrices(quotes, current, {})
    PROVE  /\ best.supplier = mine.supplier => Newer(best, mine)
           /\ \/ PC!EffectiveUnitCost(mine, current) = None
              \/ PC!EffectiveUnitCost(best, current) <= PC!EffectiveUnitCost(mine, current)
              \/ \E q \in quotes : q.supplier = mine.supplier /\ ~Newer(mine, q)
<1>1. best \in PC!LatestPerSupplier(quotes)
  BY DEF PC!BestPrices
<1>2. best.supplier = mine.supplier => Newer(best, mine)
  BY <1>1 DEF PC!LatestPerSupplier, Newer
<1>3. ASSUME PC!EffectiveUnitCost(mine, current) # None,
             \A q \in quotes : q.supplier = mine.supplier => Newer(mine, q)
      PROVE  PC!EffectiveUnitCost(best, current) <= PC!EffectiveUnitCost(mine, current)
  <2>1. mine \in PC!LatestPerSupplier(quotes)
    BY <1>3 DEF PC!LatestPerSupplier, Newer
  <2> QED BY <1>3, <2>1 DEF PC!BestPrices
<1> QED BY <1>2, <1>3

\* A recommendation is never older than what a supplier's own answered list
\* says, nor dearer than a price that is still its supplier's latest
\* (compare_product over the rows record_supplier_prices left).
THEOREM RecommendsCurrent == Spec => []RecommendedIsCurrent
<1>1. Init => IInv /\ ListInv /\ OnlyListsAnswered
  <2>1. Init => ListInv /\ OnlyListsAnswered
    BY DEF Init, ListInv, OnlyListsAnswered
  <2> QED BY <2>1, Initially, OffersAssumption
<1>2. IInv /\ ListInv /\ OnlyListsAnswered /\ [Next]_vars
        => (IInv /\ ListInv /\ OnlyListsAnswered)'
  BY Inductive, ListsInductive, OnlyListsInductive, OffersAssumption
<1>3. ASSUME IInv, ListInv, OnlyListsAnswered PROVE RecommendedIsCurrent
  <2> SUFFICES ASSUME NEW n \in answered.lists, NEW i \in DOMAIN asked[n].prices,
                      NEW best \in PC!BestPrices(QuotesOf(asked[n].prices[i].product),
                                                 Current(asked[n].prices[i].product), {})
               PROVE  LET mine == asked[n].prices[i]
                          quotes == QuotesOf(mine.product)
                          unit(q) == PC!EffectiveUnitCost(q, Current(mine.product))
                      IN  /\ best.supplier = asked[n].supplier => Newer(best, mine)
                          /\ \/ unit(mine) = None
                             \/ unit(best) <= unit(mine)
                             \/ \E q \in quotes : q.supplier = asked[n].supplier
                                                    /\ ~Newer(mine, q)
    BY DEF RecommendedIsCurrent
  <2> DEFINE price == asked[n].prices[i]
             quote == [supplier |-> asked[n].supplier, cost |-> price.cost,
                       units |-> price.units, type |-> price.type, at |-> price.at]
  <2>1. quote \in QuotesOf(price.product)
    BY <1>3, ListIsQuoted, OffersAssumption
  <2>2. /\ quote.supplier = asked[n].supplier /\ quote.cost = price.cost
        /\ quote.units = price.units /\ quote.type = price.type /\ quote.at = price.at
    OBVIOUS
  <2> HIDE DEF quote
  <2>3. /\ \A q : Newer(quote, q) <=> Newer(price, q)
        /\ \A q : Newer(q, quote) <=> Newer(q, price)
        /\ PC!EffectiveUnitCost(quote, Current(price.product))
             = PC!EffectiveUnitCost(price, Current(price.product))
    BY <2>2 DEF Newer, PC!EffectiveUnitCost
  <2> QED BY <2>1, <2>2, <2>3, BestIsCurrent
<1> QED BY <1>1, <1>2, <1>3, PTL DEF Spec
=============================================================================
