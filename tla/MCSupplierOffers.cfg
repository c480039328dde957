\* Two callers, three requests, a failure at every step.
SPECIFICATION Spec
CONSTANTS
    run = run
    Callers = {"a", "b"}
    Suppliers = {"vital", "maxi"}
    Runs = {run}
    Ledgers = {"l1", "l2"}
    Items = {"i1", "i2"}
    Catalog = {1, 2}
    Current <- SystemCost
    None = None
    Offers <- SomeOffers
    PriceLists <- SomeLists
    MaxRequests = 3
INVARIANTS
    TypeOK
    PartialListsArePrefixes
    RecommendedIsCurrent
PROPERTIES
    OffersRecordedOnce
CHECK_DEADLOCK FALSE
