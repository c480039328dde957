\* Agent, model and rules: a webhook, a thread, two calls; at most four ranks.
SPECIFICATION AssistantSpec
CONSTANTS
    shop = shop
    other = other
    None = None
    Businesses = {shop, other}
    Terms <- SomeTerms
    Products <- SomeProducts
    OwnerOf <- Owner
    FamilyOf <- Family
    Active = {1, 2, 4, 5, 6}
    Lines <- SomeLines
    Summaries <- SomeSummaries
    Parts <- Contained
    PlaceOf <- Place
    CodesOf <- Codes
    MaxRank = 4
    DefaultRanks = 3
    Families <- FamiliesOf
    NameOf <- Name
    IdentifiersOf <- Identifiers
    StockOf <- Stock
    Beginnings <- Begun
    Similarity <- Likeness
    Threads = {"thread"}
    Messages <- SomeMessages
    TextOf <- TextSaid
    BusinessOf <- Shop
    Usable <- SomeUsable
    Reachable <- SomeReachable
    Direct <- SomeDirect
    Batches <- SomeBatches
    Stored <- SomeReminders
    Plans <- SomePlans
    PlanOf <- PlanNamed
    Extractions <- SomeExtractions
    Registered = {"sales.top_products", "sales.summary", "sales.compare_periods", "sales.product_history",
                  "inventory.stock_status", "catalog.resolve_families"}
    MaxSteps = 2
    Now = 15000
    MaxCalls = 2
INVARIANTS
    RepliesOnRecord
    AgentAnswersWholePlans
    AnswersTheAskedRanks
CHECK_DEADLOCK FALSE
