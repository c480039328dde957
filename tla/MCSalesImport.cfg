\* Every way to import, interrupt and repeat overlapping exports.
SPECIFICATION Spec
CONSTANTS
    Ids = {1, 2, 3, 4}
    Products = {"eggs", "milk"}
    Skus = {"s1", "s2"}
    Days = {1, 2}
    Files <- SomeFiles
    LineBatch = 2
    DayBatch = 2
    MaxImports = 3
    MaxCatalogs = 2
INVARIANTS
    TypeOK
    EachSaleOnce
    LagExplained
PROPERTIES
    CompletionRepairs
CHECK_DEADLOCK FALSE
