\* A product enters the catalog between two exports of one day.
SPECIFICATION Spec
CONSTANTS
    Ids = {1, 2, 3, 4}
    Products = {"eggs", "milk"}
    Skus = {"s1", "s2"}
    Days = {1, 2}
    Files <- SomeFiles
    LineBatch = 2
    DayBatch = 1
    MaxImports = 3
    MaxCatalogs = 2
PROPERTIES
    NoSaleLost
CHECK_DEADLOCK FALSE
