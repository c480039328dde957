\* Three imports, every way to overlap, raise and die.
SPECIFICATION Spec
CONSTANTS
    ExternalIds = {"id1"}
    Barcodes = {"ean"}
    Families = {"drinks"}
    Prices = {1, 2}
    Stocks = {1, 2}
    None = None
    Files <- SomeFiles
    MaxImports = 3
INVARIANTS
    TypeOK
    RowsOfOneFile
    OneRowPerIdentity
    ImportedWithItsFamilies
CHECK_DEADLOCK FALSE
