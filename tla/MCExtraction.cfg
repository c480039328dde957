\* One or two readers over every way their calls return, fail or break.
SPECIFICATION Spec
CONSTANTS
    Names = {"milk", "milk 1l", "eggs"}
    Prices = {1, 2}
    Alike <- SimilarNames
    Readers <- ReaderSeq
    NumPages = 2
    ChunkSize = 1
    ChunkWorkers = 2
    RetryWorkers = 1
    PageReadings <- SomeReadings
INVARIANTS
    TypeOK
    BrokenReaderBounded
    ReadOrReported
    PricesKept
    EvidenceAccounted
