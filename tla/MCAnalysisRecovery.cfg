\* Method A: one page, one reader, every way its reading and its reread can
\* differ.
SPECIFICATION Spec
CONSTANTS
    Method = "openai_structured"
    MaxCalls = 5
    NumPages = 1
    ChunkSize = 1
    ChunkWorkers = 1
    PerCallReservation = FALSE
    MaxPosts = 1
    MayFail = FALSE
    Texts = {"t1", "t2"}
    Names = {"n1"}
    Prices = {"p1", "p2"}
    Products = {"prod1"}
    PageReports <- RecoveryReports
    Interpretations <- RecoveryInterpretations
    Assessments <- RecoveryAssessments
INVARIANTS
    EvidenceConserved
    VisualFailureRemembered
