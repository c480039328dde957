\* Method B: two readers over the three chunks of five pages, classifications and
\* decisions by JEV that reserve each POST, a budget of four calls.
SPECIFICATION Spec
CONSTANTS
    Method = "openai_blocks_jev"
    MaxCalls = 4
    NumPages = 5
    ChunkSize = 2
    ChunkWorkers = 2
    PerCallReservation = TRUE
    MaxPosts = 2
    MayFail = TRUE
    Texts = {"t1"}
    Names = {"n1"}
    Prices = {"p1"}
    Products = {"prod1"}
    PageReports <- PipelineReports
    Interpretations <- PipelineInterpretations
    Assessments <- PipelineAssessments
INVARIANTS
    TypeOK
    BudgetRespected
    EveryPageAttempted
    ChunkFilesOutliveReads
    PaidCallsAudited
    CompletedMeansDone
PROPERTIES
    RenewalAfterDrain
    AnalysisEnds
