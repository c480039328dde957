\* Two workers, one slot, two calls a batch, a clock of three ticks.
SPECIFICATION Spec
CONSTANTS
    w1 = w1
    w2 = w2
    run = run
    other = other
    Workers = {w1, w2}
    Runs = {run, other}
    Requests <- SomeRequests
    MaxConcurrency = 1
    MaxCalls = 2
    MaxQuestions = 2
    MaxOptions = 3
    MaxBytes = 3
    Timeout = 1
    BatchTime = 2
    MaxClock = 3
    MaxTotal = 3
    None = None
INVARIANTS
    TypeOK
    CallsAccounted
    AnsweredOrExplained
SYMMETRY WorkerSymmetry
CHECK_DEADLOCK FALSE
