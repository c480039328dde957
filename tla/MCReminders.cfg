\* The scheduler, a dispatch request on a thread and a webhook turn; sends
\* and the database may raise; one restart.
SPECIFICATION Spec
CONSTANTS
    scheduler = scheduler
    request = request
    thread = thread
    webhook = webhook
    Reminders = {1, 2}
    Undated = {}
    Scheduler = scheduler
    Dispatchers = {scheduler, request}
    Turns = {webhook}
    LoopTurns = {webhook}
    MaxTime = 2
    MaxLost = 1
    MaxRestarts = 1
    SendMayRaise = TRUE
    DatabaseMayRaise = TRUE
INVARIANTS
    TypeOK
    SentOncePerDispatcher
PROPERTIES
    SettledForGood
    DueReminderHandled
CHECK_DEADLOCK FALSE
