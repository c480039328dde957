-------------------------- MODULE ReminderDispatch --------------------------
(***************************************************************************)
(* Reminders, the dispatchers that send those that are due, and the        *)
(* assistant turns that complete them.                                     *)
(*                                                                         *)
(* Every repository call is a transaction of its own, so list_due,         *)
(* send_text and update are separate steps of a dispatch, and so are the   *)
(* two of a completion (find the pending reminder, update it).  update     *)
(* itself takes two: it loads the row, and commits the columns whose new   *)
(* value differs from the loaded one, whatever the row has become.         *)
(* Dispatchers are the scheduler, which runs on the event loop, and the    *)
(* requests to /internal/reminders/dispatch-due, which run on threads.     *)
(* Turns are assistant requests; those of LoopTurns come by the webhook,   *)
(* whose handler also runs on the event loop.                              *)
(*                                                                         *)
(* A reminder is named by its due time, so list_due's order is the order   *)
(* of the numbers.  A listed row was pending, hence had no completed_at:   *)
(* the copy a dispatcher or a turn keeps is the reminder's number.         *)
(***************************************************************************)
EXTENDS Integers, FiniteSets

CONSTANTS
    Reminders,      \* a set of numbers: each reminder's due time
    Undated,        \* those without due_at
    Dispatchers, Scheduler,
    Turns, LoopTurns,
    MaxTime,        \* bound: the clock stops there
    MaxLost,        \* bound: sends of one reminder unmarked because a call raised
    MaxRestarts,    \* bound: restarts of the process
    SendMayRaise,   \* urlopen may raise something other than URLError
    DatabaseMayRaise \* a repository call may raise

NoReminder == -1
Statuses == {"absent", "pending", "notified", "done"}

ASSUME ReminderAssumption ==
    /\ Reminders \subseteq Nat
    /\ Undated \subseteq Reminders
    /\ Scheduler \in Dispatchers
    /\ LoopTurns \subseteq Turns
    /\ Dispatchers \cap Turns = {}
    /\ MaxTime \in Nat /\ MaxLost \in Nat /\ MaxRestarts \in Nat
    /\ SendMayRaise \in BOOLEAN /\ DatabaseMayRaise \in BOOLEAN

VARIABLES
    now,
    status, completed,  \* the stored rows: status, completed_at is set
    pc,                 \* of each dispatcher
    batch,              \* its listed reminders still to handle
    current,            \* the one it is sending or marking
    found,              \* the pending reminder a turn has read
    loaded,             \* the row each update under way has loaded
    delivered,          \* sends the user received, per dispatcher and reminder
    lost,               \* of those, the sends whose mark never reached the row
    restarts

rows == <<status, completed>>
dispatch == <<pc, batch, current>>
sends == <<delivered, lost>>
vars == <<now, rows, dispatch, found, loaded, sends, restarts>>

Actors == Dispatchers \cup Turns
NoRow == [status |-> "absent", completed |-> FALSE]

Zero == [d \in Dispatchers |-> [r \in Reminders |-> 0]]
Plus1(f, d, r) == [f EXCEPT ![d][r] = @ + 1]

Init ==
    /\ now = 0
    /\ status = [r \in Reminders |-> "absent"]
    /\ completed = [r \in Reminders |-> FALSE]
    /\ pc = [d \in Dispatchers |-> "idle"]
    /\ batch = [d \in Dispatchers |-> {}]
    /\ current = [d \in Dispatchers |-> NoReminder]
    /\ found = [t \in Turns |-> NoReminder]
    /\ loaded = [a \in Actors |-> NoRow]
    /\ delivered = Zero /\ lost = Zero
    /\ restarts = 0

ClockTicks ==
    /\ now < MaxTime /\ now' = now + 1
    /\ UNCHANGED <<rows, dispatch, found, loaded, sends, restarts>>

Create(r) ==
    /\ status[r] = "absent"
    /\ status' = [status EXCEPT ![r] = "pending"]
    /\ UNCHANGED <<now, completed, dispatch, found, loaded, sends, restarts>>

-----------------------------------------------------------------------------
(* The event loop runs one handler at a time: a scheduler pass or the      *)
(* webhook turn under way.  Threads interleave with both.                  *)
LoopBusy == batch[Scheduler] # {} \/ \E t \in LoopTurns : found[t] # NoReminder

DueWhateverStatus == {r \in Reminders \ Undated : status[r] # "absent" /\ r <= now}
DueStrictly == {r \in Reminders \ Undated : status[r] = "pending" /\ r < now}
Due == {r \in Reminders \ Undated : status[r] = "pending" /\ r <= now}

(* Takes the earliest reminder of b next, or ends the pass.               *)
ProceedInAnyOrder(d, b) ==
    \/ /\ b = {}
       /\ pc' = [pc EXCEPT ![d] = "idle"]
       /\ current' = [current EXCEPT ![d] = NoReminder]
    \/ \E r \in b :
       /\ pc' = [pc EXCEPT ![d] = "sending"]
       /\ current' = [current EXCEPT ![d] = r]

Proceed(d, b) ==
    \/ /\ b = {}
       /\ pc' = [pc EXCEPT ![d] = "idle"]
       /\ current' = [current EXCEPT ![d] = NoReminder]
    \/ \E r \in b :
       /\ \A q \in b : r <= q
       /\ pc' = [pc EXCEPT ![d] = "sending"]
       /\ current' = [current EXCEPT ![d] = r]

ListDue(d) ==
    /\ pc[d] = "idle" /\ Due # {}
    /\ d = Scheduler => ~LoopBusy
    /\ batch' = [batch EXCEPT ![d] = Due]
    /\ Proceed(d, Due)
    /\ UNCHANGED <<now, rows, found, loaded, sends, restarts>>

Handled(d) == batch[d] \ {current[d]}

\* send_text returns "sent".
SendDelivered(d) ==
    /\ pc[d] = "sending"
    /\ delivered' = Plus1(delivered, d, current[d])
    /\ pc' = [pc EXCEPT ![d] = "marking"]
    /\ UNCHANGED <<now, rows, batch, current, found, loaded, lost, restarts>>

\* send_text returns "failed" or "skipped": the reminder stays pending.
SendRefused(d) ==
    /\ pc[d] = "sending"
    /\ batch' = [batch EXCEPT ![d] = Handled(d)]
    /\ Proceed(d, Handled(d))
    /\ UNCHANGED <<now, rows, found, loaded, sends, restarts>>

(* Nothing catches what leaves dispatch_due: a request answers with an     *)
(* error, scheduler_loop ends for good.                                    *)
PassEnds(d) ==
    /\ pc' = [pc EXCEPT ![d] = IF d = Scheduler THEN "dead" ELSE "idle"]
    /\ batch' = [batch EXCEPT ![d] = {}]
    /\ current' = [current EXCEPT ![d] = NoReminder]

\* list_due raises, whether or not a reminder is due.
ListRaises(d) ==
    /\ DatabaseMayRaise /\ pc[d] = "idle"
    /\ d = Scheduler => ~LoopBusy
    /\ PassEnds(d)
    /\ UNCHANGED <<now, rows, found, loaded, sends, restarts>>

\* A read timeout is not a URLError.  The message may have arrived.
SendRaises(d) ==
    /\ SendMayRaise /\ pc[d] = "sending"
    /\ \/ /\ lost[d][current[d]] < MaxLost
          /\ delivered' = Plus1(delivered, d, current[d])
          /\ lost' = Plus1(lost, d, current[d])
       \/ UNCHANGED <<delivered, lost>>
    /\ PassEnds(d)
    /\ UNCHANGED <<now, rows, found, loaded, restarts>>

(* update loads the row of reminder r for actor a, and then writes, of the *)
(* columns in new, those that differ from the loaded ones.  A completion   *)
(* brings a new date, which always differs.                                *)
Load(a, r) ==
    /\ loaded[a] = NoRow
    /\ loaded' = [loaded EXCEPT ![a] = [status |-> status[r], completed |-> completed[r]]]

Written(a, column, new, stored) ==
    IF loaded[a][column] = new THEN stored ELSE new

StatusWritten(a, r, new) == Written(a, "status", new, status[r])

Store(a, r, st, done) ==
    /\ loaded[a] # NoRow
    /\ status' = [status EXCEPT ![r] = StatusWritten(a, r, st)]
    /\ completed' = [completed EXCEPT ![r] = done \/ Written(a, "completed", FALSE, @)]
    /\ loaded' = [loaded EXCEPT ![a] = NoRow]

LoadNotified(d) ==
    /\ pc[d] = "marking" /\ Load(d, current[d])
    /\ UNCHANGED <<now, rows, dispatch, found, sends, restarts>>

(* mark_notified's copy is the one list_due read: no completed_at.         *)
MarkNotified(d) ==
    /\ pc[d] = "marking"
    /\ Store(d, current[d], "notified", FALSE)
    /\ batch' = [batch EXCEPT ![d] = Handled(d)]
    /\ Proceed(d, Handled(d))
    /\ UNCHANGED <<now, found, sends, restarts>>

(* update raises after the delivery: on its way to the commit, the row     *)
(* stays as it was and the reminder due; in refresh, the row is stored.    *)
MarkRaises(d) ==
    /\ DatabaseMayRaise /\ pc[d] = "marking"
    /\ \/ Store(d, current[d], "notified", FALSE) /\ UNCHANGED lost
       \/ /\ lost[d][current[d]] < MaxLost
          /\ lost' = Plus1(lost, d, current[d])
          /\ loaded' = [loaded EXCEPT ![d] = NoRow]
          /\ UNCHANGED rows
    /\ PassEnds(d)
    /\ UNCHANGED <<now, found, delivered, restarts>>

-----------------------------------------------------------------------------
(* mark_done by an assistant turn.                                         *)

FindPending(t, r) ==
    /\ found[t] = NoReminder /\ status[r] = "pending"
    /\ t \in LoopTurns => ~LoopBusy
    /\ found' = [found EXCEPT ![t] = r]
    /\ UNCHANGED <<now, rows, dispatch, loaded, sends, restarts>>

LoadDone(t) ==
    /\ found[t] # NoReminder /\ Load(t, found[t])
    /\ UNCHANGED <<now, rows, dispatch, found, sends, restarts>>

MarkDone(t) ==
    /\ found[t] # NoReminder
    /\ Store(t, found[t], "done", TRUE)
    /\ found' = [found EXCEPT ![t] = NoReminder]
    /\ UNCHANGED <<now, dispatch, sends, restarts>>

\* update raises, before its commit or after: the turn answers with an error.
DoneRaises(t) ==
    /\ DatabaseMayRaise /\ found[t] # NoReminder
    /\ \/ Store(t, found[t], "done", TRUE)
       \/ loaded' = [loaded EXCEPT ![t] = NoRow] /\ UNCHANGED rows
    /\ found' = [found EXCEPT ![t] = NoReminder]
    /\ UNCHANGED <<now, dispatch, sends, restarts>>

-----------------------------------------------------------------------------
(* The process dies and starts again with a new scheduler task: what the   *)
(* dispatchers and turns had read is gone, a message sent but not yet      *)
(* marked stays unmarked.                                                  *)
Restart ==
    /\ restarts < MaxRestarts /\ restarts' = restarts + 1
    /\ lost' = [d \in Dispatchers |-> [r \in Reminders |->
                  IF pc[d] = "marking" /\ current[d] = r THEN lost[d][r] + 1
                                                          ELSE lost[d][r]]]
    /\ pc' = [d \in Dispatchers |-> "idle"]
    /\ batch' = [d \in Dispatchers |-> {}]
    /\ current' = [d \in Dispatchers |-> NoReminder]
    /\ found' = [t \in Turns |-> NoReminder]
    /\ loaded' = [a \in Actors |-> NoRow]
    /\ UNCHANGED <<now, rows, delivered>>

\* The calls of a pass that return, and those that raise.
CallReturns(d) ==
    \/ ListDue(d)
    \/ SendDelivered(d) \/ SendRefused(d)
    \/ LoadNotified(d) \/ MarkNotified(d)

CallRaises(d) == ListRaises(d) \/ SendRaises(d) \/ MarkRaises(d)

Dispatch(d) == CallReturns(d) \/ CallRaises(d)

Complete(t) ==
    \/ \E r \in Reminders : FindPending(t, r)
    \/ LoadDone(t) \/ MarkDone(t) \/ DoneRaises(t)

Next ==
    \/ ClockTicks \/ Restart
    \/ \E r \in Reminders : Create(r)
    \/ \E d \in Dispatchers : Dispatch(d)
    \/ \E t \in Turns : Complete(t)

(* scheduler_loop keeps running until a call raises, also when turns that  *)
(* raise come again and again (the event loop serves its handlers in the   *)
(* order they became ready); a turn that has read finishes; and a message  *)
(* tried again and again is delivered at last.                             *)
Fairness ==
    /\ SF_vars(CallReturns(Scheduler))
    /\ \A r \in Reminders : SF_vars(current[Scheduler] = r /\ SendDelivered(Scheduler))
    /\ \A t \in LoopTurns : WF_vars(LoadDone(t) \/ MarkDone(t) \/ DoneRaises(t))

Spec == Init /\ [][Next]_vars /\ Fairness

-----------------------------------------------------------------------------
(* The types, and the shape of a pass: a dispatcher handles the earliest   *)
(* listed reminder it has left, and holds none outside a pass.             *)
PassOK(d) ==
    IF pc[d] \in {"sending", "marking"}
    THEN /\ current[d] \in batch[d]
         /\ \A r \in batch[d] : current[d] <= r
    ELSE batch[d] = {} /\ current[d] = NoReminder

TypeOK ==
    /\ now \in 0 .. MaxTime
    /\ status \in [Reminders -> Statuses]
    /\ completed \in [Reminders -> BOOLEAN]
    /\ pc \in [Dispatchers -> {"idle", "sending", "marking", "dead"}]
    /\ batch \in [Dispatchers -> SUBSET Reminders]
    /\ current \in [Dispatchers -> Reminders \cup {NoReminder}]
    /\ found \in [Turns -> Reminders \cup {NoReminder}]
    /\ loaded \in [Actors -> [status : Statuses, completed : BOOLEAN]]
    /\ delivered \in [Dispatchers -> [Reminders -> Nat]]
    /\ lost \in [Dispatchers -> [Reminders -> Nat]]
    /\ restarts \in 0 .. MaxRestarts
    /\ \A d \in Dispatchers : PassOK(d)

(* A dispatcher sends a reminder at most once more than the sends whose    *)
(* mark a crash or an exception prevented: status "notified" keeps it from *)
(* its own duplicates, though not from those of another dispatcher.        *)
SentOncePerDispatcher ==
    \A d \in Dispatchers, r \in Reminders : delivered[d][r] <= 1 + lost[d][r]

(* A completion holds for good, with its date, once no dispatcher has the  *)
(* reminder in its listed batch: only a copy listed before the completion  *)
(* can overwrite it, never one listed after.                               *)
Settled(r) ==
    /\ status[r] = "done" /\ completed[r]
    /\ \A d \in Dispatchers : r \notin batch[d]
SettledForGood == [][\A r \in Reminders : Settled(r) => Settled(r)']_vars

(* Every reminder that is due leaves the pending state, sent and marked or *)
(* completed, unless an exception of a send or of the database has ended   *)
(* the scheduler.                                                          *)
DueReminderHandled ==
    \A r \in Reminders \ Undated :
        (status[r] = "pending" /\ r <= now)
            ~> (status[r] # "pending" \/ pc[Scheduler] = "dead")
=============================================================================
