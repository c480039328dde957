---------------------- MODULE AssistantReminders_proofs ----------------------
(***************************************************************************)
(* What the assistant guarantees for every set of handlers, messages,      *)
(* deliveries, plans and sale lines, and what the dispatch of the          *)
(* reminders it creates guarantees for every set of reminders, dispatchers *)
(* and turns, every clock and any number of restarts.                      *)
(*                                                                         *)
(* Of the assistant: that what leaves it is on record and was asked for,   *)
(* that a reply of the agent stands for a whole plan, and that a ranking   *)
(* shown is the one the text asked for.  Of the dispatch: its type         *)
(* invariant, that no dispatcher repeats a send it could mark, and that a  *)
(* completion no dispatcher's listed copy threatens is final.              *)
(***************************************************************************)
EXTENDS ReminderDispatch, Assistant, FiniteSetTheorems, SequenceTheorems, TLAPS

-----------------------------------------------------------------------------
(* THE ASSISTANT: what holds of its turns and its records.                 *)

(* What holds of the fields of a turn.                                     *)
IsTurn(t) ==
    t = [pc |-> t.pc, queue |-> t.queue, reason |-> t.reason, plan |-> t.plan, ran |-> t.ran,
         intent |-> t.intent, found |-> t.found, response |-> t.response]
Working == {"agent", "steps", "route", "act", "complete", "outbound"}
Unstarted == {"agent", "steps", "route", "act"}
Places == {"idle", "inbound", "send"} \cup Working

\* Where a delivery is: the webhook has b's messages left from the k-th on.
At(b, k) == turn[Webhook].queue = SubSeq(b.messages, k, Len(b.messages))

\* The places of a turn, and what it has left: a thread has the one message
\* it was given, the webhook the rest of a delivery.
MayBe(h, t) ==
    /\ t.pc \in Places /\ t.queue \in Seq(Messages)
    /\ (t.pc = "idle") <=> (t.queue = <<>>)
    /\ h \in Threads /\ t.pc # "idle" => t.pc # "send" /\ \E m \in Direct : t.queue = <<m>>
    /\ h = Webhook /\ t.pc # "idle" =>
          \E b \in Batches : \E k \in DOMAIN b.messages :
              t.queue = SubSeq(b.messages, k, Len(b.messages))

Tables ==
    /\ given \in [Messages -> Nat] /\ inbound \in [Messages -> Nat]
    /\ outbound \in [Messages -> Nat] /\ sent \in [Messages -> Nat]
    /\ reminders \in Seq(Range(reminders))
    /\ agent \in BOOLEAN

Shape ==
    /\ turn = [h \in Handlers |-> turn[h]]
    /\ \A h \in Handlers : IsTurn(turn[h]) /\ MayBe(h, turn[h])
    /\ Tables

\* Who is on a message: those at work on it, the threads still to read it,
\* and the places of the webhook's rest where it is still to be read.
On(m, places) == {h \in Handlers : turn[h].pc \in places /\ Message(h) = m}
Asked(m) == {h \in Threads : turn[h].pc = "inbound" /\ Message(h) = m}
Queued(m) == {i \in DOMAIN turn[Webhook].queue :
                 turn[Webhook].queue[i] = m /\ (i > 1 \/ turn[Webhook].pc = "inbound")}
\* The counts of the record, with what is under way.
SentWereSaved(m) == sent[m] + Cardinality(On(m, {"send"})) <= outbound[m]
SavedWereRead(m) == outbound[m] + Cardinality(On(m, Working)) <= inbound[m]
CreatedWereRead(m) == Created(m) + Cardinality(On(m, Unstarted)) <= inbound[m]
ReadWereGiven(m) == inbound[m] + Cardinality(Asked(m)) + Cardinality(Queued(m)) <= given[m]
Counts ==
    \A m \in Messages :
        SentWereSaved(m) /\ SavedWereRead(m) /\ CreatedWereRead(m) /\ ReadWereGiven(m)

\* A later message of a delivery is read less often than an earlier one was
\* answered as long as the webhook is between the two, whoever else does what.
Exclusive(b) == \A m \in Range(b.messages) : OnlyIn(m, b)
Between(b, i, j) ==
    \E k \in DOMAIN b.messages :
        /\ At(b, k)
        /\ i < k \/ (i = k /\ turn[Webhook].pc = "send")
        /\ k < j \/ (k = j /\ turn[Webhook].pc = "inbound")
InTurn(b, i, j) ==
    /\ inbound[b.messages[j]] <= outbound[b.messages[i]]
    /\ Between(b, i, j) => inbound[b.messages[j]] < outbound[b.messages[i]]
Progress ==
    \A b \in Batches : Exclusive(b) =>
        \A i, j \in DOMAIN b.messages : i < j => InTurn(b, i, j)

\* The reminder a turn has found, and later says it completed, belongs to its business.
OwnReminder(m, i) == i \in DOMAIN reminders /\ reminders[i].business = BusinessOf(m)
Completions ==
    /\ \A h \in Handlers :
          /\ turn[h].pc = "complete" => OwnReminder(Message(h), turn[h].found)
          /\ turn[h].pc = "outbound" /\ turn[h].response.done # None
                => OwnReminder(Message(h), turn[h].response.done)
    /\ newest # None /\ newest.reply.done # None => OwnReminder(newest.message, newest.reply.done)

\* What the diagnostics say of a reply, and of a plan that is being followed:
\* no step so far has asked, and the fallback is only taken with a reason.
WholePlan(reason, reply) ==
    LET plan == PlanOf(reply.plan)
    IN  IF reply.by = "agent"
        THEN /\ plan.sure /\ reason = None
             /\ plan.mode = "execute_plan" =>
                  /\ Len(reply.ran) \in 1 .. MaxSteps
                  /\ \A k \in 1 .. Len(reply.ran) - 1 : ~ reply.ran[k].asks
                  /\ Last(reply.ran).asks \/ Len(reply.ran) = Len(plan.steps)
        ELSE (reason = None) <=> ~ agent
Following(t) ==
    LET plan == PlanOf(t.plan)
    IN  /\ agent /\ t.reason = None
        /\ t.plan \in Plans /\ plan.sure /\ plan.mode = "execute_plan"
        /\ Len(plan.steps) <= MaxSteps
        /\ t.ran \in Seq(Range(t.ran)) /\ Len(t.ran) < Len(plan.steps)
        /\ \A k \in DOMAIN t.ran : ~ t.ran[k].asks
Plansound ==
    /\ \A h \in Handlers :
          /\ turn[h].pc \in {"inbound", "agent"} => turn[h].reason = None /\ turn[h].ran = <<>>
          /\ turn[h].pc = "steps" => Following(turn[h])
          /\ turn[h].pc \in {"route", "act", "complete"} => ((turn[h].reason = None) <=> ~ agent)
          /\ turn[h].pc \in {"act", "complete"} => turn[h].intent.by \in {"rules", "model"}
          /\ turn[h].pc = "outbound" => WholePlan(turn[h].reason, turn[h].response)
    /\ newest # None => WholePlan(newest.reason, newest.reply)

\* The rules read a ranking query as the text has it, and what is about to
\* be saved for it shows the ranks asked for.
ReadAs(m, intent) ==
    intent.by = "rules" /\ intent.intent \in {"query_tool", "query_sales_top_products"}
    /\ intent.tool \in {None, "sales.top_products"}
        => intent.entities = Intents!Entities(TextOf(m), Today)
RightRanks(m, reply) ==
    LET query == Intents!Entities(TextOf(m), Today)
    IN  reply.by = "rules" /\ reply.tool = "sales.top_products" /\ ~ reply.asks
            => RankingAnswers(m, query, Scope(BusinessOf(m), query, Today), reply.shows)
Rankings ==
    /\ \A h \in Handlers :
          /\ turn[h].pc = "act" => ReadAs(Message(h), turn[h].intent)
          /\ turn[h].pc = "outbound" => RightRanks(Message(h), turn[h].response)
    /\ newest # None => newest.message \in Messages /\ RightRanks(newest.message, newest.reply)

-----------------------------------------------------------------------------
(* What the updates of a turn make of its fields.                          *)
LEMMA MovedTo ==
    ASSUME turn = [g \in Handlers |-> turn[g]], NEW h \in Handlers, NEW t,
           turn' = [turn EXCEPT ![h] = t]
    PROVE  /\ turn' = [g \in Handlers |-> turn'[g]] /\ turn'[h] = t
           /\ \A g \in Handlers \ {h} : turn'[g] = turn[g]
OBVIOUS

Kept(h) ==
    /\ turn' = [g \in Handlers |-> turn'[g]] /\ IsTurn(turn'[h])
    /\ \A g \in Handlers \ {h} : turn'[g] = turn[g]

\* What a handler is between turns, and at the start of one.
LEMMA Rest == IsTurn(Resting)
BY DEF IsTurn, Resting

LEMMA Beginning ==
    ASSUME NEW q, NEW t, t = [Resting EXCEPT !.pc = "inbound", !.queue = q]
    PROVE  IsTurn(t) /\ t.pc = "inbound" /\ t.queue = q /\ t.reason = None /\ t.ran = <<>>
BY DEF IsTurn, Resting

\* A turn is its fields, whatever its values.
LEMMA TurnsAre ==
    ASSUME Shape
    PROVE  turn = [g \in Handlers |-> turn[g]] /\ \A h \in Handlers : IsTurn(turn[h])
BY DEF Shape

\* Each way a handler moves on changes its own turn only, and of that
\* only the fields it names.
LEMMA OnwardsMoves ==
    ASSUME Shape, NEW h \in Handlers, NEW q, Onwards(h, q)
    PROVE  /\ Kept(h)
           /\ q = <<>> => turn'[h] = Resting
           /\ q # <<>> => /\ turn'[h].pc = "inbound" /\ turn'[h].queue = q
                          /\ turn'[h].reason = None /\ turn'[h].ran = <<>>
<1> DEFINE begun == [Resting EXCEPT !.pc = "inbound", !.queue = q]
           t == IF q = <<>> THEN Resting ELSE begun
<1>1. /\ IsTurn(begun) /\ begun.pc = "inbound" /\ begun.queue = q
      /\ begun.reason = None /\ begun.ran = <<>>
  BY Beginning
<1>2. turn' = [turn EXCEPT ![h] = t]
  BY DEF Onwards
<1> HIDE DEF begun
<1> QED BY <1>1, <1>2, MovedTo, Rest, TurnsAre DEF Kept

LEMMA RespondMoves ==
    ASSUME Shape, NEW h \in Handlers, NEW r, Respond(h, r)
    PROVE  /\ Kept(h) /\ turn'[h].pc = "outbound" /\ turn'[h].response = r
           /\ turn'[h].queue = turn[h].queue /\ turn'[h].reason = turn[h].reason
<1>0. PICK t : t = [turn[h] EXCEPT !.pc = "outbound", !.response = r]
  OBVIOUS
<1>0a. IsTurn(turn[h])
  BY TurnsAre
<1>1. /\ IsTurn(t) /\ t.pc = "outbound" /\ t.response = r
      /\ t.queue = turn[h].queue /\ t.reason = turn[h].reason
  BY <1>0, <1>0a DEF IsTurn
<1>2. turn' = [turn EXCEPT ![h] = t]
  BY <1>0 DEF Respond
<1> QED BY <1>1, <1>2, MovedTo, TurnsAre DEF Kept

LEMMA FallBackMoves ==
    ASSUME Shape, NEW h \in Handlers, NEW reason, FallBack(h, reason)
    PROVE  /\ Kept(h) /\ turn'[h].pc = "route" /\ turn'[h].reason = reason
           /\ turn'[h].queue = turn[h].queue
<1>0. PICK t : t = [turn[h] EXCEPT !.pc = "route", !.reason = reason]
  OBVIOUS
<1>0a. IsTurn(turn[h])
  BY TurnsAre
<1>1. IsTurn(t) /\ t.pc = "route" /\ t.reason = reason /\ t.queue = turn[h].queue
  BY <1>0, <1>0a DEF IsTurn
<1>2. turn' = [turn EXCEPT ![h] = t]
  BY <1>0 DEF FallBack
<1> QED BY <1>1, <1>2, MovedTo, TurnsAre DEF Kept

LEMMA GoesMoves ==
    ASSUME Shape, NEW h \in Handlers, NEW from, NEW to, Goes(h, from, to)
    PROVE  /\ Kept(h) /\ turn[h].pc = from /\ turn'[h].pc = to
           /\ turn'[h].queue = turn[h].queue /\ turn'[h].reason = turn[h].reason
           /\ turn'[h].ran = turn[h].ran
<1>0. PICK t : t = [turn[h] EXCEPT !.pc = to]
  OBVIOUS
<1>0a. IsTurn(turn[h])
  BY TurnsAre
<1>1. /\ IsTurn(t) /\ t.pc = to /\ t.queue = turn[h].queue /\ t.reason = turn[h].reason
      /\ t.ran = turn[h].ran
  BY <1>0, <1>0a DEF IsTurn
<1>2. turn' = [turn EXCEPT ![h] = t] /\ turn[h].pc = from
  BY <1>0 DEF Goes
<1> QED BY <1>1, <1>2, MovedTo, TurnsAre DEF Kept

LEMMA PlanMoves ==
    ASSUME Shape, NEW h \in Handlers, NEW plan,
           turn' = [turn EXCEPT ![h] = [@ EXCEPT !.pc = "steps", !.plan = plan]]
    PROVE  /\ Kept(h)
           /\ turn'[h].pc = "steps" /\ turn'[h].plan = plan /\ turn'[h].queue = turn[h].queue
           /\ turn'[h].reason = turn[h].reason /\ turn'[h].ran = turn[h].ran
<1>1. PICK t : t = [turn[h] EXCEPT !.pc = "steps", !.plan = plan]
  OBVIOUS
<1>2. IsTurn(turn[h])
  BY TurnsAre
<1>3. IsTurn(t) /\ t.pc = "steps" /\ t.plan = plan /\ t.queue = turn[h].queue
           /\ t.reason = turn[h].reason /\ t.ran = turn[h].ran
  BY <1>1, <1>2 DEF IsTurn
<1>4. turn' = [turn EXCEPT ![h] = t]
  BY <1>1
<1> QED BY <1>3, <1>4, MovedTo, TurnsAre DEF Kept

LEMMA IntentMoves ==
    ASSUME Shape, NEW h \in Handlers, NEW intent,
           turn' = [turn EXCEPT ![h] = [@ EXCEPT !.pc = "act", !.intent = intent]]
    PROVE  /\ Kept(h)
           /\ turn'[h].pc = "act" /\ turn'[h].intent = intent /\ turn'[h].queue = turn[h].queue
           /\ turn'[h].reason = turn[h].reason
<1>1. PICK t : t = [turn[h] EXCEPT !.pc = "act", !.intent = intent]
  OBVIOUS
<1>2. IsTurn(turn[h])
  BY TurnsAre
<1>3. IsTurn(t) /\ t.pc = "act" /\ t.intent = intent /\ t.queue = turn[h].queue
           /\ t.reason = turn[h].reason
  BY <1>1, <1>2 DEF IsTurn
<1>4. turn' = [turn EXCEPT ![h] = t]
  BY <1>1
<1> QED BY <1>3, <1>4, MovedTo, TurnsAre DEF Kept

LEMMA FoundMoves ==
    ASSUME Shape, NEW h \in Handlers, NEW i,
           turn' = [turn EXCEPT ![h] = [@ EXCEPT !.pc = "complete", !.found = i]]
    PROVE  /\ Kept(h)
           /\ turn'[h].pc = "complete" /\ turn'[h].found = i /\ turn'[h].queue = turn[h].queue
           /\ turn'[h].reason = turn[h].reason /\ turn'[h].intent = turn[h].intent
<1>1. PICK t : t = [turn[h] EXCEPT !.pc = "complete", !.found = i]
  OBVIOUS
<1>2. IsTurn(turn[h])
  BY TurnsAre
<1>3. IsTurn(t) /\ t.pc = "complete" /\ t.found = i /\ t.queue = turn[h].queue
           /\ t.reason = turn[h].reason /\ t.intent = turn[h].intent
  BY <1>1, <1>2 DEF IsTurn
<1>4. turn' = [turn EXCEPT ![h] = t]
  BY <1>1
<1> QED BY <1>3, <1>4, MovedTo, TurnsAre DEF Kept

LEMMA RanMoves ==
    ASSUME Shape, NEW h \in Handlers, NEW ran,
           turn' = [turn EXCEPT ![h] = [@ EXCEPT !.ran = ran]]
    PROVE  /\ Kept(h)
           /\ turn'[h].ran = ran /\ turn'[h].pc = turn[h].pc /\ turn'[h].queue = turn[h].queue
           /\ turn'[h].reason = turn[h].reason /\ turn'[h].plan = turn[h].plan
<1>1. PICK t : t = [turn[h] EXCEPT !.ran = ran]
  OBVIOUS
<1>2. IsTurn(turn[h])
  BY TurnsAre
<1>3. IsTurn(t) /\ t.ran = ran /\ t.pc = turn[h].pc /\ t.queue = turn[h].queue
           /\ t.reason = turn[h].reason /\ t.plan = turn[h].plan
  BY <1>1, <1>2 DEF IsTurn
<1>4. turn' = [turn EXCEPT ![h] = t]
  BY <1>1
<1> QED BY <1>3, <1>4, MovedTo, TurnsAre DEF Kept

Works(h) ==
    /\ Kept(h) /\ turn'[h].queue = turn[h].queue
    /\ turn[h].pc \in Unstarted \cup {"complete"} /\ turn'[h].pc \in Working
    /\ turn[h].pc = "complete" => turn'[h].pc = "outbound"
    /\ UNCHANGED <<agent, calls, given, inbound, outbound, newest, sent>>

\* Whatever the agent and the router do, the message stays and nothing
\* is recorded.
LEMMA AtWork ==
    ASSUME Shape, NEW h \in Handlers, Agent(h) \/ Router(h)
    PROVE  Works(h)
<1> USE DEF Unstarted, Working
<1>1. CASE NoAgent(h)
  BY <1>1, FallBackMoves DEF NoAgent, Works
<1>2. CASE PlanRefused(h)
  BY <1>2, FallBackMoves DEF PlanRefused, Works
<1>3. CASE PlanTaken(h)
  <2>1. /\ turn[h].pc = "agent"
        /\ \/ \E plan : turn' = [turn EXCEPT ![h] = [@ EXCEPT !.pc = "steps", !.plan = plan]]
           \/ \E r : Respond(h, r)
        /\ UNCHANGED <<agent, calls, given, inbound, outbound, newest, sent>>
    BY <1>3 DEF PlanTaken
  <2> QED BY <2>1, RespondMoves, PlanMoves DEF Works
<1>4. CASE Step(h)
  <2>1. PICK ran : GoOn(h, ran)
    BY <1>4 DEF Step
  <2>2. CASE turn' = [turn EXCEPT ![h].ran = ran]
    BY <1>4, <2>2, RanMoves DEF Step, Works
  <2>3. CASE turn' # [turn EXCEPT ![h].ran = ran]
    <3>1. PICK r : Respond(h, r)
      BY <2>1, <2>3 DEF GoOn
    <3> QED BY <1>4, <3>1, RespondMoves DEF Step, Works
  <2> QED BY <2>2, <2>3
<1>5. CASE StepRaises(h)
  BY <1>5, FallBackMoves DEF StepRaises, Works
<1>6. CASE Routed(h)
  <2>1. PICK extraction \in Extractions :
           LET intent == Intents!LLMRoute(TextOf(Message(h)), extraction, Now)
           IN  /\ turn[h].pc = "route"
               /\ IF intent.asks
                  THEN Respond(h, [Silent EXCEPT !.by = intent.by, !.asks = TRUE])
                  ELSE turn' = [turn EXCEPT ![h] = [@ EXCEPT !.pc = "act", !.intent = intent]]
               /\ UNCHANGED <<agent, calls, given, inbound, outbound, newest, sent, reminders>>
    BY <1>6 DEF Routed
  <2> DEFINE intent == Intents!LLMRoute(TextOf(Message(h)), extraction, Now)
  <2> HIDE DEF intent
  <2>2. CASE intent.asks
    BY <2>1, <2>2, RespondMoves DEF Works, intent
  <2>3. CASE ~ intent.asks
    BY <2>1, <2>3, IntentMoves DEF Works, intent
  <2> QED BY <2>2, <2>3
<1>7. CASE CreateReminder(h)
  BY <1>7, RespondMoves DEF CreateReminder, Acting, Works
<1>8. CASE FindReminder(h)
  BY <1>8, RespondMoves, FoundMoves DEF FindReminder, Acting, Works
<1>9. CASE CompleteReminder(h)
  BY <1>9, RespondMoves DEF CompleteReminder, Works
<1>10. CASE Tell(h)
  BY <1>10, RespondMoves DEF Tell, Acting, Works
<1>11. CASE QueryTool(h)
  BY <1>11, RespondMoves DEF QueryTool, Acting, Answered, Works
<1> QED BY <1>1, <1>2, <1>3, <1>4, <1>5, <1>6, <1>7, <1>8, <1>9, <1>10, <1>11 DEF Agent, Router

-----------------------------------------------------------------------------
(* The shape of the state.                                                 *)
LEMMA SeqOfItself ==
    ASSUME NEW n \in Nat, NEW s, s = [i \in 1..n |-> s[i]]
    PROVE  s \in Seq(Range(s)) /\ Len(s) = n
<1>1. s \in [1..n -> Range(s)]
  BY DEF Range
<1> QED BY <1>1

LEMMA SeqGrows ==
    ASSUME NEW s, s \in Seq(Range(s)), NEW e
    PROVE  /\ Append(s, e) \in Seq(Range(Append(s, e)))
           /\ Len(Append(s, e)) = Len(s) + 1 /\ DOMAIN Append(s, e) = 1 .. Len(s) + 1
           /\ \A i \in 1 .. Len(s) : Append(s, e)[i] = s[i]
           /\ Append(s, e)[Len(s) + 1] = e
<1> DEFINE S == Range(s) \cup {e}
<1>1. s \in Seq(S) /\ e \in S /\ Len(s) \in Nat
  OBVIOUS
<1> HIDE DEF S
<1>2. /\ Append(s, e) \in Seq(S) /\ Len(Append(s, e)) = Len(s) + 1
      /\ \A i \in 1 .. Len(s) : Append(s, e)[i] = s[i]
      /\ Append(s, e)[Len(s) + 1] = e
  BY <1>1, AppendProperties
<1>3. Append(s, e) = [i \in 1 .. Len(s) + 1 |-> Append(s, e)[i]]
  <2>1. PICK t : t = Append(s, e)
    OBVIOUS
  <2>2. t \in Seq(S) /\ Len(t) = Len(s) + 1
    BY <1>2, <2>1
  <2>3. t = [i \in 1 .. Len(s) + 1 |-> t[i]]
    BY <2>2
  <2> QED BY <2>1, <2>3
<1>4. Append(s, e) \in Seq(Range(Append(s, e)))
  BY <1>1, <1>3, SeqOfItself
<1> QED BY <1>2, <1>3, <1>4

\* The rest of a sequence from some place on.
LEMMA RestOf ==
    ASSUME NEW S, NEW s \in Seq(S), NEW k \in DOMAIN s, NEW q, q = SubSeq(s, k, Len(s))
    PROVE  /\ q \in Seq(S) /\ Len(q) = Len(s) - k + 1 /\ q # <<>> /\ Head(q) = s[k]
           /\ k = Len(s) => Tail(q) = <<>>
           /\ k # Len(s) => Tail(q) = SubSeq(s, k + 1, Len(s)) /\ k + 1 \in DOMAIN s
<1>1. Len(s) \in Nat /\ DOMAIN s = 1..Len(s) /\ k \in 1..Len(s)
  OBVIOUS
<1>2. /\ q \in Seq(S) /\ Len(q) = Len(s) - k + 1
      /\ \A i \in 1 .. Len(s) - k + 1 : q[i] = s[k + i - 1]
  BY <1>1, SubSeqProperties
<1>3. q # <<>> /\ Head(q) = s[k]
  <2>1. Len(q) # 0 /\ 1 \in 1 .. Len(s) - k + 1
    BY <1>1, <1>2
  <2>2. q # <<>> /\ Head(q) = q[1]
    BY <1>2, <2>1
  <2> QED BY <1>1, <1>2, <2>1, <2>2
<1>4. /\ Tail(q) \in Seq(S) /\ Len(Tail(q)) = Len(s) - k
      /\ \A i \in 1 .. Len(s) - k : Tail(q)[i] = s[k + i]
  <2>1. /\ Tail(q) \in Seq(S) /\ Len(Tail(q)) = Len(q) - 1
        /\ \A i \in 1 .. Len(q) - 1 : Tail(q)[i] = q[i + 1]
    <3>1. q \in Seq(S) /\ q # <<>>
      BY <1>2, <1>3
    <3> QED BY <3>1, HeadTailProperties
  <2>2. ASSUME NEW i \in 1 .. Len(s) - k PROVE Tail(q)[i] = s[k + i]
    <3>1. i + 1 \in 1 .. Len(s) - k + 1 /\ k + (i + 1) - 1 = k + i /\ i \in 1 .. Len(q) - 1
      BY <1>1, <1>2
    <3>2. Tail(q)[i] = q[i + 1] /\ q[i + 1] = s[k + (i + 1) - 1]
      BY <1>2, <2>1, <3>1
    <3> QED BY <3>1, <3>2
  <2>3. Len(Tail(q)) = Len(s) - k
    BY <1>1, <1>2, <2>1
  <2> QED BY <2>1, <2>2, <2>3
<1>5. k = Len(s) => Tail(q) = <<>>
  <2>1. Tail(q) \in Seq(S) /\ (k = Len(s) => Len(Tail(q)) = 0)
    BY <1>1, <1>4
  <2> QED BY <2>1, EmptySeq
<1>6. ASSUME k # Len(s) PROVE Tail(q) = SubSeq(s, k + 1, Len(s)) /\ k + 1 \in DOMAIN s
  <2>1. k + 1 \in 1..Len(s)
    BY <1>1, <1>6
  <2>2. /\ SubSeq(s, k + 1, Len(s)) \in Seq(S) /\ Len(SubSeq(s, k + 1, Len(s))) = Len(s) - k
        /\ \A i \in 1 .. Len(s) - k : SubSeq(s, k + 1, Len(s))[i] = s[k + i]
    <3>1. /\ SubSeq(s, k + 1, Len(s)) \in Seq(S)
          /\ Len(SubSeq(s, k + 1, Len(s))) = Len(s) - (k + 1) + 1
          /\ \A i \in 1 .. Len(s) - (k + 1) + 1 : SubSeq(s, k + 1, Len(s))[i] = s[(k + 1) + i - 1]
      BY <1>1, <2>1, SubSeqProperties
    <3>2. Len(s) - (k + 1) + 1 = Len(s) - k /\ \A i \in 1 .. Len(s) - k : (k + 1) + i - 1 = k + i
      BY <1>1
    <3> QED BY <3>1, <3>2
  <2>3. \A i \in 1 .. Len(s) - k : SubSeq(s, k + 1, Len(s))[i] = Tail(q)[i]
    BY <1>4, <2>2
  <2> QED BY <1>1, <1>4, <2>1, <2>2, <2>3, SeqEqual
<1> QED BY <1>2, <1>3, <1>5, <1>6

LEMMA KeptShape ==
    ASSUME Shape, NEW h \in Handlers, Kept(h), MayBe(h, turn'[h]), Tables'
    PROVE  Shape'
BY DEF Shape, Kept

\* A handler that is not idle is on a message.
LEMMA HeadIs ==
    ASSUME Shape, NEW h \in Handlers, turn[h].pc # "idle"
    PROVE  /\ Message(h) \in Messages /\ turn[h].queue \in Seq(Messages) /\ turn[h].queue # <<>>
           /\ Message(h) = turn[h].queue[1] /\ 1 \in DOMAIN turn[h].queue
<1>1. turn[h].queue \in Seq(Messages) /\ turn[h].queue # <<>>
  BY DEF Shape, MayBe
<1> QED BY <1>1, HeadTailProperties DEF Message

\* A turn creates one reminder or none, and then answers.
LEMMA CreatedOnce ==
    ASSUME Shape, NEW h \in Handlers, Agent(h) \/ Router(h)
    PROVE  \/ reminders' = reminders
           \/ /\ turn[h].pc = "act" /\ turn'[h].pc = "outbound" /\ turn'[h].response.done = None
              /\ \E e : e.by = Message(h) /\ reminders' = Append(reminders, e)
           \/ /\ turn[h].pc = "complete"
              /\ reminders' = [reminders EXCEPT ![turn[h].found].status = "done"]
<1>1. CASE CreateReminder(h)
  <2>1. CASE turn[h].intent.entities.title = None
    BY <1>1, <2>1 DEF CreateReminder
  <2>2. CASE turn[h].intent.entities.title # None
    <3> DEFINE r == [Silent EXCEPT !.by = turn[h].intent.by,
                                   !.asks = turn[h].intent.entities.title = None]
               e == [business |-> BusinessOf(Message(h)), title |-> turn[h].intent.entities.title,
                     due |-> turn[h].intent.entities.due, status |-> "pending", by |-> Message(h)]
    <3>1. r.done = None /\ e.by = Message(h)
      BY DEF Silent
    <3>2. turn[h].pc = "act" /\ Respond(h, r) /\ reminders' = Append(reminders, e)
      BY <1>1, <2>2 DEF CreateReminder, Acting
    <3> HIDE DEF r, e
    <3> QED BY <3>1, <3>2, RespondMoves
  <2> QED BY <2>1, <2>2
<1>2. CASE CompleteReminder(h)
  BY <1>2 DEF CompleteReminder
<1>3. CASE Agent(h)
  BY <1>3 DEF Agent, NoAgent, PlanRefused, PlanTaken, Step, StepRaises
<1>4. CASE Routed(h) \/ FindReminder(h) \/ Tell(h) \/ QueryTool(h)
  BY <1>4 DEF Routed, FindReminder, Tell, QueryTool
<1> QED BY <1>1, <1>2, <1>3, <1>4 DEF Router

LEMMA RemindersShape ==
    ASSUME Shape, NEW h \in Handlers, Agent(h) \/ Router(h)
    PROVE  reminders' \in Seq(Range(reminders'))
<1>1. reminders \in Seq(Range(reminders)) /\ Len(reminders) \in Nat
  BY DEF Shape, Tables
<1>2. CASE reminders' = [reminders EXCEPT ![turn[h].found].status = "done"]
  <2>1. reminders = [i \in 1..Len(reminders) |-> reminders[i]]
    BY <1>1
  <2>2. reminders' = [i \in 1..Len(reminders) |-> reminders'[i]]
    BY <1>2, <2>1
  <2> QED BY <1>1, <2>2, SeqOfItself
<1>3. CASE \E e : reminders' = Append(reminders, e)
  BY <1>1, <1>3, SeqGrows
<1> QED BY <1>1, <1>2, <1>3, CreatedOnce

\* After the outbound row the webhook sends, and a thread is done.
LEMMA Saved ==
    ASSUME Shape, NEW h \in Handlers, SaveOutbound(h)
    PROVE  /\ Kept(h)
           /\ h = Webhook => turn'[h].pc = "send" /\ turn'[h].queue = turn[h].queue
           /\ h # Webhook => turn'[h] = Resting
<1>1. CASE h = Webhook
  <2>1. PICK t : t = [turn[h] EXCEPT !.pc = "send"]
    OBVIOUS
  <2>2. IsTurn(turn[h])
    BY TurnsAre
  <2>3. IsTurn(t) /\ t.pc = "send" /\ t.queue = turn[h].queue
    BY <2>1, <2>2 DEF IsTurn
  <2>4. turn' = [turn EXCEPT ![h] = t]
    BY <1>1, <2>1 DEF SaveOutbound
  <2> QED BY <1>1, <2>3, <2>4, MovedTo, TurnsAre DEF Kept
<1>2. CASE h # Webhook
  <2>1. turn' = [turn EXCEPT ![h] = Resting]
    BY <1>2 DEF SaveOutbound
  <2> QED BY <1>2, <2>1, MovedTo, TurnsAre, Rest DEF Kept
<1> QED BY <1>1, <1>2

LEMMA AtRest ==
    ASSUME NEW h \in Handlers PROVE MayBe(h, Resting) /\ Resting.pc = "idle" /\ Resting.queue = <<>>
BY DEF MayBe, Resting, Places

LEMMA TablesKept ==
    ASSUME Shape, UNCHANGED <<agent, given, inbound, outbound, sent>>,
           reminders' = reminders \/ reminders' \in Seq(Range(reminders'))
    PROVE  Tables'
BY DEF Shape, Tables

LEMMA OneMore ==
    ASSUME NEW f \in [Messages -> Nat], NEW m \in Messages
    PROVE  [f EXCEPT ![m] = @ + 1] \in [Messages -> Nat]
OBVIOUS

\* What is handed to the assistant is counted.
LEMMA Giving ==
    ASSUME Shape, NEW messages \in Seq(Messages), Give(messages),
           UNCHANGED <<agent, inbound, outbound, sent, reminders>>
    PROVE  Tables'
<1>1. ASSUME NEW m \in Messages
      PROVE  given[m] + Cardinality({i \in DOMAIN messages : messages[i] = m}) \in Nat
  <2>1. IsFiniteSet(1..Len(messages))
    BY FS_Interval
  <2>2. {i \in DOMAIN messages : messages[i] = m} \in SUBSET (1..Len(messages))
    OBVIOUS
  <2>3. Cardinality({i \in DOMAIN messages : messages[i] = m}) \in Nat
    BY <2>1, <2>2, FS_Subset, FS_CardinalityType
  <2> QED BY <2>3 DEF Shape, Tables
<1> QED BY <1>1 DEF Give, Shape, Tables

LEMMA Receiving ==
    ASSUME Shape, NEW h \in Handlers, NEW m \in Direct, h \in Threads, Onwards(h, <<m>>)
    PROVE  /\ Kept(h) /\ turn'[h].pc = "inbound" /\ turn'[h].queue = <<m>>
           /\ m \in Messages /\ MayBe(h, turn'[h])
<1>1. m \in Messages /\ <<m>> \in Seq(Messages) /\ <<m>> # <<>> /\ Webhook \notin Threads
  BY AssistantAssumption DEF AssistantAssumption
<1>2. Kept(h) /\ turn'[h].pc = "inbound" /\ turn'[h].queue = <<m>>
  BY <1>1, OnwardsMoves
<1> QED BY <1>1, <1>2 DEF MayBe, Places

\* What is left of a delivery after a message is a rest of it.
LEMMA TailMayBe ==
    ASSUME Shape, turn[Webhook].pc # "idle", NEW b \in Batches, NEW k \in DOMAIN b.messages,
           At(b, k), Onwards(Webhook, Tail(turn[Webhook].queue))
    PROVE  /\ Kept(Webhook) /\ MayBe(Webhook, turn'[Webhook])
           /\ k = Len(b.messages) => turn'[Webhook] = Resting
           /\ k # Len(b.messages) =>
                 /\ turn'[Webhook].pc = "inbound" /\ k + 1 \in DOMAIN b.messages
                 /\ turn'[Webhook].queue = SubSeq(b.messages, k + 1, Len(b.messages))
<1> DEFINE q == turn[Webhook].queue
<1>1. b.messages \in Seq(Messages) /\ Webhook \notin Threads /\ Webhook \in Handlers
  BY AssistantAssumption DEF AssistantAssumption, Handlers
<1>2. /\ k = Len(b.messages) => Tail(q) = <<>>
      /\ k # Len(b.messages) =>
            Tail(q) = SubSeq(b.messages, k + 1, Len(b.messages)) /\ k + 1 \in DOMAIN b.messages
  <2>1. PICK s : s = b.messages
    OBVIOUS
  <2>2. q = SubSeq(s, k, Len(s)) /\ s \in Seq(Messages) /\ k \in DOMAIN s
    BY <1>1, <2>1 DEF At
  <2>3. /\ k = Len(s) => Tail(q) = <<>>
        /\ k # Len(s) => Tail(q) = SubSeq(s, k + 1, Len(s)) /\ k + 1 \in DOMAIN s
    <3>1. \A S : \A t \in Seq(S) : \A i \in DOMAIN t :
              /\ i = Len(t) => Tail(SubSeq(t, i, Len(t))) = <<>>
              /\ i # Len(t) => /\ Tail(SubSeq(t, i, Len(t))) = SubSeq(t, i + 1, Len(t))
                               /\ i + 1 \in DOMAIN t
      BY RestOf
    <3> HIDE DEF q
    <3> QED BY <2>2, <3>1, Zenon
  <2> QED BY <2>1, <2>3
<1>3. ASSUME k # Len(b.messages)
      PROVE  Tail(q) # <<>> /\ Tail(q) \in Seq(Messages)
  <2>1. PICK s : s = b.messages
    OBVIOUS
  <2>2. Tail(q) = SubSeq(s, k + 1, Len(s)) /\ s \in Seq(Messages) /\ k + 1 \in DOMAIN s
    BY <1>1, <1>2, <1>3, <2>1
  <2> QED BY <2>2, RestOf, Zenon
<1>4. Kept(Webhook)
  BY <1>1, OnwardsMoves
<1>5. CASE k = Len(b.messages)
  BY <1>1, <1>2, <1>4, <1>5, OnwardsMoves, AtRest
<1>6. CASE k # Len(b.messages)
  <2>1. turn'[Webhook].pc = "inbound" /\ turn'[Webhook].queue = Tail(q)
    BY <1>1, <1>3, <1>6, OnwardsMoves
  <2> QED BY <1>1, <1>2, <1>3, <1>4, <1>6, <2>1 DEF MayBe, Places
<1> QED BY <1>4, <1>5, <1>6

\* The webhook is a handler, and no thread.
LEMMA WebhookIs == Webhook \in Handlers /\ Webhook \notin Threads /\ Threads \subseteq Handlers
BY AssistantAssumption DEF AssistantAssumption, Handlers

\* What the webhook takes in, and the whole delivery as its rest.
LEMMA Delivering ==
    ASSUME Shape, NEW b \in Batches, Onwards(Webhook, IF Accepted(b) THEN b.messages ELSE <<>>)
    PROVE  /\ Kept(Webhook) /\ MayBe(Webhook, turn'[Webhook])
           /\ \/ turn'[Webhook] = Resting
              \/ /\ turn'[Webhook].pc = "inbound" /\ turn'[Webhook].queue = b.messages
                 /\ 1 \in DOMAIN b.messages
                 /\ turn'[Webhook].queue = SubSeq(b.messages, 1, Len(b.messages))
<1> DEFINE q == IF Accepted(b) THEN b.messages ELSE <<>>
<1>1. b.messages \in Seq(Messages)
  BY AssistantAssumption DEF AssistantAssumption
<1>2. CASE q = <<>>
  BY <1>2, OnwardsMoves, WebhookIs, AtRest
<1>3. CASE q # <<>>
  <2>1. q = b.messages /\ Kept(Webhook) /\ turn'[Webhook].pc = "inbound"
        /\ turn'[Webhook].queue = b.messages
    BY <1>3, OnwardsMoves, WebhookIs
  <2>2. 1 \in DOMAIN b.messages /\ b.messages = SubSeq(b.messages, 1, Len(b.messages))
    BY <1>1, <1>3, <2>1, SubSeqFull
  <2> QED BY <1>1, <1>3, <2>1, <2>2, WebhookIs DEF MayBe, Places
<1> QED BY <1>2, <1>3

\* Every step keeps the shape of the state.
LEMMA ShapeStep == ASSUME Shape, [AssistantNext]_assistantVars PROVE Shape'
<1>1. CASE Deliver
  <2>1. PICK b \in Batches :
           /\ Give(b.messages) /\ Onwards(Webhook, IF Accepted(b) THEN b.messages ELSE <<>>)
           /\ UNCHANGED <<agent, inbound, outbound, newest, sent, reminders>>
    BY <1>1 DEF Deliver
  <2>2. b.messages \in Seq(Messages)
    BY AssistantAssumption DEF AssistantAssumption
  <2> QED BY <2>1, <2>2, Giving, Delivering, WebhookIs, KeptShape
<1>2. ASSUME NEW h \in Handlers, Receive(h) PROVE Shape'
  <2>1. PICK m \in Direct :
           /\ h \in Threads /\ Give(<<m>>) /\ Onwards(h, <<m>>)
           /\ UNCHANGED <<agent, inbound, outbound, newest, sent, reminders>>
    BY <1>2 DEF Receive
  <2>2. Kept(h) /\ MayBe(h, turn'[h]) /\ <<m>> \in Seq(Messages)
    BY <2>1, Receiving
  <2>3. Tables'
    BY <2>1, <2>2, Giving
  <2> QED BY <2>2, <2>3, KeptShape
<1>3. ASSUME NEW h \in Handlers, SaveInbound(h) PROVE Shape'
  <2>1. /\ Goes(h, "inbound", "agent") /\ inbound' = [inbound EXCEPT ![Message(h)] = @ + 1]
        /\ UNCHANGED <<agent, calls, given, outbound, newest, sent, reminders>>
    BY <1>3 DEF SaveInbound
  <2>2. Kept(h) /\ turn[h].pc = "inbound" /\ turn'[h].pc = "agent" /\ turn'[h].queue = turn[h].queue
    BY <2>1, GoesMoves
  <2>3. MayBe(h, turn'[h])
    BY <2>2 DEF Shape, MayBe, Places, Working
  <2>4. Tables'
    BY <2>1, <2>2, HeadIs, OneMore DEF Shape, Tables
  <2> QED BY <2>2, <2>3, <2>4, KeptShape
<1>4. ASSUME NEW h \in Handlers, Agent(h) \/ Router(h) PROVE Shape'
  <2>1. Works(h)
    BY <1>4, AtWork
  <2>2. MayBe(h, turn'[h])
    BY <2>1 DEF Works, Unstarted, Working, Shape, MayBe, Places
  <2>3. Tables'
    BY <1>4, <2>1, RemindersShape, TablesKept DEF Works
  <2> QED BY <2>1, <2>2, <2>3, KeptShape DEF Works
<1>5. ASSUME NEW h \in Handlers, SaveOutbound(h) PROVE Shape'
  <2>1. /\ turn[h].pc = "outbound" /\ outbound' = [outbound EXCEPT ![Message(h)] = @ + 1]
        /\ UNCHANGED <<agent, calls, given, inbound, sent, reminders>>
    BY <1>5 DEF SaveOutbound
  <2>2. MayBe(h, turn'[h])
    <3>1. CASE h = Webhook
      <4>1. turn'[h].pc = "send" /\ turn'[h].queue = turn[h].queue
        BY <1>5, <3>1, Saved
      <4>2. MayBe(h, turn[h]) /\ h \notin Threads
        BY <3>1, WebhookIs DEF Shape
      <4> QED BY <2>1, <3>1, <4>1, <4>2 DEF MayBe, Places
    <3>2. CASE h # Webhook
      BY <1>5, <3>2, Saved, AtRest
    <3> QED BY <3>1, <3>2
  <2>3. Tables'
    BY <2>1, HeadIs, OneMore DEF Shape, Tables
  <2> QED BY <1>5, <2>2, <2>3, Saved, KeptShape
<1>6. ASSUME NEW h \in Handlers, Send(h) PROVE Shape'
  <2>1. PICK delivers \in BOOLEAN, raises \in BOOLEAN :
           /\ turn[h].pc = "send"
           /\ sent' = [sent EXCEPT ![Message(h)] = IF delivers THEN @ + 1 ELSE @]
           /\ Onwards(h, IF raises THEN <<>> ELSE Tail(turn[h].queue))
           /\ UNCHANGED <<agent, calls, given, inbound, outbound, newest, reminders>>
    BY <1>6 DEF Send
  <2>2. h = Webhook
    BY <2>1 DEF Handlers, Shape, MayBe
  <2>3. Tables'
    <3>1. Message(h) \in Messages /\ sent \in [Messages -> Nat]
      BY <2>1, HeadIs DEF Shape, Tables
    <3>2. sent' \in [Messages -> Nat]
      BY <2>1, <3>1
    <3> QED BY <2>1, <3>2 DEF Shape, Tables
  <2>4. CASE raises
    BY <2>1, <2>3, <2>4, OnwardsMoves, AtRest, KeptShape
  <2>5. CASE ~ raises
    <3>1. PICK b \in Batches : \E k \in DOMAIN b.messages : At(b, k)
      BY <2>1, <2>2 DEF Shape, MayBe, At
    <3> QED BY <2>1, <2>2, <2>3, <2>5, <3>1, TailMayBe, KeptShape, WebhookIs
  <2> QED BY <2>4, <2>5
<1>7. ASSUME NEW h \in Handlers, Raise(h) PROVE Shape'
  <2>1. /\ Onwards(h, <<>>)
        /\ UNCHANGED <<agent, calls, given, inbound, outbound, newest, sent, reminders>>
    BY <1>7 DEF Raise
  <2> QED BY <2>1, OnwardsMoves, AtRest, TablesKept, KeptShape
<1>8. CASE UNCHANGED assistantVars
  BY <1>8 DEF assistantVars, Shape, Tables
<1> QED BY <1>1, <1>2, <1>3, <1>4, <1>5, <1>6, <1>7, <1>8 DEF AssistantNext

-----------------------------------------------------------------------------
(* Who is on what.                                                         *)
LEMMA Apart ==
    ASSUME NEW S, IsFiniteSet(S), NEW T, NEW x, T \ {x} = S \ {x}
    PROVE  /\ IsFiniteSet(T) /\ Cardinality(T) \in Nat /\ Cardinality(S) \in Nat
           /\ Cardinality(T) = Cardinality(S) + (IF x \in T THEN 1 ELSE 0)
                                              - (IF x \in S THEN 1 ELSE 0)
<1> DEFINE R == S \ {x}
<1>1. IsFiniteSet(R) /\ Cardinality(R) = IF x \in S THEN Cardinality(S) - 1 ELSE Cardinality(S)
  BY FS_RemoveElement
<1>2. T = IF x \in T THEN R \cup {x} ELSE R
  OBVIOUS
<1>3. x \notin R
  OBVIOUS
<1> HIDE DEF R
<1>4. /\ IsFiniteSet(R \cup {x}) /\ Cardinality(R \cup {x}) = Cardinality(R) + 1
      /\ Cardinality(R) \in Nat /\ Cardinality(S) \in Nat
  BY <1>1, <1>3, FS_AddElement, FS_CardinalityType
<1>5. CASE x \in T
  <2>1. T = R \cup {x}
    BY <1>2, <1>5
  <2>2. IsFiniteSet(T) /\ Cardinality(T) = Cardinality(R) + 1
    BY <1>4, <2>1
  <2> QED BY <1>1, <1>4, <1>5, <2>2
<1>6. CASE x \notin T
  <2>1. T = R
    BY <1>2, <1>6
  <2> QED BY <1>1, <1>4, <1>6, <2>1
<1> QED BY <1>5, <1>6

\* There are finitely many handlers.
LEMMA HandlersFinite == IsFiniteSet(Handlers) /\ IsFiniteSet(Threads)
BY AssistantAssumption, FS_AddElement DEF AssistantAssumption, Handlers

LEMMA OnFinite ==
    ASSUME NEW m, NEW P
    PROVE  /\ IsFiniteSet(On(m, P)) /\ Cardinality(On(m, P)) \in Nat
           /\ IsFiniteSet(Asked(m)) /\ Cardinality(Asked(m)) \in Nat
<1>1. On(m, P) \in SUBSET Handlers /\ Asked(m) \in SUBSET Threads
  BY DEF On, Asked
<1> QED BY <1>1, HandlersFinite, FS_Subset, FS_CardinalityType

\* A step of one handler changes who is on a message by that handler.
LEMMA OnCount ==
    ASSUME Shape, NEW h \in Handlers, Kept(h), NEW m, NEW P
    PROVE  /\ Cardinality(On(m, P)) \in Nat /\ Cardinality(On(m, P)') \in Nat
           /\ Cardinality(On(m, P)') = Cardinality(On(m, P))
                  + (IF turn'[h].pc \in P /\ Head(turn'[h].queue) = m THEN 1 ELSE 0)
                  - (IF turn[h].pc \in P /\ Message(h) = m THEN 1 ELSE 0)
<1>1. IsFiniteSet(On(m, P))
  BY OnFinite
<1>2. On(m, P)' \ {h} = On(m, P) \ {h}
  BY DEF Kept, On, Message
<1>3. /\ h \in On(m, P)' <=> turn'[h].pc \in P /\ Head(turn'[h].queue) = m
      /\ h \in On(m, P) <=> turn[h].pc \in P /\ Message(h) = m
  BY DEF On, Message
<1> HIDE DEF On
<1>4. PICK S, T : S = On(m, P) /\ T = On(m, P)'
  OBVIOUS
<1>5. /\ Cardinality(T) \in Nat /\ Cardinality(S) \in Nat
      /\ Cardinality(T) = Cardinality(S) + (IF h \in T THEN 1 ELSE 0) - (IF h \in S THEN 1 ELSE 0)
  BY <1>1, <1>2, <1>4, Apart
<1> QED BY <1>3, <1>4, <1>5

\* The same for the threads that are still to read a message.
LEMMA AskedCount ==
    ASSUME Shape, NEW h \in Handlers, Kept(h), NEW m
    PROVE  /\ Cardinality(Asked(m)) \in Nat /\ Cardinality(Asked(m)') \in Nat
           /\ Cardinality(Asked(m)') = Cardinality(Asked(m))
                  + (IF h \in Threads /\ turn'[h].pc = "inbound" /\ Head(turn'[h].queue) = m
                     THEN 1 ELSE 0)
                  - (IF h \in Threads /\ turn[h].pc = "inbound" /\ Message(h) = m THEN 1 ELSE 0)
<1>1. IsFiniteSet(Asked(m))
  BY OnFinite
<1>2. Asked(m)' \ {h} = Asked(m) \ {h}
  BY WebhookIs DEF Kept, Asked, Message
<1>3. /\ h \in Asked(m)' <=> h \in Threads /\ turn'[h].pc = "inbound" /\ Head(turn'[h].queue) = m
      /\ h \in Asked(m) <=> h \in Threads /\ turn[h].pc = "inbound" /\ Message(h) = m
  BY DEF Asked, Message
<1>4. PICK S, T : S = Asked(m) /\ T = Asked(m)'
  OBVIOUS
<1>5. /\ Cardinality(T) \in Nat /\ Cardinality(S) \in Nat
      /\ Cardinality(T) = Cardinality(S) + (IF h \in T THEN 1 ELSE 0) - (IF h \in S THEN 1 ELSE 0)
  BY <1>1, <1>2, <1>4, Apart
<1> QED BY <1>3, <1>4, <1>5

\* The places of a message that the webhook is still to read.
LEMMA QueuedFinite ==
    ASSUME Shape, NEW m PROVE IsFiniteSet(Queued(m)) /\ Cardinality(Queued(m)) \in Nat
<1>1. turn[Webhook].queue \in Seq(Messages)
  BY WebhookIs DEF Shape, MayBe
<1>2. Queued(m) \in SUBSET (1..Len(turn[Webhook].queue))
  BY <1>1 DEF Queued
<1>3. IsFiniteSet(1..Len(turn[Webhook].queue))
  BY <1>1, FS_Interval
<1> QED BY <1>2, <1>3, FS_Subset, FS_CardinalityType

LEMMA QueuedStays ==
    ASSUME Shape, NEW h \in Handlers, Kept(h), h # Webhook, NEW m
    PROVE  Queued(m)' = Queued(m)
BY WebhookIs DEF Kept, Queued

LEMMA QueuedFewer ==
    ASSUME Shape, NEW m, Queued(m)' \in SUBSET Queued(m)
    PROVE  /\ Cardinality(Queued(m)') \in Nat /\ Cardinality(Queued(m)) \in Nat
           /\ Cardinality(Queued(m)') <= Cardinality(Queued(m))
<1>1. PICK S, T : S = Queued(m) /\ T = Queued(m)'
  OBVIOUS
<1>2. IsFiniteSet(S) /\ T \in SUBSET S
  BY <1>1, QueuedFinite
<1>3. IsFiniteSet(T) /\ Cardinality(T) <= Cardinality(S)
  BY <1>2, FS_Subset
<1> QED BY <1>1, <1>2, <1>3, FS_CardinalityType

By(m) == {i \in DOMAIN reminders : reminders[i].by = m}
\* A reminder appended by a turn is one more of its message.
LEMMA ByFinite ==
    ASSUME Shape, NEW m
    PROVE  IsFiniteSet(By(m)) /\ Created(m) = Cardinality(By(m)) /\ Created(m) \in Nat
<1>1. By(m) \in SUBSET (1..Len(reminders)) /\ Len(reminders) \in Nat
  BY DEF By, Shape, Tables
<1>2. IsFiniteSet(1..Len(reminders))
  BY <1>1, FS_Interval
<1>3. IsFiniteSet(By(m))
  BY <1>1, <1>2, FS_Subset
<1> QED BY <1>3, FS_CardinalityType DEF Created, By

LEMMA CreatedAfter ==
    ASSUME Shape, NEW h \in Handlers, Agent(h) \/ Router(h), NEW m
    PROVE  /\ Created(m) \in Nat /\ Created(m)' \in Nat
           /\ Created(m)' <= Created(m) + (IF turn[h].pc = "act" /\ turn'[h].pc = "outbound"
                                              /\ Message(h) = m THEN 1 ELSE 0)
<1>1. IsFiniteSet(By(m)) /\ Created(m) = Cardinality(By(m)) /\ Created(m) \in Nat
  BY ByFinite
<1>2. reminders \in Seq(Range(reminders)) /\ Len(reminders) \in Nat
      /\ DOMAIN reminders = 1..Len(reminders)
  BY DEF Shape, Tables
<1>3. CASE By(m)' = By(m)
  <2>1. Created(m)' = Cardinality(By(m)')
    BY DEF Created, By
  <2> QED BY <1>1, <1>3, <2>1
<1>4. CASE /\ turn[h].pc = "act" /\ turn'[h].pc = "outbound"
           /\ \E e : e.by = Message(h) /\ reminders' = Append(reminders, e)
  <2>1. PICK e : e.by = Message(h) /\ reminders' = Append(reminders, e)
    BY <1>4
  <2> DEFINE n == Len(reminders) + 1
  <2>2. /\ DOMAIN reminders' = 1..n /\ reminders'[n] = e
        /\ \A i \in 1 .. Len(reminders) : reminders'[i] = reminders[i]
    BY <1>2, <2>1, SeqGrows
  <2>3. By(m)' \ {n} = By(m) \ {n} /\ n \notin By(m) /\ (n \in By(m)' <=> Message(h) = m)
    BY <1>2, <2>1, <2>2 DEF By
  <2>4. PICK S, T : S = By(m) /\ T = By(m)'
    OBVIOUS
  <2> HIDE DEF n
  <2>5. Cardinality(T) \in Nat /\ Cardinality(T) = Cardinality(S) + (IF n \in T THEN 1 ELSE 0)
    <3>1. IsFiniteSet(S) /\ T \ {n} = S \ {n} /\ n \notin S
      BY <1>1, <2>3, <2>4
    <3>2. Cardinality(T) \in Nat /\ Cardinality(S) \in Nat
          /\ Cardinality(T) = Cardinality(S) + (IF n \in T THEN 1 ELSE 0)
                                             - (IF n \in S THEN 1 ELSE 0)
      BY <3>1, Apart
    <3> QED BY <3>1, <3>2
  <2>6. Created(m)' = Cardinality(T)
    BY <2>4 DEF Created, By
  <2> QED BY <1>1, <1>4, <2>3, <2>4, <2>5, <2>6
<1>5. CASE reminders' = reminders
  BY <1>3, <1>5 DEF By
<1>6. CASE reminders' = [reminders EXCEPT ![turn[h].found].status = "done"]
  <2>1. DOMAIN reminders' = DOMAIN reminders
    BY <1>2, <1>6
  <2>2. ASSUME NEW i \in DOMAIN reminders PROVE (reminders'[i].by = m) <=> (reminders[i].by = m)
    <3>1. CASE i = turn[h].found
      <4>1. reminders'[i] = [reminders[i] EXCEPT !.status = "done"]
        BY <1>6, <2>1, <2>2, <3>1
      <4>2. PICK old, new : old = reminders[i] /\ new = [old EXCEPT !.status = "done"]
        OBVIOUS
      <4>3. new.by = old.by
        BY <4>2
      <4> QED BY <4>1, <4>2, <4>3
    <3>2. CASE i # turn[h].found
      BY <1>6, <2>2, <3>2
    <3> QED BY <3>1, <3>2
  <2>3. By(m)' = By(m)
    BY <2>1, <2>2 DEF By
  <2> QED BY <1>3, <2>3
<1> QED BY <1>4, <1>5, <1>6, CreatedOnce

-----------------------------------------------------------------------------
(* The counts.                                                             *)
CountsOf(m) == SentWereSaved(m) /\ SavedWereRead(m) /\ CreatedWereRead(m) /\ ReadWereGiven(m)

\* While nothing is counted at work before or after, those who work on m stay.
LEMMA OnStays ==
    ASSUME Shape, NEW h \in Handlers, Kept(h), NEW m, NEW P,
           turn[h].pc \notin P, turn'[h].pc \notin P
    PROVE  Cardinality(On(m, P)') = Cardinality(On(m, P)) /\ Cardinality(On(m, P)) \in Nat
BY OnCount

\* The counters count.
LEMMA Numbers ==
    ASSUME Shape, NEW m \in Messages
    PROVE  /\ given[m] \in Nat /\ inbound[m] \in Nat /\ outbound[m] \in Nat /\ sent[m] \in Nat
           /\ Created(m) \in Nat
BY ByFinite DEF Shape, Tables

LEMMA CreatedStays == ASSUME UNCHANGED reminders, NEW m PROVE Created(m)' = Created(m)
BY DEF Created

\* A turn begins: with the payload all of its messages are given, and
\* none is read yet.
LEMMA CountsOnEntering ==
    ASSUME Shape, NEW h \in Handlers, Kept(h), NEW m \in Messages, CountsOf(m),
           turn[h].pc = "idle", turn'[h].pc \in {"idle", "inbound"},
           UNCHANGED <<inbound, outbound, sent, reminders>>
    PROVE  SentWereSaved(m)' /\ SavedWereRead(m)' /\ CreatedWereRead(m)'
<1>1. \A P \in {{"send"}, Working, Unstarted} :
         Cardinality(On(m, P)') = Cardinality(On(m, P)) /\ Cardinality(On(m, P)) \in Nat
  BY OnStays DEF Working, Unstarted
<1>2. Created(m)' = Created(m)
  BY CreatedStays
<1> QED BY <1>1, <1>2 DEF CountsOf, SentWereSaved, SavedWereRead, CreatedWereRead

LEMMA CountsOnDelivery ==
    ASSUME Shape, Deliver, NEW m \in Messages, CountsOf(m)
    PROVE  CountsOf(m)'
<1>1. PICK b \in Batches :
         /\ turn[Webhook].pc = "idle" /\ Give(b.messages)
         /\ Onwards(Webhook, IF Accepted(b) THEN b.messages ELSE <<>>)
         /\ UNCHANGED <<agent, inbound, outbound, newest, sent, reminders>>
  BY DEF Deliver
<1> DEFINE G == {i \in DOMAIN b.messages : b.messages[i] = m}
<1>2. /\ Kept(Webhook)
      /\ \/ turn'[Webhook] = Resting
         \/ turn'[Webhook].pc = "inbound" /\ turn'[Webhook].queue = b.messages
  BY <1>1, Delivering
<1>3. turn[Webhook].queue = <<>> /\ Resting.pc = "idle" /\ Resting.queue = <<>>
  BY <1>1, WebhookIs, AtRest DEF Shape, MayBe
<1>4. SentWereSaved(m)' /\ SavedWereRead(m)' /\ CreatedWereRead(m)'
  BY <1>1, <1>2, <1>3, WebhookIs, CountsOnEntering
<1>5. IsFiniteSet(G) /\ Cardinality(G) \in Nat
  <2>1. b.messages \in Seq(Messages)
    BY AssistantAssumption DEF AssistantAssumption
  <2>2. IsFiniteSet(1..Len(b.messages)) /\ G \in SUBSET (1..Len(b.messages))
    BY <2>1, FS_Interval
  <2> QED BY <2>2, FS_Subset, FS_CardinalityType
<1>6. Queued(m) = {} /\ Cardinality(Queued(m)) = 0
  <2>1. Queued(m) = {}
    BY <1>3 DEF Queued
  <2> QED BY <2>1, FS_EmptySet
<1>7. Queued(m)' \in SUBSET G
  <2>1. Queued(m)' = {i \in DOMAIN turn'[Webhook].queue :
                        /\ turn'[Webhook].queue[i] = m
                        /\ i > 1 \/ turn'[Webhook].pc = "inbound"}
    BY DEF Queued
  <2> QED BY <1>2, <1>3, <2>1
<1>8. given'[m] = given[m] + Cardinality(G)
  BY <1>1 DEF Give
<1>9. Cardinality(Asked(m)') = Cardinality(Asked(m)) /\ Cardinality(Asked(m)) \in Nat
  BY <1>2, WebhookIs, AskedCount
<1> HIDE DEF G
<1>10. PICK T : T = Queued(m)'
  OBVIOUS
<1>11. Cardinality(T) <= Cardinality(G) /\ Cardinality(T) \in Nat
  BY <1>5, <1>7, <1>10, FS_Subset, FS_CardinalityType
<1>12. inbound'[m] + Cardinality(Asked(m)') + Cardinality(Queued(m)') <= given'[m]
  BY <1>1, <1>5, <1>6, <1>8, <1>9, <1>10, <1>11, Numbers DEF CountsOf, ReadWereGiven
<1> QED BY <1>4, <1>12 DEF CountsOf, ReadWereGiven

LEMMA CountsOnReceipt ==
    ASSUME Shape, NEW h \in Handlers, Receive(h), NEW m \in Messages, CountsOf(m)
    PROVE  CountsOf(m)'
<1>1. PICK n \in Direct :
         /\ h \in Threads /\ turn[h].pc = "idle" /\ Give(<<n>>) /\ Onwards(h, <<n>>)
         /\ UNCHANGED <<agent, inbound, outbound, newest, sent, reminders>>
  BY DEF Receive
<1>2. Kept(h) /\ turn'[h].pc = "inbound" /\ turn'[h].queue = <<n>> /\ h # Webhook
  BY <1>1, Receiving, WebhookIs
<1>3. SentWereSaved(m)' /\ SavedWereRead(m)' /\ CreatedWereRead(m)'
  BY <1>1, <1>2, CountsOnEntering
<1>4. Queued(m)' = Queued(m) /\ Cardinality(Queued(m)) \in Nat
  BY <1>2, QueuedStays, QueuedFinite
<1>5. /\ Cardinality(Asked(m)) \in Nat
      /\ Cardinality(Asked(m)') = Cardinality(Asked(m)) + (IF n = m THEN 1 ELSE 0)
  <2>1. Head(turn'[h].queue) = n
    BY <1>2
  <2> QED BY <1>1, <1>2, <2>1, AskedCount
<1>6. given'[m] = given[m] + (IF n = m THEN 1 ELSE 0)
  <2>1. {i \in DOMAIN <<n>> : <<n>>[i] = m} = IF n = m THEN {1} ELSE {}
    OBVIOUS
  <2>2. Cardinality({1}) = 1 /\ Cardinality({}) = 0
    BY FS_EmptySet, FS_Singleton
  <2>3. given'[m] = given[m] + Cardinality({i \in DOMAIN <<n>> : <<n>>[i] = m})
    BY <1>1 DEF Give
  <2> QED BY <2>1, <2>2, <2>3
<1>7. ReadWereGiven(m)'
  BY <1>1, <1>4, <1>5, <1>6, Numbers DEF CountsOf, ReadWereGiven
<1> QED BY <1>3, <1>7 DEF CountsOf

\* The inbound row: one less to read, one more at work.
LEMMA CountsOnSaveInbound ==
    ASSUME Shape, NEW h \in Handlers, SaveInbound(h), NEW m \in Messages, CountsOf(m)
    PROVE  CountsOf(m)'
<1> DEFINE one == IF Message(h) = m THEN 1 ELSE 0
<1>1. /\ Goes(h, "inbound", "agent") /\ inbound' = [inbound EXCEPT ![Message(h)] = @ + 1]
      /\ UNCHANGED <<agent, calls, given, outbound, newest, sent, reminders>>
  BY DEF SaveInbound
<1>2. Kept(h) /\ turn[h].pc = "inbound" /\ turn'[h].pc = "agent" /\ turn'[h].queue = turn[h].queue
  BY <1>1, GoesMoves
<1>3. Head(turn'[h].queue) = Message(h)
  BY <1>2 DEF Message
<1>4. inbound'[m] = inbound[m] + one
  BY <1>1, <1>2, HeadIs DEF Shape, Tables
<1>5. /\ Cardinality(On(m, {"send"})') = Cardinality(On(m, {"send"}))
      /\ Cardinality(On(m, {"send"})) \in Nat
  BY <1>2, OnStays
<1>6. /\ Cardinality(On(m, Working)') = Cardinality(On(m, Working)) + one
      /\ Cardinality(On(m, Working)) \in Nat
  BY <1>2, <1>3, OnCount DEF Working
<1>7. /\ Cardinality(On(m, Unstarted)') = Cardinality(On(m, Unstarted)) + one
      /\ Cardinality(On(m, Unstarted)) \in Nat
  BY <1>2, <1>3, OnCount DEF Unstarted
<1>8. Created(m)' = Created(m)
  BY <1>1, CreatedStays
<1>9. SentWereSaved(m)' /\ SavedWereRead(m)' /\ CreatedWereRead(m)'
  BY <1>1, <1>4, <1>5, <1>6, <1>7, <1>8, Numbers
     DEF CountsOf, SentWereSaved, SavedWereRead, CreatedWereRead
<1>10. /\ Cardinality(Asked(m)) \in Nat
       /\ Cardinality(Asked(m)') = Cardinality(Asked(m)) - (IF h \in Threads THEN one ELSE 0)
  BY <1>2, AskedCount
<1>11. /\ Cardinality(Queued(m)) \in Nat
       /\ Cardinality(Queued(m)') = Cardinality(Queued(m)) - (IF h \in Threads THEN 0 ELSE one)
  <2>1. CASE h \in Threads
    BY <1>2, <2>1, WebhookIs, QueuedStays, QueuedFinite
  <2>2. CASE h \notin Threads
    <3>1. h = Webhook
      BY <2>2 DEF Handlers
    <3>2. /\ Queued(m)' \ {1} = Queued(m) \ {1} /\ 1 \notin Queued(m)'
          /\ 1 \in Queued(m) <=> Message(h) = m
      BY <1>2, <3>1, HeadIs DEF Queued
    <3>3. PICK S, T : S = Queued(m) /\ T = Queued(m)'
      OBVIOUS
    <3>4. Cardinality(T) = Cardinality(S) + (IF 1 \in T THEN 1 ELSE 0) - (IF 1 \in S THEN 1 ELSE 0)
          /\ Cardinality(S) \in Nat
      BY <3>2, <3>3, QueuedFinite, Apart
    <3> QED BY <2>2, <3>2, <3>3, <3>4
  <2> QED BY <2>1, <2>2
<1>12. ReadWereGiven(m)'
  BY <1>1, <1>4, <1>10, <1>11, Numbers DEF CountsOf, ReadWereGiven
<1> QED BY <1>9, <1>12 DEF CountsOf

\* A turn that leaves the place where it waits to be read asks for no more.
LEMMA GivenStays ==
    ASSUME Shape, NEW h \in Handlers, Kept(h), turn[h].pc # "inbound", turn'[h].pc # "inbound",
           turn'[h].queue = turn[h].queue \/ turn'[h] = Resting,
           UNCHANGED <<given, inbound>>, NEW m \in Messages, CountsOf(m)
    PROVE  ReadWereGiven(m)'
<1>1. Cardinality(Asked(m)') = Cardinality(Asked(m)) /\ Cardinality(Asked(m)) \in Nat
  BY AskedCount
<1>2. Queued(m)' \in SUBSET Queued(m)
  BY WebhookIs, AtRest DEF Queued, Kept
<1>3. /\ Cardinality(Queued(m)') \in Nat /\ Cardinality(Queued(m)) \in Nat
      /\ Cardinality(Queued(m)') <= Cardinality(Queued(m))
  BY <1>2, QueuedFewer
<1> QED BY <1>1, <1>3, Numbers DEF CountsOf, ReadWereGiven

\* At work nothing is recorded, and a reminder is created as the turn
\* leaves the places from which it could create one.
LEMMA CountsOnWork ==
    ASSUME Shape, NEW h \in Handlers, Agent(h) \/ Router(h), NEW m \in Messages, CountsOf(m)
    PROVE  CountsOf(m)'
<1>1. Works(h) /\ Kept(h) /\ UNCHANGED <<given, inbound, outbound, sent>>
  BY AtWork DEF Works
<1>2. Head(turn'[h].queue) = Message(h)
  BY <1>1 DEF Message, Works
<1>3. ReadWereGiven(m)'
  BY <1>1, GivenStays DEF Works, Working, Unstarted
<1>4. /\ Cardinality(On(m, {"send"})') = Cardinality(On(m, {"send"}))
      /\ Cardinality(On(m, {"send"})) \in Nat
  BY <1>1, OnStays DEF Works, Working, Unstarted
<1>5. /\ Cardinality(On(m, Working)') = Cardinality(On(m, Working))
      /\ Cardinality(On(m, Working)) \in Nat
  BY <1>1, <1>2, OnCount DEF Works, Working, Unstarted
<1>6. Created(m)' + Cardinality(On(m, Unstarted)') <= Created(m) + Cardinality(On(m, Unstarted))
      /\ Created(m)' \in Nat /\ Cardinality(On(m, Unstarted)) \in Nat
      /\ Cardinality(On(m, Unstarted)') \in Nat
  <2>1. /\ Created(m) \in Nat /\ Created(m)' \in Nat
        /\ Created(m)' <= Created(m) + (IF turn[h].pc = "act" /\ turn'[h].pc = "outbound"
                                           /\ Message(h) = m THEN 1 ELSE 0)
    BY CreatedAfter
  <2>2. turn'[h].pc \in Unstarted => turn[h].pc \in Unstarted
    BY <1>1 DEF Works, Working, Unstarted
  <2>3. "act" \in Unstarted /\ "outbound" \notin Unstarted
    BY DEF Unstarted
  <2>4. /\ Cardinality(On(m, Unstarted)) \in Nat /\ Cardinality(On(m, Unstarted)') \in Nat
        /\ Cardinality(On(m, Unstarted)') = Cardinality(On(m, Unstarted))
               + (IF turn'[h].pc \in Unstarted /\ Message(h) = m THEN 1 ELSE 0)
               - (IF turn[h].pc \in Unstarted /\ Message(h) = m THEN 1 ELSE 0)
    BY <1>1, <1>2, OnCount
  <2> QED BY <2>1, <2>2, <2>3, <2>4
<1> QED BY <1>1, <1>3, <1>4, <1>5, <1>6, Numbers
        DEF CountsOf, SentWereSaved, SavedWereRead, CreatedWereRead

\* The outbound row: one less at work, for the webhook one more to send.
LEMMA CountsOnSaveOutbound ==
    ASSUME Shape, NEW h \in Handlers, SaveOutbound(h), NEW m \in Messages, CountsOf(m)
    PROVE  CountsOf(m)'
<1> DEFINE one == IF Message(h) = m THEN 1 ELSE 0
<1>1. /\ turn[h].pc = "outbound" /\ outbound' = [outbound EXCEPT ![Message(h)] = @ + 1]
      /\ UNCHANGED <<agent, calls, given, inbound, sent, reminders>>
  BY DEF SaveOutbound
<1>2. /\ Kept(h) /\ turn'[h].pc \in {"idle", "send"}
      /\ turn'[h].queue = turn[h].queue \/ turn'[h] = Resting
      /\ turn'[h].pc = "send" => turn'[h].queue = turn[h].queue
  BY Saved, AtRest
<1>3. outbound'[m] = outbound[m] + one
  BY <1>1, HeadIs DEF Shape, Tables
<1>4. ReadWereGiven(m)'
  BY <1>1, <1>2, GivenStays
<1>5. /\ Cardinality(On(m, {"send"})') <= Cardinality(On(m, {"send"})) + one
      /\ Cardinality(On(m, {"send"})) \in Nat /\ Cardinality(On(m, {"send"})') \in Nat
  BY <1>1, <1>2, OnCount DEF Message
<1>6. /\ Cardinality(On(m, Working)') = Cardinality(On(m, Working)) - one
      /\ Cardinality(On(m, Working)) \in Nat /\ Cardinality(On(m, Working)') \in Nat
  <2>1. "outbound" \in Working /\ "idle" \notin Working /\ "send" \notin Working
    BY DEF Working
  <2> QED BY <1>1, <1>2, <2>1, OnCount
<1>7. /\ Cardinality(On(m, Unstarted)') = Cardinality(On(m, Unstarted))
      /\ Cardinality(On(m, Unstarted)) \in Nat
  BY <1>1, <1>2, OnStays DEF Unstarted
<1>8. Created(m)' = Created(m)
  BY <1>1, CreatedStays
<1> QED BY <1>1, <1>3, <1>4, <1>5, <1>6, <1>7, <1>8, Numbers
        DEF CountsOf, SentWereSaved, SavedWereRead, CreatedWereRead

\* A turn ends, and with it what it stood for in the counts.
LEMMA CountsOnLeaving ==
    ASSUME Shape, NEW h \in Handlers, Kept(h), turn'[h].pc \in {"idle", "inbound"},
           UNCHANGED <<inbound, outbound, reminders>>, NEW m \in Messages, CountsOf(m),
           sent'[m] \in Nat,
           sent'[m] <= sent[m] + (IF turn[h].pc = "send" /\ Message(h) = m THEN 1 ELSE 0)
    PROVE  SentWereSaved(m)' /\ SavedWereRead(m)' /\ CreatedWereRead(m)'
<1>1. /\ Cardinality(On(m, {"send"})') = Cardinality(On(m, {"send"}))
                - (IF turn[h].pc = "send" /\ Message(h) = m THEN 1 ELSE 0)
      /\ Cardinality(On(m, {"send"})) \in Nat /\ Cardinality(On(m, {"send"})') \in Nat
  BY OnCount
<1>2. \A P \in {Working, Unstarted} :
         /\ Cardinality(On(m, P)') <= Cardinality(On(m, P))
         /\ Cardinality(On(m, P)) \in Nat /\ Cardinality(On(m, P)') \in Nat
  <2> SUFFICES ASSUME NEW P \in {Working, Unstarted}
               PROVE  /\ Cardinality(On(m, P)') <= Cardinality(On(m, P))
                      /\ Cardinality(On(m, P)) \in Nat /\ Cardinality(On(m, P)') \in Nat
    OBVIOUS
  <2>1. turn'[h].pc \notin P
    BY DEF Working, Unstarted
  <2> QED BY <2>1, OnCount
<1>3. Created(m)' = Created(m)
  BY CreatedStays
<1> QED BY <1>1, <1>2, <1>3, Numbers
        DEF CountsOf, SentWereSaved, SavedWereRead, CreatedWereRead

LEMMA GivenOnEnd ==
    ASSUME Shape, NEW h \in Handlers, Kept(h), turn'[h] = Resting,
           UNCHANGED <<given, inbound>>, NEW m \in Messages, CountsOf(m)
    PROVE  ReadWereGiven(m)'
<1>1. /\ Cardinality(Asked(m)') <= Cardinality(Asked(m))
      /\ Cardinality(Asked(m)) \in Nat /\ Cardinality(Asked(m)') \in Nat
  BY AskedCount, AtRest
<1>2. Queued(m)' \in SUBSET Queued(m)
  BY WebhookIs, AtRest DEF Queued, Kept
<1>3. /\ Cardinality(Queued(m)') \in Nat /\ Cardinality(Queued(m)) \in Nat
      /\ Cardinality(Queued(m)') <= Cardinality(Queued(m))
  BY <1>2, QueuedFewer
<1> QED BY <1>1, <1>3, Numbers DEF CountsOf, ReadWereGiven

\* The next message of a delivery becomes the first: each of the others is
\* one place further on.
LEMMA GivenOnTail ==
    ASSUME Shape, Kept(Webhook), turn[Webhook].pc = "send", turn'[Webhook].pc = "inbound",
           turn'[Webhook].queue = Tail(turn[Webhook].queue),
           UNCHANGED <<given, inbound>>, NEW m \in Messages, CountsOf(m)
    PROVE  ReadWereGiven(m)'
<1> DEFINE q == turn[Webhook].queue
           T == Queued(m)'
           f == [i \in T |-> i + 1]
<1>1. q \in Seq(Messages) /\ q # <<>>
  BY HeadIs, WebhookIs
<1>2. /\ Tail(q) \in Seq(Messages) /\ Len(Tail(q)) = Len(q) - 1
      /\ \A i \in 1 .. Len(Tail(q)) : Tail(q)[i] = q[i + 1]
  BY <1>1, HeadTailProperties
<1>3. ASSUME NEW i \in T PROVE i \in Nat /\ i + 1 \in Queued(m)
  <2>1. i \in 1 .. Len(Tail(q)) /\ Tail(q)[i] = m
    BY <1>2 DEF Queued
  <2>2. i + 1 \in DOMAIN q /\ q[i + 1] = m /\ i + 1 > 1
    BY <1>1, <1>2, <2>1
  <2> QED BY <2>1, <2>2 DEF Queued
<1> HIDE DEF T
<1>4. f \in Injection(T, Queued(m))
  BY <1>3 DEF Injection, IsInjective
<1> HIDE DEF f
<1>5. Cardinality(T) <= Cardinality(Queued(m)) /\ IsFiniteSet(T)
  BY <1>4, QueuedFinite, FS_Injection
<1>6. Cardinality(T) \in Nat /\ Cardinality(Queued(m)) \in Nat
  BY <1>5, QueuedFinite, FS_CardinalityType
<1>7. Cardinality(Asked(m)') = Cardinality(Asked(m)) /\ Cardinality(Asked(m)) \in Nat
  BY WebhookIs, AskedCount
<1>8. inbound'[m] + Cardinality(Asked(m)') + Cardinality(T) <= given'[m]
  BY <1>5, <1>6, <1>7, Numbers DEF CountsOf, ReadWereGiven
<1> QED BY <1>8 DEF ReadWereGiven, T

\* The reply: one less to send, sent at most once.
LEMMA CountsOnSend ==
    ASSUME Shape, NEW h \in Handlers, Send(h), NEW m \in Messages, CountsOf(m)
    PROVE  CountsOf(m)'
<1>1. PICK delivers \in BOOLEAN, raises \in BOOLEAN :
         /\ turn[h].pc = "send"
         /\ sent' = [sent EXCEPT ![Message(h)] = IF delivers THEN @ + 1 ELSE @]
         /\ Onwards(h, IF raises THEN <<>> ELSE Tail(turn[h].queue))
         /\ UNCHANGED <<agent, calls, given, inbound, outbound, newest, reminders>>
  BY DEF Send
<1>2. h = Webhook
  BY <1>1 DEF Handlers, Shape, MayBe
<1>3. sent'[m] \in Nat /\ sent'[m] <= sent[m] + (IF Message(h) = m THEN 1 ELSE 0)
  BY <1>1, HeadIs DEF Shape, Tables
<1> DEFINE rest == IF raises THEN <<>> ELSE Tail(turn[h].queue)
<1>4. CASE rest = <<>>
  <2>1. Kept(h) /\ turn'[h] = Resting
    BY <1>1, <1>4, OnwardsMoves
  <2>2. ReadWereGiven(m)'
    BY <1>1, <2>1, GivenOnEnd
  <2>3. SentWereSaved(m)' /\ SavedWereRead(m)' /\ CreatedWereRead(m)'
    BY <1>1, <1>3, <2>1, CountsOnLeaving, AtRest
  <2> QED BY <2>2, <2>3 DEF CountsOf
<1>5. CASE rest # <<>>
  <2>1. Kept(h) /\ turn'[h].pc = "inbound" /\ turn'[h].queue = rest /\ rest = Tail(turn[h].queue)
    BY <1>1, <1>5, OnwardsMoves
  <2>2. ReadWereGiven(m)'
    BY <1>1, <1>2, <2>1, GivenOnTail
  <2>3. SentWereSaved(m)' /\ SavedWereRead(m)' /\ CreatedWereRead(m)'
    BY <1>1, <1>3, <2>1, CountsOnLeaving
  <2> QED BY <2>2, <2>3 DEF CountsOf
<1> QED BY <1>4, <1>5

\* An error drops the turn and what is left of the delivery.
LEMMA CountsOnRaise ==
    ASSUME Shape, NEW h \in Handlers, Raise(h), NEW m \in Messages, CountsOf(m)
    PROVE  CountsOf(m)'
<1>1. /\ turn[h].pc # "send" /\ Onwards(h, <<>>)
      /\ UNCHANGED <<agent, calls, given, inbound, outbound, newest, sent, reminders>>
  BY DEF Raise
<1>2. Kept(h) /\ turn'[h] = Resting
  BY <1>1, OnwardsMoves
<1>3. ReadWereGiven(m)'
  BY <1>1, <1>2, GivenOnEnd
<1>4. SentWereSaved(m)' /\ SavedWereRead(m)' /\ CreatedWereRead(m)'
  BY <1>1, <1>2, CountsOnLeaving, Numbers, AtRest
<1> QED BY <1>3, <1>4 DEF CountsOf

\* Every step keeps the counts in order.
LEMMA CountsStep == ASSUME Shape, Counts, [AssistantNext]_assistantVars PROVE Counts'
<1> SUFFICES ASSUME NEW m \in Messages PROVE CountsOf(m)'
  BY DEF Counts, CountsOf
<1>1. CountsOf(m)
  BY DEF Counts, CountsOf
<1>2. CASE UNCHANGED assistantVars
  BY <1>1, <1>2 DEF assistantVars, CountsOf, SentWereSaved, SavedWereRead, CreatedWereRead,
                    ReadWereGiven, On, Asked, Queued, Created, Message
<1>3. CASE Deliver
  BY <1>1, <1>3, CountsOnDelivery
<1>4. ASSUME NEW h \in Handlers,
             \/ Receive(h) \/ SaveInbound(h) \/ Agent(h) \/ Router(h)
             \/ SaveOutbound(h) \/ Send(h) \/ Raise(h)
      PROVE  CountsOf(m)'
  BY <1>1, <1>4, CountsOnReceipt, CountsOnSaveInbound, CountsOnWork, CountsOnSaveOutbound,
     CountsOnSend, CountsOnRaise
<1> QED BY <1>2, <1>3, <1>4 DEF AssistantNext

-----------------------------------------------------------------------------
(* The order of the messages of a delivery.                                *)
LEMMA BatchIs ==
    ASSUME NEW b \in Batches
    PROVE  /\ b.messages \in Seq(Messages) /\ Len(b.messages) \in Nat
           /\ DOMAIN b.messages = 1..Len(b.messages)
           /\ \A i \in DOMAIN b.messages :
                 b.messages[i] \in Messages /\ b.messages[i] \in Range(b.messages)
BY AssistantAssumption DEF AssistantAssumption, Range

\* A message that a delivery has once, it has in one place.
LEMMA SamePlace ==
    ASSUME NEW b \in Batches, Exclusive(b), NEW c \in Batches,
           NEW k \in DOMAIN b.messages, NEW l \in DOMAIN c.messages, b.messages[k] = c.messages[l]
    PROVE  c = b /\ k = l
<1> DEFINE m == b.messages[k]
           S == {i \in DOMAIN b.messages : b.messages[i] = m}
<1>1. OnlyIn(m, b) /\ m \in Range(c.messages)
  BY BatchIs DEF Exclusive
<1>2. c = b
  BY <1>1 DEF OnlyIn
<1>3. IsFiniteSet(S) /\ Cardinality(S) = 1
  <2>1. PICK n \in Nat : n = Len(b.messages) /\ DOMAIN b.messages = 1..n
    BY BatchIs
  <2>2. IsFiniteSet(1..n)
    BY FS_Interval
  <2>3. S \in SUBSET (1..n)
    BY <2>1
  <2>4. IsFiniteSet(S)
    BY <2>2, <2>3, FS_Subset
  <2> QED BY <1>1, <2>4 DEF OnlyIn
<1>4. k \in S /\ l \in S
  BY <1>2
<1> HIDE DEF S
<1>5. PICK x : S = {x}
  BY <1>3, FS_Singleton
<1> QED BY <1>2, <1>4, <1>5

\* A message of an exclusive delivery was posted by no thread.
LEMMA NotDirect ==
    ASSUME NEW b \in Batches, Exclusive(b), NEW k \in DOMAIN b.messages
    PROVE  b.messages[k] \notin Direct
BY BatchIs DEF Exclusive, OnlyIn

\* The rest of a delivery is headed by the message of its place.
LEMMA RestAt ==
    ASSUME NEW b \in Batches, NEW k \in DOMAIN b.messages,
           NEW q, q = SubSeq(b.messages, k, Len(b.messages))
    PROVE  q # <<>> /\ Head(q) = b.messages[k]
<1>1. PICK s : s = b.messages
  OBVIOUS
<1>2. s \in Seq(Messages) /\ k \in DOMAIN s /\ q = SubSeq(s, k, Len(s))
  BY <1>1, BatchIs
<1>3. \A S : \A t \in Seq(S) : \A l \in DOMAIN t : \A p :
         p = SubSeq(t, l, Len(t)) => p # <<>> /\ Head(p) = t[l]
  BY RestOf
<1>4. q # <<>> /\ Head(q) = s[k]
  BY <1>2, <1>3, Zenon
<1> QED BY <1>1, <1>4

\* What holds of a delivery under way that one of b's messages heads.
LEMMA PlaceIs ==
    ASSUME NEW b \in Batches, Exclusive(b), NEW k \in DOMAIN b.messages, At(b, k)
    PROVE  /\ turn[Webhook].queue # <<>> /\ Message(Webhook) = b.messages[k]
           /\ \A j \in DOMAIN b.messages : b.messages[j] = Message(Webhook) => j = k
           /\ \A l \in DOMAIN b.messages : At(b, l) => l = k
<1>1. turn[Webhook].queue # <<>> /\ Message(Webhook) = b.messages[k]
  BY RestAt DEF At, Message
<1>2. \A l \in DOMAIN b.messages : At(b, l) => b.messages[l] = b.messages[k]
  BY RestAt DEF At
<1> QED BY <1>1, <1>2, SamePlace

\* The message of a handler, when it is of an exclusive delivery.
LEMMA HeadOfExclusive ==
    ASSUME Shape, turn[Webhook].pc # "idle", NEW b \in Batches, Exclusive(b),
           NEW j \in DOMAIN b.messages, Message(Webhook) = b.messages[j]
    PROVE  At(b, j)
<1>1. PICK c \in Batches : \E k \in DOMAIN c.messages : At(c, k)
  BY WebhookIs DEF Shape, MayBe, At
<1>2. PICK k \in DOMAIN c.messages : At(c, k)
  BY <1>1
<1>3. Message(Webhook) = c.messages[k]
  BY <1>2, RestAt DEF At, Message
<1>4. b.messages[j] = c.messages[k]
  BY <1>3
<1>5. c = b /\ j = k
  BY <1>4, SamePlace
<1> QED BY <1>2, <1>5

\* What is between two messages stays, while nothing is recorded.
LEMMA InTurnStays ==
    ASSUME NEW b \in Batches, NEW i \in DOMAIN b.messages, NEW j \in DOMAIN b.messages,
           InTurn(b, i, j), Between(b, i, j)' => Between(b, i, j),
           inbound'[b.messages[j]] = inbound[b.messages[j]],
           outbound'[b.messages[i]] = outbound[b.messages[i]]
    PROVE  InTurn(b, i, j)'
<1>1. /\ inbound'[b.messages[j]] <= outbound'[b.messages[i]]
      /\ Between(b, i, j)' => inbound'[b.messages[j]] < outbound'[b.messages[i]]
  BY DEF InTurn
<1> QED BY <1>1 DEF InTurn

\* An idle webhook is between no two messages.
LEMMA NotBetweenAtRest ==
    ASSUME turn'[Webhook] = Resting, NEW b \in Batches, NEW i, NEW j
    PROVE  ~ Between(b, i, j)'
<1>1. ASSUME NEW k \in DOMAIN b.messages PROVE SubSeq(b.messages, k, Len(b.messages)) # <<>>
  BY RestAt
<1> QED BY <1>1 DEF Between, At, Resting

\* A turn that keeps its message, and comes to no place where a message of
\* the delivery is read or sent, comes between no two of them.
LEMMA WorkedBetween ==
    ASSUME NEW b \in Batches, NEW i, NEW j, turn'[Webhook].queue = turn[Webhook].queue,
           turn'[Webhook].pc \notin {"send", "inbound"}, Between(b, i, j)'
    PROVE  /\ Between(b, i, j)
           /\ \E k \in DOMAIN b.messages : At(b, k) /\ i < k /\ k < j
BY DEF Between, At

\* What a handler does on a message of no delivery in question.
LEMMA ProgressElsewhere ==
    ASSUME Shape, NEW h \in Threads, Kept(h), NEW b \in Batches, Exclusive(b),
           NEW i \in DOMAIN b.messages, NEW j \in DOMAIN b.messages, InTurn(b, i, j),
           \A m \in Messages \ Direct : inbound'[m] = inbound[m] /\ outbound'[m] = outbound[m]
    PROVE  InTurn(b, i, j)'
<1>1. turn'[Webhook] = turn[Webhook]
  BY WebhookIs DEF Kept
<1>2. b.messages[i] \in Messages \ Direct /\ b.messages[j] \in Messages \ Direct
  BY BatchIs, NotDirect
<1>3. Between(b, i, j)' => Between(b, i, j)
  BY <1>1 DEF Between, At
<1> QED BY <1>2, <1>3, InTurnStays

\* A thread is on a message that was posted to it.
LEMMA ThreadMessage ==
    ASSUME Shape, NEW h \in Threads, turn[h].pc # "idle"
    PROVE  Message(h) \in Direct
<1>1. PICK m \in Direct : turn[h].queue = <<m>>
  BY WebhookIs DEF Shape, MayBe
<1> QED BY <1>1 DEF Message

\* A delivery begins: it is before each pair of its messages.
LEMMA ProgressOnDelivery ==
    ASSUME Shape, Deliver, NEW b \in Batches, Exclusive(b),
           NEW i \in DOMAIN b.messages, NEW j \in DOMAIN b.messages, InTurn(b, i, j)
    PROVE  InTurn(b, i, j)'
<1>1. PICK c \in Batches :
         /\ Onwards(Webhook, IF Accepted(c) THEN c.messages ELSE <<>>)
         /\ UNCHANGED <<agent, inbound, outbound, newest, sent, reminders>>
  BY DEF Deliver
<1>2. ~ Between(b, i, j)'
  <2>1. CASE turn'[Webhook] = Resting
    BY <2>1, NotBetweenAtRest
  <2>2. CASE turn'[Webhook] # Resting
    <3>1. /\ turn'[Webhook].pc = "inbound" /\ 1 \in DOMAIN c.messages
          /\ turn'[Webhook].queue = SubSeq(c.messages, 1, Len(c.messages))
      BY <1>1, <2>2, Delivering
    <3>2. ASSUME NEW k \in DOMAIN b.messages, At(b, k)' PROVE k = 1
      BY <3>1, <3>2, RestAt, SamePlace DEF At
    <3>3. ~ i < 1
      BY BatchIs
    <3> QED BY <3>1, <3>2, <3>3 DEF Between
  <2> QED BY <2>1, <2>2
<1> QED BY <1>1, <1>2, InTurnStays

\* A later message is read only when it is its turn.
LEMMA ProgressOnSaveInbound ==
    ASSUME Shape, SaveInbound(Webhook), NEW b \in Batches, Exclusive(b),
           NEW i \in DOMAIN b.messages, NEW j \in DOMAIN b.messages, i < j, InTurn(b, i, j)
    PROVE  InTurn(b, i, j)'
<1>1. /\ Goes(Webhook, "inbound", "agent")
      /\ inbound' = [inbound EXCEPT ![Message(Webhook)] = @ + 1] /\ UNCHANGED outbound
  BY DEF SaveInbound
<1>2. /\ turn[Webhook].pc = "inbound" /\ turn'[Webhook].pc = "agent"
      /\ turn'[Webhook].queue = turn[Webhook].queue
  BY <1>1, GoesMoves, WebhookIs
<1>3. b.messages[i] \in Messages /\ b.messages[j] \in Messages
  BY BatchIs
<1>4. inbound \in [Messages -> Nat] /\ outbound \in [Messages -> Nat]
  BY DEF Shape, Tables
<1>5. CASE Message(Webhook) = b.messages[j]
  <2>1. At(b, j)
    BY <1>2, <1>5, HeadOfExclusive
  <2>2. Between(b, i, j)
    BY <1>2, <2>1 DEF Between
  <2>3. inbound'[b.messages[j]] <= outbound'[b.messages[i]]
    BY <1>1, <1>3, <1>4, <1>5, <2>2 DEF InTurn
  <2>4. ~ Between(b, i, j)'
    <3>1. ASSUME NEW k \in DOMAIN b.messages, At(b, k) PROVE k = j
      BY <2>1, <3>1, PlaceIs
    <3> QED BY <1>2, <3>1, BatchIs, WorkedBetween
  <2> QED BY <2>3, <2>4 DEF InTurn
<1>6. CASE Message(Webhook) # b.messages[j]
  <2>1. inbound'[b.messages[j]] = inbound[b.messages[j]]
    BY <1>1, <1>4, <1>6
  <2>2. Between(b, i, j)' => Between(b, i, j)
    BY <1>2, WorkedBetween
  <2> QED BY <1>1, <2>1, <2>2, InTurnStays
<1> QED BY <1>5, <1>6

\* A message is answered: from now on it is between it and the next.
LEMMA ProgressOnSaveOutbound ==
    ASSUME Shape, SaveOutbound(Webhook), NEW b \in Batches, Exclusive(b),
           NEW i \in DOMAIN b.messages, NEW j \in DOMAIN b.messages, i < j, InTurn(b, i, j)
    PROVE  InTurn(b, i, j)'
<1>1. /\ turn[Webhook].pc = "outbound"
      /\ outbound' = [outbound EXCEPT ![Message(Webhook)] = @ + 1] /\ UNCHANGED inbound
  BY DEF SaveOutbound
<1>2. turn'[Webhook].pc = "send" /\ turn'[Webhook].queue = turn[Webhook].queue
  BY Saved, WebhookIs
<1>3. b.messages[i] \in Messages /\ b.messages[j] \in Messages
  BY BatchIs
<1>4. inbound \in [Messages -> Nat] /\ outbound \in [Messages -> Nat]
  BY DEF Shape, Tables
<1>5. outbound'[b.messages[i]] = outbound[b.messages[i]]
                                    + (IF Message(Webhook) = b.messages[i] THEN 1 ELSE 0)
  BY <1>1, <1>3, <1>4
<1>6. inbound'[b.messages[j]] <= outbound'[b.messages[i]]
  BY <1>1, <1>3, <1>4, <1>5 DEF InTurn
<1>7. ASSUME Between(b, i, j)' PROVE inbound'[b.messages[j]] < outbound'[b.messages[i]]
  <2>1. PICK k \in DOMAIN b.messages : At(b, k) /\ (i < k \/ i = k) /\ k < j
    BY <1>2, <1>7 DEF Between, At
  <2>2. CASE i < k
    <3>1. Between(b, i, j)
      BY <2>1, <2>2 DEF Between
    <3> QED BY <1>1, <1>3, <1>4, <1>5, <3>1 DEF InTurn
  <2>3. CASE i = k
    <3>1. Message(Webhook) = b.messages[i]
      BY <2>1, <2>3, PlaceIs
    <3> QED BY <1>1, <1>3, <1>4, <1>5, <3>1 DEF InTurn
  <2> QED BY <2>1, <2>2, <2>3
<1> QED BY <1>6, <1>7 DEF InTurn

\* The next message comes: still between the ones ahead of it and itself.
LEMMA ProgressOnSend ==
    ASSUME Shape, Send(Webhook), NEW b \in Batches, Exclusive(b),
           NEW i \in DOMAIN b.messages, NEW j \in DOMAIN b.messages, InTurn(b, i, j)
    PROVE  InTurn(b, i, j)'
<1>1. PICK raises \in BOOLEAN :
         /\ turn[Webhook].pc = "send"
         /\ Onwards(Webhook, IF raises THEN <<>> ELSE Tail(turn[Webhook].queue))
         /\ UNCHANGED <<inbound, outbound>>
  BY DEF Send
<1>2. CASE turn'[Webhook] = Resting
  BY <1>1, <1>2, NotBetweenAtRest, InTurnStays
<1>3. CASE turn'[Webhook] # Resting
  <2>1. ~ raises
    BY <1>1, <1>3, OnwardsMoves, WebhookIs
  <2>2. Onwards(Webhook, Tail(turn[Webhook].queue))
    BY <1>1, <2>1
  <2>3. PICK c \in Batches : \E k \in DOMAIN c.messages : At(c, k)
    BY <1>1, WebhookIs DEF Shape, MayBe, At
  <2>4. PICK k \in DOMAIN c.messages : At(c, k)
    BY <2>3
  <2>5. /\ turn'[Webhook].pc = "inbound" /\ k + 1 \in DOMAIN c.messages
        /\ turn'[Webhook].queue = SubSeq(c.messages, k + 1, Len(c.messages))
    BY <1>1, <1>3, <2>2, <2>4, TailMayBe
  <2>6. ASSUME NEW l \in DOMAIN b.messages, At(b, l)' PROVE c = b /\ l = k + 1
    <3>1. PICK n \in DOMAIN c.messages : n = k + 1
      BY <2>5
    <3>2. PICK q : q = turn'[Webhook].queue
      OBVIOUS
    <3>3. Head(q) = c.messages[n]
      BY <2>5, <3>1, <3>2, RestAt
    <3>4. Head(q) = b.messages[l]
      BY <2>6, <3>2, RestAt DEF At
    <3> QED BY <3>1, <3>3, <3>4, SamePlace
  <2>7. ASSUME Between(b, i, j)' PROVE Between(b, i, j)
    <3>1. PICK l \in DOMAIN b.messages : At(b, l)' /\ i < l /\ (l < j \/ l = j)
      BY <2>5, <2>7 DEF Between
    <3>2. c = b /\ l = k + 1
      BY <2>6, <3>1
    <3>3. k \in DOMAIN b.messages /\ At(b, k) /\ (i < k \/ i = k) /\ k < j
      BY <2>4, <3>1, <3>2, BatchIs
    <3> QED BY <1>1, <3>3 DEF Between
  <2> QED BY <1>1, <2>7, InTurnStays
<1> QED BY <1>2, <1>3

\* A later message of a delivery is read less often than the ones ahead of
\* it are answered, until it is its turn.
LEMMA ProgressStep == ASSUME Shape, Progress, [AssistantNext]_assistantVars PROVE Progress'
<1> SUFFICES ASSUME NEW b \in Batches, Exclusive(b), NEW i \in DOMAIN b.messages,
                    NEW j \in DOMAIN b.messages, i < j
             PROVE  InTurn(b, i, j)'
  BY DEF Progress, Exclusive, OnlyIn
<1>1. InTurn(b, i, j)
  BY DEF Progress
<1>2. CASE UNCHANGED assistantVars
  BY <1>1, <1>2 DEF assistantVars, InTurn, Between, At
<1>3. CASE Deliver
  BY <1>1, <1>3, ProgressOnDelivery
<1>4. ASSUME NEW h \in Handlers, Receive(h) PROVE InTurn(b, i, j)'
  <2>1. PICK m \in Direct : /\ h \in Threads /\ Onwards(h, <<m>>)
                            /\ UNCHANGED <<inbound, outbound>>
    BY <1>4 DEF Receive
  <2>2. Kept(h)
    BY <2>1, Receiving
  <2> QED BY <1>1, <2>1, <2>2, ProgressElsewhere
<1>5. ASSUME NEW h \in Handlers, SaveInbound(h) PROVE InTurn(b, i, j)'
  <2>1. CASE h \in Threads
    <3>1. Kept(h) /\ turn[h].pc = "inbound"
      BY <1>5, GoesMoves DEF SaveInbound
    <3>2. inbound' = [inbound EXCEPT ![Message(h)] = @ + 1] /\ UNCHANGED outbound
      BY <1>5 DEF SaveInbound
    <3>3. Message(h) \in Direct
      BY <2>1, <3>1, ThreadMessage
    <3>4. \A m \in Messages \ Direct : inbound'[m] = inbound[m] /\ outbound'[m] = outbound[m]
      BY <3>2, <3>3 DEF Shape, Tables
    <3> QED BY <1>1, <2>1, <3>1, <3>4, ProgressElsewhere
  <2> QED BY <1>1, <1>5, <2>1, ProgressOnSaveInbound DEF Handlers
<1>6. ASSUME NEW h \in Handlers, Agent(h) \/ Router(h) PROVE InTurn(b, i, j)'
  <2>1. Works(h)
    BY <1>6, AtWork
  <2>2. CASE h \in Threads
    BY <1>1, <2>1, <2>2, ProgressElsewhere DEF Works
  <2>3. CASE h = Webhook
    <3>1. turn'[Webhook].queue = turn[Webhook].queue /\ turn'[Webhook].pc \notin {"send", "inbound"}
          /\ UNCHANGED <<inbound, outbound>>
      BY <2>1, <2>3 DEF Works, Working
    <3> QED BY <1>1, <3>1, WorkedBetween, InTurnStays
  <2> QED BY <2>2, <2>3 DEF Handlers
<1>7. ASSUME NEW h \in Handlers, SaveOutbound(h) PROVE InTurn(b, i, j)'
  <2>1. CASE h \in Threads
    <3>1. Kept(h)
      BY <1>7, Saved
    <3>2. /\ outbound' = [outbound EXCEPT ![Message(h)] = @ + 1] /\ UNCHANGED inbound
          /\ turn[h].pc = "outbound"
      BY <1>7 DEF SaveOutbound
    <3>3. Message(h) \in Direct
      BY <2>1, <3>2, ThreadMessage
    <3>4. \A m \in Messages \ Direct : inbound'[m] = inbound[m] /\ outbound'[m] = outbound[m]
      BY <3>2, <3>3 DEF Shape, Tables
    <3> QED BY <1>1, <2>1, <3>1, <3>4, ProgressElsewhere
  <2> QED BY <1>1, <1>7, <2>1, ProgressOnSaveOutbound DEF Handlers
<1>8. ASSUME NEW h \in Handlers, Send(h) PROVE InTurn(b, i, j)'
  <2>1. h = Webhook
    BY <1>8 DEF Send, Handlers, Shape, MayBe
  <2> QED BY <1>1, <1>8, <2>1, ProgressOnSend
<1>9. ASSUME NEW h \in Handlers, Raise(h) PROVE InTurn(b, i, j)'
  <2>1. Kept(h) /\ turn'[h] = Resting /\ UNCHANGED <<inbound, outbound>>
    BY <1>9, OnwardsMoves DEF Raise
  <2>2. CASE h \in Threads
    BY <1>1, <2>1, <2>2, ProgressElsewhere
  <2>3. CASE h = Webhook
    BY <1>1, <2>1, <2>3, NotBetweenAtRest, InTurnStays
  <2> QED BY <2>2, <2>3 DEF Handlers
<1> QED BY <1>2, <1>3, <1>4, <1>5, <1>6, <1>7, <1>8, <1>9 DEF AssistantNext

-----------------------------------------------------------------------------
(* The reminders that turns complete.                                      *)
LEMMA SetInduction ==
    ASSUME NEW P, 0 \in P, \A n \in Nat : n \in P => n + 1 \in P
    PROVE  Nat \subseteq P
<1> SUFFICES ASSUME NEW n \in Nat, n \notin P PROVE FALSE
  OBVIOUS
<1> DEFINE S == {m \in 0..n : m \notin P}
           before == [m \in S |-> m - 1]
<1>1. IsFiniteSet(S) /\ n \in S
  <2>1. IsFiniteSet(0..n) /\ S \in SUBSET (0..n)
    BY FS_Interval
  <2> HIDE DEF S
  <2>2. IsFiniteSet(S)
    BY <2>1, FS_Subset
  <2> QED BY <2>2 DEF S
<1>2. IsFiniteSet(S \ {n}) /\ Cardinality(S \ {n}) < Cardinality(S)
  <2> HIDE DEF S
  <2>1. IsFiniteSet(S \ {n}) /\ Cardinality(S \ {n}) = Cardinality(S) - 1
    BY <1>1, FS_RemoveElement
  <2>2. Cardinality(S) \in Nat
    BY <1>1, FS_CardinalityType
  <2> QED BY <2>1, <2>2
<1>3. before \in [S -> S \ {n}]
  <2> SUFFICES ASSUME NEW m \in S PROVE m - 1 \in S \ {n}
    OBVIOUS
  <2>1. m \in Nat /\ m # 0 /\ m <= n /\ m \notin P
    OBVIOUS
  <2>2. m - 1 \in Nat /\ m - 1 \notin P
    BY <2>1
  <2> QED BY <2>1, <2>2
<1>4. \A m, k \in S : before[m] = before[k] => m = k
  OBVIOUS
<1> HIDE DEF S, before
<1>5. \E m, k \in S : m # k /\ before[m] = before[k]
  BY <1>1, <1>2, <1>3, FS_PigeonHole
<1> QED BY <1>4, <1>5

\* A set of natural numbers that is not empty has a least element.
LEMMA Least ==
    ASSUME NEW I \in SUBSET Nat, I # {}
    PROVE  \E i \in I : \A j \in I : i <= j
<1> SUFFICES ASSUME \A i \in I : \E j \in I : j < i PROVE FALSE
  <2>1. \A i \in I : (\E j \in I : ~ i <= j) => \E j \in I : j < i
    OBVIOUS
  <2> QED BY <2>1
<1> DEFINE P == {k \in Nat : \A i \in I : i >= k}
<1>1. 0 \in P
  OBVIOUS
<1>2. ASSUME NEW k \in Nat, k \in P PROVE k + 1 \in P
  <2>1. ASSUME NEW i \in I PROVE i >= k + 1
    <3>1. i # k
      BY <1>2
    <3> QED BY <1>2, <3>1
  <2> QED BY <2>1
<1> HIDE DEF P
<1>3. Nat \subseteq P
  BY <1>1, <1>2, SetInduction
<1>4. PICK i \in I : TRUE
  OBVIOUS
<1>5. i + 1 \in P
  BY <1>3
<1> QED BY <1>5 DEF P

LEMMA MinIn == ASSUME NEW I \in SUBSET Nat, I # {} PROVE Min(I) \in I
<1>1. PICK k \in I : \A i \in I : k <= i
  BY Least
<1> QED BY <1>1 DEF Min

\* No step takes a reminder from its business.
LEMMA OwnedStill ==
    ASSUME Shape, NEW h \in Handlers, Agent(h) \/ Router(h), NEW m, NEW i, OwnReminder(m, i)
    PROVE  OwnReminder(m, i)'
<1>1. reminders \in Seq(Range(reminders)) /\ DOMAIN reminders = 1 .. Len(reminders)
  BY DEF Shape, Tables
<1>2. CASE reminders' = reminders
  BY <1>2 DEF OwnReminder
<1>3. CASE \E e : reminders' = Append(reminders, e)
  <2>1. PICK e : reminders' = Append(reminders, e)
    BY <1>3
  <2>2. Len(reminders) \in Nat /\ DOMAIN reminders' = 1 .. Len(reminders) + 1
        /\ \A k \in 1 .. Len(reminders) : reminders'[k] = reminders[k]
    BY <1>1, <2>1, SeqGrows
  <2> QED BY <1>1, <2>2 DEF OwnReminder
<1>4. CASE reminders' = [reminders EXCEPT ![turn[h].found].status = "done"]
  <2>1. DOMAIN reminders' = DOMAIN reminders
    BY <1>1, <1>4
  <2>2. CASE i = turn[h].found
    <3>1. reminders'[i] = [reminders[i] EXCEPT !.status = "done"]
      BY <1>4, <2>1, <2>2 DEF OwnReminder
    <3>2. PICK old, new : old = reminders[i] /\ new = [old EXCEPT !.status = "done"]
      OBVIOUS
    <3>3. new.business = old.business
      BY <3>2
    <3> QED BY <2>1, <3>1, <3>2, <3>3 DEF OwnReminder
  <2>3. CASE i # turn[h].found
    <3>1. i \in DOMAIN reminders => reminders'[i] = reminders[i]
      BY <1>4, <2>3
    <3> QED BY <2>1, <3>1 DEF OwnReminder
  <2> QED BY <2>2, <2>3
<1> QED BY <1>2, <1>3, <1>4, CreatedOnce

\* A turn that answers completed nothing, or the reminder it had found.
LEMMA AnswerOf ==
    ASSUME Shape, NEW h \in Handlers, Agent(h) \/ Router(h)
    PROVE  /\ turn'[h].pc = "complete" => OwnReminder(Message(h), turn'[h].found)
           /\ turn'[h].pc = "outbound" =>
                 \/ turn'[h].response.done = None
                 \/ turn[h].pc = "complete" /\ turn'[h].response.done = turn[h].found
<1> DEFINE Claim == /\ turn'[h].pc = "complete" => OwnReminder(Message(h), turn'[h].found)
                    /\ turn'[h].pc = "outbound" =>
                          \/ turn'[h].response.done = None
                          \/ turn[h].pc = "complete" /\ turn'[h].response.done = turn[h].found
<1>1. ASSUME NEW r, Respond(h, r), r.done = None PROVE Claim
  BY <1>1, RespondMoves
<1>2. ASSUME NEW reason, FallBack(h, reason) PROVE Claim
  BY <1>2, FallBackMoves
<1>3. CASE NoAgent(h) \/ PlanRefused(h) \/ StepRaises(h)
  BY <1>2, <1>3 DEF NoAgent, PlanRefused, StepRaises
<1>4. CASE PlanTaken(h)
  <2>1. PICK plan :
          \/ turn' = [turn EXCEPT ![h] = [@ EXCEPT !.pc = "steps", !.plan = plan]]
          \/ Respond(h, [Silent EXCEPT !.by = "agent", !.plan = plan,
                                       !.asks = PlanOf(plan).mode = "ask_clarification"])
    BY <1>4 DEF PlanTaken
  <2>2. CASE turn' = [turn EXCEPT ![h] = [@ EXCEPT !.pc = "steps", !.plan = plan]]
    BY <2>2, PlanMoves
  <2>3. PICK r : r = [Silent EXCEPT !.by = "agent", !.plan = plan,
                                    !.asks = PlanOf(plan).mode = "ask_clarification"]
    OBVIOUS
  <2>4. r.done = None
    BY <2>3 DEF Silent
  <2> QED BY <1>1, <2>1, <2>2, <2>3, <2>4
<1>5. CASE Step(h)
  <2>1. PICK ran : GoOn(h, ran) /\ turn[h].pc = "steps"
    BY <1>5 DEF Step
  <2>2. CASE turn' = [turn EXCEPT ![h].ran = ran]
    BY <2>1, <2>2, RanMoves
  <2>3. PICK r : r = [Silent EXCEPT !.by = "agent", !.plan = turn[h].plan, !.ran = ran,
                                    !.asks = Last(ran).asks, !.shows = Last(ran).shows]
    OBVIOUS
  <2>4. r.done = None
    BY <2>3 DEF Silent
  <2> QED BY <1>1, <2>1, <2>2, <2>3, <2>4 DEF GoOn
<1>6. CASE Routed(h)
  <2>1. PICK intent :
           IF intent.asks
           THEN Respond(h, [Silent EXCEPT !.by = intent.by, !.asks = TRUE])
           ELSE turn' = [turn EXCEPT ![h] = [@ EXCEPT !.pc = "act", !.intent = intent]]
    BY <1>6 DEF Routed
  <2>2. CASE turn' = [turn EXCEPT ![h] = [@ EXCEPT !.pc = "act", !.intent = intent]]
    BY <2>2, IntentMoves
  <2>3. PICK r : r = [Silent EXCEPT !.by = intent.by, !.asks = TRUE]
    OBVIOUS
  <2>4. r.done = None
    BY <2>3 DEF Silent
  <2> QED BY <1>1, <2>1, <2>2, <2>3, <2>4
<1>7. CASE CreateReminder(h)
  <2>1. PICK r : r = [Silent EXCEPT !.by = turn[h].intent.by,
                                    !.asks = turn[h].intent.entities.title = None]
    OBVIOUS
  <2>2. r.done = None
    BY <2>1 DEF Silent
  <2> QED BY <1>1, <1>7, <2>1, <2>2 DEF CreateReminder
<1>8. CASE FindReminder(h)
  <2> DEFINE wanted == Wanted(turn[h].intent.entities, BusinessOf(Message(h)))
  <2>1. CASE wanted = {}
    <3>1. PICK r : r = [Silent EXCEPT !.by = turn[h].intent.by]
      OBVIOUS
    <3>2. r.done = None
      BY <3>1 DEF Silent
    <3> QED BY <1>1, <1>8, <2>1, <3>1, <3>2 DEF FindReminder
  <2>2. CASE wanted # {}
    <3>1. /\ turn' = [turn EXCEPT ![h] = [@ EXCEPT !.pc = "complete", !.found = Min(wanted)]]
          /\ UNCHANGED reminders
      BY <1>8, <2>2 DEF FindReminder
    <3>2. wanted \in SUBSET Nat
      BY DEF Wanted, Shape, Tables
    <3>3. Min(wanted) \in wanted
      <4> HIDE DEF wanted
      <4> QED BY <2>2, <3>2, MinIn
    <3>4. OwnReminder(Message(h), Min(wanted))
      BY <3>3 DEF Wanted, Pending, OwnReminder
    <3> HIDE DEF wanted
    <3>5. turn'[h].pc = "complete" /\ turn'[h].found = Min(wanted)
      BY <3>1, FoundMoves
    <3> QED BY <3>4, <3>5
  <2> QED BY <2>1, <2>2
<1>9. CASE CompleteReminder(h)
  <2>1. PICK r : r = [Silent EXCEPT !.by = turn[h].intent.by, !.done = turn[h].found]
    OBVIOUS
  <2>2. r.done = turn[h].found
    BY <2>1 DEF Silent
  <2>3. turn[h].pc = "complete" /\ Respond(h, r)
    BY <1>9, <2>1 DEF CompleteReminder
  <2> QED BY <2>2, <2>3, RespondMoves
<1>10. CASE Tell(h)
  <2>1. PICK r : r = [Silent EXCEPT !.by = turn[h].intent.by]
    OBVIOUS
  <2>2. r.done = None
    BY <2>1 DEF Silent
  <2> QED BY <1>1, <1>10, <2>1, <2>2 DEF Tell
<1>11. CASE QueryTool(h)
  <2>1. PICK tool, result : Answered(h, tool, result)
    BY <1>11 DEF QueryTool
  <2>2. PICK r : r = [Silent EXCEPT !.by = turn[h].intent.by, !.tool = tool,
                                    !.asks = result.asks, !.shows = result.shows]
    OBVIOUS
  <2>3. r.done = None
    BY <2>2 DEF Silent
  <2> QED BY <1>1, <2>1, <2>2, <2>3 DEF Answered
<1> QED BY <1>3, <1>4, <1>5, <1>6, <1>7, <1>8, <1>9, <1>10, <1>11 DEF Agent, Router

CompletesOwn(h) ==
    /\ turn[h].pc = "complete" => OwnReminder(Message(h), turn[h].found)
    /\ turn[h].pc = "outbound" /\ turn[h].response.done # None
          => OwnReminder(Message(h), turn[h].response.done)

\* A step of one handler leaves what the others complete.
LEMMA CompletesApart ==
    ASSUME Completions, NEW h \in Handlers, Kept(h),
           \A m : \A i : OwnReminder(m, i) => OwnReminder(m, i)',
           CompletesOwn(h)',
           \/ UNCHANGED newest
           \/ newest' # None /\ newest'.reply.done # None
                 => OwnReminder(newest'.message, newest'.reply.done)
    PROVE  Completions'
<1>1. \A g \in Handlers : CompletesOwn(g)'
  <2> SUFFICES ASSUME NEW g \in Handlers, g # h PROVE CompletesOwn(g)'
    OBVIOUS
  <2>1. turn'[g] = turn[g] /\ Message(g)' = Message(g)
    BY DEF Kept, Message
  <2>2. CompletesOwn(g)
    BY DEF Completions, CompletesOwn
  <2> QED BY <2>1, <2>2 DEF CompletesOwn
<1>2. (newest # None /\ newest.reply.done # None => OwnReminder(newest.message, newest.reply.done))'
  BY DEF Completions, OwnReminder
<1> QED BY <1>1, <1>2 DEF Completions, CompletesOwn

\* Every step keeps to the reminders of the business of the message.
LEMMA CompletionsStep ==
    ASSUME Shape, Completions, [AssistantNext]_assistantVars PROVE Completions'
<1>1. CASE UNCHANGED assistantVars
  BY <1>1 DEF assistantVars, Completions, OwnReminder, Message
<1>2. ASSUME NEW h \in Handlers, Kept(h), turn'[h].pc \notin {"complete", "outbound"},
             UNCHANGED <<newest, reminders>>
      PROVE  Completions'
  <2>1. CompletesOwn(h)' /\ \A m : \A i : OwnReminder(m, i) => OwnReminder(m, i)'
    BY <1>2 DEF CompletesOwn, OwnReminder
  <2> QED BY <1>2, <2>1, CompletesApart
<1>3. CASE Deliver
  <2>1. PICK b \in Batches :
           /\ Onwards(Webhook, IF Accepted(b) THEN b.messages ELSE <<>>)
           /\ UNCHANGED <<agent, inbound, outbound, newest, sent, reminders>>
    BY <1>3 DEF Deliver
  <2>2. Kept(Webhook) /\ turn'[Webhook].pc \in {"idle", "inbound"}
    BY <2>1, Delivering, AtRest, WebhookIs
  <2> QED BY <1>2, <2>1, <2>2, WebhookIs
<1>4. ASSUME NEW h \in Handlers, Receive(h) PROVE Completions'
  <2>1. PICK m \in Direct : /\ h \in Threads /\ Onwards(h, <<m>>)
                            /\ UNCHANGED <<newest, reminders>>
    BY <1>4 DEF Receive
  <2> QED BY <1>2, <2>1, Receiving
<1>5. ASSUME NEW h \in Handlers, SaveInbound(h) PROVE Completions'
  BY <1>2, <1>5, GoesMoves DEF SaveInbound
<1>6. ASSUME NEW h \in Handlers, Agent(h) \/ Router(h) PROVE Completions'
  <2>1. Works(h)
    BY <1>6, AtWork
  <2>2. Kept(h) /\ Message(h)' = Message(h) /\ UNCHANGED newest
    BY <2>1 DEF Works, Message
  <2>3. turn[h].pc = "complete" => OwnReminder(Message(h), turn[h].found)
    BY DEF Completions
  <2>4. \A m : \A i : OwnReminder(m, i) => OwnReminder(m, i)'
    BY <1>6, OwnedStill
  <2>5. CompletesOwn(h)'
    BY <1>6, <2>2, <2>3, <2>4, AnswerOf DEF CompletesOwn
  <2> QED BY <2>2, <2>4, <2>5, CompletesApart
<1>7. ASSUME NEW h \in Handlers, SaveOutbound(h) PROVE Completions'
  <2>1. /\ turn[h].pc = "outbound" /\ UNCHANGED reminders
        /\ newest' = [message |-> Message(h), reason |-> turn[h].reason, reply |-> turn[h].response]
    BY <1>7 DEF SaveOutbound
  <2>2. newest'.reply = turn[h].response /\ newest'.message = Message(h)
    BY <2>1
  <2>3. Kept(h) /\ turn'[h].pc \in {"idle", "send"}
    BY <1>7, Saved, AtRest
  <2>4. CompletesOwn(h)' /\ \A m : \A i : OwnReminder(m, i) => OwnReminder(m, i)'
    BY <2>1, <2>3 DEF CompletesOwn, OwnReminder
  <2>5. newest'.reply.done # None => OwnReminder(newest'.message, newest'.reply.done)
    BY <2>1, <2>2 DEF Completions
  <2> QED BY <2>3, <2>4, <2>5, CompletesApart
<1>8. ASSUME NEW h \in Handlers, Send(h) PROVE Completions'
  <2>1. PICK queue : Onwards(h, queue) /\ UNCHANGED <<newest, reminders>>
    BY <1>8 DEF Send
  <2> QED BY <1>2, <2>1, OnwardsMoves, AtRest
<1>9. ASSUME NEW h \in Handlers, Raise(h) PROVE Completions'
  <2>1. Onwards(h, <<>>) /\ UNCHANGED <<newest, reminders>>
    BY <1>9 DEF Raise
  <2> QED BY <1>2, <2>1, OnwardsMoves, AtRest
<1> QED BY <1>1, <1>3, <1>4, <1>5, <1>6, <1>7, <1>8, <1>9 DEF AssistantNext

-----------------------------------------------------------------------------
(* What the router makes of a text.                                        *)
Ranked(text, entities, intent) ==
    /\ intent.by = "rules"
    /\ (/\ ~ intent.asks /\ intent.intent \in {"query_tool", "query_sales_top_products"}
        /\ intent.tool \in {None, "sales.top_products"})
          => intent.entities = entities

\* A query of the common ones is for another tool, or asks.
LEMMA CommonIs ==
    ASSUME NEW text, NEW entities, NEW common, common = Intents!CommonQuery(text, entities),
           common # None
    PROVE  Ranked(text, entities, common)
<1>1. ASSUME NEW tool \in {"inventory.stock_status", "catalog.search_products", "sales.summary",
                           "sales.compare_periods", "sales.product_history"},
             NEW subject, NEW query, query = Intents!Query(tool, subject)
      PROVE  Ranked(text, entities, query)
  <2>1. query.by = "rules" /\ query.tool = tool
    BY <1>1 DEF Intents!Query, Intents!Intent
  <2> QED BY <2>1, AssistantAssumption DEF AssistantAssumption, Ranked
<1>2. ASSUME NEW query, query = Intents!Asking("query_tool") PROVE Ranked(text, entities, query)
  <2>1. query.by = "rules" /\ query.asks = TRUE
    BY <1>2 DEF Intents!Asking, Intents!Intent
  <2> QED BY <2>1 DEF Ranked
<1>3. \/ common = Intents!Asking("query_tool")
      \/ \E tool \in {"inventory.stock_status", "catalog.search_products", "sales.summary",
                      "sales.compare_periods", "sales.product_history"} :
            \E subject : common = Intents!Query(tool, subject)
  BY Zenon DEF Intents!CommonQuery
<1> QED BY <1>1, <1>2, <1>3

\* An intent of the rules is its entities or one of the other tools.
LEMMA IntentIs ==
    ASSUME NEW text, NEW entities, NEW name, NEW subject, NEW intent,
           intent = Intents!Intent(name, subject),
           \/ name \notin {"query_tool", "query_sales_top_products"}
           \/ subject = entities
    PROVE  Ranked(text, entities, intent)
<1>1. intent.by = "rules" /\ intent.intent = name /\ intent.entities = subject
  BY DEF Intents!Intent
<1> QED BY <1>1 DEF Ranked

\* The first rule that applies is one of the nine.
LEMMA RulesRank ==
    ASSUME NEW text, NEW at, NEW entities, NEW intent,
           intent = Intents!RouteWith(text, at, entities)
    PROVE  Ranked(text, entities, intent)
<1>1. PICK common : common = Intents!CommonQuery(text, entities)
  OBVIOUS
<1>2. PICK rules : rules = Intents!Rules(text, at, entities, common)
  OBVIOUS
<1>3. DOMAIN rules = 1..9 /\ rules[9].if = TRUE
  BY <1>2 DEF Intents!Rules
<1>4. PICK i : i = Min({k \in DOMAIN rules : rules[k].if})
  OBVIOUS
<1>5. i \in 1..9 /\ rules[i].if
  <2> DEFINE I == {k \in DOMAIN rules : rules[k].if}
  <2>1. I \in SUBSET Nat /\ I # {}
    BY <1>3
  <2> HIDE DEF I
  <2>2. i \in I
    BY <1>4, <2>1, MinIn DEF I
  <2> QED BY <1>3, <2>2 DEF I
<1>6. intent = rules[i].then
  BY <1>1, <1>2, <1>4 DEF Intents!RouteWith, Intents!FirstOf, Intents!Min, Min
<1>7. CASE i = 5
  <2>1. common # None /\ intent = common
    BY <1>2, <1>5, <1>6, <1>7 DEF Intents!Rules
  <2> QED BY <1>1, <2>1, CommonIs
<1>8. CASE i = 6
  <2>1. intent = Intents!Intent("query_sales_top_products", entities)
    BY <1>2, <1>6, <1>8 DEF Intents!Rules
  <2> QED BY <2>1, IntentIs
<1>9. CASE i \in {1, 2, 3, 4, 7, 8, 9}
  <2>1. \E subject : \E name \in {"list_reminders", "get_daily_summary", "list_operational_alerts",
                                "get_operations_dashboard", "mark_reminder_done",
                                "create_reminder", "unknown"} :
           intent = Intents!Intent(name, subject)
    BY <1>2, <1>6, <1>9 DEF Intents!Rules
  <2> QED BY <2>1, IntentIs
<1> QED BY <1>5, <1>7, <1>8, <1>9

\* What the model does not decide, the rules do, with the query of the text.
LEMMA RouteIs ==
    ASSUME NEW text, NEW extraction, NEW intent,
           intent = Intents!LLMRoute(text, extraction, Now)
    PROVE  \/ intent.by = "model"
           \/ Ranked(text, Intents!Entities(text, Today), intent)
<1>1. CASE intent = Intents!Route(text, Now)
  BY <1>1, RulesRank DEF Intents!Route, Today
<1>2. CASE intent # Intents!Route(text, Now)
  <2>1. PICK e : e = Intents!Extracted(extraction, Intents!DueAt(text, Now))
    OBVIOUS
  <2>2. intent = [e EXCEPT !.by = "model"]
    BY <1>2, <2>1 DEF Intents!LLMRoute
  <2>3. extraction.intent \in Intents!Understood
    BY <1>2 DEF Intents!LLMRoute
  <2>4. "by" \in DOMAIN e
    BY <2>1, <2>3 DEF Intents!Extracted, Intents!FromExtraction, Intents!Asking, Intents!Intent,
                      Intents!Understood
  <2> QED BY <2>2, <2>4
<1> QED BY <1>1, <1>2

-----------------------------------------------------------------------------
(* The plans that are followed, and what their replies stand for.          *)
PlanKept(h) ==
    /\ turn[h].pc \in {"inbound", "agent"} => turn[h].reason = None /\ turn[h].ran = <<>>
    /\ turn[h].pc = "steps" => Following(turn[h])
    /\ turn[h].pc \in {"route", "act", "complete"} => ((turn[h].reason = None) <=> ~ agent)
    /\ turn[h].pc \in {"act", "complete"} => turn[h].intent.by \in {"rules", "model"}
    /\ turn[h].pc = "outbound" => WholePlan(turn[h].reason, turn[h].response)

\* A step of one handler leaves the plans of the others.
LEMMA PlanApart ==
    ASSUME Plansound, NEW h \in Handlers, Kept(h), PlanKept(h)', UNCHANGED agent,
           newest' = newest \/ WholePlan(newest'.reason, newest'.reply)
    PROVE  Plansound'
<1>1. \A g \in Handlers : PlanKept(g)'
  <2> SUFFICES ASSUME NEW g \in Handlers, g # h PROVE PlanKept(g)'
    OBVIOUS
  <2>1. turn'[g] = turn[g] /\ PlanKept(g)
    BY DEF Kept, Plansound, PlanKept
  <2> QED BY <2>1 DEF PlanKept, WholePlan, Following
<1>2. (newest # None => WholePlan(newest.reason, newest.reply))'
  BY DEF Plansound, WholePlan
<1> QED BY <1>1, <1>2 DEF Plansound, PlanKept

\* A reply that is not the agent's says why.
LEMMA NotTheAgents ==
    ASSUME Shape, NEW h \in Handlers, NEW r, Respond(h, r), UNCHANGED agent,
           r.by \in {"rules", "model"}, (turn[h].reason = None) <=> ~ agent
    PROVE  PlanKept(h)'
<1>1. turn'[h].pc = "outbound" /\ turn'[h].reason = turn[h].reason /\ turn'[h].response = r
  BY RespondMoves
<1> QED BY <1>1 DEF PlanKept, WholePlan

\* Falling back says why.
LEMMA PlanOnFallBack ==
    ASSUME Shape, NEW h \in Handlers, NEW reason, FallBack(h, reason), UNCHANGED agent,
           (reason = None) <=> ~ agent
    PROVE  PlanKept(h)'
BY FallBackMoves DEF PlanKept

\* A plan that is taken is sure, and not longer than the limit.
LEMMA PlanOnTaken ==
    ASSUME Shape, Plansound, NEW h \in Handlers, PlanTaken(h)
    PROVE  PlanKept(h)'
<1>1. PICK plan \in Plans :
         /\ turn[h].pc = "agent" /\ agent /\ PlanOf(plan).sure
         /\ IF PlanOf(plan).mode = "execute_plan"
            THEN /\ Len(PlanOf(plan).steps) <= MaxSteps
                 /\ turn' = [turn EXCEPT ![h] = [@ EXCEPT !.pc = "steps", !.plan = plan]]
            ELSE Respond(h, [Silent EXCEPT !.by = "agent", !.plan = plan,
                                           !.asks = PlanOf(plan).mode = "ask_clarification"])
         /\ UNCHANGED agent
  BY DEF PlanTaken
<1>2. turn[h].reason = None /\ turn[h].ran = <<>>
  BY <1>1 DEF Plansound
<1>3. CASE PlanOf(plan).mode = "execute_plan"
  <2>1. /\ turn'[h].pc = "steps" /\ turn'[h].plan = plan /\ turn'[h].reason = None
        /\ turn'[h].ran = <<>>
    BY <1>1, <1>2, <1>3, PlanMoves
  <2>2. Len(PlanOf(plan).steps) \in Nat \ {0}
    BY <1>3, AssistantAssumption DEF AssistantAssumption
  <2>3. <<>> \in Seq(Range(<<>>)) /\ Len(<<>>) = 0 /\ DOMAIN <<>> = {}
    OBVIOUS
  <2>4. Following(turn[h])'
    BY <1>1, <1>3, <2>1, <2>2, <2>3 DEF Following
  <2> QED BY <2>1, <2>4 DEF PlanKept
<1>4. CASE PlanOf(plan).mode # "execute_plan"
  <2>1. PICK r : r = [Silent EXCEPT !.by = "agent", !.plan = plan,
                                    !.asks = PlanOf(plan).mode = "ask_clarification"]
    OBVIOUS
  <2>2. r.by = "agent" /\ r.plan = plan
    BY <2>1 DEF Silent
  <2>3. turn'[h].pc = "outbound" /\ turn'[h].reason = None /\ turn'[h].response = r
    BY <1>1, <1>2, <1>4, <2>1, RespondMoves
  <2> QED BY <1>1, <1>4, <2>2, <2>3 DEF PlanKept, WholePlan
<1> QED BY <1>3, <1>4

LEMMA LastOfAppend ==
    ASSUME NEW s, s \in Seq(Range(s)), NEW e PROVE Last(Append(s, e)) = e
BY SeqGrows DEF Last

\* A step of the plan: it goes on, ends the plan or asks.
LEMMA PlanOnStep ==
    ASSUME Shape, Plansound, NEW h \in Handlers, Step(h)
    PROVE  PlanKept(h)'
<1>1. PICK e : /\ turn[h].pc = "steps" /\ GoOn(h, Append(turn[h].ran, e)) /\ UNCHANGED agent
  BY DEF Step
<1> DEFINE plan == PlanOf(turn[h].plan)
<1>2. Following(turn[h])
  BY <1>1 DEF Plansound
<1>3. PICK ran, old : old = turn[h].ran /\ ran = Append(old, e)
  OBVIOUS
<1>4. /\ old \in Seq(Range(old)) /\ Len(old) \in Nat /\ Len(old) < Len(plan.steps)
      /\ \A k \in 1 .. Len(old) : ~ old[k].asks
  BY <1>2, <1>3 DEF Following
<1>5. /\ ran \in Seq(Range(ran)) /\ Len(ran) = Len(old) + 1 /\ DOMAIN ran = 1 .. Len(old) + 1
      /\ (\A i \in 1 .. Len(old) : ran[i] = old[i]) /\ ran[Len(old) + 1] = e /\ Last(ran) = e
  BY <1>3, <1>4, SeqGrows, LastOfAppend
<1>6. Len(plan.steps) \in Nat /\ Len(plan.steps) <= MaxSteps /\ MaxSteps \in Nat
  BY <1>2, AssistantAssumption DEF AssistantAssumption, Following
<1> DEFINE ends == e.asks \/ Len(ran) = Len(plan.steps)
<1>7. CASE ends
  <2>1. PICK r : r = [Silent EXCEPT !.by = "agent", !.plan = turn[h].plan, !.ran = ran,
                                    !.asks = Last(ran).asks, !.shows = Last(ran).shows]
    OBVIOUS
  <2>2. Respond(h, r)
    BY <1>1, <1>3, <1>5, <1>7, <2>1 DEF GoOn
  <2>3. r.by = "agent" /\ r.plan = turn[h].plan /\ r.ran = ran
    BY <2>1 DEF Silent
  <2>4. turn'[h].pc = "outbound" /\ turn'[h].reason = turn[h].reason /\ turn'[h].response = r
    BY <2>2, RespondMoves
  <2>5. /\ Len(ran) \in 1 .. MaxSteps /\ \A k \in 1 .. Len(ran) - 1 : ~ ran[k].asks
        /\ Last(ran).asks \/ Len(ran) = Len(plan.steps)
    BY <1>4, <1>5, <1>6, <1>7
  <2>6. turn[h].reason = None /\ plan.sure
    BY <1>2 DEF Following
  <2> QED BY <2>3, <2>4, <2>5, <2>6 DEF PlanKept, WholePlan
<1>8. CASE ~ ends
  <2>1. turn' = [turn EXCEPT ![h] = [@ EXCEPT !.ran = ran]]
    BY <1>1, <1>3, <1>5, <1>8 DEF GoOn
  <2>2. /\ turn'[h].pc = "steps" /\ turn'[h].ran = ran /\ turn'[h].reason = turn[h].reason
        /\ turn'[h].plan = turn[h].plan
    BY <1>1, <2>1, RanMoves
  <2>3. Len(ran) < Len(plan.steps) /\ \A k \in DOMAIN ran : ~ ran[k].asks
    BY <1>4, <1>5, <1>6, <1>8
  <2>4. Following(turn[h])'
    BY <1>1, <1>2, <1>5, <2>2, <2>3 DEF Following
  <2> QED BY <2>2, <2>4 DEF PlanKept
<1> QED BY <1>7, <1>8

\* The agent, step by step.
LEMMA PlanOnAgent ==
    ASSUME Shape, Plansound, NEW h \in Handlers, Agent(h) PROVE PlanKept(h)'
<1>1. None \notin {"low_confidence", "planner_or_execution_error"}
  BY AssistantAssumption DEF AssistantAssumption
<1>2. CASE NoAgent(h)
  BY <1>2, PlanOnFallBack DEF NoAgent
<1>3. CASE PlanRefused(h)
  BY <1>1, <1>3, PlanOnFallBack DEF PlanRefused
<1>4. CASE StepRaises(h)
  <2>1. agent /\ FallBack(h, "planner_or_execution_error") /\ UNCHANGED agent
    BY <1>4 DEF StepRaises, Plansound, Following
  <2> QED BY <1>1, <2>1, PlanOnFallBack
<1> QED BY <1>2, <1>3, <1>4, PlanOnTaken, PlanOnStep DEF Agent

\* The router, step by step.
LEMMA PlanOnRouter ==
    ASSUME Shape, Plansound, NEW h \in Handlers, Router(h) PROVE PlanKept(h)'
<1>1. ASSUME NEW r, Respond(h, r), r.by = turn[h].intent.by, UNCHANGED agent,
             turn[h].pc \in {"act", "complete"}
      PROVE  PlanKept(h)'
  BY <1>1, NotTheAgents DEF Plansound
<1>2. CASE Routed(h)
  <2>1. PICK extraction \in Extractions :
           LET intent == Intents!LLMRoute(TextOf(Message(h)), extraction, Now)
           IN  /\ turn[h].pc = "route"
               /\ IF intent.asks
                  THEN Respond(h, [Silent EXCEPT !.by = intent.by, !.asks = TRUE])
                  ELSE turn' = [turn EXCEPT ![h] = [@ EXCEPT !.pc = "act", !.intent = intent]]
               /\ UNCHANGED agent
    BY <1>2 DEF Routed
  <2>2. PICK intent : intent = Intents!LLMRoute(TextOf(Message(h)), extraction, Now)
    OBVIOUS
  <2>3. intent.by \in {"rules", "model"}
    BY <2>2, RouteIs DEF Ranked
  <2>4. ((turn[h].reason = None) <=> ~ agent) /\ UNCHANGED agent
    BY <2>1 DEF Plansound
  <2>5. CASE intent.asks
    <3>1. PICK r : r = [Silent EXCEPT !.by = intent.by, !.asks = TRUE]
      OBVIOUS
    <3>2. r.by = intent.by /\ Respond(h, r)
      BY <2>1, <2>2, <2>5, <3>1 DEF Silent
    <3> QED BY <2>3, <2>4, <3>2, NotTheAgents
  <2>6. CASE ~ intent.asks
    <3>1. turn' = [turn EXCEPT ![h] = [@ EXCEPT !.pc = "act", !.intent = intent]]
      BY <2>1, <2>2, <2>6
    <3>2. turn'[h].pc = "act" /\ turn'[h].intent = intent /\ turn'[h].reason = turn[h].reason
      BY <3>1, IntentMoves
    <3> QED BY <2>3, <2>4, <3>2 DEF PlanKept
  <2> QED BY <2>5, <2>6
<1>3. CASE CreateReminder(h)
  <2>1. PICK r : r = [Silent EXCEPT !.by = turn[h].intent.by,
                                    !.asks = turn[h].intent.entities.title = None]
    OBVIOUS
  <2>2. r.by = turn[h].intent.by
    BY <2>1 DEF Silent
  <2> QED BY <1>1, <1>3, <2>1, <2>2 DEF CreateReminder, Acting
<1>4. CASE FindReminder(h)
  <2>1. CASE Wanted(turn[h].intent.entities, BusinessOf(Message(h))) = {}
    <3>1. PICK r : r = [Silent EXCEPT !.by = turn[h].intent.by]
      OBVIOUS
    <3>2. r.by = turn[h].intent.by
      BY <3>1 DEF Silent
    <3> QED BY <1>1, <1>4, <2>1, <3>1, <3>2 DEF FindReminder, Acting
  <2>2. CASE Wanted(turn[h].intent.entities, BusinessOf(Message(h))) # {}
    <3>1. PICK i : turn' = [turn EXCEPT ![h] = [@ EXCEPT !.pc = "complete", !.found = i]]
      BY <1>4, <2>2 DEF FindReminder
    <3>2. /\ turn'[h].pc = "complete" /\ turn'[h].reason = turn[h].reason
          /\ turn'[h].intent = turn[h].intent
      BY <3>1, FoundMoves
    <3>3. turn[h].pc = "act" /\ UNCHANGED agent
      BY <1>4 DEF FindReminder, Acting
    <3> QED BY <3>2, <3>3 DEF PlanKept, Plansound
  <2> QED BY <2>1, <2>2
<1>5. CASE CompleteReminder(h)
  <2>1. PICK r : r = [Silent EXCEPT !.by = turn[h].intent.by, !.done = turn[h].found]
    OBVIOUS
  <2>2. r.by = turn[h].intent.by
    BY <2>1 DEF Silent
  <2> QED BY <1>1, <1>5, <2>1, <2>2 DEF CompleteReminder
<1>6. CASE Tell(h)
  <2>1. PICK r : r = [Silent EXCEPT !.by = turn[h].intent.by]
    OBVIOUS
  <2>2. r.by = turn[h].intent.by
    BY <2>1 DEF Silent
  <2> QED BY <1>1, <1>6, <2>1, <2>2 DEF Tell, Acting
<1>7. CASE QueryTool(h)
  <2>1. PICK tool, result : Answered(h, tool, result)
    BY <1>7 DEF QueryTool
  <2>2. PICK r : r = [Silent EXCEPT !.by = turn[h].intent.by, !.tool = tool,
                                    !.asks = result.asks, !.shows = result.shows]
    OBVIOUS
  <2>3. r.by = turn[h].intent.by
    BY <2>2 DEF Silent
  <2>4. turn[h].pc = "act" /\ UNCHANGED agent
    BY <1>7 DEF QueryTool, Acting
  <2> QED BY <1>1, <2>1, <2>2, <2>3, <2>4 DEF Answered
<1> QED BY <1>2, <1>3, <1>4, <1>5, <1>6, <1>7 DEF Router

\* Every step keeps the plans whole.
LEMMA PlansoundStep ==
    ASSUME Shape, Plansound, [AssistantNext]_assistantVars PROVE Plansound'
<1>1. CASE UNCHANGED assistantVars
  BY <1>1 DEF assistantVars, Plansound, WholePlan, Following
<1>2. ASSUME NEW h \in Handlers, NEW queue, Onwards(h, queue), UNCHANGED <<agent, newest>>
      PROVE  Plansound'
  <2>1. /\ Kept(h) /\ turn'[h].pc \in {"idle", "inbound"}
        /\ turn'[h].reason = None /\ turn'[h].ran = <<>>
    <3>1. Resting.reason = None /\ Resting.ran = <<>> /\ Resting.pc = "idle"
      BY DEF Resting
    <3> QED BY <1>2, <3>1, OnwardsMoves
  <2>2. PlanKept(h)'
    BY <2>1 DEF PlanKept
  <2> QED BY <1>2, <2>1, <2>2, PlanApart
<1>3. CASE Deliver
  <2>1. \E queue : Onwards(Webhook, queue) /\ UNCHANGED <<agent, newest>>
    BY <1>3 DEF Deliver
  <2> QED BY <1>2, <2>1, WebhookIs
<1>4. ASSUME NEW h \in Handlers, Receive(h) PROVE Plansound'
  <2>1. \E queue : Onwards(h, queue) /\ UNCHANGED <<agent, newest>>
    BY <1>4 DEF Receive
  <2> QED BY <1>2, <2>1
<1>5. ASSUME NEW h \in Handlers, SaveInbound(h) PROVE Plansound'
  <2>1. Goes(h, "inbound", "agent") /\ UNCHANGED <<agent, newest>>
    BY <1>5 DEF SaveInbound
  <2>2. Kept(h) /\ PlanKept(h)'
    BY <2>1, GoesMoves DEF PlanKept, Plansound
  <2> QED BY <2>1, <2>2, PlanApart
<1>6. ASSUME NEW h \in Handlers, Agent(h) \/ Router(h) PROVE Plansound'
  <2>1. Kept(h) /\ UNCHANGED <<agent, newest>>
    BY <1>6, AtWork DEF Works
  <2> QED BY <1>6, <2>1, PlanOnAgent, PlanOnRouter, PlanApart
<1>7. ASSUME NEW h \in Handlers, SaveOutbound(h) PROVE Plansound'
  <2>1. /\ turn[h].pc = "outbound" /\ UNCHANGED agent
        /\ newest' = [message |-> Message(h), reason |-> turn[h].reason, reply |-> turn[h].response]
    BY <1>7 DEF SaveOutbound
  <2>2. WholePlan(newest'.reason, newest'.reply)
    BY <2>1 DEF Plansound
  <2>3. Kept(h) /\ turn'[h].pc \in {"idle", "send"}
    BY <1>7, Saved, AtRest
  <2>4. PlanKept(h)'
    BY <2>3 DEF PlanKept
  <2> QED BY <2>1, <2>2, <2>3, <2>4, PlanApart
<1>8. ASSUME NEW h \in Handlers, Send(h) PROVE Plansound'
  <2>1. \E queue : Onwards(h, queue) /\ UNCHANGED <<agent, newest>>
    BY <1>8 DEF Send
  <2> QED BY <1>2, <2>1
<1>9. ASSUME NEW h \in Handlers, Raise(h) PROVE Plansound'
  BY <1>2, <1>9 DEF Raise
<1> QED BY <1>1, <1>3, <1>4, <1>5, <1>6, <1>7, <1>8, <1>9 DEF AssistantNext

-----------------------------------------------------------------------------
(* A sum over a finite set, taken element by element.                      *)
Picked(s) == CHOOSE x \in s : TRUE
Added(f, s, amount) == IF s = {} THEN 0 ELSE f[s \ {Picked(s)}] + amount[Picked(s)]

LEMMA PickedIs ==
    ASSUME NEW S, IsFiniteSet(S), NEW s \in SUBSET S, s # {}
    PROVE  /\ Picked(s) \in S /\ s \ {Picked(s)} \in SUBSET S /\ IsFiniteSet(s)
           /\ Cardinality(s) \in Nat
           /\ Cardinality(s \ {Picked(s)}) = Cardinality(s) - 1
<1>1. Picked(s) \in s
  BY DEF Picked
<1>2. IsFiniteSet(s)
  BY FS_Subset
<1> QED BY <1>1, <1>2, FS_RemoveElement, FS_CardinalityType

\* There is a function that is the sum of every part of a finite set.
LEMMA SumsExist ==
    ASSUME NEW S, IsFiniteSet(S), NEW amount \in [S -> Int]
    PROVE  \E f : f = [s \in SUBSET S |-> Added(f, s, amount)]
<1> DEFINE Low(k) == {s \in SUBSET S : Cardinality(s) < k}
           P == {k \in Nat : \E f \in [SUBSET S -> Int] :
                                \A s \in Low(k) : f[s] = Added(f, s, amount)}
<1>0. \A s \in SUBSET S : Cardinality(s) \in Nat /\ Cardinality(s) <= Cardinality(S)
  BY FS_Subset, FS_CardinalityType
<1>1. 0 \in P
  <2>1. [s \in SUBSET S |-> 0] \in [SUBSET S -> Int]
    OBVIOUS
  <2>2. Low(0) = {}
    BY <1>0
  <2> QED BY <2>1, <2>2
<1>2. ASSUME NEW k \in Nat, k \in P PROVE k + 1 \in P
  <2>1. PICK f \in [SUBSET S -> Int] : \A s \in Low(k) : f[s] = Added(f, s, amount)
    BY <1>2
  <2> DEFINE g == [s \in SUBSET S |-> Added(f, s, amount)]
  <2>2. ASSUME NEW s \in SUBSET S PROVE Added(f, s, amount) \in Int
    <3>1. CASE s = {}
      BY <3>1 DEF Added
    <3>2. CASE s # {}
      <4>1. Picked(s) \in S /\ s \ {Picked(s)} \in SUBSET S
        BY <3>2, PickedIs
      <4>2. f[s \ {Picked(s)}] \in Int /\ amount[Picked(s)] \in Int
        BY <4>1
      <4> QED BY <3>2, <4>2 DEF Added
    <3> QED BY <3>1, <3>2
  <2>3. g \in [SUBSET S -> Int]
    BY <2>2
  <2>4. \A s \in Low(k) : g[s] = f[s]
    BY <2>1
  <2>5. ASSUME NEW s \in Low(k + 1), s # {} PROVE s \ {Picked(s)} \in Low(k)
    <3>1. /\ s \ {Picked(s)} \in SUBSET S /\ Cardinality(s) \in Nat
          /\ Cardinality(s \ {Picked(s)}) = Cardinality(s) - 1 /\ Cardinality(s) < k + 1
      BY <2>5, PickedIs
    <3>2. Cardinality(s) - 1 < k
      BY <3>1
    <3> QED BY <3>1, <3>2
  <2>6. \A s \in Low(k + 1) : g[s] = Added(g, s, amount)
    <3> SUFFICES ASSUME NEW s \in Low(k + 1) PROVE g[s] = Added(g, s, amount)
      OBVIOUS
    <3>1. g[s] = Added(f, s, amount)
      OBVIOUS
    <3> HIDE DEF g, Low
    <3> QED BY <3>1, <2>4, <2>5 DEF Added
  <2> HIDE DEF g
  <2> QED BY <2>3, <2>6
<1> HIDE DEF P
<1>3. Cardinality(S) + 1 \in P
  BY <1>0, <1>1, <1>2, SetInduction, FS_CardinalityType
<1>4. PICK f \in [SUBSET S -> Int] : \A s \in Low(Cardinality(S) + 1) : f[s] = Added(f, s, amount)
  BY <1>3 DEF P
<1>5. \A s \in SUBSET S : s \in Low(Cardinality(S) + 1)
  <2>1. Cardinality(S) \in Nat
    BY FS_CardinalityType
  <2> QED BY <1>0, <2>1
<1>6. f = [s \in SUBSET S |-> Added(f, s, amount)]
  <2> HIDE DEF Low
  <2>1. \A s \in SUBSET S : f[s] = Added(f, s, amount)
    BY <1>4, <1>5
  <2> QED BY <2>1
<1> QED BY <1>6

\* Every such function is of integers.
LEMMA SumsInt ==
    ASSUME NEW S, IsFiniteSet(S), NEW amount \in [S -> Int],
           NEW f, f = [s \in SUBSET S |-> Added(f, s, amount)]
    PROVE  f[S] \in Int
<1> DEFINE P == {k \in Nat : \A s \in SUBSET S : Cardinality(s) = k => f[s] \in Int}
<1>0. \A s \in SUBSET S : IsFiniteSet(s) /\ f[s] = Added(f, s, amount)
  BY FS_Subset
<1>1. 0 \in P
  <2>1. ASSUME NEW s \in SUBSET S, Cardinality(s) = 0 PROVE f[s] \in Int
    <3>1. s = {}
      BY <1>0, <2>1, FS_EmptySet
    <3> QED BY <1>0, <3>1 DEF Added
  <2> QED BY <2>1
<1>2. ASSUME NEW k \in Nat, k \in P PROVE k + 1 \in P
  <2>1. ASSUME NEW s \in SUBSET S, Cardinality(s) = k + 1 PROVE f[s] \in Int
    <3>1. CASE s = {}
      BY <1>0, <3>1 DEF Added
    <3>2. CASE s # {}
      <4>1. /\ Picked(s) \in S /\ s \ {Picked(s)} \in SUBSET S
            /\ Cardinality(s \ {Picked(s)}) = k
        BY <2>1, <3>2, PickedIs
      <4>2. f[s \ {Picked(s)}] \in Int
        BY <1>2, <4>1
      <4>3. f[s] = f[s \ {Picked(s)}] + amount[Picked(s)]
        BY <1>0, <3>2 DEF Added
      <4> QED BY <4>1, <4>2, <4>3
    <3> QED BY <3>1, <3>2
  <2>2. k + 1 \in Nat
    OBVIOUS
  <2> QED BY <2>1, <2>2, Zenon
<1> HIDE DEF P
<1>3. Cardinality(S) \in P
  BY <1>1, <1>2, SetInduction, FS_CardinalityType
<1> QED BY <1>3 DEF P

\* Total is one of them.
LEMMA TotalInt ==
    ASSUME NEW lines \in SUBSET Summaries, NEW sort \in {"quantity", "revenue", "margin"}
    PROVE  Total(lines, sort) \in Int
<1> DEFINE value(l) == CASE sort = "quantity" -> l.quantity [] sort = "revenue" -> l.revenue
                         [] sort = "margin" -> l.margin
           amount == [l \in lines |-> value(l)]
           sums(f) == f = [s \in SUBSET lines |->
                              IF s = {} THEN 0
                              ELSE f[s \ {CHOOSE x \in s : TRUE}] + value(CHOOSE x \in s : TRUE)]
<1>1. IsFiniteSet(lines)
  BY ToolsAssumption, FS_Subset DEF ToolsAssumption
<1>2. amount \in [lines -> Int]
  <2>1. \A l \in lines : {l.quantity, l.revenue, l.margin} \subseteq Int
    BY ToolsAssumption DEF ToolsAssumption
  <2>2. ASSUME NEW l \in lines PROVE value(l) \in Int
    BY <2>1
  <2> HIDE DEF value
  <2> QED BY <2>2
<1>3. Total(lines, sort) = (CHOOSE f : sums(f))[lines]
  BY Zenon DEF Total, FoldSet, MapThenFoldSet
<1> HIDE DEF value
<1>4. ASSUME NEW f PROVE sums(f) <=> f = [s \in SUBSET lines |-> Added(f, s, amount)]
  <2>1. ASSUME NEW s \in SUBSET lines, s # {} PROVE value(Picked(s)) = amount[Picked(s)]
    BY <1>1, <2>1, PickedIs
  <2>2. ASSUME NEW s \in SUBSET lines
        PROVE  Added(f, s, amount) = IF s = {} THEN 0
                    ELSE f[s \ {CHOOSE x \in s : TRUE}] + value(CHOOSE x \in s : TRUE)
    BY <2>1 DEF Added, Picked
  <2>3. [s \in SUBSET lines |-> Added(f, s, amount)]
          = [s \in SUBSET lines |-> IF s = {} THEN 0
                    ELSE f[s \ {CHOOSE x \in s : TRUE}] + value(CHOOSE x \in s : TRUE)]
    BY <2>2, Zenon
  <2> QED BY <2>3
<1> HIDE DEF amount
<1>5. \E f : sums(f)
  <2>1. PICK f : f = [s \in SUBSET lines |-> Added(f, s, amount)]
    <3> DEFINE Summed(S, a) == \E f : f = [s \in SUBSET S |-> Added(f, s, a)]
    <3>1. \A S : \A a \in [S -> Int] : IsFiniteSet(S) => Summed(S, a)
      BY SumsExist
    <3>2. Summed(lines, amount)
      <4> HIDE DEF Summed
      <4> QED BY <1>1, <1>2, <3>1, Zenon
    <3> QED BY <3>2
  <2> HIDE DEF sums
  <2> QED BY <1>4, <2>1
<1> HIDE DEF sums
<1>6. PICK f : f = CHOOSE g : sums(g)
  OBVIOUS
<1>7. sums(f)
  BY <1>5, <1>6
<1> QED BY <1>1, <1>2, <1>3, <1>4, <1>6, <1>7, SumsInt

-----------------------------------------------------------------------------
(* The ranking.                                                            *)
AheadOf(S, sales, tie, p) == {q \in S : Before(sales, tie, q, p)}

\* What the order depends on: numbers sold, external ids, and of two of one
\* external id different places.
Orders(S, sales, tie) ==
    /\ IsFiniteSet(S) /\ sales \in [S -> Int] /\ \A p \in S : p.external \in Int
    /\ \A p \in S : \A q \in S \ {p} :
          p.external = q.external => tie[p] \in Int /\ tie[q] \in Int /\ tie[p] # tie[q]

\* One is not before itself, and what is before it is before those after it.
LEMMA Onward ==
    ASSUME NEW S, NEW sales, NEW tie, Orders(S, sales, tie), NEW p \in S, NEW q \in S
    PROVE  /\ ~ Before(sales, tie, p, p)
           /\ p # q => Before(sales, tie, p, q) \/ Before(sales, tie, q, p)
           /\ \A r \in S : Before(sales, tie, r, p) /\ Before(sales, tie, p, q)
                            => Before(sales, tie, r, q)
<1>1. ASSUME NEW r \in S PROVE sales[r] \in Int /\ r.external \in Int
  BY DEF Orders
<1>2. ASSUME NEW x \in S, NEW y \in S, x # y, x.external = y.external
      PROVE  tie[x] \in Int /\ tie[y] \in Int /\ tie[x] # tie[y]
  BY <1>2 DEF Orders
<1>3. sales[p] \in Int /\ sales[q] \in Int /\ p.external \in Int /\ q.external \in Int
  BY <1>1
<1>4. ~ Before(sales, tie, p, p)
  BY <1>3 DEF Before
<1>5. ASSUME p # q PROVE Before(sales, tie, p, q) \/ Before(sales, tie, q, p)
  BY <1>2, <1>3, <1>5 DEF Before
<1>6. ASSUME NEW r \in S, Before(sales, tie, r, p), Before(sales, tie, p, q)
      PROVE  Before(sales, tie, r, q)
  <2>1. sales[r] \in Int /\ r.external \in Int
    BY <1>1
  <2>2. CASE sales[r] = sales[q] /\ r.external = q.external
    <3>1. sales[r] = sales[p] /\ sales[p] = sales[q] /\ r.external = p.external
          /\ p.external = q.external
      BY <1>3, <1>6, <2>1, <2>2 DEF Before
    <3>2. r # p /\ p # q /\ tie[r] < tie[p] /\ tie[p] < tie[q]
      BY <1>3, <1>6, <3>1 DEF Before
    <3>3. tie[r] \in Int /\ tie[p] \in Int /\ tie[q] \in Int
      BY <1>2, <3>1, <3>2
    <3>4. tie[r] < tie[q] /\ r # q
      BY <3>2, <3>3
    <3> QED BY <2>2, <3>4 DEF Before
  <2>3. CASE sales[r] # sales[q] \/ r.external # q.external
    BY <1>3, <1>6, <2>1, <2>3 DEF Before
  <2> QED BY <2>2, <2>3
<1> QED BY <1>4, <1>5, <1>6

\* What is ahead of a product is fewer than what is ahead of the next.
LEMMA AheadGrows ==
    ASSUME NEW S, NEW sales, NEW tie, Orders(S, sales, tie),
           NEW p \in S, NEW q \in S, Before(sales, tie, p, q)
    PROVE  Cardinality(AheadOf(S, sales, tie, p)) < Cardinality(AheadOf(S, sales, tie, q))
<1> DEFINE A == AheadOf(S, sales, tie, p)
           B == AheadOf(S, sales, tie, q)
<1>1. A \in SUBSET B /\ p \in B /\ p \notin A
  <2>1. \A r \in S : Before(sales, tie, r, p) => Before(sales, tie, r, q)
    BY Onward
  <2>2. ~ Before(sales, tie, p, p)
    BY Onward
  <2> QED BY <2>1, <2>2 DEF AheadOf
<1>2. IsFiniteSet(A) /\ IsFiniteSet(B)
  BY FS_Subset DEF AheadOf, Orders
<1> HIDE DEF A, B
<1>3. Cardinality(A) <= Cardinality(B) /\ (Cardinality(A) = Cardinality(B) => A = B)
      /\ Cardinality(A) \in Nat /\ Cardinality(B) \in Nat
  BY <1>1, <1>2, FS_Subset, FS_CardinalityType
<1>4. Cardinality(A) < Cardinality(B)
  BY <1>1, <1>3
<1> QED BY <1>4 DEF A, B

\* Each product has a rank of its own, and each rank its product.
Ranking(S, sales, tie, order, n) ==
    /\ n \in Nat /\ order \in [1..n -> S]
    /\ \A k \in 1..n : Cardinality(AheadOf(S, sales, tie, order[k])) = k - 1
    /\ \A p \in S : \E k \in 1..n : order[k] = p
    /\ \A j, k \in 1..n : j < k => Before(sales, tie, order[j], order[k])
LEMMA OrderedIs ==
    ASSUME NEW S, NEW sales, NEW tie, Orders(S, sales, tie),
           NEW order, order = Ordered(S, sales, tie), NEW n, n = Cardinality(S)
    PROVE  Ranking(S, sales, tie, order, n)
<1> DEFINE rank == [p \in S |-> Cardinality(AheadOf(S, sales, tie, p)) + 1]
<1>1. n \in Nat /\ IsFiniteSet(S)
  BY FS_CardinalityType DEF Orders
<1>2. ASSUME NEW p \in S
      PROVE  /\ Cardinality(AheadOf(S, sales, tie, p)) \in Nat
             /\ Cardinality(AheadOf(S, sales, tie, p)) < n
  <2> DEFINE A == AheadOf(S, sales, tie, p)
  <2>1. A \in SUBSET S /\ p \notin A
    BY Onward DEF AheadOf
  <2> HIDE DEF A
  <2>2. IsFiniteSet(A) /\ Cardinality(A) <= n /\ (Cardinality(A) = n => A = S)
    BY <1>1, <2>1, FS_Subset
  <2>3. Cardinality(A) \in Nat /\ Cardinality(A) < n
    BY <1>1, <2>1, <2>2, FS_CardinalityType
  <2> QED BY <2>3 DEF A
<1>3. ASSUME NEW p \in S, NEW q \in S, rank[p] = rank[q] PROVE p = q
  <2> SUFFICES ASSUME p # q PROVE FALSE
    OBVIOUS
  <2>1. Cardinality(AheadOf(S, sales, tie, p)) = Cardinality(AheadOf(S, sales, tie, q))
    BY <1>2, <1>3
  <2>2. \/ Cardinality(AheadOf(S, sales, tie, p)) < Cardinality(AheadOf(S, sales, tie, q))
        \/ Cardinality(AheadOf(S, sales, tie, q)) < Cardinality(AheadOf(S, sales, tie, p))
    BY Onward, AheadGrows
  <2> QED BY <1>2, <2>1, <2>2
<1>4. rank \in [S -> 1..n]
  BY <1>1, <1>2
<1>5. \A p \in S : rank[p] = Cardinality(AheadOf(S, sales, tie, p)) + 1
  OBVIOUS
<1> HIDE DEF rank
<1>6. rank \in Injection(S, 1..n)
  BY <1>3, <1>4 DEF Injection, IsInjective
<1>7. rank \in Surjection(S, 1..n)
  <2>1. IsFiniteSet(1..n) /\ Cardinality(1..n) = n
    BY <1>1, FS_Interval
  <2> QED BY <1>6, <2>1, FS_Injection
<1>8. \A k \in 1..n : order[k] = CHOOSE p \in S : Cardinality(AheadOf(S, sales, tie, p)) = k - 1
  BY DEF Ordered, AheadOf
<1>9. ASSUME NEW k \in 1..n
      PROVE  order[k] \in S /\ Cardinality(AheadOf(S, sales, tie, order[k])) = k - 1
  <2>1. PICK p \in S : rank[p] = k
    BY <1>7 DEF Surjection
  <2>2. Cardinality(AheadOf(S, sales, tie, p)) = k - 1
    BY <1>1, <1>2, <1>5, <2>1
  <2> QED BY <1>8, <2>2
<1>10. order \in [1..n -> S]
  <2> DEFINE at(k) == CHOOSE p \in S : Cardinality(AheadOf(S, sales, tie, p)) = k - 1
  <2>1. order = [k \in 1..n |-> at(k)]
    BY Zenon DEF Ordered, AheadOf
  <2> HIDE DEF at
  <2> QED BY <1>9, <2>1
<1>11. ASSUME NEW p \in S PROVE \E k \in 1..n : order[k] = p
  <2>1. PICK k \in 1..n : k = rank[p]
    BY <1>4
  <2>2. rank[order[k]] = k
    <3>1. PICK q \in S : q = order[k]
      BY <1>9
    <3>2. /\ Cardinality(AheadOf(S, sales, tie, q)) = k - 1
          /\ rank[q] = Cardinality(AheadOf(S, sales, tie, q)) + 1
      BY <1>5, <1>9, <3>1
    <3>3. (k - 1) + 1 = k
      BY <1>1
    <3> QED BY <3>1, <3>2, <3>3
  <2> QED BY <1>3, <1>9, <2>1, <2>2
<1>12. ASSUME NEW j \in 1..n, NEW k \in 1..n, j < k PROVE Before(sales, tie, order[j], order[k])
  <2>1. order[j] # order[k]
    BY <1>1, <1>9, <1>12
  <2>2. ~ Before(sales, tie, order[k], order[j])
    <3>1. ~ (k - 1 < j - 1)
      BY <1>1, <1>12
    <3> QED BY <1>9, <3>1, AheadGrows
  <2> QED BY <1>9, <2>1, <2>2, Onward
<1> QED BY <1>1, <1>9, <1>10, <1>11, <1>12 DEF Ranking

-----------------------------------------------------------------------------
(* The ranks that are shown.                                               *)
LEMMA MinTwo ==
    ASSUME NEW a \in Int, NEW b \in Int PROVE Min({a, b}) = IF a <= b THEN a ELSE b
BY DEF Min

LEMMA MaxTwo ==
    ASSUME NEW a \in Int, NEW b \in Int PROVE Max({a, b}) = IF a <= b THEN b ELSE a
BY DEF Max

Fewer(a, b) == IF a <= b THEN a ELSE b
\* The first of a ranking.
LEMMA FirstIs ==
    ASSUME NEW S, NEW n \in Nat, NEW order \in [1..n -> S], NEW limit \in Nat
    PROVE  First(order, limit) \in Seq(S) /\ Len(First(order, limit)) = Fewer(limit, n)
<1>1. order \in Seq(S) /\ Len(order) = n
  OBVIOUS
<1> DEFINE l == Fewer(limit, n)
<1>2. First(order, limit) = SubSeq(order, 1, l)
  BY <1>1, MinTwo DEF First, Fewer
<1>3. l \in 0..n /\ 1 \in Int
  BY DEF Fewer
<1> HIDE DEF l
<1>4. PICK q : q = First(order, limit)
  OBVIOUS
<1>5. q \in Seq(S) /\ Len(q) = l /\ \A i \in 1..l : q[i] = order[i]
  <2>1. PICK s : s = order
    OBVIOUS
  <2>2. s \in Seq(S) /\ Len(s) = n
    BY <1>1, <2>1
  <2>3. q = SubSeq(s, 1, l)
    BY <1>2, <1>4, <2>1
  <2>4. \A i \in 1..l : s[i] \in S
    BY <1>3, <2>2
  <2>5. q \in Seq(S) /\ Len(q) = l /\ \A i \in 1..l : q[i] = s[i]
    BY <1>3, <2>2, <2>3, <2>4
  <2> QED BY <2>1, <2>5
<1> QED BY <1>4, <1>5 DEF l

\* A part of a sequence.
LEMMA PartIs ==
    ASSUME NEW S, NEW s \in Seq(S), NEW a \in Nat \ {0}, NEW c \in Nat, c <= Len(s),
           NEW q, q = SubSeq(s, a, c)
    PROVE  LET l == IF a <= c THEN c - a + 1 ELSE 0
           IN  Len(q) = l /\ DOMAIN q = 1..l /\ \A i \in 1..l : q[i] = s[a + i - 1]
<1> QED OBVIOUS

\* The ranks that a query selects: between two, after some, or the first.
SelectsBetween(query, ranks, a, b) ==
    /\ a \in 1..MaxRank /\ b \in 1..MaxRank /\ query.rankFrom = a /\ query.rankTo = b
    /\ ranks = a..b
SelectsAfter(query, ranks, s, limit) ==
    /\ s \in 1..MaxRank - 1 /\ limit \in 1..MaxRank
    /\ query.rankFrom = s + 1 /\ query.rankTo = None /\ query.limit = limit
    /\ ranks = 1 .. MaxRank \cap s + 1 .. s + limit
SelectsFirst(query, ranks, limit) ==
    /\ limit \in 1..MaxRank /\ query.rankFrom = None /\ query.rankTo = None /\ query.limit = limit
    /\ ranks = 1 .. MaxRank \cap 1 .. limit
Selects(query, ranks) ==
    \/ \E a, b : SelectsBetween(query, ranks, a, b)
    \/ \E s, limit : SelectsAfter(query, ranks, s, limit)
    \/ \E limit : SelectsFirst(query, ranks, limit)

\* The ranks that the query of a text is about.
LEMMA QueryRanks ==
    ASSUME NEW m \in Messages, NEW query, query = Intents!Entities(TextOf(m), Today)
    PROVE  /\ query.sort \in {"quantity", "revenue", "margin"} /\ query.minQuantity = None
           /\ Selects(query, AskedRanks(m))
<1> DEFINE text == TextOf(m)
           from == Nearest(text.range[1], MaxRank)
           to == Nearest(text.range[2], MaxRank)
           range == IF text.range # None /\ from <= to THEN <<from, to>> ELSE None
<1>1. /\ text.skip \in Nat \cup {None} /\ text.top \in Nat \cup {None}
      /\ text.range \in Nat \X Nat \cup {None} /\ None \notin Nat \X Nat /\ None \notin Int
      /\ MaxRank \in Nat \ {0, 1} /\ DefaultRanks \in 1 .. MaxRank
  BY AssistantAssumption, ToolsAssumption DEF AssistantAssumption, ToolsAssumption
<1>2. ASSUME NEW n \in Nat, NEW top \in {MaxRank - 1, MaxRank}
      PROVE  Intents!Clamp(n, 1, top) = Nearest(n, top) /\ Nearest(n, top) \in 1..top
  <2>1. Intents!Clamp(n, 1, top) = Max({1, Min({n, top})})
    BY DEF Intents!Clamp, Intents!Max, Intents!Min, Max, Min
  <2>2. Min({n, top}) = (IF n <= top THEN n ELSE top) /\ Min({n, top}) \in Int
    BY MinTwo
  <2>3. Max({1, Min({n, top})}) = IF 1 <= Min({n, top}) THEN Min({n, top}) ELSE 1
    BY <2>2, MaxTwo
  <2>4. top \in Nat \ {0}
    BY <1>1
  <2> QED BY <2>1, <2>2, <2>3, <2>4 DEF Nearest
<1>3. /\ text.range # None => from \in 1..MaxRank /\ to \in 1..MaxRank
      /\ Intents!RankRange(text) = range
  BY <1>1, <1>2 DEF Intents!RankRange
<1>4. /\ text.skip # None => /\ Intents!Skipped(text) = Nearest(text.skip, MaxRank - 1)
                             /\ Nearest(text.skip, MaxRank - 1) \in 1..MaxRank - 1
      /\ text.skip = None => Intents!Skipped(text) = None
  BY <1>1, <1>2 DEF Intents!Skipped
<1>5. /\ query.sort = CASE "margen" \in text.words -> "margin"
                        [] "margen" \notin text.words /\ "facturacion" \in text.words -> "revenue"
                        [] OTHER -> "quantity"
      /\ query.rankFrom = CASE range # None -> range[1]
                            [] range = None /\ Intents!Skipped(text) # None
                                 -> Intents!Skipped(text) + 1
                            [] OTHER -> None
      /\ query.rankTo = (IF range # None THEN range[2] ELSE None)
      /\ query.limit = Intents!Limit(text) /\ query.minQuantity = None
  BY <1>3 DEF Intents!Entities
<1>6. query.sort \in {"quantity", "revenue", "margin"} /\ query.minQuantity = None
  BY <1>5
<1>7. CASE text.range # None /\ from <= to
  <2>1. range = <<from, to>> /\ range # None
    BY <1>1, <1>3, <1>7
  <2>2. query.rankFrom = from /\ query.rankTo = to
    BY <1>5, <2>1
  <2>3. AskedRanks(m) = from..to
    BY <1>7 DEF AskedRanks
  <2>4. SelectsBetween(query, AskedRanks(m), from, to)
    BY <1>3, <1>7, <2>2, <2>3 DEF SelectsBetween
  <2> QED BY <1>6, <2>4 DEF Selects
<1>8. CASE ~ (text.range # None /\ from <= to)
  <2> DEFINE asked == IF text.top = None THEN DefaultRanks ELSE Nearest(text.top, MaxRank)
             skipped == IF text.skip = None THEN 0 ELSE Nearest(text.skip, MaxRank - 1)
  <2>1. range = None /\ Intents!RankRange(text) = None
    BY <1>3, <1>8
  <2>2. query.limit = asked /\ asked \in 1..MaxRank
    BY <1>1, <1>2, <1>5, <2>1 DEF Intents!Limit
  <2>3. query.rankTo = None
    BY <1>5, <2>1
  <2>4. AskedRanks(m) = 1 .. MaxRank \cap skipped + 1 .. skipped + asked
    BY <1>8 DEF AskedRanks
  <2>5. CASE text.skip = None
    <3>1. query.rankFrom = None
      BY <1>4, <1>5, <2>1, <2>5
    <3>2. PICK limit \in 1..MaxRank : query.limit = limit /\ limit = asked
      BY <2>2
    <3>3. skipped + 1 = 1 /\ skipped + asked = limit
      BY <2>5, <3>2
    <3>4. AskedRanks(m) = 1 .. MaxRank \cap 1 .. limit
      BY <2>4, <3>3
    <3>5. SelectsFirst(query, AskedRanks(m), limit)
      BY <2>3, <3>1, <3>2, <3>4 DEF SelectsFirst
    <3> QED BY <1>6, <3>5 DEF Selects
  <2>6. CASE text.skip # None
    <3>1. query.rankFrom = skipped + 1 /\ skipped \in 1..MaxRank - 1
      BY <1>1, <1>4, <1>5, <2>1, <2>6
    <3>2. SelectsAfter(query, AskedRanks(m), skipped, asked)
      BY <2>2, <2>3, <2>4, <3>1 DEF SelectsAfter
    <3> QED BY <1>6, <3>2 DEF Selects
  <2> QED BY <2>5, <2>6
<1> QED BY <1>7, <1>8

PartOf(shown, order, n, ranks, a, l) ==
    /\ DOMAIN shown = 1..l
    /\ \A i \in 1..l : a + i - 1 \in 1..n /\ shown[i] = order[a + i - 1]
    /\ \A k \in 1..n : k \in ranks <=> a <= k /\ k - a + 1 \in 1..l

\* A part of the first of a ranking is a part of the ranking.
LEMMA PartShown ==
    ASSUME NEW S, NEW n \in Nat, NEW order \in [1..n -> S], NEW fetched \in Nat,
           NEW part, part = First(order, fetched), NEW a \in Nat \ {0}, NEW c \in Nat,
           c <= Fewer(fetched, n), NEW shown, shown = SubSeq(part, a, c), NEW ranks,
           \A k \in 1..n : k \in ranks <=> a <= k /\ k <= c
    PROVE  \E l \in Nat : PartOf(shown, order, n, ranks, a, l)
<1> DEFINE l == IF a <= c THEN c - a + 1 ELSE 0
<1>1. /\ part \in Seq(S) /\ Len(part) = Fewer(fetched, n)
      /\ \A i \in 1..Fewer(fetched, n) : part[i] = order[i]
  <2>1. First(order, fetched) \in Seq(S) /\ Len(First(order, fetched)) = Fewer(fetched, n)
    BY FirstIs, Zenon
  <2>2. \A i \in 1..Fewer(fetched, n) : part[i] = order[i]
    <3>1. order \in Seq(S) /\ Len(order) = n
      OBVIOUS
    <3>2. part = SubSeq(order, 1, Fewer(fetched, n))
      BY <3>1, MinTwo DEF First, Fewer
    <3> QED BY <3>1, <3>2 DEF Fewer
  <2> QED BY <2>1, <2>2, Zenon
<1>2. DOMAIN shown = 1..l /\ \A i \in 1..l : shown[i] = part[a + i - 1]
  BY <1>1, PartIs
<1>3. \A i \in 1..l : a + i - 1 \in 1..n /\ a + i - 1 \in 1..Fewer(fetched, n)
  BY DEF Fewer
<1>4. l \in Nat /\ \A k \in 1..n : (a <= k /\ k <= c) <=> (a <= k /\ k - a + 1 \in 1..l)
  OBVIOUS
<1> HIDE DEF l
<1>5. PartOf(shown, order, n, ranks, a, l)
  BY <1>1, <1>2, <1>3, <1>4 DEF PartOf
<1> QED BY <1>4, <1>5

\* What is shown is the part of the ranking that was asked for, whatever the
\* query says of the ranks.
LEMMA ShownBetween ==
    ASSUME NEW query, NEW ranks, NEW a, NEW b, SelectsBetween(query, ranks, a, b),
           NEW S, NEW n \in Nat, NEW order \in [1..n -> S],
           NEW shown, shown = Slice(First(order, FetchLimit(query)), query)
    PROVE  \E x \in Nat \ {0} : \E l \in Nat : PartOf(shown, order, n, ranks, x, l)
<1>1. /\ a \in Nat \ {0} /\ b \in Nat /\ a # None /\ b # None
      /\ query.rankFrom = a /\ query.rankTo = b /\ ranks = a..b
  BY ToolsAssumption DEF ToolsAssumption, SelectsBetween
<1>2. FetchLimit(query) = b
  BY <1>1 DEF FetchLimit
<1>3. PICK part : part = First(order, b)
  OBVIOUS
<1>4. shown = SubSeq(part, a, Min({b, Len(part)}))
  BY <1>1, <1>2, <1>3 DEF Slice
<1>5. PICK c \in Nat : c = Fewer(b, n)
  BY <1>1 DEF Fewer
<1>6. Min({b, Len(part)}) = c
  <2>1. Len(part) = c
    <3>1. b \in Nat
      BY <1>1
    <3>2. Len(First(order, b)) = Fewer(b, n)
      BY <3>1, FirstIs, Zenon
    <3> QED BY <1>3, <1>5, <3>2
  <2>2. Min({b, Len(part)}) = IF b <= c THEN b ELSE c
    BY <1>1, <2>1, MinTwo
  <2>3. c <= b
    BY <1>1, <1>5 DEF Fewer
  <2> QED BY <1>1, <2>2, <2>3
<1>7. \A k \in 1..n : k \in ranks <=> a <= k /\ k <= c
  BY <1>1, <1>5 DEF Fewer
<1>8. \E l \in Nat : PartOf(shown, order, n, ranks, a, l)
  <2>1. shown = SubSeq(part, a, c)
    BY <1>4, <1>6, Zenon
  <2>2. c <= Fewer(b, n)
    BY <1>5
  <2> QED BY <1>1, <1>3, <1>5, <1>7, <2>1, <2>2, PartShown
<1> QED BY <1>1, <1>8

LEMMA ShownAfter ==
    ASSUME NEW query, NEW ranks, NEW s, NEW limit, SelectsAfter(query, ranks, s, limit),
           NEW S, NEW n \in Nat, NEW order \in [1..n -> S],
           NEW shown, shown = Slice(First(order, FetchLimit(query)), query)
    PROVE  \E x \in Nat \ {0} : \E l \in Nat : PartOf(shown, order, n, ranks, x, l)
<1> DEFINE fetched == IF s + limit <= MaxRank THEN s + limit ELSE MaxRank
<1>1. /\ s \in 1..MaxRank - 1 /\ limit \in 1..MaxRank /\ MaxRank \in Nat \ {0}
      /\ query.rankFrom = s + 1 /\ query.rankFrom # None
      /\ query.rankTo = None /\ query.limit = limit /\ ranks = 1 .. MaxRank \cap s + 1 .. s + limit
  BY ToolsAssumption DEF ToolsAssumption, SelectsAfter
<1>2. FetchLimit(query) = fetched
  <2>1. FetchLimit(query) = Min({query.rankFrom + query.limit - 1, MaxRank})
    BY <1>1 DEF FetchLimit
  <2>2. query.rankFrom + query.limit - 1 = s + limit
    BY <1>1
  <2> QED BY <1>1, <2>1, <2>2, MinTwo
<1>3. fetched \in Nat /\ s + 1 \in Nat \ {0} /\ s + limit \in Nat
  BY <1>1
<1> HIDE DEF fetched
<1>4. PICK part : part = First(order, fetched)
  OBVIOUS
<1>5. shown = SubSeq(part, s + 1, Min({s + limit, Len(part)}))
  <2>1. shown = SubSeq(part, query.rankFrom, Min({query.rankFrom - 1 + query.limit, Len(part)}))
    BY <1>1, <1>2, <1>4 DEF Slice
  <2>2. query.rankFrom - 1 + query.limit = s + limit
    BY <1>1
  <2> QED BY <1>1, <2>1, <2>2
<1>6. PICK c \in Nat : c = Fewer(fetched, n)
  BY <1>3 DEF Fewer
<1>7. Min({s + limit, Len(part)}) = c
  <2>1. Len(part) = c
    <3>1. fetched \in Nat
      BY <1>3
    <3>2. Len(First(order, fetched)) = Fewer(fetched, n)
      BY <3>1, FirstIs, Zenon
    <3> QED BY <1>4, <1>6, <3>2
  <2>2. Min({s + limit, Len(part)}) = IF s + limit <= c THEN s + limit ELSE c
    BY <1>3, <2>1, MinTwo
  <2>3. c <= s + limit
    BY <1>1, <1>3, <1>6 DEF Fewer, fetched
  <2> QED BY <1>3, <2>2, <2>3
<1>8. \A k \in 1..n : k \in ranks <=> s + 1 <= k /\ k <= c
  BY <1>1, <1>6 DEF Fewer, fetched
<1>9. \E l \in Nat : PartOf(shown, order, n, ranks, s + 1, l)
  <2>1. shown = SubSeq(part, s + 1, c)
    BY <1>5, <1>7, Zenon
  <2>2. c <= Fewer(fetched, n)
    BY <1>6
  <2> QED BY <1>3, <1>4, <1>6, <1>8, <2>1, <2>2, PartShown
<1> QED BY <1>3, <1>9

LEMMA ShownFirst ==
    ASSUME NEW query, NEW ranks, NEW limit, SelectsFirst(query, ranks, limit),
           NEW S, NEW n \in Nat, NEW order \in [1..n -> S],
           NEW shown, shown = Slice(First(order, FetchLimit(query)), query)
    PROVE  \E x \in Nat \ {0} : \E l \in Nat : PartOf(shown, order, n, ranks, x, l)
<1>1. /\ limit \in Nat /\ query.rankFrom = None /\ query.rankTo = None /\ query.limit = limit
      /\ MaxRank \in Nat /\ limit <= MaxRank /\ ranks = 1 .. MaxRank \cap 1 .. limit
  <2>1. limit \in 1..MaxRank /\ MaxRank \in Nat
    BY ToolsAssumption DEF SelectsFirst, ToolsAssumption
  <2>2. limit \in Nat /\ limit <= MaxRank /\ MaxRank \in Nat
    BY <2>1
  <2> QED BY <2>2 DEF SelectsFirst
<1>2. shown = First(order, limit)
  BY <1>1 DEF FetchLimit, Slice
<1>3. PICK c \in Nat : c = Fewer(limit, n)
  BY <1>1 DEF Fewer
<1>4. shown \in Seq(S) /\ Len(shown) = c
  <2>1. limit \in Nat
    BY <1>1
  <2>2. First(order, limit) \in Seq(S) /\ Len(First(order, limit)) = Fewer(limit, n)
    BY <2>1, FirstIs, Zenon
  <2> QED BY <1>2, <1>3, <2>2
<1>5. PICK part : part = First(order, limit) /\ shown = SubSeq(part, 1, c)
  BY <1>2, <1>4, SubSeqFull
<1>6. \A k \in 1..n : k \in ranks <=> 1 <= k /\ k <= c
  BY <1>1, <1>3 DEF Fewer
<1>7. \E l \in Nat : PartOf(shown, order, n, ranks, 1, l)
  <2>1. limit \in Nat /\ c <= Fewer(limit, n) /\ 1 \in Nat \ {0}
    BY <1>1, <1>3
  <2>2. part = First(order, limit) /\ shown = SubSeq(part, 1, c)
    BY <1>5, Zenon
  <2> QED BY <1>6, <2>1, <2>2, PartShown
<1>8. 1 \in Nat \ {0}
  OBVIOUS
<1> QED BY <1>7, <1>8

\* So for every query.
LEMMA ShownAre ==
    ASSUME NEW query, NEW ranks, Selects(query, ranks),
           NEW S, NEW n \in Nat, NEW order \in [1..n -> S],
           NEW shown, shown = Slice(First(order, FetchLimit(query)), query)
    PROVE  \E x \in Nat \ {0} : \E l \in Nat : PartOf(shown, order, n, ranks, x, l)
<1>1. ASSUME NEW a, NEW b, SelectsBetween(query, ranks, a, b)
      PROVE  \E x \in Nat \ {0} : \E l \in Nat : PartOf(shown, order, n, ranks, x, l)
  BY <1>1, ShownBetween, Zenon
<1>2. ASSUME NEW s, NEW limit, SelectsAfter(query, ranks, s, limit)
      PROVE  \E x \in Nat \ {0} : \E l \in Nat : PartOf(shown, order, n, ranks, x, l)
  BY <1>2, ShownAfter, Zenon
<1>3. ASSUME NEW limit, SelectsFirst(query, ranks, limit)
      PROVE  \E x \in Nat \ {0} : \E l \in Nat : PartOf(shown, order, n, ranks, x, l)
  BY <1>3, ShownFirst, Zenon
<1> QED BY <1>1, <1>2, <1>3, Zenon DEF Selects

\* A part of the ranking is the products of those ranks, best first.
RankedIn(shown, S, sales, tie, ranks) ==
    /\ Range(shown) = {p \in S : Cardinality(AheadOf(S, sales, tie, p)) + 1 \in ranks}
    /\ \A j, k \in DOMAIN shown : j < k => shown[j] \in AheadOf(S, sales, tie, shown[k])
LEMMA PartRanks ==
    ASSUME NEW S, NEW sales, NEW tie, NEW order, NEW n, Ranking(S, sales, tie, order, n), NEW ranks,
           NEW shown, NEW x \in Nat \ {0}, NEW l \in Nat, PartOf(shown, order, n, ranks, x, l)
    PROVE  RankedIn(shown, S, sales, tie, ranks)
<1> DEFINE ahead(p) == Cardinality(AheadOf(S, sales, tie, p))
<1>1. /\ n \in Nat /\ order \in [1..n -> S]
      /\ \A k \in 1..n : ahead(order[k]) = k - 1
      /\ \A p \in S : \E k \in 1..n : order[k] = p
      /\ \A j, k \in 1..n : j < k => Before(sales, tie, order[j], order[k])
  BY DEF Ranking
<1>2. /\ DOMAIN shown = 1..l
      /\ \A i \in 1..l : x + i - 1 \in 1..n /\ shown[i] = order[x + i - 1]
      /\ \A k \in 1..n : k \in ranks <=> x <= k /\ k - x + 1 \in 1..l
  BY DEF PartOf
<1> HIDE DEF ahead
<1>3. ASSUME NEW i \in 1..l PROVE shown[i] \in S /\ ahead(shown[i]) + 1 \in ranks
  <2>1. PICK k : k = x + i - 1
    OBVIOUS
  <2>2. k \in 1..n /\ shown[i] = order[k] /\ x <= k /\ k - x + 1 \in 1..l
    BY <1>2, <2>1
  <2>3. ahead(order[k]) + 1 = k
    BY <1>1, <2>2
  <2> QED BY <1>1, <1>2, <2>2, <2>3
<1>4. ASSUME NEW p \in S, ahead(p) + 1 \in ranks PROVE \E i \in 1..l : shown[i] = p
  <2>1. PICK k \in 1..n : order[k] = p
    BY <1>1
  <2>2. ahead(p) + 1 = k
    BY <1>1, <2>1
  <2>3. PICK i : i = k - x + 1
    OBVIOUS
  <2>4. i \in 1..l /\ x + i - 1 = k
    BY <1>1, <1>2, <1>4, <2>2, <2>3
  <2>5. shown[i] = order[k]
    BY <1>2, <2>4
  <2> QED BY <2>1, <2>4, <2>5
<1>5. Range(shown) = {p \in S : ahead(p) + 1 \in ranks}
  <2>1. Range(shown) = {shown[i] : i \in 1..l}
    BY <1>2 DEF Range
  <2> QED BY <1>3, <1>4, <2>1
<1>6. ASSUME NEW j \in 1..l, NEW k \in 1..l, j < k PROVE Before(sales, tie, shown[j], shown[k])
  <2>1. PICK a, b : a = x + j - 1 /\ b = x + k - 1
    OBVIOUS
  <2>2. a \in 1..n /\ b \in 1..n /\ shown[j] = order[a] /\ shown[k] = order[b]
    BY <1>2, <2>1
  <2>3. a < b
    BY <1>6, <2>1
  <2> QED BY <1>1, <2>2, <2>3
<1> QED BY <1>2, <1>3, <1>5, <1>6 DEF ahead, AheadOf, RankedIn

\* The ranking that top_products shows of some rows, cut down to the ranks
\* that the text asks for.
LEMMA RanksAreShown ==
    ASSUME NEW m \in Messages, NEW query, query = Intents!Entities(TextOf(m), Today),
           NEW sold \in SUBSET Summaries, NEW tie \in Ties, NEW shown,
           shown = Slice(TopProducts(sold, query, tie), query)
    PROVE  RanksShown(m, query, sold, tie, shown)
<1> DEFINE S == {Identity(r) : r \in sold}
           sales == [i \in S |-> Total(Of(sold, i), query.sort)]
<1>1. /\ query.sort \in {"quantity", "revenue", "margin"} /\ query.minQuantity = None
      /\ Selects(query, AskedRanks(m))
  BY QueryRanks
<1>2. IsFiniteSet(S)
  <2>1. IsFiniteSet(sold)
    BY FS_Subset, ToolsAssumption DEF ToolsAssumption
  <2> DEFINE identity == [r \in sold |-> Identity(r)]
  <2>2. identity \in Surjection(sold, S)
    BY DEF Surjection
  <2> QED BY <2>1, <2>2, FS_Surjection
<1>3. sales \in [S -> Int]
  <2>1. ASSUME NEW i \in S PROVE Total(Of(sold, i), query.sort) \in Int
    <3>1. Of(sold, i) \in SUBSET Summaries
      BY DEF Of
    <3> QED BY <1>1, <3>1, TotalInt
  <2> QED BY <2>1
<1>4. Sold(sold, query.minQuantity) = S
  BY <1>1 DEF Sold
<1>5. PICK order, n : order = Ordered(S, sales, tie) /\ n = Cardinality(S)
  OBVIOUS
<1>6. shown = Slice(First(order, FetchLimit(query)), query)
  BY <1>4, <1>5, Zenon DEF TopProducts
<1>7. \A i \in S : i.external \in Int /\ i \in Identities
  BY ToolsAssumption DEF ToolsAssumption, Identity, Identities
<1> HIDE DEF S
<1>8. ASSUME NEW i \in S, NEW j \in S \ {i}, i.external = j.external
      PROVE  tie[i] \in Int /\ tie[j] \in Int /\ tie[i] # tie[j]
  <2>1. i \in Tied /\ j \in Tied
    BY <1>7, <1>8 DEF Tied
  <2>2. PICK n2 : n2 = Cardinality(Tied)
    OBVIOUS
  <2>3. tie \in [Tied -> 1..n2] /\ IsInjective(tie)
    BY <2>2, Zenon DEF Ties, Bijection, Injection
  <2> QED BY <2>1, <2>3 DEF IsInjective
<1> HIDE DEF sales
<1>9. Orders(S, sales, tie)
  BY <1>2, <1>3, <1>7, <1>8 DEF Orders
<1>10. Ranking(S, sales, tie, order, n) /\ n \in Nat /\ order \in [1..n -> S]
  <2>1. Ranking(S, sales, tie, order, n)
    BY <1>5, <1>9, OrderedIs
  <2> QED BY <2>1 DEF Ranking
<1>11. PICK x \in Nat \ {0}, size \in Nat : PartOf(shown, order, n, AskedRanks(m), x, size)
  BY <1>1, <1>6, <1>10, ShownAre, Zenon
<1>12. /\ Range(shown) = {i \in S : Cardinality(AheadOf(S, sales, tie, i)) + 1 \in AskedRanks(m)}
       /\ \A j, k \in DOMAIN shown : j < k => shown[j] \in AheadOf(S, sales, tie, shown[k])
  <2>1. RankedIn(shown, S, sales, tie, AskedRanks(m))
    BY <1>10, <1>11, PartRanks, Zenon
  <2> QED BY <2>1, Zenon DEF RankedIn
<1> DEFINE ahead(i) == {j \in S : \/ sales[j] > sales[i]
                                  \/ sales[j] = sales[i] /\ j.external < i.external
                                  \/ /\ sales[j] = sales[i] /\ j.external = i.external
                                     /\ j # i /\ tie[j] < tie[i]}
<1>13. \A i : AheadOf(S, sales, tie, i) = ahead(i)
  BY DEF AheadOf, Before
<1>14. /\ Range(shown) = {i \in S : Cardinality(ahead(i)) + 1 \in AskedRanks(m)}
       /\ \A j, k \in DOMAIN shown : j < k => shown[j] \in ahead(shown[k])
  <2> HIDE DEF ahead
  <2> QED BY <1>12, <1>13
<1> QED BY <1>14, Zenon DEF RanksShown, S, sales

-----------------------------------------------------------------------------
(* What the query tool answers, and that it stays so.                      *)

\* An answer of sales.top_products to the query of a text.
LEMMA TopProductsAnswer ==
    ASSUME NEW m \in Messages, NEW query, query = Intents!Entities(TextOf(m), Today), NEW result,
           result \in RunTool("sales.top_products", query, BusinessOf(m)), ~ result.asks
    PROVE  RankingAnswers(m, query, Scope(BusinessOf(m), query, Today), result.shows)
<1>1. PICK scope : scope = Scope(BusinessOf(m), query, Today)
  OBVIOUS
<1>2. result \in TopProductsTool(BusinessOf(m), query, scope)
  <2>1. SalesTool("sales.top_products", query, BusinessOf(m), scope)
          = TopProductsTool(BusinessOf(m), query, scope)
    BY DEF SalesTool
  <2> QED BY <1>1, <2>1 DEF RunTool, SalesTools
<1>3. ~ Unclear(scope)
  BY <1>2 DEF TopProductsTool, Asks
<1>4. PICK sold : sold = Selected(Summaries, BusinessOf(m), scope.from, scope.to, scope.filters)
  OBVIOUS
<1>5. sold \in SUBSET Summaries
  BY <1>4 DEF Selected
<1>6. PICK tie \in Ties :
         result = Shows(scope.from, scope.to, Slice(TopProducts(sold, query, tie), query))
  BY <1>2, <1>3, <1>4, Zenon DEF TopProductsTool
<1>7. PICK shown : shown = Slice(TopProducts(sold, query, tie), query)
  OBVIOUS
<1>8. result.shows = shown
  BY <1>6, <1>7 DEF Shows
<1>9. RanksShown(m, query, sold, tie, shown)
  BY <1>5, <1>7, RanksAreShown
<1>10. scope.filters # None
  BY <1>3 DEF Unclear
<1> QED BY <1>1, <1>4, <1>8, <1>9, <1>10, Zenon DEF RankingAnswers

\* The query tool answers the intent that the router read.
LEMMA QueryAnswered ==
    ASSUME Shape, Rankings, NEW h \in Handlers, QueryTool(h)
    PROVE  turn'[h].pc = "outbound" /\ RightRanks(Message(h), turn'[h].response)
<1> DEFINE tool == IF turn[h].intent.tool = None THEN "sales.top_products"
                   ELSE turn[h].intent.tool
           answers == IF Raises(tool, turn[h].intent.entities, BusinessOf(Message(h))) THEN {Asks}
                      ELSE RunTool(tool, turn[h].intent.entities, BusinessOf(Message(h)))
<1>1. PICK result \in answers : Answered(h, tool, result)
  BY DEF QueryTool
<1>2. PICK r : r = [Silent EXCEPT !.by = turn[h].intent.by, !.tool = tool, !.asks = result.asks,
                                  !.shows = result.shows]
  OBVIOUS
<1>3. /\ turn[h].pc = "act" /\ turn[h].intent.intent \in {"query_tool", "query_sales_top_products"}
      /\ Respond(h, r)
  BY <1>1, <1>2 DEF QueryTool, Acting, Answered
<1>4. turn'[h].pc = "outbound" /\ turn'[h].response = r
  BY <1>3, RespondMoves
<1>5. r.by = turn[h].intent.by /\ r.tool = tool /\ r.asks = result.asks /\ r.shows = result.shows
  BY <1>2 DEF Silent
<1>6. Message(h) \in Messages
  BY <1>3, HeadIs
<1>7. ReadAs(Message(h), turn[h].intent)
  BY <1>3 DEF Rankings
<1>8. PICK m \in Messages : m = Message(h)
  BY <1>6
<1>9. PICK query : query = Intents!Entities(TextOf(m), Today)
  OBVIOUS
<1>10. ASSUME r.by = "rules", r.tool = "sales.top_products", ~ r.asks
       PROVE  RankingAnswers(m, query, Scope(BusinessOf(m), query, Today), r.shows)
  <2>1. turn[h].intent.tool \in {None, "sales.top_products"} /\ turn[h].intent.by = "rules"
    BY <1>5, <1>10
  <2>2. turn[h].intent.entities = query
    BY <1>3, <1>7, <1>8, <1>9, <2>1 DEF ReadAs
  <2>3. result \in RunTool("sales.top_products", query, BusinessOf(m))
    <3>1. result # Asks
      BY <1>5, <1>10 DEF Asks
    <3>2. tool = "sales.top_products"
      BY <1>5, <1>10
    <3> QED BY <1>1, <1>8, <2>2, <3>1, <3>2
  <2> QED BY <1>5, <1>9, <1>10, <2>3, TopProductsAnswer
<1> QED BY <1>4, <1>8, <1>9, <1>10, Zenon DEF RightRanks

RanksKept(h) ==
    /\ turn[h].pc = "act" => ReadAs(Message(h), turn[h].intent)
    /\ turn[h].pc = "outbound" => RightRanks(Message(h), turn[h].response)

\* A step of one handler leaves the answers of the others.
LEMMA RanksApart ==
    ASSUME Rankings, NEW h \in Handlers, Kept(h), RanksKept(h)',
           newest' = newest \/ (newest'.message \in Messages
                                 /\ RightRanks(newest'.message, newest'.reply))
    PROVE  Rankings'
<1>1. \A g \in Handlers : RanksKept(g)'
  <2> SUFFICES ASSUME NEW g \in Handlers, g # h PROVE RanksKept(g)'
    OBVIOUS
  <2>1. turn'[g] = turn[g] /\ RanksKept(g)
    BY DEF Kept, Rankings, RanksKept
  <2> QED BY <2>1 DEF RanksKept, Message
<1>2. newest' # None => newest'.message \in Messages /\ RightRanks(newest'.message, newest'.reply)
  BY DEF Rankings
<1> QED BY <1>1, <1>2 DEF Rankings, RanksKept

\* Only the query tool shows a ranking, as an answer of the router.
LEMMA NoRanking ==
    ASSUME Shape, NEW h \in Handlers, NEW r, Respond(h, r), r.by = "agent" \/ r.tool = None
    PROVE  RanksKept(h)'
<1>1. turn'[h].pc = "outbound" /\ turn'[h].response = r
  BY RespondMoves
<1>2. \A m : RightRanks(m, r)
  BY AssistantAssumption DEF AssistantAssumption, RightRanks
<1> QED BY <1>1, <1>2 DEF RanksKept

\* The agent shows no ranking as an answer of the router.
LEMMA RanksOnAgent ==
    ASSUME Shape, NEW h \in Handlers, Agent(h) PROVE RanksKept(h)'
<1>1. ASSUME NEW reason, FallBack(h, reason) PROVE RanksKept(h)'
  BY <1>1, FallBackMoves DEF RanksKept
<1>2. CASE NoAgent(h)
  BY <1>1, <1>2 DEF NoAgent
<1>3. CASE PlanRefused(h)
  BY <1>1, <1>3 DEF PlanRefused
<1>4. CASE PlanTaken(h)
  <2>1. PICK plan \in Plans :
           IF PlanOf(plan).mode = "execute_plan"
           THEN turn' = [turn EXCEPT ![h] = [@ EXCEPT !.pc = "steps", !.plan = plan]]
           ELSE Respond(h, [Silent EXCEPT !.by = "agent", !.plan = plan,
                                          !.asks = PlanOf(plan).mode = "ask_clarification"])
    BY <1>4 DEF PlanTaken
  <2>2. CASE PlanOf(plan).mode = "execute_plan"
    BY <2>1, <2>2, PlanMoves DEF RanksKept
  <2>3. CASE PlanOf(plan).mode # "execute_plan"
    <3>1. PICK r : r = [Silent EXCEPT !.by = "agent", !.plan = plan,
                                      !.asks = PlanOf(plan).mode = "ask_clarification"]
      OBVIOUS
    <3>2. r.by = "agent"
      BY <3>1 DEF Silent
    <3> QED BY <2>1, <2>3, <3>1, <3>2, NoRanking
  <2> QED BY <2>2, <2>3
<1>5. CASE Step(h)
  <2>1. PICK ran : turn[h].pc = "steps" /\ GoOn(h, ran)
    BY <1>5 DEF Step
  <2>2. CASE turn' = [turn EXCEPT ![h].ran = ran]
    BY <2>1, <2>2, RanMoves DEF RanksKept
  <2>3. CASE ~ (turn' = [turn EXCEPT ![h].ran = ran])
    <3>1. PICK r : r = [Silent EXCEPT !.by = "agent", !.plan = turn[h].plan, !.ran = ran,
                                      !.asks = Last(ran).asks, !.shows = Last(ran).shows]
      OBVIOUS
    <3>2. r.by = "agent"
      BY <3>1 DEF Silent
    <3>3. Respond(h, r)
      BY <2>1, <2>3, <3>1 DEF GoOn
    <3> QED BY <3>2, <3>3, NoRanking
  <2> QED BY <2>2, <2>3
<1>6. CASE StepRaises(h)
  BY <1>1, <1>6 DEF StepRaises
<1> QED BY <1>2, <1>3, <1>4, <1>5, <1>6 DEF Agent

\* The router, step by step.
LEMMA RanksOnRouter ==
    ASSUME Shape, Rankings, NEW h \in Handlers, Router(h) PROVE RanksKept(h)'
<1>1. CASE Routed(h)
  <2>1. PICK extraction \in Extractions :
           LET intent == Intents!LLMRoute(TextOf(Message(h)), extraction, Now)
           IN  /\ turn[h].pc = "route"
               /\ IF intent.asks
                  THEN Respond(h, [Silent EXCEPT !.by = intent.by, !.asks = TRUE])
                  ELSE turn' = [turn EXCEPT ![h] = [@ EXCEPT !.pc = "act", !.intent = intent]]
    BY <1>1 DEF Routed
  <2>2. PICK m : m = Message(h)
    OBVIOUS
  <2>3. PICK intent : intent = Intents!LLMRoute(TextOf(m), extraction, Now)
    OBVIOUS
  <2>4. CASE intent.asks
    <3>1. PICK r : r = [Silent EXCEPT !.by = intent.by, !.asks = TRUE]
      OBVIOUS
    <3>2. r.tool = None /\ Respond(h, r)
      BY <2>1, <2>2, <2>3, <2>4, <3>1 DEF Silent
    <3> QED BY <3>2, NoRanking
  <2>5. CASE ~ intent.asks
    <3>1. turn' = [turn EXCEPT ![h] = [@ EXCEPT !.pc = "act", !.intent = intent]]
      BY <2>1, <2>2, <2>3, <2>5
    <3>2. turn'[h].pc = "act" /\ turn'[h].intent = intent /\ turn'[h].queue = turn[h].queue
      BY <3>1, IntentMoves
    <3>3. PICK entities : entities = Intents!Entities(TextOf(m), Today)
      OBVIOUS
    <3>4. intent.by = "model" \/ Ranked(TextOf(m), entities, intent)
      BY <2>3, <3>3, RouteIs, Zenon
    <3>5. ReadAs(m, intent)
      BY <2>5, <3>3, <3>4 DEF ReadAs, Ranked
    <3> QED BY <2>2, <3>2, <3>5 DEF RanksKept, Message
  <2> QED BY <2>4, <2>5
<1>2. CASE CreateReminder(h)
  <2>1. PICK r : r = [Silent EXCEPT !.by = turn[h].intent.by,
                                    !.asks = turn[h].intent.entities.title = None]
    OBVIOUS
  <2>2. r.tool = None
    BY <2>1 DEF Silent
  <2> QED BY <1>2, <2>1, <2>2, NoRanking DEF CreateReminder
<1>3. CASE FindReminder(h)
  <2>1. CASE Wanted(turn[h].intent.entities, BusinessOf(Message(h))) = {}
    <3>1. PICK r : r = [Silent EXCEPT !.by = turn[h].intent.by]
      OBVIOUS
    <3>2. r.tool = None
      BY <3>1 DEF Silent
    <3> QED BY <1>3, <2>1, <3>1, <3>2, NoRanking DEF FindReminder
  <2>2. CASE Wanted(turn[h].intent.entities, BusinessOf(Message(h))) # {}
    <3>1. PICK i : turn' = [turn EXCEPT ![h] = [@ EXCEPT !.pc = "complete", !.found = i]]
      BY <1>3, <2>2 DEF FindReminder
    <3> QED BY <3>1, FoundMoves DEF RanksKept
  <2> QED BY <2>1, <2>2
<1>4. CASE CompleteReminder(h)
  <2>1. PICK r : r = [Silent EXCEPT !.by = turn[h].intent.by, !.done = turn[h].found]
    OBVIOUS
  <2>2. r.tool = None
    BY <2>1 DEF Silent
  <2> QED BY <1>4, <2>1, <2>2, NoRanking DEF CompleteReminder
<1>5. CASE Tell(h)
  <2>1. PICK r : r = [Silent EXCEPT !.by = turn[h].intent.by]
    OBVIOUS
  <2>2. r.tool = None
    BY <2>1 DEF Silent
  <2> QED BY <1>5, <2>1, <2>2, NoRanking DEF Tell
<1>6. CASE QueryTool(h)
  <2>1. turn'[h].pc = "outbound" /\ RightRanks(Message(h), turn'[h].response)
    BY <1>6, QueryAnswered
  <2>2. turn'[h].queue = turn[h].queue
    BY AtWork DEF Works
  <2> QED BY <2>1, <2>2 DEF RanksKept, Message
<1> QED BY <1>1, <1>2, <1>3, <1>4, <1>5, <1>6 DEF Router

\* Every step keeps the rankings right.
LEMMA RankingsStep ==
    ASSUME Shape, Rankings, [AssistantNext]_assistantVars PROVE Rankings'
<1>1. CASE UNCHANGED assistantVars
  BY <1>1 DEF assistantVars, Rankings, Message
<1>2. ASSUME NEW h \in Handlers, NEW queue, Onwards(h, queue), newest' = newest
      PROVE  Rankings'
  <2>1. Kept(h) /\ turn'[h].pc \in {"idle", "inbound"}
    <3>1. Resting.pc = "idle"
      BY DEF Resting
    <3> QED BY <1>2, <3>1, OnwardsMoves
  <2>2. RanksKept(h)'
    BY <2>1 DEF RanksKept
  <2> QED BY <1>2, <2>1, <2>2, RanksApart
<1>3. CASE Deliver
  <2>1. \E queue : Onwards(Webhook, queue) /\ newest' = newest
    BY <1>3 DEF Deliver
  <2> QED BY <1>2, <2>1, WebhookIs
<1>4. ASSUME NEW h \in Handlers, Receive(h) PROVE Rankings'
  <2>1. \E queue : Onwards(h, queue) /\ newest' = newest
    BY <1>4 DEF Receive
  <2> QED BY <1>2, <2>1
<1>5. ASSUME NEW h \in Handlers, SaveInbound(h) PROVE Rankings'
  <2>1. Goes(h, "inbound", "agent") /\ newest' = newest
    BY <1>5 DEF SaveInbound
  <2>2. Kept(h) /\ RanksKept(h)'
    BY <2>1, GoesMoves DEF RanksKept
  <2> QED BY <2>1, <2>2, RanksApart
<1>6. ASSUME NEW h \in Handlers, Agent(h) \/ Router(h) PROVE Rankings'
  <2>1. Kept(h) /\ newest' = newest
    BY <1>6, AtWork DEF Works
  <2> QED BY <1>6, <2>1, RanksOnAgent, RanksOnRouter, RanksApart
<1>7. ASSUME NEW h \in Handlers, SaveOutbound(h) PROVE Rankings'
  <2>1. /\ turn[h].pc = "outbound"
        /\ newest' = [message |-> Message(h), reason |-> turn[h].reason, reply |-> turn[h].response]
    BY <1>7 DEF SaveOutbound
  <2>2. newest'.message \in Messages /\ RightRanks(newest'.message, newest'.reply)
    BY <2>1, HeadIs DEF Rankings
  <2>3. Kept(h) /\ turn'[h].pc \in {"idle", "send"}
    BY <1>7, Saved, AtRest
  <2>4. RanksKept(h)'
    BY <2>3 DEF RanksKept
  <2> QED BY <2>2, <2>3, <2>4, RanksApart
<1>8. ASSUME NEW h \in Handlers, Send(h) PROVE Rankings'
  <2>1. \E queue : Onwards(h, queue) /\ newest' = newest
    BY <1>8 DEF Send
  <2> QED BY <1>2, <2>1
<1>9. ASSUME NEW h \in Handlers, Raise(h) PROVE Rankings'
  BY <1>2, <1>9 DEF Raise
<1> QED BY <1>1, <1>3, <1>4, <1>5, <1>6, <1>7, <1>8, <1>9 DEF AssistantNext

-----------------------------------------------------------------------------
(* How it starts, and the theorems.                                        *)

\* What the initial state is.
LEMMA AtFirst ==
    ASSUME AssistantInit
    PROVE  /\ turn = [h \in Handlers |-> turn[h]] /\ \A h \in Handlers : turn[h] = Resting
           /\ newest = None /\ reminders = Stored
           /\ given = [m \in Messages |-> 0] /\ inbound = [m \in Messages |-> 0]
           /\ outbound = [m \in Messages |-> 0] /\ sent = [m \in Messages |-> 0]
           /\ Resting.pc = "idle" /\ Resting.queue = <<>>
BY DEF AssistantInit, Resting

\* It satisfies each part of the invariant.
LEMMA ShapeInit == ASSUME AssistantInit PROVE Shape
<1>1. Tables
  BY AtFirst, AssistantAssumption DEF AssistantAssumption, AssistantInit, Tables
<1>2. ASSUME NEW h \in Handlers PROVE IsTurn(turn[h]) /\ MayBe(h, turn[h])
  BY AtFirst, AtRest, Rest
<1> QED BY <1>1, <1>2, AtFirst DEF Shape

LEMMA CountsInit == ASSUME AssistantInit PROVE Counts
<1> SUFFICES ASSUME NEW m \in Messages
             PROVE  SentWereSaved(m) /\ SavedWereRead(m) /\ CreatedWereRead(m) /\ ReadWereGiven(m)
  BY DEF Counts
<1>1. sent[m] = 0 /\ outbound[m] = 0 /\ inbound[m] = 0 /\ given[m] = 0
  BY AtFirst
<1>2. On(m, {"send"}) = {} /\ On(m, Working) = {} /\ On(m, Unstarted) = {} /\ Asked(m) = {}
  BY AtFirst, WebhookIs DEF On, Asked, Working, Unstarted
<1>3. Queued(m) = {}
  <2>1. turn[Webhook].queue = <<>>
    BY AtFirst, WebhookIs
  <2> QED BY <2>1 DEF Queued
<1>4. Created(m) = 0
  <2>1. {i \in DOMAIN reminders : reminders[i].by = m} = {}
    BY AtFirst, AssistantAssumption DEF AssistantAssumption
  <2> QED BY <2>1, FS_EmptySet DEF Created
<1>5. Cardinality({}) = 0
  BY FS_EmptySet
<1> QED BY <1>1, <1>2, <1>3, <1>4, <1>5
        DEF SentWereSaved, SavedWereRead, CreatedWereRead, ReadWereGiven

LEMMA ProgressInit == ASSUME AssistantInit PROVE Progress
<1> SUFFICES ASSUME NEW b \in Batches, NEW i \in DOMAIN b.messages, NEW j \in DOMAIN b.messages
             PROVE  InTurn(b, i, j)
  BY DEF Progress
<1>1. b.messages[i] \in Messages /\ b.messages[j] \in Messages
  BY AssistantAssumption DEF AssistantAssumption
<1>2. inbound[b.messages[j]] = 0 /\ outbound[b.messages[i]] = 0
  BY <1>1, AtFirst
<1>3. ~ Between(b, i, j)
  <2>1. turn[Webhook].queue = <<>>
    BY AtFirst, WebhookIs
  <2>2. ASSUME NEW k \in DOMAIN b.messages PROVE SubSeq(b.messages, k, Len(b.messages)) # <<>>
    BY RestAt
  <2> QED BY <2>1, <2>2 DEF Between, At
<1> QED BY <1>2, <1>3 DEF InTurn

LEMMA FlowInit == ASSUME AssistantInit PROVE Completions /\ Plansound /\ Rankings
<1>1. newest = None /\ \A h \in Handlers : turn[h].pc = "idle"
  BY AtFirst
<1> QED BY <1>1 DEF Completions, Plansound, Rankings

\* The inductive invariant: each of the three properties follows from the
\* part of it that says what holds before the row is saved.
AssistantInvariant == Shape /\ Counts /\ Progress /\ Completions /\ Plansound /\ Rankings

\* What the counts, the order and the completions say of the record.
LEMMA RecordKept ==
    ASSUME Shape, Counts, Progress, Completions PROVE RepliesOnRecord
<1>1. ASSUME NEW m \in Messages
      PROVE  /\ sent[m] <= outbound[m] /\ outbound[m] <= inbound[m] /\ inbound[m] <= given[m]
             /\ Created(m) <= inbound[m]
  <2>1. SentWereSaved(m) /\ SavedWereRead(m) /\ CreatedWereRead(m) /\ ReadWereGiven(m)
    BY DEF Counts
  <2>2. /\ Cardinality(On(m, {"send"})) \in Nat /\ Cardinality(On(m, Working)) \in Nat
        /\ Cardinality(On(m, Unstarted)) \in Nat /\ Cardinality(Asked(m)) \in Nat
        /\ Cardinality(Queued(m)) \in Nat
    BY OnFinite, QueuedFinite
  <2> QED BY <2>1, <2>2, Numbers
          DEF SentWereSaved, SavedWereRead, CreatedWereRead, ReadWereGiven
<1>2. \A b \in Batches : \A i, j \in DOMAIN b.messages :
         (i < j /\ \A m \in Range(b.messages) : OnlyIn(m, b))
           => inbound[b.messages[j]] <= outbound[b.messages[i]]
  <2> SUFFICES ASSUME NEW b \in Batches, NEW i \in DOMAIN b.messages, NEW j \in DOMAIN b.messages,
                      i < j, Exclusive(b)
               PROVE  inbound[b.messages[j]] <= outbound[b.messages[i]]
    BY DEF Exclusive
  <2> QED BY DEF Progress, InTurn
<1>3. newest # None /\ newest.reply.done # None
        => reminders[newest.reply.done].business = BusinessOf(newest.message)
  BY DEF Completions, OwnReminder
<1> QED BY <1>1, <1>2, <1>3 DEF RepliesOnRecord

\* The invariant is inductive.
LEMMA InvariantInit == AssistantInit => AssistantInvariant
BY ShapeInit, CountsInit, ProgressInit, FlowInit DEF AssistantInvariant

LEMMA InvariantStep == AssistantInvariant /\ [AssistantNext]_assistantVars => AssistantInvariant'
<1> SUFFICES ASSUME AssistantInvariant, [AssistantNext]_assistantVars PROVE AssistantInvariant'
  OBVIOUS
<1>1. Shape /\ Counts /\ Progress /\ Completions /\ Plansound /\ Rankings
  BY DEF AssistantInvariant
<1>2. Shape' /\ Counts'
  BY <1>1, ShapeStep, CountsStep
<1>3. Progress' /\ Completions'
  BY <1>1, ProgressStep, CompletionsStep
<1>4. Plansound' /\ Rankings'
  BY <1>1, PlansoundStep, RankingsStep
<1> QED BY <1>2, <1>3, <1>4 DEF AssistantInvariant

THEOREM RepliesRecorded == AssistantSpec => []RepliesOnRecord
<1>1. AssistantInvariant => RepliesOnRecord
  BY RecordKept DEF AssistantInvariant
<1> QED BY <1>1, InvariantInit, InvariantStep, PTL DEF AssistantSpec

THEOREM WholePlansAnswered == AssistantSpec => []AgentAnswersWholePlans
<1>1. AssistantInvariant => AgentAnswersWholePlans
  BY DEF AssistantInvariant, Plansound, WholePlan, AgentAnswersWholePlans
<1> QED BY <1>1, InvariantInit, InvariantStep, PTL DEF AssistantSpec

THEOREM RanksAnswered == AssistantSpec => []AnswersTheAskedRanks
<1>1. AssistantInvariant => AnswersTheAskedRanks
  BY DEF AssistantInvariant, Rankings, RightRanks, AnswersTheAskedRanks
<1> QED BY <1>1, InvariantInit, InvariantStep, PTL DEF AssistantSpec

-----------------------------------------------------------------------------
(* THE DISPATCH OF REMINDERS.                                              *)
USE DEF NoReminder

(* The steps, one by one: the case split of every proof below.             *)
LEMMA NextCases ==
    ASSUME [Next]_vars
    PROVE  \/ ClockTicks \/ Restart
           \/ \E r \in Reminders : Create(r)
           \/ \E d \in Dispatchers :
                \/ ListDue(d) \/ SendDelivered(d) \/ SendRefused(d)
                \/ SendRaises(d) \/ LoadNotified(d) \/ MarkNotified(d)
                \/ ListRaises(d) \/ MarkRaises(d)
           \/ \E t \in Turns :
                \/ \E r \in Reminders : FindPending(t, r)
                \/ LoadDone(t) \/ MarkDone(t) \/ DoneRaises(t)
           \/ UNCHANGED vars
  BY DEF Next, Dispatch, CallReturns, CallRaises, Complete

(* The next reminder of a pass comes from those left to handle, which are  *)
(* reminders: the dispatcher keeps the shape of a pass.                    *)
LEMMA ProceedOK ==
    ASSUME TypeOK, NEW d \in Dispatchers, NEW b \in SUBSET Reminders,
           Proceed(d, b), batch' = [batch EXCEPT ![d] = b]
    PROVE  /\ pc' \in [Dispatchers -> {"idle", "sending", "marking", "dead"}]
           /\ current' \in [Dispatchers -> Reminders \cup {NoReminder}]
           /\ batch' \in [Dispatchers -> SUBSET Reminders]
           /\ \A e \in Dispatchers : PassOK(e)'
           /\ pc'[d] # "marking"
           /\ \A e \in Dispatchers \ {d} : pc'[e] = pc[e] /\ current'[e] = current[e]
  <1>1. CASE b = {}
        /\ pc' = [pc EXCEPT ![d] = "idle"]
        /\ current' = [current EXCEPT ![d] = NoReminder]
    BY <1>1 DEF TypeOK, PassOK
  <1>2. ASSUME NEW r \in b, \A q \in b : r <= q,
               pc' = [pc EXCEPT ![d] = "sending"],
               current' = [current EXCEPT ![d] = r]
        PROVE  /\ pc' \in [Dispatchers -> {"idle", "sending", "marking", "dead"}]
               /\ current' \in [Dispatchers -> Reminders \cup {NoReminder}]
               /\ batch' \in [Dispatchers -> SUBSET Reminders]
               /\ \A e \in Dispatchers : PassOK(e)'
               /\ pc'[d] # "marking"
               /\ \A e \in Dispatchers \ {d} : pc'[e] = pc[e] /\ current'[e] = current[e]
    BY <1>2 DEF TypeOK, PassOK
  <1> QED BY <1>1, <1>2 DEF Proceed

(* A pass that ends holds no reminder.                                     *)
LEMMA PassEndsOK ==
    ASSUME TypeOK, NEW d \in Dispatchers, PassEnds(d)
    PROVE  /\ pc' \in [Dispatchers -> {"idle", "sending", "marking", "dead"}]
           /\ current' \in [Dispatchers -> Reminders \cup {NoReminder}]
           /\ batch' \in [Dispatchers -> SUBSET Reminders]
           /\ \A e \in Dispatchers : PassOK(e)'
           /\ pc'[d] # "marking" /\ batch'[d] = {} /\ current'[d] = NoReminder
           /\ \A e \in Dispatchers \ {d} :
                 pc'[e] = pc[e] /\ current'[e] = current[e] /\ batch'[e] = batch[e]
  BY DEF PassEnds, TypeOK, PassOK

(* A write of a row keeps its column types.                                *)
LEMMA StoreOK ==
    ASSUME TypeOK, NEW a \in Actors, NEW r \in Reminders,
           NEW st \in Statuses, NEW done \in BOOLEAN, Store(a, r, st, done)
    PROVE  /\ status' \in [Reminders -> Statuses]
           /\ completed' \in [Reminders -> BOOLEAN]
           /\ loaded' \in [Actors -> [status : Statuses, completed : BOOLEAN]]
  <1>1. StatusWritten(a, r, st) \in Statuses
    BY DEF StatusWritten, Written, TypeOK
  <1>2. completed' \in [Reminders -> BOOLEAN]
    <2>1. (done \/ Written(a, "completed", FALSE, completed[r])) \in BOOLEAN
      OBVIOUS
    <2> QED BY <2>1 DEF Store, TypeOK
  <1>3. NoRow \in [status : Statuses, completed : BOOLEAN]
    BY DEF NoRow, Statuses
  <1> QED BY <1>1, <1>2, <1>3 DEF Store, TypeOK

LEMMA LoadOK ==
    ASSUME TypeOK, NEW a \in Actors, NEW r \in Reminders, Load(a, r)
    PROVE  loaded' \in [Actors -> [status : Statuses, completed : BOOLEAN]]
  BY DEF Load, TypeOK

LEMMA Plus1OK ==
    ASSUME NEW f \in [Dispatchers -> [Reminders -> Nat]],
           NEW d \in Dispatchers, NEW r \in Reminders
    PROVE  Plus1(f, d, r) \in [Dispatchers -> [Reminders -> Nat]]
  BY DEF Plus1

(* The type invariant and the shape of every pass hold in every behaviour. *)
THEOREM TypeCorrect == Spec => []TypeOK
  <1>1. Init => TypeOK
    BY ReminderAssumption DEF Init, TypeOK, PassOK, Statuses, Zero, Actors, NoRow
  <1>2. TypeOK /\ [Next]_vars => TypeOK'
    <2> SUFFICES ASSUME TypeOK, [Next]_vars PROVE TypeOK'
      OBVIOUS
    <2> USE ReminderAssumption
    <2>1. CASE ClockTicks
      BY <2>1 DEF ClockTicks, TypeOK, PassOK, rows, dispatch, sends
    <2>2. CASE Restart
      BY <2>2 DEF Restart, TypeOK, PassOK, rows, dispatch, sends, NoRow, Statuses
    <2>3. ASSUME NEW r \in Reminders, Create(r) PROVE TypeOK'
      BY <2>3 DEF Create, TypeOK, PassOK, Statuses, dispatch, sends
    <2>4. ASSUME NEW d \in Dispatchers, ListDue(d) PROVE TypeOK'
      <3>1. Due \in SUBSET Reminders
        BY DEF Due
      <3> QED BY <2>4, <3>1, ProceedOK DEF ListDue, TypeOK, rows, sends
    <2>5. ASSUME NEW d \in Dispatchers, SendDelivered(d) PROVE TypeOK'
      <3>1. current[d] \in Reminders
        BY <2>5 DEF SendDelivered, TypeOK, PassOK
      <3>2. delivered' \in [Dispatchers -> [Reminders -> Nat]]
        BY <2>5, <3>1, Plus1OK DEF SendDelivered, TypeOK
      <3>3. pc' \in [Dispatchers -> {"idle", "sending", "marking", "dead"}]
            /\ \A e \in Dispatchers : PassOK(e)'
        BY <2>5 DEF SendDelivered, TypeOK, PassOK
      <3> QED BY <2>5, <3>2, <3>3 DEF SendDelivered, TypeOK, rows
    <2>6. ASSUME NEW d \in Dispatchers, SendRefused(d) PROVE TypeOK'
      <3>1. Handled(d) \in SUBSET Reminders
        BY DEF Handled, TypeOK
      <3> QED BY <2>6, <3>1, ProceedOK DEF SendRefused, TypeOK, rows, sends
    <2>7. ASSUME NEW d \in Dispatchers, SendRaises(d) PROVE TypeOK'
      <3>1. current[d] \in Reminders
        BY <2>7 DEF SendRaises, TypeOK, PassOK
      <3>2. delivered' \in [Dispatchers -> [Reminders -> Nat]]
            /\ lost' \in [Dispatchers -> [Reminders -> Nat]]
        <4>1. /\ delivered \in [Dispatchers -> [Reminders -> Nat]]
              /\ lost \in [Dispatchers -> [Reminders -> Nat]]
          BY DEF TypeOK
        <4>2. CASE /\ delivered' = Plus1(delivered, d, current[d])
                   /\ lost' = Plus1(lost, d, current[d])
          BY <3>1, <4>1, <4>2, Plus1OK
        <4>3. CASE UNCHANGED <<delivered, lost>>
          BY <4>1, <4>3
        <4> QED BY <2>7, <4>2, <4>3 DEF SendRaises
      <3> QED BY <2>7, <3>2, PassEndsOK DEF SendRaises, TypeOK, rows
    <2>8. ASSUME NEW d \in Dispatchers, LoadNotified(d) PROVE TypeOK'
      <3>1. current[d] \in Reminders /\ d \in Actors
        BY <2>8 DEF LoadNotified, TypeOK, PassOK, Actors
      <3> QED BY <2>8, <3>1, LoadOK DEF LoadNotified, TypeOK, PassOK, rows, dispatch, sends
    <2>9. ASSUME NEW d \in Dispatchers, MarkNotified(d) PROVE TypeOK'
      <3>1. current[d] \in Reminders /\ d \in Actors
        BY <2>9 DEF MarkNotified, TypeOK, PassOK, Actors
      <3>2. Handled(d) \in SUBSET Reminders
        BY DEF Handled, TypeOK
      <3>3. "notified" \in Statuses
        BY DEF Statuses
      <3> QED BY <2>9, <3>1, <3>2, <3>3, ProceedOK, StoreOK DEF MarkNotified, TypeOK, sends
    <2>10. ASSUME NEW t \in Turns, NEW r \in Reminders, FindPending(t, r) PROVE TypeOK'
      BY <2>10 DEF FindPending, TypeOK, PassOK, rows, dispatch, sends
    <2>11. ASSUME NEW t \in Turns, LoadDone(t) PROVE TypeOK'
      <3>1. found[t] \in Reminders /\ t \in Actors
        BY <2>11 DEF LoadDone, TypeOK, Actors
      <3> QED BY <2>11, <3>1, LoadOK DEF LoadDone, TypeOK, PassOK, rows, dispatch, sends
    <2>12. ASSUME NEW t \in Turns, MarkDone(t) PROVE TypeOK'
      <3>1. found[t] \in Reminders /\ t \in Actors /\ "done" \in Statuses
        BY <2>12 DEF MarkDone, TypeOK, Actors, Statuses
      <3>2. found' \in [Turns -> Reminders \cup {NoReminder}]
        BY <2>12 DEF MarkDone, TypeOK
      <3> QED BY <2>12, <3>1, <3>2, StoreOK DEF MarkDone, TypeOK, PassOK, dispatch, sends
    <2>13. CASE UNCHANGED vars
      BY <2>13 DEF vars, TypeOK, PassOK, rows, dispatch, sends
    <2>14. ASSUME NEW d \in Dispatchers, ListRaises(d) PROVE TypeOK'
      BY <2>14, PassEndsOK DEF ListRaises, TypeOK, rows, sends
    <2>15. ASSUME NEW d \in Dispatchers, MarkRaises(d) PROVE TypeOK'
      <3>1. current[d] \in Reminders /\ d \in Actors /\ "notified" \in Statuses
        BY <2>15 DEF MarkRaises, TypeOK, PassOK, Actors, Statuses
      <3>2. lost' \in [Dispatchers -> [Reminders -> Nat]]
        <4>1. lost \in [Dispatchers -> [Reminders -> Nat]]
          BY DEF TypeOK
        <4>2. lost' = lost \/ lost' = Plus1(lost, d, current[d])
          BY <2>15 DEF MarkRaises
        <4>3. Plus1(lost, d, current[d]) \in [Dispatchers -> [Reminders -> Nat]]
          BY <3>1, <4>1, Plus1OK
        <4> QED BY <4>1, <4>2, <4>3
      <3>3. /\ status' \in [Reminders -> Statuses]
            /\ completed' \in [Reminders -> BOOLEAN]
            /\ loaded' \in [Actors -> [status : Statuses, completed : BOOLEAN]]
        <4>1. CASE Store(d, current[d], "notified", FALSE)
          BY <3>1, <4>1, StoreOK
        <4>2. CASE loaded' = [loaded EXCEPT ![d] = NoRow] /\ UNCHANGED rows
          BY <3>1, <4>2 DEF TypeOK, NoRow, Statuses, rows
        <4> QED BY <2>15, <4>1, <4>2 DEF MarkRaises
      <3> QED BY <2>15, <3>2, <3>3, PassEndsOK DEF MarkRaises, TypeOK
    <2>16. ASSUME NEW t \in Turns, DoneRaises(t) PROVE TypeOK'
      <3>1. found[t] \in Reminders /\ t \in Actors /\ "done" \in Statuses
        BY <2>16 DEF DoneRaises, TypeOK, Actors, Statuses
      <3>2. found' \in [Turns -> Reminders \cup {NoReminder}]
        BY <2>16 DEF DoneRaises, TypeOK
      <3>3. /\ status' \in [Reminders -> Statuses]
            /\ completed' \in [Reminders -> BOOLEAN]
            /\ loaded' \in [Actors -> [status : Statuses, completed : BOOLEAN]]
        <4>1. CASE Store(t, found[t], "done", TRUE)
          BY <3>1, <4>1, StoreOK
        <4>2. CASE loaded' = [loaded EXCEPT ![t] = NoRow] /\ UNCHANGED rows
          BY <3>1, <4>2 DEF TypeOK, NoRow, Statuses, rows
        <4> QED BY <2>16, <4>1, <4>2 DEF DoneRaises
      <3> QED BY <2>16, <3>2, <3>3 DEF DoneRaises, TypeOK, PassOK, dispatch, sends
    <2> QED BY <2>1, <2>2, <2>3, <2>4, <2>5, <2>6, <2>7, <2>8, <2>9, <2>10,
               <2>11, <2>12, <2>13, <2>14, <2>15, <2>16, NextCases
  <1> QED BY <1>1, <1>2, PTL DEF Spec

-----------------------------------------------------------------------------
(* A row leaves the two states before it is handled for good.              *)
Unhandled == {"absent", "pending"}

Marking(d, r) == pc[d] = "marking" /\ current[d] = r

(* An update under way belongs to a dispatcher that marks or to a turn     *)
(* that completes, and one that loaded the status it is to write loaded it *)
(* from a row already handled: skipping that column leaves no row pending. *)
LoadedOK ==
    /\ \A d \in Dispatchers : loaded[d] # NoRow =>
          /\ pc[d] = "marking"
          /\ loaded[d].status = "notified" => status[current[d]] \notin Unhandled
    /\ \A t \in Turns : loaded[t] # NoRow =>
          /\ found[t] # NoReminder
          /\ loaded[t].status = "done" => status[found[t]] \notin Unhandled

(* While a reminder is unhandled, or listed and not yet sent, each send of *)
(* it by a dispatcher lost its mark.                                       *)
SendsOK ==
    \A d \in Dispatchers, r \in Reminders :
        /\ delivered[d][r] <= 1 + lost[d][r]
        /\ (status[r] \in Unhandled \/ r \in batch[d]) /\ ~Marking(d, r)
              => delivered[d][r] <= lost[d][r]

(* The one change of a row by an update.                                   *)
LEMMA StoreHandles ==
    ASSUME TypeOK, NEW a \in Actors, NEW r \in Reminders,
           NEW st \in {"notified", "done"}, NEW done \in BOOLEAN,
           loaded[a].status = st => status[r] \notin Unhandled,
           Store(a, r, st, done)
    PROVE  /\ status'[r] \notin Unhandled
           /\ \A q \in Reminders \ {r} : status'[q] = status[q]
           /\ loaded' = [loaded EXCEPT ![a] = NoRow]
  BY DEF Store, StatusWritten, Written, TypeOK, Unhandled

LEMMA LoadedInit == Init => LoadedOK
  BY DEF Init, LoadedOK, Actors, NoRow

LEMMA LoadedStep == TypeOK /\ LoadedOK /\ [Next]_vars => LoadedOK'
  <1> SUFFICES ASSUME TypeOK, LoadedOK, [Next]_vars PROVE LoadedOK'
    OBVIOUS
  <1> USE ReminderAssumption
  <1>1. CASE ClockTicks
    BY <1>1 DEF ClockTicks, LoadedOK, rows, dispatch
  <1>2. CASE Restart
    BY <1>2 DEF Restart, LoadedOK, Actors
  <1>3. ASSUME NEW r \in Reminders, Create(r) PROVE LoadedOK'
    BY <1>3 DEF Create, LoadedOK, TypeOK, Unhandled, Statuses, dispatch
  <1>4. ASSUME NEW d \in Dispatchers, ListDue(d) PROVE LoadedOK'
    <2>1. Due \in SUBSET Reminders
      BY DEF Due
    <2>2. \A e \in Dispatchers \ {d} : pc'[e] = pc[e] /\ current'[e] = current[e]
      BY <1>4, <2>1, ProceedOK DEF ListDue
    <2>3. loaded[d] = NoRow /\ UNCHANGED <<loaded, status, found>>
      BY <1>4 DEF ListDue, LoadedOK, rows
    <2> QED BY <2>2, <2>3 DEF LoadedOK
  <1>5. ASSUME NEW d \in Dispatchers, SendDelivered(d) PROVE LoadedOK'
    BY <1>5 DEF SendDelivered, LoadedOK, TypeOK, rows
  <1>6. ASSUME NEW d \in Dispatchers, SendRefused(d) PROVE LoadedOK'
    <2>1. Handled(d) \in SUBSET Reminders
      BY DEF Handled, TypeOK
    <2>2. \A e \in Dispatchers \ {d} : pc'[e] = pc[e] /\ current'[e] = current[e]
      BY <1>6, <2>1, ProceedOK DEF SendRefused
    <2>3. loaded[d] = NoRow /\ UNCHANGED <<loaded, status, found>>
      BY <1>6 DEF SendRefused, LoadedOK, rows
    <2> QED BY <2>2, <2>3 DEF LoadedOK
  <1>7. ASSUME NEW d \in Dispatchers, SendRaises(d) PROVE LoadedOK'
    BY <1>7, PassEndsOK DEF SendRaises, LoadedOK, TypeOK, rows
  <1>8. ASSUME NEW d \in Dispatchers, LoadNotified(d) PROVE LoadedOK'
    BY <1>8 DEF LoadNotified, Load, LoadedOK, TypeOK, Actors, Unhandled, rows, dispatch
  <1>9. ASSUME NEW d \in Dispatchers, MarkNotified(d) PROVE LoadedOK'
    <2>1. current[d] \in Reminders /\ d \in Actors
      BY <1>9 DEF MarkNotified, TypeOK, PassOK, Actors
    <2>2. Handled(d) \in SUBSET Reminders
      BY DEF Handled, TypeOK
    <2>3. /\ \A q \in Reminders : status[q] \notin Unhandled => status'[q] \notin Unhandled
          /\ loaded' = [loaded EXCEPT ![d] = NoRow]
      BY <1>9, <2>1, StoreHandles DEF MarkNotified, LoadedOK, Store
    <2>4. \A e \in Dispatchers \ {d} : pc'[e] = pc[e] /\ current'[e] = current[e]
      BY <1>9, <2>2, ProceedOK DEF MarkNotified
    <2>5. \A e \in Dispatchers : pc[e] = "marking" => current[e] \in Reminders
      BY DEF TypeOK, PassOK
    <2>6. \A t \in Turns : found[t] # NoReminder => found[t] \in Reminders
      BY DEF TypeOK
    <2>7. found' = found
      BY <1>9 DEF MarkNotified
    <2> QED BY <2>1, <2>3, <2>4, <2>5, <2>6, <2>7 DEF LoadedOK, TypeOK, Actors
  <1>10. ASSUME NEW t \in Turns, NEW r \in Reminders, FindPending(t, r) PROVE LoadedOK'
    BY <1>10 DEF FindPending, LoadedOK, TypeOK, rows, dispatch
  <1>11. ASSUME NEW t \in Turns, LoadDone(t) PROVE LoadedOK'
    BY <1>11 DEF LoadDone, Load, LoadedOK, TypeOK, Actors, Unhandled, rows, dispatch
  <1>12. ASSUME NEW t \in Turns, MarkDone(t) PROVE LoadedOK'
    <2>1. found[t] \in Reminders /\ t \in Actors
      BY <1>12 DEF MarkDone, TypeOK, Actors
    <2>2. /\ \A q \in Reminders : status[q] \notin Unhandled => status'[q] \notin Unhandled
          /\ loaded' = [loaded EXCEPT ![t] = NoRow]
      BY <1>12, <2>1, StoreHandles DEF MarkDone, LoadedOK, Store
    <2>3. \A e \in Dispatchers : pc[e] = "marking" => current[e] \in Reminders
      BY DEF TypeOK, PassOK
    <2>4. found' = [found EXCEPT ![t] = NoReminder] /\ UNCHANGED dispatch
      BY <1>12 DEF MarkDone
    <2> QED BY <2>1, <2>2, <2>3, <2>4 DEF LoadedOK, TypeOK, Actors, dispatch
  <1>13. CASE UNCHANGED vars
    BY <1>13 DEF vars, LoadedOK, rows, dispatch
  <1>14. ASSUME NEW d \in Dispatchers, ListRaises(d) PROVE LoadedOK'
    <2>1. loaded[d] = NoRow /\ UNCHANGED <<loaded, status, found>>
      BY <1>14 DEF ListRaises, LoadedOK, rows
    <2> QED BY <1>14, <2>1, PassEndsOK DEF ListRaises, LoadedOK
  <1>15. ASSUME NEW d \in Dispatchers, MarkRaises(d) PROVE LoadedOK'
    <2>1. current[d] \in Reminders /\ d \in Actors
      BY <1>15 DEF MarkRaises, TypeOK, PassOK, Actors
    <2>2. /\ \A q \in Reminders : status[q] \notin Unhandled => status'[q] \notin Unhandled
          /\ loaded' = [loaded EXCEPT ![d] = NoRow]
      <3>1. CASE Store(d, current[d], "notified", FALSE)
        BY <2>1, <3>1, StoreHandles DEF LoadedOK, Store
      <3>2. CASE loaded' = [loaded EXCEPT ![d] = NoRow] /\ UNCHANGED rows
        BY <3>2 DEF rows
      <3> QED BY <1>15, <3>1, <3>2 DEF MarkRaises
    <2>3. \A e \in Dispatchers \ {d} : pc'[e] = pc[e] /\ current'[e] = current[e]
      BY <1>15, PassEndsOK DEF MarkRaises
    <2>4. \A e \in Dispatchers : pc[e] = "marking" => current[e] \in Reminders
      BY DEF TypeOK, PassOK
    <2>5. \A t \in Turns : found[t] # NoReminder => found[t] \in Reminders
      BY DEF TypeOK
    <2>6. found' = found
      BY <1>15 DEF MarkRaises
    <2> QED BY <2>1, <2>2, <2>3, <2>4, <2>5, <2>6 DEF LoadedOK, TypeOK, Actors
  <1>16. ASSUME NEW t \in Turns, DoneRaises(t) PROVE LoadedOK'
    <2>1. found[t] \in Reminders /\ t \in Actors
      BY <1>16 DEF DoneRaises, TypeOK, Actors
    <2>2. /\ \A q \in Reminders : status[q] \notin Unhandled => status'[q] \notin Unhandled
          /\ loaded' = [loaded EXCEPT ![t] = NoRow]
      <3>1. CASE Store(t, found[t], "done", TRUE)
        BY <2>1, <3>1, StoreHandles DEF LoadedOK, Store
      <3>2. CASE loaded' = [loaded EXCEPT ![t] = NoRow] /\ UNCHANGED rows
        BY <3>2 DEF rows
      <3> QED BY <1>16, <3>1, <3>2 DEF DoneRaises
    <2>3. \A e \in Dispatchers : pc[e] = "marking" => current[e] \in Reminders
      BY DEF TypeOK, PassOK
    <2>4. found' = [found EXCEPT ![t] = NoReminder] /\ UNCHANGED dispatch
      BY <1>16 DEF DoneRaises
    <2> QED BY <2>1, <2>2, <2>3, <2>4 DEF LoadedOK, TypeOK, Actors, dispatch
  <1> QED BY <1>1, <1>2, <1>3, <1>4, <1>5, <1>6, <1>7, <1>8, <1>9, <1>10,
             <1>11, <1>12, <1>13, <1>14, <1>15, <1>16, NextCases

LEMMA LoadedInvariant == Spec => []LoadedOK
  BY TypeCorrect, LoadedInit, LoadedStep, PTL DEF Spec

-----------------------------------------------------------------------------
LEMMA SendsInit == Init => SendsOK
  BY DEF Init, SendsOK, Zero

LEMMA SendsStep == TypeOK /\ LoadedOK /\ SendsOK /\ [Next]_vars => SendsOK'
  <1> SUFFICES ASSUME TypeOK, LoadedOK, SendsOK, [Next]_vars PROVE SendsOK'
    OBVIOUS
  <1> USE ReminderAssumption
  <1>1. CASE ClockTicks
    BY <1>1 DEF ClockTicks, SendsOK, Marking, rows, dispatch, sends
  <1>2. CASE Restart
    <2>1. \A d \in Dispatchers, r \in Reminders :
            lost'[d][r] = IF Marking(d, r) THEN lost[d][r] + 1 ELSE lost[d][r]
      BY <1>2 DEF Restart, Marking
    <2>2. \A d \in Dispatchers : batch'[d] = {}
      BY <1>2 DEF Restart
    <2>3. UNCHANGED <<status, delivered>>
      BY <1>2 DEF Restart, rows
    <2> QED BY <2>1, <2>2, <2>3 DEF SendsOK, TypeOK
  <1>3. ASSUME NEW r \in Reminders, Create(r) PROVE SendsOK'
    BY <1>3 DEF Create, SendsOK, Marking, Unhandled, TypeOK, dispatch, sends
  <1>4. ASSUME NEW d \in Dispatchers, ListDue(d) PROVE SendsOK'
    <2>1. Due \in SUBSET Reminders /\ \A r \in Due : status[r] \in Unhandled
      BY DEF Due, Unhandled
    <2>2. \A e \in Dispatchers \ {d} : pc'[e] = pc[e] /\ current'[e] = current[e]
      BY <1>4, <2>1, ProceedOK DEF ListDue
    <2>3. /\ pc[d] = "idle" /\ batch' = [batch EXCEPT ![d] = Due]
          /\ UNCHANGED <<status, delivered, lost>>
      BY <1>4 DEF ListDue, rows, sends
    <2> QED BY <2>1, <2>2, <2>3 DEF SendsOK, Marking, TypeOK
  <1>5. ASSUME NEW d \in Dispatchers, SendDelivered(d) PROVE SendsOK'
    <2>1. current[d] \in Reminders /\ current[d] \in batch[d] /\ pc[d] = "sending"
      BY <1>5 DEF SendDelivered, TypeOK, PassOK
    <2>2. /\ delivered'[d][current[d]] = delivered[d][current[d]] + 1
          /\ \A e \in Dispatchers, q \in Reminders :
                <<e, q>> # <<d, current[d]>> => delivered'[e][q] = delivered[e][q]
      <3>1. delivered \in [Dispatchers -> [Reminders -> Nat]]
        BY DEF TypeOK
      <3>2. delivered' = Plus1(delivered, d, current[d])
        BY <1>5 DEF SendDelivered
      <3> QED BY <2>1, <3>1, <3>2 DEF Plus1
    <2>3. /\ pc' = [pc EXCEPT ![d] = "marking"]
          /\ UNCHANGED <<status, batch, current, lost>>
      BY <1>5 DEF SendDelivered, rows
    <2>4. ~Marking(d, current[d]) /\ pc'[d] = "marking" /\ current'[d] = current[d]
      BY <2>1, <2>3 DEF Marking, TypeOK
    <2>5. \A e \in Dispatchers, q \in Reminders :
            <<e, q>> # <<d, current[d]>> => (Marking(e, q)' <=> Marking(e, q))
      BY <2>1, <2>3 DEF Marking, TypeOK
    <2>6. \A e \in Dispatchers, q \in Reminders :
            delivered[e][q] \in Nat /\ lost[e][q] \in Nat
      BY DEF TypeOK
    <2> SUFFICES ASSUME NEW e \in Dispatchers, NEW q \in Reminders
                 PROVE  /\ delivered'[e][q] <= 1 + lost'[e][q]
                        /\ (status'[q] \in Unhandled \/ q \in batch'[e]) /\ ~Marking(e, q)'
                              => delivered'[e][q] <= lost'[e][q]
      BY DEF SendsOK
    <2>7. CASE e = d /\ q = current[d]
      <3>1. delivered[d][current[d]] <= lost[d][current[d]]
        BY <2>1, <2>4 DEF SendsOK
      <3>2. lost' = lost /\ delivered'[d][current[d]] = delivered[d][current[d]] + 1
        BY <2>2, <2>3
      <3>3. Marking(e, q)'
        BY <2>4, <2>7 DEF Marking
      <3>4. delivered'[e][q] = delivered[e][q] + 1 /\ lost'[e][q] = lost[e][q]
        BY <2>7, <3>2
      <3>5. delivered[e][q] <= lost[e][q]
        BY <2>7, <3>1
      <3>6. delivered[e][q] \in Nat /\ lost[e][q] \in Nat
        BY <2>6
      <3>7. delivered'[e][q] <= 1 + lost'[e][q]
        BY <3>4, <3>5, <3>6
      <3> QED BY <3>3, <3>7
    <2>8. CASE <<e, q>> # <<d, current[d]>>
      BY <2>2, <2>3, <2>5, <2>8 DEF SendsOK
    <2> QED BY <2>7, <2>8
  <1>6. ASSUME NEW d \in Dispatchers, SendRefused(d) PROVE SendsOK'
    <2>1. Handled(d) \in SUBSET Reminders /\ Handled(d) \subseteq batch[d]
      BY DEF Handled, TypeOK
    <2>2. \A e \in Dispatchers \ {d} : pc'[e] = pc[e] /\ current'[e] = current[e]
      BY <1>6, <2>1, ProceedOK DEF SendRefused
    <2>3. /\ pc[d] = "sending" /\ batch' = [batch EXCEPT ![d] = Handled(d)]
          /\ UNCHANGED <<status, delivered, lost>>
      BY <1>6 DEF SendRefused, rows, sends
    <2> QED BY <2>1, <2>2, <2>3 DEF SendsOK, Marking, TypeOK
  <1>7. ASSUME NEW d \in Dispatchers, SendRaises(d) PROVE SendsOK'
    <2>1. current[d] \in Reminders /\ current[d] \in batch[d] /\ pc[d] = "sending"
      BY <1>7 DEF SendRaises, TypeOK, PassOK
    <2>2. \A e \in Dispatchers, q \in Reminders :
            \/ delivered'[e][q] = delivered[e][q] /\ lost'[e][q] = lost[e][q]
            \/ delivered'[e][q] = delivered[e][q] + 1 /\ lost'[e][q] = lost[e][q] + 1
      <3>1. /\ delivered \in [Dispatchers -> [Reminders -> Nat]]
            /\ lost \in [Dispatchers -> [Reminders -> Nat]]
        BY DEF TypeOK
      <3>2. CASE /\ delivered' = Plus1(delivered, d, current[d])
                 /\ lost' = Plus1(lost, d, current[d])
        <4> SUFFICES ASSUME NEW e \in Dispatchers, NEW q \in Reminders
                     PROVE  \/ delivered'[e][q] = delivered[e][q] /\ lost'[e][q] = lost[e][q]
                            \/ /\ delivered'[e][q] = delivered[e][q] + 1
                               /\ lost'[e][q] = lost[e][q] + 1
          OBVIOUS
        <4>1. CASE e = d /\ q = current[d]
          BY <2>1, <3>1, <3>2, <4>1 DEF Plus1
        <4>2. CASE <<e, q>> # <<d, current[d]>>
          BY <2>1, <3>1, <3>2, <4>2 DEF Plus1
        <4> QED BY <4>1, <4>2
      <3>3. CASE UNCHANGED <<delivered, lost>>
        BY <3>3
      <3> QED BY <1>7, <3>2, <3>3 DEF SendRaises
    <2>3. PassEnds(d) /\ status' = status
      BY <1>7 DEF SendRaises, rows
    <2>4. \A e \in Dispatchers, q \in Reminders :
            /\ q \in batch'[e] => q \in batch[e]
            /\ Marking(e, q) => Marking(e, q)'
      BY <2>1, <2>3, PassEndsOK DEF Marking, TypeOK
    <2>5. \A e \in Dispatchers, q \in Reminders :
            delivered[e][q] \in Nat /\ lost[e][q] \in Nat
      BY DEF TypeOK
    <2> SUFFICES ASSUME NEW e \in Dispatchers, NEW q \in Reminders
                 PROVE  /\ delivered'[e][q] <= 1 + lost'[e][q]
                        /\ (status'[q] \in Unhandled \/ q \in batch'[e]) /\ ~Marking(e, q)'
                              => delivered'[e][q] <= lost'[e][q]
      BY DEF SendsOK
    <2>6. /\ delivered[e][q] <= 1 + lost[e][q]
          /\ (status[q] \in Unhandled \/ q \in batch[e]) /\ ~Marking(e, q)
                => delivered[e][q] <= lost[e][q]
      BY DEF SendsOK
    <2>7. delivered[e][q] \in Nat /\ lost[e][q] \in Nat
      BY <2>5
    <2>8. \/ delivered'[e][q] = delivered[e][q] /\ lost'[e][q] = lost[e][q]
          \/ delivered'[e][q] = delivered[e][q] + 1 /\ lost'[e][q] = lost[e][q] + 1
      BY <2>2
    <2>9. delivered'[e][q] <= 1 + lost'[e][q]
      BY <2>6, <2>7, <2>8
    <2>10. ASSUME status'[q] \in Unhandled \/ q \in batch'[e], ~Marking(e, q)'
           PROVE  delivered'[e][q] <= lost'[e][q]
      <3>1. delivered[e][q] <= lost[e][q]
        BY <2>3, <2>4, <2>6, <2>10
      <3> QED BY <2>7, <2>8, <3>1
    <2> QED BY <2>9, <2>10
  <1>8. ASSUME NEW d \in Dispatchers, LoadNotified(d) PROVE SendsOK'
    BY <1>8 DEF LoadNotified, SendsOK, Marking, rows, dispatch, sends
  <1>9. ASSUME NEW d \in Dispatchers, MarkNotified(d) PROVE SendsOK'
    <2>1. current[d] \in Reminders /\ d \in Actors /\ pc[d] = "marking"
      BY <1>9 DEF MarkNotified, TypeOK, PassOK, Actors
    <2>2. Handled(d) \in SUBSET Reminders /\ Handled(d) = batch[d] \ {current[d]}
      BY DEF Handled, TypeOK
    <2>3. /\ status'[current[d]] \notin Unhandled
          /\ \A q \in Reminders \ {current[d]} : status'[q] = status[q]
      BY <1>9, <2>1, StoreHandles DEF MarkNotified, LoadedOK, Store
    <2>4. \A e \in Dispatchers \ {d} : pc'[e] = pc[e] /\ current'[e] = current[e]
      BY <1>9, <2>2, ProceedOK DEF MarkNotified
    <2>5. batch' = [batch EXCEPT ![d] = Handled(d)] /\ UNCHANGED <<delivered, lost>>
      BY <1>9 DEF MarkNotified, sends
    <2> QED BY <2>1, <2>2, <2>3, <2>4, <2>5 DEF SendsOK, Marking, TypeOK
  <1>10. ASSUME NEW t \in Turns, NEW r \in Reminders, FindPending(t, r) PROVE SendsOK'
    BY <1>10 DEF FindPending, SendsOK, Marking, rows, dispatch, sends
  <1>11. ASSUME NEW t \in Turns, LoadDone(t) PROVE SendsOK'
    BY <1>11 DEF LoadDone, SendsOK, Marking, rows, dispatch, sends
  <1>12. ASSUME NEW t \in Turns, MarkDone(t) PROVE SendsOK'
    <2>1. found[t] \in Reminders /\ t \in Actors
      BY <1>12 DEF MarkDone, TypeOK, Actors
    <2>2. \A q \in Reminders : status'[q] \in Unhandled => status[q] \in Unhandled
      BY <1>12, <2>1, StoreHandles DEF MarkDone, LoadedOK, Store
    <2>3. UNCHANGED <<pc, batch, current, delivered, lost>>
      BY <1>12 DEF MarkDone, dispatch, sends
    <2> QED BY <2>2, <2>3 DEF SendsOK, Marking
  <1>13. CASE UNCHANGED vars
    BY <1>13 DEF vars, SendsOK, Marking, rows, dispatch, sends
  <1>14. ASSUME NEW d \in Dispatchers, ListRaises(d) PROVE SendsOK'
    <2>1. pc[d] = "idle" /\ UNCHANGED <<status, delivered, lost>>
      BY <1>14 DEF ListRaises, rows, sends
    <2> QED BY <1>14, <2>1, PassEndsOK DEF ListRaises, SendsOK, Marking
  <1>15. ASSUME NEW d \in Dispatchers, MarkRaises(d) PROVE SendsOK'
    <2>1. current[d] \in Reminders /\ d \in Actors /\ pc[d] = "marking" /\ PassEnds(d)
      BY <1>15 DEF MarkRaises, TypeOK, PassOK, Actors
    <2>2. /\ \A e \in Dispatchers, q \in Reminders : q \in batch'[e] => q \in batch[e]
          /\ \A e \in Dispatchers, q \in Reminders :
                <<e, q>> # <<d, current[d]>> => (Marking(e, q) => Marking(e, q)')
          /\ current[d] \notin batch'[d] /\ delivered' = delivered
      BY <1>15, <2>1, PassEndsOK DEF MarkRaises, Marking, TypeOK
    <2>3. \A e \in Dispatchers, q \in Reminders :
            delivered[e][q] \in Nat /\ lost[e][q] \in Nat
      BY DEF TypeOK
    <2>4. CASE Store(d, current[d], "notified", FALSE) /\ UNCHANGED lost
      <3>1. /\ status'[current[d]] \notin Unhandled
            /\ \A q \in Reminders \ {current[d]} : status'[q] = status[q]
        BY <2>1, <2>4, StoreHandles DEF LoadedOK, Store
      <3> QED BY <2>1, <2>2, <2>4, <3>1 DEF SendsOK
    <2>5. CASE lost' = Plus1(lost, d, current[d]) /\ UNCHANGED rows
      <3>1. /\ lost'[d][current[d]] = lost[d][current[d]] + 1
            /\ \A e \in Dispatchers, q \in Reminders :
                  <<e, q>> # <<d, current[d]>> => lost'[e][q] = lost[e][q]
        <4>1. lost \in [Dispatchers -> [Reminders -> Nat]]
          BY DEF TypeOK
        <4> QED BY <2>1, <2>5, <4>1 DEF Plus1
      <3>2. status' = status
        BY <2>5 DEF rows
      <3> SUFFICES ASSUME NEW e \in Dispatchers, NEW q \in Reminders
                   PROVE  /\ delivered'[e][q] <= 1 + lost'[e][q]
                          /\ (status'[q] \in Unhandled \/ q \in batch'[e]) /\ ~Marking(e, q)'
                                => delivered'[e][q] <= lost'[e][q]
        BY DEF SendsOK
      <3>3. CASE e = d /\ q = current[d]
        <4>1. delivered'[e][q] = delivered[e][q] /\ lost'[e][q] = lost[e][q] + 1
          BY <2>2, <3>1, <3>3
        <4>2. delivered[e][q] <= 1 + lost[e][q]
          BY DEF SendsOK
        <4> QED BY <2>3, <4>1, <4>2
      <3>4. CASE <<e, q>> # <<d, current[d]>>
        BY <2>2, <3>1, <3>2, <3>4 DEF SendsOK
      <3> QED BY <3>3, <3>4
    <2> QED BY <1>15, <2>4, <2>5 DEF MarkRaises
  <1>16. ASSUME NEW t \in Turns, DoneRaises(t) PROVE SendsOK'
    <2>1. found[t] \in Reminders /\ t \in Actors
      BY <1>16 DEF DoneRaises, TypeOK, Actors
    <2>2. \A q \in Reminders : status'[q] \in Unhandled => status[q] \in Unhandled
      <3>1. CASE Store(t, found[t], "done", TRUE)
        BY <2>1, <3>1, StoreHandles DEF LoadedOK, Store
      <3>2. CASE UNCHANGED rows
        BY <3>2 DEF rows
      <3> QED BY <1>16, <3>1, <3>2 DEF DoneRaises
    <2>3. UNCHANGED <<pc, batch, current, delivered, lost>>
      BY <1>16 DEF DoneRaises, dispatch, sends
    <2> QED BY <2>2, <2>3 DEF SendsOK, Marking
  <1> QED BY <1>1, <1>2, <1>3, <1>4, <1>5, <1>6, <1>7, <1>8, <1>9, <1>10,
             <1>11, <1>12, <1>13, <1>14, <1>15, <1>16, NextCases

(* dispatch_due sends a reminder again only after a send whose mark an     *)
(* exception or a restart prevented, whatever other dispatchers and        *)
(* completions do to the row meanwhile.                                    *)
THEOREM SentOnce == Spec => []SentOncePerDispatcher
  <1>1. SendsOK => SentOncePerDispatcher
    BY DEF SendsOK, SentOncePerDispatcher
  <1> QED BY <1>1, TypeCorrect, LoadedInvariant, SendsInit, SendsStep, PTL DEF Spec

-----------------------------------------------------------------------------
LEMMA SettledStep ==
    ASSUME TypeOK, [Next]_vars, NEW r \in Reminders, Settled(r)
    PROVE  Settled(r)'
  <1> USE ReminderAssumption
  <1>1. CASE ClockTicks
    BY <1>1 DEF ClockTicks, Settled, rows, dispatch
  <1>2. CASE Restart
    BY <1>2 DEF Restart, Settled, rows
  <1>3. ASSUME NEW q \in Reminders, Create(q) PROVE Settled(r)'
    BY <1>3 DEF Create, Settled, TypeOK, dispatch
  <1>4. ASSUME NEW d \in Dispatchers, ListDue(d) PROVE Settled(r)'
    <2>1. r \notin Due
      BY DEF Due, Settled
    <2> QED BY <1>4, <2>1 DEF ListDue, Settled, TypeOK, rows
  <1>5. ASSUME NEW d \in Dispatchers, SendDelivered(d) PROVE Settled(r)'
    BY <1>5 DEF SendDelivered, Settled, rows
  <1>6. ASSUME NEW d \in Dispatchers, SendRefused(d) PROVE Settled(r)'
    BY <1>6 DEF SendRefused, Settled, Handled, TypeOK, rows
  <1>7. ASSUME NEW d \in Dispatchers, SendRaises(d) PROVE Settled(r)'
    BY <1>7, PassEndsOK DEF SendRaises, Settled, rows
  <1>8. ASSUME NEW d \in Dispatchers, LoadNotified(d) PROVE Settled(r)'
    BY <1>8 DEF LoadNotified, Settled, rows, dispatch
  <1>9. ASSUME NEW d \in Dispatchers, MarkNotified(d) PROVE Settled(r)'
    <2>1. current[d] \in batch[d]
      BY <1>9 DEF MarkNotified, TypeOK, PassOK
    <2>2. current[d] # r
      BY <2>1 DEF Settled
    <2>3. status'[r] = status[r] /\ completed'[r] = completed[r]
      <3>1. Store(d, current[d], "notified", FALSE)
        BY <1>9 DEF MarkNotified
      <3>2. status \in [Reminders -> Statuses] /\ completed \in [Reminders -> BOOLEAN]
        BY DEF TypeOK
      <3> QED BY <2>2, <3>1, <3>2 DEF Store
    <2>4. batch' = [batch EXCEPT ![d] = Handled(d)]
      BY <1>9 DEF MarkNotified
    <2> QED BY <2>3, <2>4 DEF Settled, Handled, TypeOK
  <1>10. ASSUME NEW t \in Turns, NEW q \in Reminders, FindPending(t, q) PROVE Settled(r)'
    BY <1>10 DEF FindPending, Settled, rows, dispatch
  <1>11. ASSUME NEW t \in Turns, LoadDone(t) PROVE Settled(r)'
    BY <1>11 DEF LoadDone, Settled, rows, dispatch
  <1>12. ASSUME NEW t \in Turns, MarkDone(t) PROVE Settled(r)'
    <2>1. status'[r] = "done"
      BY <1>12 DEF MarkDone, Store, StatusWritten, Written, Settled, TypeOK
    <2>2. completed'[r]
      BY <1>12 DEF MarkDone, Store, Settled, TypeOK
    <2> QED BY <1>12, <2>1, <2>2 DEF MarkDone, Settled, dispatch
  <1>13. CASE UNCHANGED vars
    BY <1>13 DEF vars, Settled, rows, dispatch
  <1>14. ASSUME NEW d \in Dispatchers, ListRaises(d) PROVE Settled(r)'
    BY <1>14, PassEndsOK DEF ListRaises, Settled, rows
  <1>15. ASSUME NEW d \in Dispatchers, MarkRaises(d) PROVE Settled(r)'
    <2>1. current[d] \in batch[d] /\ PassEnds(d)
      BY <1>15 DEF MarkRaises, TypeOK, PassOK
    <2>2. current[d] # r
      BY <2>1 DEF Settled
    <2>3. status'[r] = status[r] /\ completed'[r] = completed[r]
      <3>1. status \in [Reminders -> Statuses] /\ completed \in [Reminders -> BOOLEAN]
        BY DEF TypeOK
      <3>2. CASE Store(d, current[d], "notified", FALSE)
        BY <2>2, <3>1, <3>2 DEF Store
      <3>3. CASE UNCHANGED rows
        BY <3>3 DEF rows
      <3> QED BY <1>15, <3>2, <3>3 DEF MarkRaises
    <2> QED BY <2>1, <2>3, PassEndsOK DEF Settled
  <1>16. ASSUME NEW t \in Turns, DoneRaises(t) PROVE Settled(r)'
    <2>1. status'[r] = "done" /\ completed'[r]
      <3>1. status \in [Reminders -> Statuses] /\ completed \in [Reminders -> BOOLEAN]
        BY DEF TypeOK
      <3>2. CASE Store(t, found[t], "done", TRUE)
        BY <3>1, <3>2 DEF Store, StatusWritten, Written, Settled
      <3>3. CASE UNCHANGED rows
        BY <3>3 DEF rows, Settled
      <3> QED BY <1>16, <3>2, <3>3 DEF DoneRaises
    <2> QED BY <1>16, <2>1 DEF DoneRaises, Settled, dispatch
  <1> QED BY <1>1, <1>2, <1>3, <1>4, <1>5, <1>6, <1>7, <1>8, <1>9, <1>10,
             <1>11, <1>12, <1>13, <1>14, <1>15, <1>16, NextCases

(* A completion with its date is final once no dispatcher has the reminder *)
(* in its listed batch: neither mark_notified nor another completion       *)
(* undoes it.                                                              *)
THEOREM CompletionFinal == Spec => SettledForGood
  <1>1. TypeOK /\ [Next]_vars
            => [\A r \in Reminders : Settled(r) => Settled(r)']_vars
    BY SettledStep
  <1> QED BY <1>1, TypeCorrect, PTL DEF Spec, SettledForGood

=============================================================================
