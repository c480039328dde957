------------------------------ MODULE Assistant ------------------------------
(***************************************************************************)
(* The assistant: AssistantEngine.handle_message with its agent, its       *)
(* router and its tools, called by the Kapso webhook, which answers the    *)
(* messages of one delivery one after the other on the event loop, and by  *)
(* the threads of /assistant/message.  Kapso delivers a payload again      *)
(* whenever it sees fit, above all after an error.                         *)
(*                                                                         *)
(* A turn commits the inbound row, asks the agent, falls back to the       *)
(* router, acts, commits the outbound row and sends the reply: each of     *)
(* these is an action, any of them may raise, and turns interleave.  The   *)
(* models behind planner and extraction answer what they like.             *)
(***************************************************************************)
EXTENDS AssistantTools

Intents == INSTANCE IntentRouting

CONSTANTS
    Threads,        \* of /assistant/message
    Messages,
    TextOf(_),      \* what IntentRouting reads in a message
    BusinessOf(_),
    Usable,         \* messages with a sender and something to answer
    Reachable,      \* those whose sender Kapso can answer
    Direct,         \* the messages posted to /assistant/message
    Batches,        \* what Kapso delivers: [signed, event, messages]
    Stored,         \* reminders at the start: [business, title, due, status]
    Plans,          \* names of what the planner may answer,
    PlanOf(_),      \* [sure, mode, steps]
    Extractions,    \* what the model of the router may answer; {None} without one
    Registered,     \* the tools of the registry
    MaxSteps,       \* AGENT_MAX_STEPS
    Now,            \* in minutes, when every message arrives
    MaxCalls        \* bound on the payloads and requests taken in

Today == Now \div 1440
Webhook == "webhook"
Handlers == {Webhook} \cup Threads

\* Text numbers are digits, and a plan to execute has a step.
ASSUME AssistantAssumption ==
    /\ IsFiniteSet(Threads) /\ Webhook \notin Threads
    /\ None \notin Nat \X Nat
    /\ None \notin {"low_confidence", "planner_or_execution_error", "inventory.stock_status",
                   "catalog.search_products", "sales.top_products", "sales.summary",
                   "sales.compare_periods", "sales.product_history"}
    /\ Direct \subseteq Messages
    /\ \A batch \in Batches : batch.messages \in Seq(Messages)
    /\ Stored \in Seq(Range(Stored))
    /\ \A i \in DOMAIN Stored : Stored[i].by \notin Messages
    /\ MaxSteps \in Nat
    /\ \A plan \in Plans :
          PlanOf(plan).mode = "execute_plan" => Len(PlanOf(plan).steps) \in Nat \ {0}
    /\ \A m \in Messages :
          /\ {TextOf(m).skip, TextOf(m).top} \subseteq Nat \cup {None}
          /\ TextOf(m).range \in Nat \X Nat \cup {None}

VARIABLES
    agent,      \* a planner and a registry are configured
    calls,      \* payloads and requests so far, for MaxCalls
    given,      \* how often each message was handed to the assistant
    inbound,    \* rows saved of it
    outbound,   \* rows saved of the replies to it
    newest,     \* the reply saved last, [message, reason, reply]
    sent,       \* replies of it that reached Kapso
    reminders,
    turn        \* what each handler is doing

assistantVars == <<agent, calls, given, inbound, outbound, newest, sent, reminders, turn>>

Silent == [by |-> None, plan |-> None, ran |-> <<>>, asks |-> FALSE, tool |-> None,
           shows |-> None, done |-> None]
Resting == [pc |-> "idle", queue |-> <<>>, reason |-> None, plan |-> None, ran |-> <<>>,
            intent |-> None, found |-> None, response |-> Silent]

AssistantInit ==
    /\ agent \in BOOLEAN
    /\ calls = 0
    /\ given = [m \in Messages |-> 0]
    /\ inbound = [m \in Messages |-> 0]
    /\ outbound = [m \in Messages |-> 0]
    /\ newest = None
    /\ sent = [m \in Messages |-> 0]
    /\ reminders = Stored
    /\ turn = [h \in Handlers |-> Resting]

Goes(h, from, to) ==
    /\ turn[h].pc = from
    /\ turn' = [turn EXCEPT ![h].pc = to]

\* A handler goes on with the messages that are left.
Onwards(h, queue) ==
    turn' = [turn EXCEPT ![h] =
                IF queue = <<>> THEN Resting
                ELSE [Resting EXCEPT !.pc = "inbound", !.queue = queue]]

Message(h) == Head(turn[h].queue)

-----------------------------------------------------------------------------
(* The two entrances.                                                      *)

\* Every event of a payload must become a request before any is handled: a
\* sender, and a text or an attachment.
Accepted(batch) ==
    /\ batch.signed
    /\ batch.event \in {None, "whatsapp.message.received"}
    /\ \A m \in Range(batch.messages) : m \in Usable

Give(messages) ==
    /\ calls < MaxCalls
    /\ calls' = calls + 1
    /\ given' = [m \in Messages |->
                    given[m] + Cardinality({i \in DOMAIN messages : messages[i] = m})]

Deliver == \E batch \in Batches :
    /\ turn[Webhook].pc = "idle"
    /\ Give(batch.messages)
    /\ Onwards(Webhook, IF Accepted(batch) THEN batch.messages ELSE <<>>)
    /\ UNCHANGED <<agent, inbound, outbound, newest, sent, reminders>>

Receive(h) == \E m \in Direct :
    /\ h \in Threads /\ turn[h].pc = "idle" /\ m \in Usable
    /\ Give(<<m>>)
    /\ Onwards(h, <<m>>)
    /\ UNCHANGED <<agent, inbound, outbound, newest, sent, reminders>>

-----------------------------------------------------------------------------
(* handle_message: the inbound row, and the agent.                         *)

SaveInbound(h) ==
    /\ Goes(h, "inbound", "agent")
    /\ inbound' = [inbound EXCEPT ![Message(h)] = @ + 1]
    /\ UNCHANGED <<agent, calls, given, outbound, newest, sent, reminders>>

Respond(h, response) ==
    turn' = [turn EXCEPT ![h] = [@ EXCEPT !.pc = "outbound", !.response = response]]

FallBack(h, reason) ==
    turn' = [turn EXCEPT ![h] = [@ EXCEPT !.pc = "route", !.reason = reason]]

NoAgent(h) ==
    /\ turn[h].pc = "agent" /\ ~ agent
    /\ FallBack(h, None)
    /\ UNCHANGED <<agent, calls, given, inbound, outbound, newest, sent, reminders>>

\* No plan, one of little confidence, or one of too many steps.
PlanRefused(h) ==
    /\ turn[h].pc = "agent" /\ agent
    /\ \/ FallBack(h, "planner_or_execution_error")
       \/ /\ \E plan \in Plans : ~ PlanOf(plan).sure
          /\ FallBack(h, "low_confidence")
    /\ UNCHANGED <<agent, calls, given, inbound, outbound, newest, sent, reminders>>

\* A direct answer or a question is a reply without steps.
PlanTaken(h) == \E plan \in Plans :
    /\ turn[h].pc = "agent" /\ agent /\ PlanOf(plan).sure
    /\ IF PlanOf(plan).mode = "execute_plan"
       THEN /\ Len(PlanOf(plan).steps) <= MaxSteps
            /\ turn' = [turn EXCEPT ![h] = [@ EXCEPT !.pc = "steps", !.plan = plan]]
       ELSE Respond(h, [Silent EXCEPT !.by = "agent", !.plan = plan,
                                      !.asks = PlanOf(plan).mode = "ask_clarification"])
    /\ UNCHANGED <<agent, calls, given, inbound, outbound, newest, sent, reminders>>

SalesTools == {"sales.top_products", "sales.summary", "sales.compare_periods",
               "sales.product_history"}

\* AssistantToolRegistry.execute and the validation of the arguments: the
\* business is the message's, whatever the arguments say.
Raises(tool, query, business) ==
    \/ tool \notin Registered
    \/ tool \in SalesTools /\ \/ query.business \notin {None, business}
                              \/ ~ ValidQuery(query)
                              \/ tool = "sales.product_history" /\ query.business # None
                              \/ tool # "sales.compare_periods" /\ query.comparisonFrom # None
                              \/ tool # "sales.top_products"
                                    /\ {query.rankFrom, query.rankTo, query.minQuantity} # {None}

SalesTool(tool, query, business, scope) ==
    CASE tool = "sales.top_products"    -> TopProductsTool(business, query, scope)
      [] tool = "sales.summary"         -> {SummaryTool(business, query, scope)}
      [] tool = "sales.compare_periods" -> {CompareTool(business, query, scope)}
      [] tool = "sales.product_history" ->
            {HistoryTool(business, ResolveProduct[business, query.product], scope)}

\* The answers that a tool may give.
RunTool(tool, query, business) ==
    CASE tool \in SalesTools -> SalesTool(tool, query, business, Scope(business, query, Today))
      [] tool \in {"inventory.stock_status", "catalog.search_products"} ->
            SearchTool(business, query)
      [] tool = "catalog.resolve_families" -> {ResolveFamiliesTool(business, query)}
      [] tool = "catalog.resolve_products" -> {ResolveProductsTool(business, query)}

NextStep(h) == PlanOf(turn[h].plan).steps[Len(turn[h].ran) + 1]

\* A question ends the plan.
GoOn(h, ran) ==
    IF Last(ran).asks \/ Len(ran) = Len(PlanOf(turn[h].plan).steps)
    THEN Respond(h, [Silent EXCEPT !.by = "agent", !.plan = turn[h].plan, !.ran = ran,
                                   !.asks = Last(ran).asks, !.shows = Last(ran).shows])
    ELSE turn' = [turn EXCEPT ![h].ran = ran]

Step(h) ==
    LET step == NextStep(h)
        business == BusinessOf(Message(h))
    IN  /\ turn[h].pc = "steps"
        /\ ~ Raises(step.tool, step.query, business)
        /\ \E result \in RunTool(step.tool, step.query, business) :
              GoOn(h, Append(turn[h].ran, result))
        /\ UNCHANGED <<agent, calls, given, inbound, outbound, newest, sent, reminders>>

\* A step raises, for its arguments or because a query failed: what the
\* steps before it found is thrown away.
StepRaisesKeepingSteps(h) ==
    /\ turn[h].pc = "steps"
    /\ Respond(h, [Silent EXCEPT !.by = "agent", !.plan = turn[h].plan, !.ran = turn[h].ran])
    /\ UNCHANGED <<agent, calls, given, inbound, outbound, newest, sent, reminders>>
StepRaises(h) ==
    /\ turn[h].pc = "steps"
    /\ FallBack(h, "planner_or_execution_error")
    /\ UNCHANGED <<agent, calls, given, inbound, outbound, newest, sent, reminders>>

-----------------------------------------------------------------------------
(* The router and what its intent makes of the reminders.                  *)

Routed(h) == \E extraction \in Extractions :
    LET intent == Intents!LLMRoute(TextOf(Message(h)), extraction, Now)
    IN  /\ turn[h].pc = "route"
        /\ IF intent.asks
           THEN Respond(h, [Silent EXCEPT !.by = intent.by, !.asks = TRUE])
           ELSE turn' = [turn EXCEPT ![h] = [@ EXCEPT !.pc = "act", !.intent = intent]]
        /\ UNCHANGED <<agent, calls, given, inbound, outbound, newest, sent, reminders>>

Acting(h, intents) == turn[h].pc = "act" /\ turn[h].intent.intent \in intents
Pending(i, business) == reminders[i].business = business /\ reminders[i].status = "pending"

\* A reminder without title is asked for; the service takes the business of
\* the message.
CreateReminder(h) ==
    LET entities == turn[h].intent.entities
    IN  /\ Acting(h, {"create_reminder"})
        /\ Respond(h, [Silent EXCEPT !.by = turn[h].intent.by, !.asks = entities.title = None])
        /\ reminders' = IF entities.title = None THEN reminders
                        ELSE Append(reminders,
                               [business |-> BusinessOf(Message(h)), title |-> entities.title,
                                due |-> entities.due, status |-> "pending", by |-> Message(h)])
        /\ UNCHANGED <<agent, calls, given, inbound, outbound, newest, sent>>

\* get_pending_by_id, find_pending_by_title: an id has precedence, and the
\* first pending reminder with the title is taken.
Wanted(entities, business) ==
    {i \in DOMAIN reminders :
        /\ Pending(i, business)
        /\ IF entities.id # None THEN i = entities.id ELSE reminders[i].title = entities.title}

FindReminder(h) ==
    LET wanted == Wanted(turn[h].intent.entities, BusinessOf(Message(h)))
    IN  /\ Acting(h, {"mark_reminder_done"})
        /\ IF wanted = {} THEN Respond(h, [Silent EXCEPT !.by = turn[h].intent.by])
           ELSE turn' = [turn EXCEPT ![h] = [@ EXCEPT !.pc = "complete", !.found = Min(wanted)]]
        /\ UNCHANGED <<agent, calls, given, inbound, outbound, newest, sent, reminders>>

\* update writes the copy of the row that the search read.
CompleteReminder(h) ==
    /\ turn[h].pc = "complete"
    /\ reminders' = [reminders EXCEPT ![turn[h].found].status = "done"]
    /\ Respond(h, [Silent EXCEPT !.by = turn[h].intent.by, !.done = turn[h].found])
    /\ UNCHANGED <<agent, calls, given, inbound, outbound, newest, sent>>

\* The panel, its alerts, the daily summary, the list of reminders and the
\* answer to what is not understood change nothing, nor does the reply that
\* there is no database: no panel, no registry, and then no agent either.
Tell(h) ==
    /\ \/ Acting(h, {"list_reminders", "get_operations_dashboard", "list_operational_alerts",
                     "get_daily_summary", "unknown"})
       \/ ~ agent /\ Acting(h, {"query_tool", "query_sales_top_products"})
    /\ Respond(h, [Silent EXCEPT !.by = turn[h].intent.by])
    /\ UNCHANGED <<agent, calls, given, inbound, outbound, newest, sent, reminders>>

\* Invalid arguments are a question, not an error.
Answered(h, tool, result) ==
    Respond(h, [Silent EXCEPT !.by = turn[h].intent.by, !.tool = tool, !.asks = result.asks,
                              !.shows = result.shows])

QueryTool(h) ==
    LET intent == turn[h].intent
        tool == IF intent.tool = None THEN "sales.top_products" ELSE intent.tool
        business == BusinessOf(Message(h))
    IN  /\ Acting(h, {"query_tool", "query_sales_top_products"})
        /\ \E result \in IF Raises(tool, intent.entities, business) THEN {Asks}
                         ELSE RunTool(tool, intent.entities, business) :
              Answered(h, tool, result)
        /\ UNCHANGED <<agent, calls, given, inbound, outbound, newest, sent, reminders>>

-----------------------------------------------------------------------------
(* The outbound row, and the reply.                                        *)

\* The diagnostics of the agent go into the metadata of whatever answers.
SaveOutbound(h) ==
    /\ turn[h].pc = "outbound"
    /\ outbound' = [outbound EXCEPT ![Message(h)] = @ + 1]
    /\ newest' = [message |-> Message(h), reason |-> turn[h].reason, reply |-> turn[h].response]
    /\ turn' = [turn EXCEPT ![h] = IF h = Webhook THEN [@ EXCEPT !.pc = "send"] ELSE Resting]
    /\ UNCHANGED <<agent, calls, given, inbound, sent, reminders>>

\* send_response: skipped, sent or refused; what urlopen raises besides
\* URLError ends the webhook, whether the reply got through or not.
Send(h) == \E delivered \in BOOLEAN, raises \in BOOLEAN :
    /\ turn[h].pc = "send"
    /\ delivered \/ raises => Message(h) \in Reachable
    /\ sent' = [sent EXCEPT ![Message(h)] = IF delivered THEN @ + 1 ELSE @]
    /\ Onwards(h, IF raises THEN <<>> ELSE Tail(turn[h].queue))
    /\ UNCHANGED <<agent, calls, given, inbound, outbound, newest, reminders>>

\* A transaction fails, or the process does: the turn ends, and with it the
\* rest of the delivery.
RaiseOnlyThisTurn(h) ==
    /\ turn[h].pc \in {"inbound", "act", "complete", "outbound"}
    /\ Onwards(h, Tail(turn[h].queue))
    /\ UNCHANGED <<agent, calls, given, inbound, outbound, newest, sent, reminders>>
Raise(h) ==
    /\ turn[h].pc \in {"inbound", "act", "complete", "outbound"}
    /\ Onwards(h, <<>>)
    /\ UNCHANGED <<agent, calls, given, inbound, outbound, newest, sent, reminders>>

Agent(h) == NoAgent(h) \/ PlanRefused(h) \/ PlanTaken(h) \/ Step(h) \/ StepRaises(h)
Router(h) == \/ Routed(h) \/ CreateReminder(h) \/ FindReminder(h) \/ CompleteReminder(h)
             \/ Tell(h) \/ QueryTool(h)
AssistantNext ==
    \/ Deliver
    \/ \E h \in Handlers :
          \/ Receive(h) \/ SaveInbound(h) \/ Agent(h) \/ Router(h)
          \/ SaveOutbound(h) \/ Send(h) \/ Raise(h)

AssistantSpec == AssistantInit /\ [][AssistantNext]_assistantVars

-----------------------------------------------------------------------------
OnlyIn(m, batch) ==
    /\ Cardinality({i \in DOMAIN batch.messages : batch.messages[i] = m}) = 1
    /\ \A other \in Batches : m \in Range(other.messages) => other = batch
    /\ m \notin Direct
Created(m) == Cardinality({i \in DOMAIN reminders : reminders[i].by = m})

\* What leaves the assistant is on record and was asked for: a reply is sent
\* no more often than it was saved, saved no more often than its message
\* was, and that no more often than Kapso or a client gave it.  A redelivery
\* repeats a message at most once, a later message of a delivery is not
\* touched before the ones ahead of it were answered, and a turn completes
\* reminders of its own business only (kapso_webhook, handle_message).
RepliesOnRecord ==
    /\ \A m \in Messages :
          /\ sent[m] <= outbound[m] /\ outbound[m] <= inbound[m] /\ inbound[m] <= given[m]
          /\ Created(m) <= inbound[m]
    /\ \A batch \in Batches : \A i, j \in DOMAIN batch.messages :
          (i < j /\ \A m \in Range(batch.messages) : OnlyIn(m, batch))
            => inbound[batch.messages[j]] <= outbound[batch.messages[i]]
    /\ (newest # None /\ newest.reply.done # None)
          => reminders[newest.reply.done].business = BusinessOf(newest.message)

\* A reply of the agent stands for a plan that was followed to its end or to
\* the first step that had to ask, within the limit of steps and never after
\* a step that raised; any other reply says why the agent did not give it
\* (AgentExecutionService.execute, _try_agent and its diagnostics).
AgentAnswersWholePlans ==
    newest # None =>
        LET reply == newest.reply
            plan == PlanOf(reply.plan)
        IN  IF reply.by = "agent"
            THEN /\ plan.sure /\ newest.reason = None
                 /\ plan.mode = "execute_plan" =>
                      /\ Len(reply.ran) \in 1 .. MaxSteps
                      /\ \A k \in 1 .. Len(reply.ran) - 1 : ~ reply.ran[k].asks
                      /\ Last(reply.ran).asks \/ Len(reply.ran) = Len(plan.steps)
            ELSE (newest.reason = None) <=> ~ agent

\* The ranks a text asks for, a number that is no rank standing for the
\* nearest one.
Nearest(n, last) == IF n < 1 THEN 1 ELSE IF n > last THEN last ELSE n
AskedRanks(m) ==
    LET text == TextOf(m)
        from == Nearest(text.range[1], MaxRank)
        to == Nearest(text.range[2], MaxRank)
        skipped == IF text.skip = None THEN 0 ELSE Nearest(text.skip, MaxRank - 1)
        asked == IF text.top = None THEN DefaultRanks ELSE Nearest(text.top, MaxRank)
    IN  IF text.range # None /\ from <= to THEN from .. to
        ELSE 1 .. MaxRank \cap skipped + 1 .. skipped + asked

RanksShown(m, query, rows, tie, shown) ==
    LET identities == {Identity(r) : r \in rows}
        sales == [i \in identities |-> Total(Of(rows, i), query.sort)]
        ahead(i) == {j \in identities :
                        \/ sales[j] > sales[i]
                        \/ sales[j] = sales[i] /\ j.external < i.external
                        \/ /\ sales[j] = sales[i] /\ j.external = i.external
                           /\ j # i /\ tie[j] < tie[i]}
    IN  /\ Range(shown) = {i \in identities : Cardinality(ahead(i)) + 1 \in AskedRanks(m)}
        /\ \A j, k \in DOMAIN shown : j < k => shown[j] \in ahead(shown[k])

RankingAnswers(m, query, scope, shown) ==
    /\ scope.filters # None
    /\ \E tie \in Ties :
          RanksShown(m, query,
              Selected(Summaries, BusinessOf(m), scope.from, scope.to, scope.filters), tie, shown)

\* A text that asks for a ranking is shown the ranks it asks for, in their
\* order, of the ranking of its period that the filters leave, and only if
\* every name in it is known, or else it gets a question.  A rank belongs to
\* what the summaries are grouped by: a product with days from before it was
\* in the catalog has two, and excluding it leaves those days (IntentRouter,
\* TopProductsQuery, SalesTopProductsTool, top_products).
AnswersTheAskedRanks ==
    LET reply == newest.reply
        m == newest.message
        query == Intents!Entities(TextOf(m), Today)
    IN  (newest # None /\ reply.by = "rules" /\ reply.tool = "sales.top_products" /\ ~ reply.asks)
            => RankingAnswers(m, query, Scope(BusinessOf(m), query, Today), reply.shows)
=============================================================================
