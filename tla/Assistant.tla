----------------------------- MODULE Assistant -----------------------------
(***************************************************************************)
(* What the program asks a language model for: day plans explained by the  *)
(* LangGraph agent or the multi-agent graph (planners/langgraph_agent.py,  *)
(* multi_agent_planner.py, orchestrator.py) and the assistant's chat       *)
(* (api/v1/conversations.py, services/chat_service.py), with the tenant's  *)
(* choice of a provider (core/llm_factory.py, api/v1/tenants.py).          *)
(*                                                                         *)
(* Both write in several places that no transaction spans: the optimizer   *)
(* commits the plan before the graph's log is written; a chat turn is      *)
(* several MongoDB calls, each of which may fail over to PostgreSQL.       *)
(***************************************************************************)
EXTENDS Naturals, Sequences, FiniteSets

CONSTANTS
  Worker,        \* requests that can be served at a time
  PlannerOf,     \* PLANNER_TYPE of the process that serves it
  Provider,      \* LLM providers
  Usable,        \* those with an API key, the tenant's or the environment's
  EnvProvider,   \* LLM_PROVIDER of the environment
  Context,       \* what fetch_context can find (bound)
  MaxOrders,     \* orders that the optimizer can find (bound)
  Plan,          \* plans that can be made (bound)
  Conversation,  \* MongoDB conversations that can be started (bound)
  Question,      \* chat messages that users can send (bound)
  MaxConfigs,    \* changes of the provider (bound)
  NULL

ASSUME AssistantAssumption ==
  /\ IsFiniteSet(Worker)
  /\ PlannerOf \in [Worker -> {"langgraph", "multi_agent"}]
  /\ Usable \subseteq Provider /\ EnvProvider \in Provider
  /\ \A c \in Context :
       /\ {c.orders, c.drivers, c.urgent, c.windows} \subseteq Nat
       /\ c.urgent <= c.orders /\ c.windows <= c.orders
  /\ MaxOrders \in Nat /\ MaxConfigs \in Nat
  /\ NULL \notin Provider \cup Plan \cup Conversation \cup Question

VARIABLES
  config,   \* llm_provider rows of the tenant, oldest first
  configs,  \* changes of it so far
  plan,     \* committed plans: the graph that made each and its agent_logs
  asked,    \* questions sent so far
  conv,     \* chat_conversations
  msgs,     \* chat_messages of each conversation (MongoDB)
  purged,   \* questions whose message a purge removed (history)
  kept,     \* questions saved with their replies in PostgreSQL
  req       \* the request each worker serves

planning == <<config, configs, plan>>
chat == <<asked, conv, msgs, purged, kept>>
vars == <<planning, chat, req>>

Idle == [pc |-> "idle", llm |-> NULL, stale |-> FALSE, confidence |-> 1000,
         plan |-> NULL, conv |-> NULL, q |-> NULL]
At(w, l) == req[w].pc = l
Goto(w, l) == req' = [req EXCEPT ![w].pc = l]
Answer(w) == req' = [req EXCEPT ![w] = Idle]

Rows == {config[i] : i \in DOMAIN config}

-----------------------------------------------------------------------------
(* PATCH /tenants/config/llm *)

\* _upsert: several rows raise, and nothing keeps the key unique.
AskConfig(w, p) ==
  /\ At(w, "idle") /\ configs < MaxConfigs /\ Len(config) <= 1
  /\ req' = [req EXCEPT ![w].pc = IF config = <<>> THEN "addConfig" ELSE "setConfig",
                        ![w].llm = p]
  /\ configs' = configs + 1
  /\ UNCHANGED <<config, plan, chat>>

\* Ends the request of w and marks those that overlap the change.
Changed(w) ==
  req' = [v \in Worker |-> IF v = w THEN Idle
            ELSE [req[v] EXCEPT !.stale = req[v].pc \notin {"idle", "addConfig", "setConfig"}]]

AddConfig(w) ==
  /\ At(w, "addConfig")
  /\ config' = Append(config, req[w].llm)
  /\ Changed(w)
  /\ UNCHANGED <<configs, plan, chat>>

SetConfig(w) ==
  /\ At(w, "setConfig")
  /\ config' = [config EXCEPT ![1] = req[w].llm]
  /\ Changed(w)
  /\ UNCHANGED <<configs, plan, chat>>

-----------------------------------------------------------------------------
(* LangGraphPlanner, MultiAgentPlanner *)

\* get_llm_for_tenant: one of several rows wins; no row means the environment's.
Llm == IF Rows = {} THEN {EnvProvider} ELSE Rows

\* Mutated Resolved: the first of several rows.
ResolvedFirst == IF Len(config) > 0 THEN config[1] ELSE NULL

\* _resolve_provider: several rows are an exception, answered with None.
Resolved == IF Len(config) = 1 THEN config[1] ELSE NULL

AskPlan(w) ==
  /\ At(w, "idle")
  /\ \E p \in Llm :
       req' = [req EXCEPT ![w] = [Idle EXCEPT
         !.pc = IF p \in Usable THEN "analyze" ELSE "plain", !.llm = p]]
  /\ UNCHANGED <<planning, chat>>

\* Mutated Warnings: "if" in the place of "elif".
WarningsAll(c) ==
  {x \in {"noDrivers", "noOrders", "load", "allUrgent", "mostUrgent", "windows"} :
    \/ x = "noDrivers" /\ c.drivers = 0
    \/ x = "noOrders" /\ c.orders = 0
    \/ x = "load" /\ c.drivers > 0 /\ c.orders > 15 * c.drivers
    \/ x = "allUrgent" /\ c.urgent > 0 /\ c.urgent = c.orders
    \/ x = "mostUrgent" /\ 2 * c.urgent > c.orders
    \/ x = "windows" /\ c.drivers > 0 /\ c.windows > 8 * c.drivers}

Warnings(c) ==
  {x \in {"noDrivers", "noOrders", "load", "allUrgent", "mostUrgent", "windows"} :
    \/ x = "noDrivers" /\ c.drivers = 0
    \/ x = "noOrders" /\ c.orders = 0
    \/ x = "load" /\ c.drivers > 0 /\ c.orders > 15 * c.drivers
    \/ x = "allUrgent" /\ c.urgent > 0 /\ c.urgent = c.orders
    \/ x = "mostUrgent" /\ ~(c.urgent > 0 /\ c.urgent = c.orders) /\ 2 * c.urgent > c.orders
    \/ x = "windows" /\ c.drivers > 0 /\ c.windows > 8 * c.drivers}

AtLeast(floor, x) == IF x < floor THEN floor ELSE x

\* Confidence in thousandths.
Confidence(c) == AtLeast(300, 1000 - 100 * Cardinality(Warnings(c)))

Penalty(total, assigned) ==
  IF total = 0 THEN 0 ELSE (500 * (total - assigned)) \div total

Refined(confidence, total, assigned) ==
  AtLeast(100, confidence - Penalty(total, assigned))

\* fetch_context and analyze.
Analyze(w) ==
  /\ At(w, "analyze") /\ PlannerOf[w] = "langgraph"
  /\ \E c \in Context :
       req' = [req EXCEPT ![w].pc = "optimize", ![w].confidence = Confidence(c)]
  /\ UNCHANGED <<planning, chat>>

\* fetch_context and forecast, the other graph's nodes at this place: what they
\* read of orders, drivers and past deliveries is only told in the log.
Forecast(w) ==
  /\ At(w, "analyze") /\ PlannerOf[w] = "multi_agent"
  /\ Goto(w, "optimize")
  /\ UNCHANGED <<planning, chat>>

Unmade == {p \in Plan : plan[p] = NULL}
Made(p, by, llm) ==
  plan' = [plan EXCEPT ![p] = [by |-> by, llm |-> llm, log |-> {}, named |-> NULL,
                            stale |-> FALSE, died |-> FALSE]]

\* ORToolsPlanner.plan_day without an LLM: a plan, nothing to plan, or an
\* exception.
PlainPlan(w) ==
  /\ At(w, "plain")
  /\ \/ \E p \in Unmade : Made(p, "ortools", NULL)
     \/ UNCHANGED plan
  /\ Answer(w)
  /\ UNCHANGED <<config, configs, chat>>

\* call_optimizer commits its plan; it may find other orders than the context
\* did.  An exception ends the request with nothing logged.
Optimize(w) ==
  /\ At(w, "optimize")
  /\ \/ \E p \in Unmade, total \in 0..MaxOrders : \E assigned \in 0..total :
          /\ Made(p, PlannerOf[w], req[w].llm)
          /\ req' = [req EXCEPT ![w].pc = "explain", ![w].plan = p,
               ![w].confidence = IF PlannerOf[w] = "langgraph"
                                 THEN Refined(@, total, assigned) ELSE @]
     \/ Goto(w, "explain") /\ UNCHANGED plan
     \/ Answer(w) /\ UNCHANGED plan
  /\ UNCHANGED <<config, configs, chat>>

\* Mutated Explain: what the provider raises ends the request.
ExplainOrRaise(w) ==
  /\ At(w, "explain")
  /\ Goto(w, "persist") \/ Answer(w)
  /\ UNCHANGED <<planning, chat>>

\* Whatever the provider does, there is an explanation.
Explain(w) ==
  /\ At(w, "explain")
  /\ Goto(w, "persist")
  /\ UNCHANGED <<planning, chat>>

Steps(planner) ==
  {"fetch_context", "call_optimizer", "explain",
   IF planner = "langgraph" THEN "analyze" ELSE "forecast"}

\* One commit of the log; the provider it names is read again.  Logs of a run
\* that made no plan have no plan_id.
Persist(w) ==
  /\ At(w, "persist")
  /\ plan' = IF req[w].plan = NULL THEN plan
             ELSE [plan EXCEPT ![req[w].plan].log = Steps(PlannerOf[w]),
                               ![req[w].plan].named = Resolved,
                               ![req[w].plan].stale = req[w].stale]
  /\ Answer(w)
  /\ UNCHANGED <<config, configs, chat>>

-----------------------------------------------------------------------------
(* /chat/conversations *)

NewConversation(c) ==
  /\ conv[c] = "none"
  /\ conv' = [conv EXCEPT ![c] = "live"]
  /\ UNCHANGED <<planning, asked, msgs, purged, kept, req>>

\* The session conversation (NULL), or MongoDB failing, leads to PostgreSQL; a
\* conversation that is not there to 404.
SendMessage(w, c, q) ==
  /\ At(w, "idle") /\ q \notin asked
  /\ asked' = asked \cup {q}
  /\ \E pc \in {"ask", "postgres", "idle"} :
       /\ pc = "ask" => c # NULL /\ conv[c] = "live"
       /\ pc = "idle" => c # NULL /\ conv[c] # "live"
       /\ req' = [req EXCEPT ![w] = IF pc = "idle" THEN Idle ELSE
                    [Idle EXCEPT !.pc = pc, !.conv = c, !.q = q]]
  /\ UNCHANGED <<planning, conv, msgs, purged, kept>>

\* One MongoDB insert; an exception leads to PostgreSQL.
Store(w, role, pc) ==
  \/ /\ msgs' = [msgs EXCEPT ![req[w].conv] = Append(@, [role |-> role, q |-> req[w].q])]
     /\ Goto(w, pc)
  \/ Goto(w, "postgres") /\ UNCHANGED msgs

\* Mutated StoreQuestion: the model is asked although the insert failed.
AskAnyway(w) ==
  /\ At(w, "ask")
  /\ Store(w, "user", "reply") \/ (Goto(w, "reply") /\ UNCHANGED msgs)
  /\ UNCHANGED <<planning, asked, conv, purged, kept>>

StoreQuestion(w) ==
  /\ At(w, "ask")
  /\ Store(w, "user", "reply")
  /\ UNCHANGED <<planning, asked, conv, purged, kept>>

\* After the title, the history and the model: whatever it raises is a reply too.
StoreReply(w) ==
  /\ At(w, "reply")
  /\ Store(w, "assistant", "touch")
  /\ UNCHANGED <<planning, asked, conv, purged, kept>>

\* updated_at; failing here, the stored reply is not the one that is answered.
Touch(w) ==
  /\ At(w, "touch")
  /\ Answer(w) \/ Goto(w, "postgres")
  /\ UNCHANGED <<planning, chat>>

\* chat_service.send_message: one commit for both messages, or an apology.
PostgresChat(w) ==
  /\ At(w, "postgres")
  /\ kept' \in {kept, kept \cup {req[w].q}}
  /\ Answer(w)
  /\ UNCHANGED <<planning, asked, conv, msgs, purged>>

\* delete_one asks for the tenant's own conversation, and what it matched is not
\* looked at: whoever has the id goes on to the purge.
DropConversation(w, c) ==
  /\ At(w, "idle") /\ conv[c] # "none"
  /\ conv' \in {conv, [conv EXCEPT ![c] = "gone"]}
  /\ req' = [req EXCEPT ![w].pc = "purge", ![w].conv = c]
  /\ UNCHANGED <<planning, asked, msgs, purged, kept>>

\* delete_many goes through the messages as they were inserted; an exception, which
\* is ignored, may stop it anywhere.
PurgeMessages(w) ==
  /\ At(w, "purge")
  /\ LET c == req[w].conv IN
     \E n \in 0..Len(msgs[c]) :
       /\ msgs' = [msgs EXCEPT ![c] = SubSeq(msgs[c], n + 1, Len(msgs[c]))]
       /\ purged' = purged \cup {q \in asked :
                                   \E i \in 1..n : msgs[c][i] = [role |-> "user", q |-> q]}
  /\ Answer(w)
  /\ UNCHANGED <<planning, asked, conv, kept>>

-----------------------------------------------------------------------------
\* The process dies under the request, or a commit of it fails.
Die(w) ==
  /\ ~At(w, "idle")
  /\ plan' = IF req[w].plan = NULL THEN plan ELSE [plan EXCEPT ![req[w].plan].died = TRUE]
  /\ Answer(w)
  /\ UNCHANGED <<config, configs, chat>>

Init ==
  /\ config = <<>> /\ configs = 0
  /\ plan = [p \in Plan |-> NULL]
  /\ asked = {} /\ purged = {} /\ kept = {}
  /\ conv = [c \in Conversation |-> "none"]
  /\ msgs = [c \in Conversation |-> <<>>]
  /\ req = [w \in Worker |-> Idle]

PlanStep(w) ==
  \/ AskPlan(w)
  \/ PlainPlan(w)
  \/ Analyze(w)
  \/ Forecast(w)
  \/ Optimize(w)
  \/ Explain(w)
  \/ Persist(w)

ConfigStep(w) ==
  \/ \E p \in Provider : AskConfig(w, p)
  \/ AddConfig(w)
  \/ SetConfig(w)

ChatStep(w) ==
  \/ \E c \in Conversation \cup {NULL}, q \in Question : SendMessage(w, c, q)
  \/ StoreQuestion(w)
  \/ StoreReply(w)
  \/ Touch(w)
  \/ PostgresChat(w)
  \/ \E c \in Conversation : DropConversation(w, c)
  \/ PurgeMessages(w)

Next ==
  \/ \E w \in Worker : PlanStep(w) \/ ConfigStep(w) \/ ChatStep(w) \/ Die(w)
  \/ \E c \in Conversation : NewConversation(c)

Spec == Init /\ [][Next]_vars

-----------------------------------------------------------------------------
(* Properties *)

Message == [role : {"user", "assistant"}, q : Question]
LogStep == {"fetch_context", "analyze", "forecast", "call_optimizer", "explain"}
MadePlan ==
  [by : {"ortools", "langgraph", "multi_agent"}, llm : Provider \cup {NULL},
   log : SUBSET LogStep, named : Provider \cup {NULL},
   stale : BOOLEAN, died : BOOLEAN]
Request ==
  [pc : {"idle", "addConfig", "setConfig", "plain", "analyze", "optimize", "explain",
         "persist", "ask", "reply", "touch", "postgres", "purge"},
   llm : Provider \cup {NULL}, stale : BOOLEAN, confidence : 200..1000,
   plan : Plan \cup {NULL}, conv : Conversation \cup {NULL}, q : Question \cup {NULL}]

ASSUME RowAssumption == NULL \notin MadePlan

\* Rows and requests hold values of their types; a confidence is never below 0.2,
\* so that neither floor of the code, 0.3 and 0.1, is ever in the answer.
TypeOK ==
  /\ config \in Seq(Provider) /\ configs \in Nat
  /\ plan \in [Plan -> {NULL} \cup MadePlan]
  /\ asked \subseteq Question /\ purged \cup kept \subseteq asked
  /\ conv \in [Conversation -> {"none", "live", "gone"}]
  /\ msgs \in [Conversation -> Seq(Message)]
  /\ req \in [Worker -> Request]

Explaining(p) == \E w \in Worker : req[w].plan = p /\ req[w].pc \in {"explain", "persist"}

\* Agents: a plan that a graph made has the complete log of that graph, whatever
\* the provider did, unless its request died or is still at it; it never has a
\* part of a log or that of the other graph.
LogsTell ==
  \A p \in Plan : plan[p] # NULL /\ plan[p].by # "ortools" =>
    \/ plan[p].log = Steps(plan[p].by)
    \/ plan[p].log = {} /\ (plan[p].died \/ Explaining(p))

\* Agents: the provider that the log names is the one that was asked, or none,
\* unless the tenant's choice changed while the plan was made.
ProviderNamed ==
  \A p \in Plan : plan[p] # NULL /\ plan[p].log # {} =>
    plan[p].named \in {NULL, plan[p].llm} \/ plan[p].stale

\* Chat: no message is in a conversation twice, and every reply comes after its
\* question, however sends, failovers and deletions by whomever overlap; the one
\* exception is a question that a purge removed, before its reply was stored or
\* in a purge that was broken off between the two.
RepliesFollow ==
  \A c \in Conversation :
    \A i \in DOMAIN msgs[c] :
      /\ \A j \in DOMAIN msgs[c] : msgs[c][i] = msgs[c][j] => i = j
      /\ msgs[c][i].role = "assistant" =>
           \/ \E j \in 1..(i - 1) : msgs[c][j] = [role |-> "user", q |-> msgs[c][i].q]
           \/ msgs[c][i].q \in purged
=============================================================================
