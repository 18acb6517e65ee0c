------------------------------ MODULE Webhooks ------------------------------
(***************************************************************************)
(* Partner webhooks: fleet events and test pings are fanned out to the     *)
(* tenant's active registrations (integrations/webhook_service.py), a      *)
(* Celery task delivers each and retries it (workers/tasks.py).            *)
(*                                                                         *)
(* Deliveries to one registration overlap: several events, several         *)
(* workers, redelivered messages.  A task reads the registration, POSTs,   *)
(* and writes last_error in separate steps.                                *)
(***************************************************************************)
EXTENDS Naturals

CONSTANTS
  Webhook, Event,   \* registrations and events that can exist (bounds)
  Ping,             \* the events that are test pings
  Hears,            \* <<w, e>>: w's event_types has e's type or "*"
  MaxRetries,       \* max_retries of the task: 3
  Worker, NoTask, MaxFaults

\* args of the task and the retry count in its headers.
Message == [hook : Webhook, event : Event, retries : 0..MaxRetries]

VARIABLES
  status,      \* webhook_registrations.is_active, "NONE" before the row exists
  malformed,   \* registrations whose url httpx refuses to parse
  lastError,   \* webhook_registrations.last_error: is one recorded
  fired,       \* events that have happened
  asked,       \* <<w, e>> that were queued
  posts,       \* POST requests made for each <<w, e>>
  accepted,    \* those answered 2xx
  task,        \* what each worker's task does next, and what it has read
  queue, held, faults

INSTANCE Celery

ASSUME WebhookAssumption ==
  /\ Ping \subseteq Event
  /\ Hears \subseteq Webhook \X Event
  /\ MaxFaults \in Nat /\ MaxRetries \in Nat
  /\ NoTask \notin Message

broker == <<queue, held, faults>>
counts == <<asked, posts, accepted>>
vars == <<status, malformed, lastError, fired, counts, task, broker>>

(***************************************************************************)
(* pc is the task's next step:                                             *)
(*   idle    take a message and SELECT its active registration             *)
(*   post    POST              clear   COMMIT last_error = None            *)
(*   note    COMMIT the error  retry   publish the retry                   *)
(*   ack     acknowledge                                                   *)
(* seen: last_error as the session loaded it.                              *)
(***************************************************************************)
Idle == [pc |-> "idle", seen |-> FALSE]

At(k, l) == task[k].pc = l
Goto(k, l) == task' = [task EXCEPT ![k].pc = l]
Hook(k) == held[k].hook
Pair(k) == <<held[k].hook, held[k].event>>

-----------------------------------------------------------------------------
(* The API *)

Register(w) ==
  /\ status[w] = "NONE"
  /\ status' = [status EXCEPT ![w] = "ACTIVE"]
  /\ malformed' \in {malformed, malformed \cup {w}}
  /\ UNCHANGED <<lastError, fired, counts, task, broker>>

\* delete_webhook does not ask whether the registration is active.
Deactivate(w) ==
  /\ status[w] \in {"ACTIVE", "INACTIVE"}
  /\ status' = [status EXCEPT ![w] = "INACTIVE"]
  /\ UNCHANGED <<malformed, lastError, fired, counts, task, broker>>

Matching(e) == {w \in Webhook : status[w] = "ACTIVE" /\ <<w, e>> \in Hears}

Fresh(w, e) == [hook |-> w, event |-> e, retries |-> 0]

\* A failing apply_async is logged and the loop goes on; the API may die in it.
DispatchEvent(e) ==
  /\ fired' = fired \cup {e}
  /\ \E S \in SUBSET Matching(e) :
       /\ Publish({Fresh(w, e) : w \in S})
       /\ asked' = asked \cup {<<w, e>> : w \in S}
  /\ UNCHANGED <<status, malformed, lastError, posts, accepted, task>>

\* update_stop_status, after its commit.
StopReported(e) == e \notin fired \cup Ping /\ DispatchEvent(e)

\* test_webhook: the ping goes through dispatch_event like any event.
TestWebhook(w, e) ==
  /\ e \in Ping \ fired
  /\ status[w] = "ACTIVE"
  /\ DispatchEvent(e)

-----------------------------------------------------------------------------
(* deliver_webhook_task *)

\* Mutated TakeTask: the message of an inactive registration goes back to the
\* queue at once.
TakeRequeueing(k) ==
  /\ \E m \in Message :
       /\ Reserve(k, m) /\ status[m.hook] = "ACTIVE"
       /\ task' = [task EXCEPT ![k] = [pc |-> "post", seen |-> lastError[m.hook]]]
  /\ UNCHANGED <<status, malformed, lastError, fired, counts>>

\* The message is taken and the registration selected.
TakeTask(k) ==
  /\ \E m \in Message :
       /\ Reserve(k, m)
       /\ task' = [task EXCEPT ![k] =
            [pc |-> IF status[m.hook] = "ACTIVE" THEN "post" ELSE "ack",
             seen |-> lastError[m.hook]]]
  /\ UNCHANGED <<status, malformed, lastError, fired, counts>>

\* Mutated PostOk: forgets to leave the task.
PostOkRetried(k) ==
  /\ At(k, "post") /\ Hook(k) \notin malformed
  /\ posts' = [posts EXCEPT ![Pair(k)] = @ + 1]
  /\ accepted' = [accepted EXCEPT ![Pair(k)] = @ + 1]
  /\ Goto(k, IF task[k].seen THEN "clear" ELSE "retry")
  /\ UNCHANGED <<status, malformed, lastError, fired, asked, broker>>

\* "if webhook.last_error" looks at the row as it was selected.
PostOk(k) ==
  /\ At(k, "post") /\ Hook(k) \notin malformed
  /\ posts' = [posts EXCEPT ![Pair(k)] = @ + 1]
  /\ accepted' = [accepted EXCEPT ![Pair(k)] = @ + 1]
  /\ Goto(k, IF task[k].seen THEN "clear" ELSE "ack")
  /\ UNCHANGED <<status, malformed, lastError, fired, asked, broker>>

\* No answer, a timeout, or an answer that is not 2xx.
PostFails(k) ==
  /\ At(k, "post") /\ Hook(k) \notin malformed
  /\ posts' = [posts EXCEPT ![Pair(k)] = @ + 1]
  /\ Goto(k, "note")
  /\ UNCHANGED <<status, malformed, lastError, fired, asked, accepted, broker>>

\* httpx.InvalidURL is no HTTPError: the task ends there, without a retry.
PostRefused(k) ==
  /\ At(k, "post") /\ Hook(k) \in malformed
  /\ Goto(k, "ack")
  /\ UNCHANGED <<status, malformed, lastError, fired, counts, broker>>

ClearError(k) ==
  /\ At(k, "clear")
  /\ lastError' = [lastError EXCEPT ![Hook(k)] = FALSE]
  /\ Goto(k, "ack")
  /\ UNCHANGED <<status, malformed, fired, counts, broker>>

\* Mutated NoteError: the commit is forgotten.
NoteUncommitted(k) ==
  /\ At(k, "note")
  /\ Goto(k, "retry")
  /\ UNCHANGED <<status, malformed, lastError, fired, counts, broker>>

\* Mutated NoteError: no retry follows.
NoteGivesUp(k) ==
  /\ At(k, "note")
  /\ lastError' = [lastError EXCEPT ![Hook(k)] = TRUE]
  /\ Goto(k, "ack")
  /\ UNCHANGED <<status, malformed, fired, counts, broker>>

\* When the text equals the one loaded, the unit of work writes nothing.
NoteError(k) ==
  /\ At(k, "note")
  /\ \/ lastError' = [lastError EXCEPT ![Hook(k)] = TRUE]
     \/ task[k].seen /\ UNCHANGED lastError
  /\ Goto(k, "retry")
  /\ UNCHANGED <<status, malformed, fired, counts, broker>>

\* Mutated Retry: the count of retries starts anew.
RetryAnew(k) ==
  /\ At(k, "retry")
  /\ Publish({Fresh(Hook(k), held[k].event)})
  /\ Goto(k, "ack")
  /\ UNCHANGED <<status, malformed, lastError, fired, counts>>

Retry(k) ==
  /\ At(k, "retry")
  /\ \/ /\ held[k].retries < MaxRetries
        /\ Publish({[held[k] EXCEPT !.retries = @ + 1]})
     \/ held[k].retries = MaxRetries /\ UNCHANGED broker
  /\ Goto(k, "ack")
  /\ UNCHANGED <<status, malformed, lastError, fired, counts>>

\* Mutated EndTask: the message is not acknowledged.
EndUnacknowledged(k) ==
  /\ At(k, "ack")
  /\ task' = [task EXCEPT ![k] = Idle]
  /\ UNCHANGED <<status, malformed, lastError, fired, counts, broker>>

EndTask(k) ==
  /\ At(k, "ack")
  /\ Acknowledge(k)
  /\ task' = [task EXCEPT ![k] = Idle]
  /\ UNCHANGED <<status, malformed, lastError, fired, counts>>

Die(k) ==
  /\ WorkerLost(k)
  /\ task' = [task EXCEPT ![k] = Idle]
  /\ UNCHANGED <<status, malformed, lastError, fired, counts>>

Overrun(k) ==
  /\ VisibilityTimeout(k)
  /\ UNCHANGED <<status, malformed, lastError, fired, counts, task>>

-----------------------------------------------------------------------------
Init ==
  /\ status = [w \in Webhook |-> "NONE"]
  /\ malformed = {}
  /\ lastError = [w \in Webhook |-> FALSE]
  /\ fired = {} /\ asked = {}
  /\ posts = [p \in Webhook \X Event |-> 0]
  /\ accepted = [p \in Webhook \X Event |-> 0]
  /\ task = [k \in Worker |-> Idle]
  /\ BrokerInit

ApiStep ==
  \/ \E w \in Webhook : Register(w) \/ Deactivate(w)
  \/ \E e \in Event : StopReported(e)
  \/ \E w \in Webhook, e \in Event : TestWebhook(w, e)

TaskStep(k) ==
  \/ TakeTask(k)
  \/ PostOk(k)
  \/ PostFails(k)
  \/ PostRefused(k)
  \/ ClearError(k)
  \/ NoteError(k)
  \/ Retry(k)
  \/ EndTask(k)

Next == ApiStep \/ \E k \in Worker : TaskStep(k) \/ Die(k) \/ Overrun(k)

Spec == Init /\ [][Next]_vars

\* Workers go on while there are messages; dead ones are replaced.
FairSpec == Spec /\ \A k \in Worker : WF_vars(TaskStep(k))

-----------------------------------------------------------------------------
(* Properties *)

Task == [pc : {"idle", "post", "clear", "note", "retry", "ack"},
         seen : BOOLEAN]

\* Columns, messages and tasks hold values of their types.
TypeOK ==
  /\ status \in [Webhook -> {"NONE", "ACTIVE", "INACTIVE"}]
  /\ malformed \subseteq Webhook
  /\ lastError \in [Webhook -> BOOLEAN]
  /\ fired \subseteq Event
  /\ asked \subseteq Hears
  /\ posts \in [Webhook \X Event -> Nat]
  /\ accepted \in [Webhook \X Event -> Nat]
  /\ task \in [Worker -> Task]
  /\ BrokerType
  /\ \A k \in Worker : At(k, "idle") <=> held[k] = NoTask

Underway(w, e) ==
  \E n \in 0..MaxRetries : Pending([hook |-> w, event |-> e, retries |-> n])

\* "Retries: 30s, 5min, 1hr, give up": a partner is POSTed an event at most
\* 1 + max_retries times, and as often again for each time that the queue
\* delivered a message again.
PostsBounded ==
  \A p \in Webhook \X Event : posts[p] <= (MaxRetries + 1) * (1 + faults)

\* An event that the partner has accepted is not delivered to it again, unless
\* the queue delivers the message again.
AcceptedOnce == \A p \in Webhook \X Event : accepted[p] <= 1 + faults

\* No event is dropped: once nothing is under way the partner has accepted it, or
\* has failed every retry, or is gone, or its URL cannot be called; workers
\* that die and overlapping tasks lose nothing.
NothingDropped ==
  \A p \in asked :
    \/ Underway(p[1], p[2])
    \/ accepted[p] > 0
    \/ posts[p] > MaxRetries
    \/ status[p[1]] = "INACTIVE"
    \/ p[1] \in malformed

\* A partner that none of whose deliveries succeeded shows an error, although
\* workers die between a POST and its record and tasks write what they read
\* earlier.
FailureShown ==
  \A p \in asked :
    (/\ ~Underway(p[1], p[2])
     /\ status[p[1]] = "ACTIVE" /\ p[1] \notin malformed
     /\ \A e \in Event : accepted[<<p[1], e>>] = 0)
    => lastError[p[1]]

\* The deliveries under way; those to a partner that deactivated, or whose URL
\* cannot be called.
Undelivered == {p \in Webhook \X Event : Underway(p[1], p[2])}
Gone == {p \in Webhook \X Event : status[p[1]] = "INACTIVE" \/ p[1] \in malformed}

Promised == INSTANCE Courier WITH
       Item <- Webhook \X Event, Limit <- MaxRetries,
       handed <- asked, underway <- Undelivered,
       tries <- posts, taken <- accepted, gone <- Gone

\* Tasks, retries, redeliveries and deaths deliver as the courier promises: each
\* delivery is under way until its fate is known, and is never taken up again.
ImplementsCourier == Promised!CSpec

\* Every queued delivery comes to an end.
Settles ==
  \A w \in Webhook, e \in Event : Underway(w, e) ~> ~Underway(w, e)
=============================================================================
