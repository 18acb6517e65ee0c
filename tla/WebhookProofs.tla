---------------------------- MODULE WebhookProofs ----------------------------
(***************************************************************************)
(* Safety of webhook delivery for any registrations, events and workers,   *)
(* any number of retries, and any number of deaths and redeliveries.       *)
(***************************************************************************)
EXTENDS Webhooks, FiniteSetTheorems, TLAPS

-----------------------------------------------------------------------------
(* Types *)

Pair1(m) == <<m.hook, m.event>>
Working == {"post", "clear", "note", "retry", "ack"}

LEMMA MessageParts ==
  ASSUME NEW m \in Message
  PROVE /\ m.hook \in Webhook /\ m.event \in Event /\ m.retries \in 0..MaxRetries
        /\ m = [hook |-> m.hook, event |-> m.event, retries |-> m.retries]
        /\ Pair1(m) \in Webhook \X Event
BY DEF Message, Pair1

LEMMA HeldMessage ==
  ASSUME TypeOK, NEW k \in Worker, ~At(k, "idle")
  PROVE held[k] \in Message /\ Hook(k) \in Webhook /\ Pair(k) \in Webhook \X Event
<1>1. held[k] \in Message
  BY DEF TypeOK, BrokerType
<1> QED
  BY <1>1, MessageParts DEF Hook, Pair, Pair1

LEMMA FreshMessage ==
  ASSUME NEW w \in Webhook, NEW e \in Event
  PROVE Fresh(w, e) \in Message
BY WebhookAssumption DEF Fresh, Message

LEMMA NextMessage ==
  ASSUME NEW m \in Message, m.retries < MaxRetries
  PROVE /\ [m EXCEPT !.retries = @ + 1] \in Message
        /\ [m EXCEPT !.retries = @ + 1].retries = m.retries + 1
        /\ Pair1([m EXCEPT !.retries = @ + 1]) = Pair1(m)
<1>1. m = [hook |-> m.hook, event |-> m.event, retries |-> m.retries]
  BY MessageParts
<1>2. [m EXCEPT !.retries = @ + 1] = [hook |-> m.hook, event |-> m.event, retries |-> m.retries + 1]
  BY <1>1
<1>3. m.retries + 1 \in 0..MaxRetries
  BY MessageParts, WebhookAssumption
<1> QED
  BY <1>2, <1>3, MessageParts DEF Message, Pair1

\* The step gives worker k the task t and leaves the others theirs.
Moves(k, t) ==
  /\ task' \in [Worker -> Task]
  /\ task'[k] = t
  /\ \A j \in Worker : j # k => task'[j] = task[j]

LEMMA SetMoves ==
  ASSUME TypeOK, NEW k \in Worker, NEW t \in Task, task' = [task EXCEPT ![k] = t]
  PROVE Moves(k, t)
BY DEF TypeOK, Moves

LEMMA IdleTask == Idle \in Task /\ Idle.pc = "idle"
BY DEF Idle, Task

LEMMA GotoMoves ==
  ASSUME TypeOK, NEW k \in Worker, NEW l \in Working, Goto(k, l)
  PROVE Moves(k, [pc |-> l, seen |-> task[k].seen])
<1>1. task[k] = [pc |-> task[k].pc, seen |-> task[k].seen] /\ task[k].seen \in BOOLEAN
  BY DEF TypeOK, Task
<1>2. [task[k] EXCEPT !.pc = l] = [pc |-> l, seen |-> task[k].seen]
  BY <1>1
<1>3. [pc |-> l, seen |-> task[k].seen] \in Task
  BY <1>1 DEF Task, Working
<1>4. task' = [task EXCEPT ![k] = [pc |-> l, seen |-> task[k].seen]]
  BY <1>2 DEF Goto
<1> QED
  BY <1>3, <1>4, SetMoves

TablesTyped ==
  /\ status \in [Webhook -> {"NONE", "ACTIVE", "INACTIVE"}]
  /\ malformed \subseteq Webhook
  /\ lastError \in [Webhook -> BOOLEAN]
  /\ fired \subseteq Event
  /\ asked \subseteq Hears
  /\ posts \in [Webhook \X Event -> Nat]
  /\ accepted \in [Webhook \X Event -> Nat]

\* What a step of a task in progress is in terms of tasks and messages: the worker
\* moves on, keeping its message.
LEMMA MoveTyped ==
  ASSUME TypeOK, NEW k \in Worker, ~At(k, "idle"), NEW t \in Task, t.pc \in Working,
         Moves(k, t), held' = held, faults' = faults, queue' \in [Message -> Nat],
         TablesTyped'
  PROVE TypeOK'
<1>1. \A j \in Worker : (At(j, "idle"))' <=> held'[j] = NoTask
  <2> TAKE j \in Worker
  <2>1. CASE j = k
    BY <2>1 DEF TypeOK, Moves, At, Working
  <2>2. CASE j # k
    BY <2>2 DEF TypeOK, Moves, At
  <2> QED
    BY <2>1, <2>2
<1>2. BrokerType'
  BY DEF TypeOK, BrokerType
<1> QED
  BY <1>1, <1>2 DEF TypeOK, TablesTyped, Moves

\* A worker that ends or loses its task is idle and holds nothing.
LEMMA LeaveTyped ==
  ASSUME TypeOK, NEW k \in Worker, task' = [task EXCEPT ![k] = Idle],
         held' = [held EXCEPT ![k] = NoTask], queue' \in [Message -> Nat],
         faults' \in 0..MaxFaults,
         UNCHANGED <<status, malformed, lastError, fired, counts>>
  PROVE TypeOK'
<1>1. Moves(k, Idle)
  BY IdleTask, SetMoves
<1>2. /\ held' \in [Worker -> Message \cup {NoTask}] /\ held'[k] = NoTask
      /\ \A j \in Worker : j # k => held'[j] = held[j]
  BY DEF TypeOK, BrokerType
<1>3. \A j \in Worker : (At(j, "idle"))' <=> held'[j] = NoTask
  <2> TAKE j \in Worker
  <2>1. CASE j = k
    BY <1>1, <1>2, <2>1, IdleTask DEF At, Moves
  <2>2. CASE j # k
    BY <1>1, <1>2, <2>2 DEF TypeOK, At, Moves
  <2> QED
    BY <2>1, <2>2
<1>4. BrokerType'
  BY <1>2 DEF BrokerType
<1> QED
  BY <1>1, <1>3, <1>4 DEF TypeOK, Moves, counts

LEMMA InitTyped == Init => TypeOK
<1> SUFFICES ASSUME Init PROVE TypeOK
  OBVIOUS
<1> QED
  BY WebhookAssumption, IdleTask DEF Init, BrokerInit, TypeOK, BrokerType, At, Idle, Task

LEMMA PublishTyped ==
  ASSUME TypeOK, NEW S \in SUBSET Message, Publish(S)
  PROVE /\ queue' \in [Message -> Nat] /\ held' = held /\ faults' = faults
        /\ \A m \in Message : queue'[m] = IF m \in S THEN queue[m] + 1 ELSE queue[m]
<1>1. queue \in [Message -> Nat]
  BY DEF TypeOK, BrokerType
<1>2. queue' = [m \in Message |-> IF m \in S THEN queue[m] + 1 ELSE queue[m]]
  BY DEF Publish
<1>3. \A m \in Message : (IF m \in S THEN queue[m] + 1 ELSE queue[m]) \in Nat
  BY <1>1
<1> QED
  BY <1>2, <1>3 DEF Publish

\* What DispatchEvent does to the queue.
Asking(e, S) ==
  /\ S \in SUBSET {w \in Webhook : status[w] = "ACTIVE" /\ <<w, e>> \in Hears}
  /\ queue' \in [Message -> Nat]
  /\ \A m \in Message :
       queue'[m] = IF m.event = e /\ m.hook \in S /\ m.retries = 0
                   THEN queue[m] + 1 ELSE queue[m]
  /\ asked' = asked \cup {<<w, e>> : w \in S}

LEMMA DispatchAsks ==
  ASSUME TypeOK, NEW e \in Event, DispatchEvent(e)
  PROVE /\ \E S : Asking(e, S)
        /\ held' = held /\ faults' = faults /\ fired' = fired \cup {e}
<1>1. PICK S \in SUBSET Matching(e) :
        /\ Publish({Fresh(w, e) : w \in S})
        /\ asked' = asked \cup {<<w, e>> : w \in S}
  BY DEF DispatchEvent
<1>2. {Fresh(w, e) : w \in S} \in SUBSET Message
  BY FreshMessage DEF Matching
<1>3. \A m \in Message : m \in {Fresh(w, e) : w \in S}
                           <=> m.event = e /\ m.hook \in S /\ m.retries = 0
  <2> TAKE m \in Message
  <2>1. m = [hook |-> m.hook, event |-> m.event, retries |-> m.retries]
    BY MessageParts
  <2>2. ASSUME m.event = e, m.hook \in S, m.retries = 0
        PROVE m = Fresh(m.hook, e)
    BY <2>1, <2>2 DEF Fresh
  <2>3. ASSUME NEW w \in S, m = Fresh(w, e)
        PROVE m.event = e /\ m.hook = w /\ m.retries = 0
    BY <2>3 DEF Fresh
  <2> QED
    BY <2>2, <2>3
<1> QED
  BY <1>1, <1>2, <1>3, PublishTyped DEF Asking, DispatchEvent, Matching

LEMMA ApiTyped ==
  ASSUME TypeOK, ApiStep
  PROVE TypeOK'
<1>1. ASSUME NEW w \in Webhook, Register(w) \/ Deactivate(w)
      PROVE TypeOK'
  BY <1>1 DEF TypeOK, Register, Deactivate, BrokerType, At, broker, counts
<1>2. ASSUME NEW e \in Event, DispatchEvent(e)
      PROVE TypeOK'
  <2>1. PICK S : Asking(e, S)
    BY <1>2, DispatchAsks
  <2>2. asked' \subseteq Hears
    BY <2>1 DEF Asking, TypeOK
  <2>3. BrokerType'
    BY <1>2, <2>1, DispatchAsks DEF Asking, TypeOK, BrokerType
  <2>4. held' = held /\ fired' \subseteq Event
    BY <1>2, DispatchAsks DEF TypeOK
  <2> QED
    BY <1>2, <2>2, <2>3, <2>4 DEF TypeOK, DispatchEvent, At
<1> QED
  BY <1>1, <1>2 DEF ApiStep, StopReported, TestWebhook

\* What taking a message does to the worker and to the queue.
Taking(k, m) ==
  /\ m \in Message /\ At(k, "idle")
  /\ held[k] = NoTask /\ queue[m] > 0
  /\ held' = [held EXCEPT ![k] = m] /\ held'[k] = m
  /\ \A j \in Worker : j # k => held'[j] = held[j]
  /\ queue' \in [Message -> Nat] /\ queue'[m] + 1 = queue[m]
  /\ \A n \in Message : n # m => queue'[n] = queue[n]
  /\ faults' = faults
  /\ Moves(k, [pc |-> IF status[m.hook] = "ACTIVE" THEN "post" ELSE "ack",
               seen |-> lastError[m.hook]])

LEMMA TakeTakes ==
  ASSUME TypeOK, NEW k \in Worker, TakeTask(k)
  PROVE \E m \in Message : Taking(k, m)
<1>1. PICK m \in Message :
        /\ Reserve(k, m)
        /\ task' = [task EXCEPT ![k] =
             [pc |-> IF status[m.hook] = "ACTIVE" THEN "post" ELSE "ack",
              seen |-> lastError[m.hook]]]
  BY DEF TakeTask
<1> DEFINE t == [pc |-> IF status[m.hook] = "ACTIVE" THEN "post" ELSE "ack",
                 seen |-> lastError[m.hook]]
<1>2. t \in Task
  BY MessageParts DEF TypeOK, Task
<1>3. Moves(k, t)
  BY <1>1, <1>2, SetMoves
<1>4. /\ held' = [held EXCEPT ![k] = m] /\ held'[k] = m
      /\ \A j \in Worker : j # k => held'[j] = held[j]
  BY <1>1 DEF Reserve, TypeOK, BrokerType
<1>5. /\ queue' \in [Message -> Nat] /\ queue'[m] + 1 = queue[m]
      /\ \A n \in Message : n # m => queue'[n] = queue[n]
  BY <1>1 DEF Reserve, TypeOK, BrokerType
<1> QED
  BY <1>1, <1>3, <1>4, <1>5 DEF Taking, Reserve, TypeOK

LEMMA TakeTyped ==
  ASSUME TypeOK, NEW k \in Worker, TakeTask(k)
  PROVE TypeOK'
<1>1. PICK m \in Message : Taking(k, m)
  BY TakeTakes
<1>2. \A j \in Worker : (At(j, "idle"))' <=> held'[j] = NoTask
  <2> TAKE j \in Worker
  <2>1. CASE j = k
    BY <1>1, <2>1, WebhookAssumption DEF Taking, Moves, At
  <2>2. CASE j # k
    BY <1>1, <2>2 DEF Taking, Moves, At, TypeOK
  <2> QED
    BY <2>1, <2>2
<1>3. BrokerType'
  BY <1>1 DEF Taking, TypeOK, BrokerType
<1> QED
  BY <1>1, <1>2, <1>3 DEF TakeTask, Taking, Moves, TypeOK, counts

\* The next steps of a task in progress that leave the queue alone.
Progress(k) ==
  \/ PostOk(k)
  \/ PostFails(k)
  \/ PostRefused(k)
  \/ ClearError(k)
  \/ NoteError(k)

LEMMA ProgressMoves ==
  ASSUME TypeOK, NEW k \in Worker, Progress(k)
  PROVE \E l \in Working :
          /\ Moves(k, [pc |-> l, seen |-> task[k].seen])
          /\ PostOk(k) => l = IF task[k].seen THEN "clear" ELSE "ack"
          /\ PostFails(k) => l = "note"
          /\ PostRefused(k) \/ ClearError(k) => l = "ack"
          /\ NoteError(k) => l = "retry"
<1>1. CASE PostOk(k)
  <2> DEFINE l == IF task[k].seen THEN "clear" ELSE "ack"
  <2>1. l \in Working /\ Goto(k, l)
    BY <1>1 DEF PostOk, Working
  <2>2. At(k, "post") /\ Hook(k) \notin malformed
    BY <1>1 DEF PostOk
  <2>3. ~PostRefused(k) /\ ~ClearError(k) /\ ~NoteError(k)
    BY <2>2 DEF PostRefused, ClearError, NoteError, At
  <2>4. PostFails(k) => l = "note"
    <3>1. Moves(k, [pc |-> l, seen |-> task[k].seen])
      BY <2>1, GotoMoves
    <3>2. PostFails(k) => task'[k].pc = "note"
      <4> SUFFICES ASSUME PostFails(k) PROVE task'[k].pc = "note"
        OBVIOUS
      <4>1. Goto(k, "note") /\ "note" \in Working
        BY DEF PostFails, Working
      <4>2. Moves(k, [pc |-> "note", seen |-> task[k].seen])
        BY <4>1, GotoMoves
      <4> QED
        BY <4>2 DEF Moves
    <3> QED
      BY <3>1, <3>2 DEF Moves
  <2> QED
    BY <2>1, <2>3, <2>4, GotoMoves
<1>2. CASE PostFails(k) /\ ~PostOk(k)
  <2>1. "note" \in Working /\ Goto(k, "note")
    BY <1>2 DEF PostFails, Working
  <2>2. ~PostRefused(k) /\ ~ClearError(k) /\ ~NoteError(k)
    BY <1>2 DEF PostFails, PostRefused, ClearError, NoteError, At
  <2> QED
    BY <1>2, <2>1, <2>2, GotoMoves
<1>3. CASE PostRefused(k) \/ ClearError(k)
  <2>1. "ack" \in Working /\ Goto(k, "ack")
    BY <1>3 DEF PostRefused, ClearError, Working
  <2>2. ~PostOk(k) /\ ~PostFails(k) /\ ~NoteError(k)
    BY <1>3 DEF PostOk, PostFails, PostRefused, ClearError, NoteError, At
  <2> QED
    BY <2>1, <2>2, GotoMoves
<1>4. CASE NoteError(k)
  <2>1. "retry" \in Working /\ Goto(k, "retry")
    BY <1>4 DEF NoteError, Working
  <2>2. ~PostOk(k) /\ ~PostFails(k) /\ ~PostRefused(k) /\ ~ClearError(k)
    BY <1>4 DEF PostOk, PostFails, PostRefused, ClearError, NoteError, At
  <2> QED
    BY <2>1, <2>2, GotoMoves
<1> QED
  BY <1>1, <1>2, <1>3, <1>4 DEF Progress

LEMMA ProgressTyped ==
  ASSUME TypeOK, NEW k \in Worker, Progress(k)
  PROVE TypeOK' /\ ~At(k, "idle") /\ UNCHANGED <<status, malformed, fired, asked, broker>>
<1>1. ~At(k, "idle")
  BY DEF Progress, PostOk, PostFails, PostRefused, ClearError, NoteError, At
<1>2. Hook(k) \in Webhook /\ Pair(k) \in Webhook \X Event
  BY <1>1, HeldMessage
<1>3. UNCHANGED <<status, malformed, fired, asked, broker>>
  BY DEF Progress, PostOk, PostFails, PostRefused, ClearError, NoteError, counts
<1>4. posts' \in [Webhook \X Event -> Nat] /\ accepted' \in [Webhook \X Event -> Nat]
  BY <1>2 DEF Progress, PostOk, PostFails, PostRefused, ClearError, NoteError, counts, TypeOK
<1>5. lastError' \in [Webhook -> BOOLEAN]
  BY <1>2 DEF Progress, PostOk, PostFails, PostRefused, ClearError, NoteError, counts, TypeOK
<1>6. TablesTyped'
  BY <1>3, <1>4, <1>5 DEF TypeOK, TablesTyped
<1>7. PICK l \in Working : Moves(k, [pc |-> l, seen |-> task[k].seen])
  BY ProgressMoves
<1>8. [pc |-> l, seen |-> task[k].seen] \in Task
  BY <1>7 DEF Moves
<1>9. queue' \in [Message -> Nat] /\ held' = held /\ faults' = faults
  BY <1>3 DEF broker, TypeOK, BrokerType
<1> QED
  BY <1>1, <1>3, <1>6, <1>7, <1>8, <1>9, MoveTyped

\* What Retry does to the queue: nothing, or one copy of the next try is added.
Retrying(k, m) ==
  /\ m \in Message /\ m.retries = held[k].retries + 1 /\ Pair1(m) = Pair(k)
  /\ held[k].retries < MaxRetries
  /\ queue'[m] = queue[m] + 1
  /\ \A n \in Message : n # m => queue'[n] = queue[n]

LEMMA RetryRetries ==
  ASSUME TypeOK, NEW k \in Worker, Retry(k)
  PROVE /\ ~At(k, "idle") /\ At(k, "retry")
        /\ Moves(k, [pc |-> "ack", seen |-> task[k].seen])
        /\ queue' \in [Message -> Nat] /\ held' = held /\ faults' = faults
        /\ \/ \E m \in Message : Retrying(k, m)
           \/ held[k].retries = MaxRetries /\ queue' = queue
<1>1. At(k, "retry") /\ ~At(k, "idle")
  BY DEF Retry, At
<1>2. held[k] \in Message /\ Pair(k) = Pair1(held[k])
  BY <1>1, HeldMessage DEF Pair, Pair1
<1>3. "ack" \in Working /\ Goto(k, "ack")
  BY DEF Retry, Working
<1>4. Moves(k, [pc |-> "ack", seen |-> task[k].seen])
  BY <1>3, GotoMoves
<1>5. CASE held[k].retries < MaxRetries /\ Publish({[held[k] EXCEPT !.retries = @ + 1]})
  <2> DEFINE m == [held[k] EXCEPT !.retries = @ + 1]
  <2>1. m \in Message /\ m.retries = held[k].retries + 1 /\ Pair1(m) = Pair(k)
    BY <1>2, <1>5, NextMessage
  <2> HIDE DEF m
  <2>2. Publish({m})
    BY <1>5 DEF m
  <2>3. /\ queue' \in [Message -> Nat] /\ held' = held /\ faults' = faults
        /\ \A n \in Message : queue'[n] = IF n \in {m} THEN queue[n] + 1 ELSE queue[n]
    BY <2>1, <2>2, PublishTyped
  <2>4. Retrying(k, m)
    BY <1>5, <2>1, <2>3 DEF Retrying
  <2> QED
    BY <1>1, <1>4, <2>1, <2>3, <2>4
<1>6. CASE held[k].retries = MaxRetries /\ UNCHANGED broker
  BY <1>1, <1>4, <1>6 DEF broker, TypeOK, BrokerType
<1> QED
  BY <1>5, <1>6 DEF Retry

LEMMA RetryTyped ==
  ASSUME TypeOK, NEW k \in Worker, Retry(k)
  PROVE TypeOK'
<1>1. [pc |-> "ack", seen |-> task[k].seen] \in Task
  BY RetryRetries DEF Moves
<1>2. TablesTyped'
  BY DEF Retry, TypeOK, TablesTyped, counts
<1> QED
  BY <1>1, <1>2, RetryRetries, MoveTyped DEF Working

\* A death and a redelivery put a copy of the message into the queue.
LEMMA LostTyped ==
  ASSUME TypeOK, NEW k \in Worker, WorkerLost(k) \/ VisibilityTimeout(k)
  PROVE /\ held[k] \in Message /\ ~At(k, "idle")
        /\ queue' \in [Message -> Nat] /\ queue'[held[k]] = queue[held[k]] + 1
        /\ \A n \in Message : n # held[k] => queue'[n] = queue[n]
        /\ faults' = faults + 1 /\ faults' \in 0..MaxFaults /\ faults \in Nat
<1>1. held[k] # NoTask /\ faults < MaxFaults /\ faults' = faults + 1
      /\ queue' = [queue EXCEPT ![held[k]] = @ + 1]
  BY DEF WorkerLost, VisibilityTimeout
<1>2. held[k] \in Message /\ ~At(k, "idle") /\ queue \in [Message -> Nat]
  BY <1>1 DEF TypeOK, BrokerType
<1>3. faults' \in 0..MaxFaults /\ faults \in Nat
  BY <1>1, WebhookAssumption DEF TypeOK, BrokerType
<1> QED
  BY <1>1, <1>2, <1>3

LEMMA LeavingTyped ==
  ASSUME TypeOK, NEW k \in Worker, EndTask(k) \/ Die(k)
  PROVE TypeOK'
<1>1. CASE EndTask(k)
  BY <1>1, LeaveTyped DEF EndTask, Acknowledge, TypeOK, BrokerType
<1>2. CASE Die(k)
  <2>1. /\ task' = [task EXCEPT ![k] = Idle] /\ held' = [held EXCEPT ![k] = NoTask]
        /\ UNCHANGED <<status, malformed, lastError, fired, counts>>
    BY <1>2 DEF Die, WorkerLost
  <2> QED
    BY <1>2, <2>1, LostTyped, LeaveTyped DEF Die
<1> QED
  BY <1>1, <1>2

LEMMA OverrunTyped ==
  ASSUME TypeOK, NEW k \in Worker, Overrun(k)
  PROVE TypeOK'
<1>1. BrokerType'
  BY LostTyped DEF Overrun, VisibilityTimeout, TypeOK, BrokerType
<1> QED
  BY <1>1 DEF Overrun, VisibilityTimeout, TypeOK, At, counts

LEMMA StutterTyped ==
  ASSUME TypeOK, UNCHANGED vars
  PROVE TypeOK'
BY DEF vars, counts, broker, TypeOK, BrokerType, At

LEMMA TypeStep == TypeOK /\ [Next]_vars => TypeOK'
<1> SUFFICES ASSUME TypeOK, [Next]_vars PROVE TypeOK'
  OBVIOUS
<1>1. CASE ApiStep
  BY <1>1, ApiTyped
<1>2. ASSUME NEW k \in Worker, TaskStep(k) \/ Die(k) \/ Overrun(k)
      PROVE TypeOK'
  BY <1>2, TakeTyped, ProgressTyped, RetryTyped, LeavingTyped, OverrunTyped
     DEF TaskStep, Progress
<1>3. CASE UNCHANGED vars
  BY <1>3, StutterTyped
<1> QED
  BY <1>1, <1>2, <1>3 DEF Next

\* Columns, messages and tasks keep their types, for any number of each.
THEOREM WebhookTyped == Spec => []TypeOK
BY InitTyped, TypeStep, PTL DEF Spec

-----------------------------------------------------------------------------
(* Nothing is dropped, and failures show *)

\* What is queued or in hand was asked for, an event and a registration there were.
Known ==
  /\ \A p \in asked : p[2] \in fired /\ status[p[1]] # "NONE"
  /\ \A m \in Message : queue[m] > 0 => Pair1(m) \in asked
  /\ \A k \in Worker : ~At(k, "idle") => Pair(k) \in asked
  /\ \A p \in Webhook \X Event : p \notin asked => posts[p] = 0 /\ accepted[p] = 0

\* The retry count of a message is backed by POSTs that failed.
Counted ==
  /\ \A m \in Message : queue[m] > 0 => posts[Pair1(m)] >= m.retries
  /\ \A k \in Worker : ~At(k, "idle") => posts[Pair(k)] >= held[k].retries
  /\ \A k \in Worker :
       At(k, "note") \/ At(k, "retry") => posts[Pair(k)] >= held[k].retries + 1
  /\ \A k \in Worker : At(k, "clear") => accepted[Pair(k)] > 0

Queued(p) == \E m \in Message : Pair1(m) = p /\ queue[m] > 0
Trying(p, L) == Queued(p) \/ \E k \in Worker : task[k].pc \in L /\ Pair(k) = p

\* Something is still to come of p, or its fate is known.
Accounted ==
  \A p \in asked :
    \/ Trying(p, {"post", "note", "retry"})
    \/ accepted[p] > 0
    \/ posts[p] > MaxRetries
    \/ status[p[1]] = "INACTIVE"
    \/ p[1] \in malformed

Unaccepted(w) == \A e \in Event : accepted[<<w, e>>] = 0

\* As long as nothing was accepted nobody has cleared the error a task has read.
SeenHolds ==
  \A k \in Worker :
    ~At(k, "idle") /\ Unaccepted(Hook(k)) /\ task[k].seen => lastError[Hook(k)]

Told ==
  \A p \in asked :
    Unaccepted(p[1]) /\ status[p[1]] = "ACTIVE" /\ p[1] \notin malformed
      => lastError[p[1]] \/ Trying(p, {"post", "note"})

Fate == Known /\ Counted /\ Accounted /\ SeenHolds /\ Told

LEMMA AskedPairs ==
  ASSUME TypeOK, NEW p \in asked
  PROVE /\ p \in Webhook \X Event /\ p[1] \in Webhook /\ p[2] \in Event
        /\ p = <<p[1], p[2]>>
BY WebhookAssumption DEF TypeOK

LEMMA InitFate == Init => Fate
<1> SUFFICES ASSUME Init PROVE Fate
  OBVIOUS
<1>1. asked = {} /\ (\A m \in Message : ~(queue[m] > 0)) /\ (\A k \in Worker : At(k, "idle"))
  BY DEF Init, BrokerInit, Idle, At
<1>2. \A p \in Webhook \X Event : posts[p] = 0 /\ accepted[p] = 0
  BY DEF Init
<1> QED
  BY <1>1, <1>2 DEF Fate, Known, Counted, Accounted, SeenHolds, Told, At

\* Registering and deactivating: rows of registrations that nobody was told of, or
\* that are told of no more.
LEMMA RegistrationFate ==
  ASSUME TypeOK, Fate, NEW w \in Webhook, Register(w) \/ Deactivate(w)
  PROVE Fate'
<1>1. /\ UNCHANGED <<lastError, fired, asked, posts, accepted, task, queue, held>>
      /\ malformed \subseteq malformed'
      /\ \A v \in Webhook : v # w => status'[v] = status[v]
      /\ status'[w] = "INACTIVE" \/ (status[w] = "NONE" /\ status'[w] = "ACTIVE")
  <2>1. CASE Register(w)
    <3>1. malformed' \in {malformed, malformed \cup {w}}
      BY <2>1 DEF Register
    <3>2. malformed \subseteq malformed'
      BY <3>1
    <3> QED
      BY <2>1, <3>2 DEF Register, TypeOK, counts, broker
  <2>2. CASE Deactivate(w)
    BY <2>2 DEF Deactivate, TypeOK, counts, broker
  <2> QED
    BY <2>1, <2>2
<1>2. \A p \in asked : /\ p[1] \in Webhook /\ status[p[1]] # "NONE"
                       /\ status'[p[1]] = status[p[1]] \/ status'[p[1]] = "INACTIVE"
  BY <1>1, AskedPairs DEF Fate, Known
<1>3. Known' /\ Counted' /\ SeenHolds'
  BY <1>1, <1>2 DEF Fate, Known, Counted, SeenHolds, Unaccepted, At, Pair, Hook
<1>4. \A p, L : Trying(p, L)' <=> Trying(p, L)
  BY <1>1 DEF Trying, Queued, Pair
<1>5. Accounted'
  BY <1>1, <1>2, <1>4 DEF Fate, Accounted
<1>6. Told'
  BY <1>1, <1>2, <1>4 DEF Fate, Told, Unaccepted
<1> QED
  BY <1>3, <1>5, <1>6 DEF Fate

LEMMA DispatchFate ==
  ASSUME TypeOK, Fate, NEW e \in Event, DispatchEvent(e)
  PROVE Fate'
<1>1. PICK S : Asking(e, S)
  BY DispatchAsks
<1>2. UNCHANGED <<status, malformed, lastError, posts, accepted, task, held>> /\ fired' = fired \cup {e}
  BY DispatchAsks DEF DispatchEvent
<1>3. /\ S \subseteq Webhook /\ asked' = asked \cup {<<w, e>> : w \in S}
      /\ \A w \in S : status[w] = "ACTIVE"
      /\ \A m \in Message : queue[m] \in Nat /\ queue'[m] \in Nat /\ queue'[m] >= queue[m]
      /\ \A m \in Message : queue'[m] # queue[m] => m.event = e /\ m.hook \in S /\ m.retries = 0
  <2>1. /\ S \subseteq Webhook /\ asked' = asked \cup {<<w, e>> : w \in S}
        /\ \A w \in S : status[w] = "ACTIVE"
    BY <1>1 DEF Asking
  <2>2. \A m \in Message :
          /\ queue[m] \in Nat
          /\ queue'[m] = IF m.event = e /\ m.hook \in S /\ m.retries = 0
                         THEN queue[m] + 1 ELSE queue[m]
    BY <1>1 DEF Asking, TypeOK, BrokerType
  <2> QED
    BY <2>1, <2>2
<1>4. Known'
  <2>1. \A p \in asked' : p[2] \in fired' /\ status'[p[1]] # "NONE"
    BY <1>2, <1>3 DEF Fate, Known
  <2>2. \A m \in Message : queue'[m] > 0 => Pair1(m) \in asked'
    BY <1>3 DEF Fate, Known, Pair1
  <2> QED
    BY <1>2, <1>3, <2>1, <2>2 DEF Fate, Known, At, Pair
<1>5. Counted'
  <2>1. \A m \in Message : queue'[m] > 0 => posts'[Pair1(m)] >= m.retries
    <3> SUFFICES ASSUME NEW m \in Message, queue'[m] > 0
                 PROVE posts'[Pair1(m)] >= m.retries
      OBVIOUS
    <3>1. CASE queue'[m] = queue[m]
      BY <1>2, <3>1 DEF Fate, Counted
    <3>2. CASE queue'[m] # queue[m]
      BY <1>2, <1>3, <3>2, MessageParts DEF TypeOK
    <3> QED
      BY <3>1, <3>2
  <2> QED
    BY <1>2, <2>1 DEF Fate, Counted, At, Pair
<1>6. SeenHolds'
  BY <1>2 DEF Fate, SeenHolds, Unaccepted, At, Hook
<1>7. \A p \in asked : \A L : Trying(p, L) => Trying(p, L)'
  BY <1>2, <1>3 DEF Trying, Queued, Pair
<1>8. \A p \in asked' \ asked : \A L : Trying(p, L)'
  <2> SUFFICES ASSUME NEW w \in S PROVE Queued(<<w, e>>)'
    BY <1>3 DEF Trying
  <2>1. Fresh(w, e) \in Message /\ Pair1(Fresh(w, e)) = <<w, e>>
    BY <1>3, FreshMessage DEF Fresh, Pair1
  <2>2. queue'[Fresh(w, e)] = queue[Fresh(w, e)] + 1 /\ queue[Fresh(w, e)] \in Nat
    BY <1>1, <1>3, <2>1 DEF Asking, Fresh
  <2> QED
    BY <2>1, <2>2 DEF Queued
<1>9. Accounted'
  BY <1>2, <1>7, <1>8 DEF Fate, Accounted
<1>10. Told'
  BY <1>2, <1>7, <1>8 DEF Fate, Told, Unaccepted
<1> QED
  BY <1>4, <1>5, <1>6, <1>9, <1>10 DEF Fate

\* A task goes on, keeping its message: what is being tried still is, if the next
\* step is one of L or the message is queued.
LEMMA MoveTrying ==
  ASSUME TypeOK, NEW k \in Worker, NEW t \in Task, Moves(k, t), held' = held,
         \A m \in Message : queue[m] > 0 => queue'[m] > 0,
         NEW p, NEW L, Trying(p, L),
         task[k].pc \in L /\ Pair(k) = p => t.pc \in L \/ Queued(p)'
  PROVE Trying(p, L)'
<1>1. CASE Queued(p)
  BY <1>1 DEF Trying, Queued
<1>2. ASSUME NEW j \in Worker, task[j].pc \in L, Pair(j) = p
      PROVE Trying(p, L)'
  <2>1. Pair(j)' = Pair(j)
    BY DEF Pair
  <2>2. CASE j = k
    BY <1>2, <2>1, <2>2 DEF Trying, Moves
  <2>3. CASE j # k
    BY <1>2, <2>1, <2>3 DEF Trying, Moves
  <2> QED
    BY <2>2, <2>3
<1> QED
  BY <1>1, <1>2 DEF Trying

\* What the five steps do: to the counts and the error of their own message, and
\* to the next step l.
Effect(k, l) ==
  \/ /\ task[k].pc = "post" /\ l \in {"clear", "ack"}
     /\ posts'[Pair(k)] = posts[Pair(k)] + 1 /\ accepted'[Pair(k)] = accepted[Pair(k)] + 1
     /\ lastError' = lastError
  \/ /\ task[k].pc = "post" /\ l = "note"
     /\ posts'[Pair(k)] = posts[Pair(k)] + 1 /\ accepted' = accepted
     /\ lastError' = lastError
  \/ /\ task[k].pc = "post" /\ l = "ack" /\ Hook(k) \in malformed
     /\ posts' = posts /\ accepted' = accepted /\ lastError' = lastError
  \/ /\ task[k].pc = "clear" /\ l = "ack"
     /\ posts' = posts /\ accepted' = accepted
  \/ /\ task[k].pc = "note" /\ l = "retry"
     /\ posts' = posts /\ accepted' = accepted
     /\ lastError'[Hook(k)] \/ (task[k].seen /\ lastError' = lastError)

LEMMA ProgressEffect ==
  ASSUME TypeOK, NEW k \in Worker, Progress(k)
  PROVE /\ \E l \in Working :
             /\ Moves(k, [pc |-> l, seen |-> task[k].seen])
             /\ Effect(k, l)
        /\ \A p \in Webhook \X Event : p # Pair(k) => posts'[p] = posts[p] /\ accepted'[p] = accepted[p]
        /\ \A v \in Webhook : v # Hook(k) => lastError'[v] = lastError[v]
<1>1. PICK l \in Working :
        /\ Moves(k, [pc |-> l, seen |-> task[k].seen])
        /\ PostOk(k) => l = IF task[k].seen THEN "clear" ELSE "ack"
        /\ PostFails(k) => l = "note"
        /\ PostRefused(k) \/ ClearError(k) => l = "ack"
        /\ NoteError(k) => l = "retry"
  BY ProgressMoves
<1>2. Pair(k) \in Webhook \X Event /\ Hook(k) \in Webhook
  BY ProgressTyped, HeldMessage
<1>3. /\ posts \in [Webhook \X Event -> Nat] /\ accepted \in [Webhook \X Event -> Nat]
      /\ lastError \in [Webhook -> BOOLEAN]
  BY DEF TypeOK
<1>4. Effect(k, l)
  <2>1. CASE PostOk(k)
    <3>1. task[k].pc = "post" /\ l \in {"clear", "ack"} /\ lastError' = lastError
      BY <1>1, <2>1 DEF PostOk, At
    <3>2. posts'[Pair(k)] = posts[Pair(k)] + 1 /\ accepted'[Pair(k)] = accepted[Pair(k)] + 1
      BY <1>2, <1>3, <2>1 DEF PostOk
    <3> QED
      BY <3>1, <3>2 DEF Effect
  <2>2. CASE PostFails(k)
    <3>1. posts'[Pair(k)] = posts[Pair(k)] + 1
      BY <1>2, <1>3, <2>2 DEF PostFails
    <3> QED
      BY <1>1, <2>2, <3>1 DEF Effect, PostFails, At
  <2>3. CASE PostRefused(k)
    BY <1>1, <2>3 DEF Effect, PostRefused, At, counts
  <2>4. CASE ClearError(k)
    BY <1>1, <2>4 DEF Effect, ClearError, At, counts
  <2>5. CASE NoteError(k)
    <3>1. lastError'[Hook(k)] \/ (task[k].seen /\ lastError' = lastError)
      BY <1>2, <1>3, <2>5 DEF NoteError
    <3> QED
      BY <1>1, <2>5, <3>1 DEF Effect, NoteError, At, counts
  <2> QED
    BY <2>1, <2>2, <2>3, <2>4, <2>5 DEF Progress
<1>5. \A p \in Webhook \X Event : p # Pair(k) => posts'[p] = posts[p] /\ accepted'[p] = accepted[p]
  BY <1>3 DEF Progress, PostOk, PostFails, PostRefused, ClearError, NoteError, counts
<1>6. \A v \in Webhook : v # Hook(k) => lastError'[v] = lastError[v]
  BY <1>3 DEF Progress, PostOk, PostFails, PostRefused, ClearError, NoteError
<1> QED
  BY <1>1, <1>4, <1>5, <1>6

LEMMA HookOfPair ==
  ASSUME NEW k \in Worker
  PROVE Pair(k)[1] = Hook(k) /\ Pair(k) = <<Hook(k), Pair(k)[2]>>
BY DEF Pair, Hook

LEMMA ProgressFate ==
  ASSUME TypeOK, Fate, NEW k \in Worker, Progress(k)
  PROVE Fate'
<1> DEFINE p0 == Pair(k)
           h == Hook(k)
<1>1. PICK l \in Working :
        Moves(k, [pc |-> l, seen |-> task[k].seen]) /\ Effect(k, l)
  BY ProgressEffect
<1> DEFINE t == [pc |-> l, seen |-> task[k].seen]
<1>2. /\ ~At(k, "idle") /\ p0 \in asked /\ p0 \in Webhook \X Event /\ h \in Webhook
      /\ p0[1] = h /\ p0 = <<h, p0[2]>> /\ p0[2] \in Event
  BY ProgressTyped, HeldMessage, HookOfPair DEF Fate, Known
<1>3. UNCHANGED <<status, malformed, fired, asked, queue, held>>
  BY ProgressTyped DEF broker
<1>4. \A p \in Webhook \X Event :
        /\ posts[p] \in Nat /\ accepted[p] \in Nat /\ posts'[p] \in Nat /\ accepted'[p] \in Nat
        /\ p # p0 => posts'[p] = posts[p] /\ accepted'[p] = accepted[p]
  BY ProgressEffect, ProgressTyped DEF TypeOK
<1>5. posts'[p0] >= posts[p0] /\ accepted'[p0] >= accepted[p0]
  BY <1>1, <1>2, <1>4 DEF Effect
<1>6. \A p \in Webhook \X Event : posts'[p] >= posts[p] /\ accepted'[p] >= accepted[p]
  BY <1>4, <1>5
<1>7. \A j \in Worker :
        /\ Pair(j)' = Pair(j) /\ Hook(j)' = Hook(j)
        /\ j # k => task'[j] = task[j]
        /\ ~At(j, "idle") => Pair(j) \in Webhook \X Event /\ held[j].retries \in Nat
  BY <1>1, <1>3, HeldMessage, MessageParts DEF Pair, Hook, Moves
<1>8. t \in Task /\ t.pc = l /\ Moves(k, t) /\ task'[k].pc = l /\ task'[k].seen = task[k].seen
  BY <1>1 DEF Moves
<1>9. \A j \in Worker : (~At(j, "idle"))' => ~At(j, "idle")
  BY <1>2, <1>7 DEF At
<1> HIDE DEF p0, h, t
<1>10. Known'
  <2>1. \A p \in Webhook \X Event : p \notin asked' => posts'[p] = 0 /\ accepted'[p] = 0
    BY <1>2, <1>3, <1>4 DEF Fate, Known
  <2> QED
    BY <1>3, <1>7, <1>9, <2>1 DEF Fate, Known
<1>11. Counted'
  <2>1. \A m \in Message : queue'[m] > 0 => posts'[Pair1(m)] >= m.retries
    <3> TAKE m \in Message
    <3>1. Pair1(m) \in Webhook \X Event /\ m.retries \in Nat
      BY MessageParts
    <3>2. queue[m] > 0 => posts[Pair1(m)] >= m.retries
      BY DEF Fate, Counted
    <3> QED
      BY <1>3, <1>4, <1>6, <3>1, <3>2
  <2>2. \A j \in Worker : (~At(j, "idle"))' => posts'[Pair(j)'] >= held'[j].retries
    <3> SUFFICES ASSUME NEW j \in Worker, ~At(j, "idle")
                 PROVE posts'[Pair(j)] >= held[j].retries
      BY <1>3, <1>7, <1>9
    <3> QED
      BY <1>4, <1>6, <1>7 DEF Fate, Counted
  <2>3. \A j \in Worker : (At(j, "note") \/ At(j, "retry"))' => posts'[Pair(j)'] >= held'[j].retries + 1
    <3> SUFFICES ASSUME NEW j \in Worker, (At(j, "note") \/ At(j, "retry"))'
                 PROVE posts'[Pair(j)] >= held[j].retries + 1
      BY <1>3, <1>7
    <3>1. ~At(j, "idle")
      BY <1>9 DEF At
    <3>2. posts[Pair(j)] >= held[j].retries /\ held[j].retries \in Nat /\ Pair(j) \in Webhook \X Event
      BY <1>7, <3>1 DEF Fate, Counted
    <3>3. CASE j = k
      <4>1. l = "note" \/ l = "retry"
        BY <1>8, <3>3 DEF At
      <4>2. CASE l = "note"
        <5>1. posts'[p0] = posts[p0] + 1
          BY <1>1, <4>2 DEF Effect, p0
        <5> QED
          BY <1>4, <3>2, <3>3, <5>1 DEF p0
      <4>3. CASE l = "retry"
        <5>1. At(k, "note") /\ posts' = posts
          BY <1>1, <4>3 DEF Effect, At
        <5> QED
          BY <3>3, <5>1 DEF Fate, Counted
      <4> QED
        BY <4>1, <4>2, <4>3
    <3>4. CASE j # k
      <4>1. posts[Pair(j)] >= held[j].retries + 1
        BY <1>7, <3>4 DEF Fate, Counted, At
      <4> QED
        BY <1>4, <1>6, <3>2, <4>1
    <3> QED
      BY <3>3, <3>4
  <2>4. \A j \in Worker : At(j, "clear")' => accepted'[Pair(j)'] > 0
    <3> SUFFICES ASSUME NEW j \in Worker, At(j, "clear")' PROVE accepted'[Pair(j)] > 0
      BY <1>7
    <3>1. CASE j = k
      <4>1. accepted'[p0] = accepted[p0] + 1
        BY <1>1, <1>8, <3>1 DEF Effect, At, p0
      <4> QED
        BY <1>2, <1>4, <3>1, <4>1 DEF p0
    <3>2. CASE j # k
      <4>1. At(j, "clear") /\ ~At(j, "idle")
        BY <1>7, <3>2 DEF At
      <4>2. accepted[Pair(j)] > 0 /\ Pair(j) \in Webhook \X Event
        BY <1>7, <4>1 DEF Fate, Counted
      <4> QED
        BY <1>4, <1>6, <4>2
    <3> QED
      BY <3>1, <3>2
  <2> QED
    BY <2>1, <2>2, <2>3, <2>4 DEF Counted
<1>12. \A v \in Webhook : Unaccepted(v)' => Unaccepted(v)
  <2> SUFFICES ASSUME NEW v \in Webhook, NEW e \in Event, accepted'[<<v, e>>] = 0
               PROVE accepted[<<v, e>>] = 0
    BY DEF Unaccepted
  <2>1. <<v, e>> \in Webhook \X Event
    OBVIOUS
  <2> QED
    BY <1>4, <1>6, <2>1
<1>13. (\A e \in Event : accepted'[<<h, e>>] = 0) => task[k].pc # "clear" /\ accepted'[p0] = 0
  <2> SUFFICES ASSUME \A e \in Event : accepted'[<<h, e>>] = 0
               PROVE task[k].pc # "clear" /\ accepted'[p0] = 0
    OBVIOUS
  <2>1. accepted'[p0] = 0
    BY <1>2
  <2>2. accepted[p0] = 0
    BY <1>2, <1>4, <1>5, <2>1
  <2> QED
    BY <2>1, <2>2 DEF Fate, Counted, At, p0
<1>14. SeenHolds'
  <2> SUFFICES ASSUME NEW j \in Worker, (~At(j, "idle"))', Unaccepted(Hook(j))', task'[j].seen
               PROVE lastError'[Hook(j)]
    BY <1>7 DEF SeenHolds
  <2>1. ~At(j, "idle") /\ Hook(j) \in Webhook /\ task[j].seen
    BY <1>7, <1>8, <1>9, HeldMessage
  <2>2. lastError[Hook(j)]
    BY <1>7, <1>12, <2>1 DEF Fate, SeenHolds, Unaccepted
  <2>3. CASE Hook(j) = h
    <3>1. task[k].pc # "clear"
      BY <1>7, <1>13, <2>3 DEF Unaccepted
    <3> QED
      BY <1>1, <2>2, <2>3, <3>1 DEF Effect, h
  <2>4. CASE Hook(j) # h
    BY <2>1, <2>2, <2>4, ProgressEffect DEF h
  <2> QED
    BY <2>3, <2>4
<1>15. \A p \in asked : \A L : Trying(p, L) /\ (p = p0 => l \in L \/ task[k].pc \notin L) => Trying(p, L)'
  <2> SUFFICES ASSUME NEW p \in asked, NEW L, Trying(p, L), p = p0 => l \in L \/ task[k].pc \notin L
               PROVE Trying(p, L)'
    OBVIOUS
  <2>1. task[k].pc \in L /\ Pair(k) = p => t.pc \in L \/ Queued(p)'
    BY <1>8 DEF p0
  <2> QED
    BY <1>3, <1>8, <2>1, MoveTrying
<1>16. Accounted'
  <2> DEFINE L == {"post", "note", "retry"}
  <2> SUFFICES ASSUME NEW p \in asked
               PROVE \/ Trying(p, L)' \/ accepted'[p] > 0 \/ posts'[p] > MaxRetries
                     \/ status[p[1]] = "INACTIVE" \/ p[1] \in malformed
    BY <1>3 DEF Accounted
  <2>1. p \in Webhook \X Event
    BY AskedPairs
  <2>2. \/ Trying(p, L) \/ accepted[p] > 0 \/ posts[p] > MaxRetries
        \/ status[p[1]] = "INACTIVE" \/ p[1] \in malformed
    BY DEF Fate, Accounted
  <2>3. CASE Trying(p, L)
    <3>1. CASE p = p0 => l \in L \/ task[k].pc \notin L
      BY <1>15, <2>3, <3>1
    <3>2. CASE p = p0 /\ l \notin L /\ task[k].pc \in L
      <4>1. accepted'[p0] = accepted[p0] + 1 \/ h \in malformed
        BY <1>1, <3>2 DEF Effect, p0, h
      <4> QED
        BY <1>2, <1>4, <2>1, <3>2, <4>1
    <3> QED
      BY <3>1, <3>2
  <2>4. CASE accepted[p] > 0 \/ posts[p] > MaxRetries
    BY <1>4, <1>6, <2>1, <2>4, WebhookAssumption
  <2> QED
    BY <2>2, <2>3, <2>4
<1>17. Told'
  <2> DEFINE L == {"post", "note"}
  <2> SUFFICES ASSUME NEW p \in asked, Unaccepted(p[1])', status[p[1]] = "ACTIVE", p[1] \notin malformed
               PROVE lastError'[p[1]] \/ Trying(p, L)'
    BY <1>3 DEF Told
  <2>1. p \in Webhook \X Event /\ p[1] \in Webhook
    BY AskedPairs
  <2>2. lastError[p[1]] \/ Trying(p, L)
    BY <1>12, <2>1 DEF Fate, Told
  <2>3. CASE p[1] # h
    <3>1. lastError'[p[1]] = lastError[p[1]]
      BY <2>1, <2>3, ProgressEffect DEF h
    <3> QED
      BY <1>2, <1>15, <2>2, <2>3, <3>1
  <2>4. CASE p[1] = h
    <3>1. task[k].pc # "clear" /\ accepted'[p0] = 0
      BY <1>13, <2>4 DEF Unaccepted
    <3>2. l \notin {"clear"} /\ ~(task[k].pc = "post" /\ l = "ack")
      BY <1>1, <1>2, <1>4, <2>4, <3>1 DEF Effect, p0, h
    <3>3. CASE task[k].pc = "note"
      <4>1. task[k].seen => lastError[h]
        BY <1>2, <1>12, <2>1, <2>4 DEF Fate, SeenHolds, h
      <4> QED
        BY <1>1, <2>4, <3>3, <4>1 DEF Effect, h
    <3>4. CASE task[k].pc = "post"
      <4>1. l = "note" /\ lastError' = lastError
        BY <1>1, <3>2, <3>4 DEF Effect
      <4> QED
        BY <1>15, <2>2, <4>1
    <3> QED
      BY <1>1, <3>1, <3>3, <3>4 DEF Effect
  <2> QED
    BY <2>3, <2>4
<1> QED
  BY <1>10, <1>11, <1>14, <1>16, <1>17 DEF Fate

LEMMA TakeFate ==
  ASSUME TypeOK, Fate, NEW k \in Worker, TakeTask(k)
  PROVE Fate'
<1>1. PICK m \in Message : Taking(k, m)
  BY TakeTakes
<1> DEFINE q == Pair1(m)
           l == IF status[m.hook] = "ACTIVE" THEN "post" ELSE "ack"
<1>2. UNCHANGED <<status, malformed, lastError, fired, asked, posts, accepted>>
  BY DEF TakeTask, counts
<1>3. /\ queue[m] > 0 /\ q \in asked /\ Pair(k)' = q /\ Hook(k)' = m.hook /\ held'[k] = m
      /\ m.hook \in Webhook /\ q[1] = m.hook /\ status[m.hook] # "NONE"
  BY <1>1, MessageParts DEF Taking, Fate, Known, Pair, Hook, Pair1
<1>4. \A j \in Worker : j # k => /\ held'[j] = held[j] /\ task'[j] = task[j]
                                /\ Pair(j)' = Pair(j) /\ Hook(j)' = Hook(j)
  BY <1>1 DEF Taking, Moves, Pair, Hook
<1>5. task'[k].pc = l /\ task'[k].seen = lastError[m.hook] /\ At(k, "idle")
  BY <1>1 DEF Taking, Moves
<1>6. \A n \in Message : queue'[n] > 0 => queue[n] > 0
  <2>1. queue \in [Message -> Nat]
    BY DEF TypeOK, BrokerType
  <2> QED
    BY <1>1, <2>1 DEF Taking
<1>7. \A p, L : Trying(p, L) /\ "post" \in L /\ "idle" \notin L /\ (p # q \/ l = "post")
                 => Trying(p, L)'
  <2> SUFFICES ASSUME NEW p, NEW L, Trying(p, L), "post" \in L, "idle" \notin L, p # q \/ l = "post"
               PROVE Trying(p, L)'
    OBVIOUS
  <2>1. CASE p = q
    BY <1>3, <1>5, <2>1 DEF Trying
  <2>2. ASSUME p # q, NEW n \in Message, Pair1(n) = p, queue[n] > 0
        PROVE Trying(p, L)'
    BY <1>1, <2>2 DEF Taking, Trying, Queued
  <2>3. ASSUME NEW j \in Worker, task[j].pc \in L, Pair(j) = p
        PROVE Trying(p, L)'
    BY <1>4, <1>5, <2>3 DEF Trying, At
  <2> QED
    BY <2>1, <2>2, <2>3 DEF Trying, Queued
<1>8. Known'
  <2>1. \A j \in Worker : (~At(j, "idle"))' => Pair(j)' \in asked'
    BY <1>2, <1>3, <1>4 DEF Fate, Known, At
  <2> QED
    BY <1>2, <1>6, <2>1 DEF Fate, Known
<1>9. Counted'
  <2>1. \A n \in Message : queue'[n] > 0 => posts'[Pair1(n)] >= n.retries
    BY <1>2, <1>6 DEF Fate, Counted
  <2>2. \A j \in Worker : (~At(j, "idle"))' => posts'[Pair(j)'] >= held'[j].retries
    BY <1>2, <1>3, <1>4 DEF Fate, Counted, At
  <2>3. \A j \in Worker : (At(j, "note") \/ At(j, "retry"))' => posts'[Pair(j)'] >= held'[j].retries + 1
    BY <1>2, <1>4, <1>5 DEF Fate, Counted, At
  <2>4. \A j \in Worker : At(j, "clear")' => accepted'[Pair(j)'] > 0
    BY <1>2, <1>4, <1>5 DEF Fate, Counted, At
  <2> QED
    BY <2>1, <2>2, <2>3, <2>4 DEF Counted
<1>10. SeenHolds'
  <2> SUFFICES ASSUME NEW j \in Worker, (~At(j, "idle"))', Unaccepted(Hook(j))', task'[j].seen
               PROVE lastError[Hook(j)']
    BY <1>2 DEF SeenHolds
  <2>1. CASE j = k
    BY <1>3, <1>5, <2>1
  <2>2. CASE j # k
    BY <1>2, <1>4, <2>2 DEF Fate, SeenHolds, At, Unaccepted
  <2> QED
    BY <2>1, <2>2
<1>11. l = "ack" => status[q[1]] = "INACTIVE"
  BY <1>3 DEF TypeOK
<1>12. Accounted'
  BY <1>2, <1>7, <1>11 DEF Fate, Accounted
<1>13. Told'
  BY <1>2, <1>7, <1>11 DEF Fate, Told, Unaccepted
<1> QED
  BY <1>8, <1>9, <1>10, <1>12, <1>13 DEF Fate

LEMMA RetryFate ==
  ASSUME TypeOK, Fate, NEW k \in Worker, Retry(k)
  PROVE Fate'
<1>1. UNCHANGED <<status, malformed, lastError, fired, asked, posts, accepted>>
  BY DEF Retry, counts
<1> DEFINE t == [pc |-> "ack", seen |-> task[k].seen]
<1>2. /\ ~At(k, "idle") /\ At(k, "retry") /\ Moves(k, t) /\ held' = held
      /\ t \in Task /\ t.pc = "ack" /\ t.seen = task[k].seen
  BY RetryRetries DEF Moves
<1>3. Pair(k) \in asked /\ posts[Pair(k)] >= held[k].retries + 1
  BY <1>2 DEF Fate, Known, Counted
<1>4. \A n \in Message :
        /\ queue[n] \in Nat /\ queue'[n] \in Nat /\ queue'[n] >= queue[n]
        /\ queue'[n] # queue[n] => Retrying(k, n)
  <2>1. \A n \in Message : queue[n] \in Nat /\ queue'[n] \in Nat
    BY RetryRetries DEF TypeOK, BrokerType
  <2>2. CASE queue' = queue
    BY <2>1, <2>2
  <2>3. ASSUME NEW m \in Message, Retrying(k, m)
        PROVE \A n \in Message : queue'[n] >= queue[n] /\ (queue'[n] # queue[n] => n = m)
    BY <2>1, <2>3 DEF Retrying
  <2> QED
    BY <2>1, <2>2, <2>3, RetryRetries
<1>5. \A j \in Worker : /\ Pair(j)' = Pair(j) /\ Hook(j)' = Hook(j)
                        /\ j # k => task'[j] = task[j]
                        /\ task'[k].pc = "ack" /\ task'[k].seen = task[k].seen
  BY <1>2 DEF Pair, Hook, Moves
<1> HIDE DEF t
<1>6. \A j \in Worker : (~At(j, "idle"))' => ~At(j, "idle")
  BY <1>2, <1>5 DEF At
<1>7. Known'
  <2>1. \A n \in Message : queue'[n] > 0 => Pair1(n) \in asked
    BY <1>3, <1>4 DEF Fate, Known, Retrying
  <2> QED
    BY <1>1, <1>5, <1>6, <2>1 DEF Fate, Known
<1>8. Counted'
  <2>1. \A n \in Message : queue'[n] > 0 => posts[Pair1(n)] >= n.retries
    BY <1>3, <1>4 DEF Fate, Counted, Retrying
  <2> QED
    BY <1>1, <1>2, <1>5, <1>6, <2>1 DEF Fate, Counted, At
<1>9. SeenHolds'
  BY <1>1, <1>5, <1>6 DEF Fate, SeenHolds, Unaccepted
<1>10. Queued(Pair(k))' \/ posts[Pair(k)] > MaxRetries
  <2>1. ASSUME NEW m \in Message, Retrying(k, m)
        PROVE Queued(Pair(k))'
    <3>1. Pair1(m) = Pair(k)' /\ queue'[m] > 0
      BY <1>4, <1>5, <2>1 DEF Retrying
    <3> QED
      BY <3>1 DEF Queued
  <2>2. CASE held[k].retries = MaxRetries
    <3>1. posts[Pair(k)] \in Nat
      BY <1>2, HeldMessage DEF TypeOK
    <3> QED
      BY <1>3, <2>2, <3>1, WebhookAssumption
  <2> QED
    BY <2>1, <2>2, RetryRetries
<1>11. \A p \in asked : \A L : Trying(p, L) /\ (p # Pair(k) \/ Queued(Pair(k))' \/ "retry" \notin L) => Trying(p, L)'
  <2> SUFFICES ASSUME NEW p \in asked, NEW L, Trying(p, L),
                      p # Pair(k) \/ Queued(Pair(k))' \/ "retry" \notin L
               PROVE Trying(p, L)'
    OBVIOUS
  <2>1. task[k].pc \in L /\ Pair(k) = p => Queued(p)'
    <3>1. Pair(k)' = Pair(k)
      BY <1>5
    <3> QED
      BY <1>2, <3>1 DEF At, Queued
  <2>2. \A m \in Message : queue[m] > 0 => queue'[m] > 0
    BY <1>4
  <2> QED
    BY <1>2, <2>1, <2>2, MoveTrying
<1>12. Accounted'
  BY <1>1, <1>10, <1>11 DEF Fate, Accounted
<1>13. Told'
  BY <1>1, <1>11 DEF Fate, Told, Unaccepted
<1> QED
  BY <1>7, <1>8, <1>9, <1>12, <1>13 DEF Fate

\* A worker puts its message away: it ended with it, or the queue has it again.
LEMMA LeaveFate ==
  ASSUME TypeOK, Fate, NEW k \in Worker, EndTask(k) \/ Die(k) \/ Overrun(k)
  PROVE Fate'
<1>1. UNCHANGED <<status, malformed, lastError, fired, asked, posts, accepted>>
  BY DEF EndTask, Die, Overrun, counts
<1>2. \/ At(k, "ack") /\ queue' = queue
      \/ held[k] \in Message /\ ~At(k, "idle") /\ queue'[held[k]] > 0
  <2>1. \A m \in Message : queue[m] \in Nat
    BY DEF TypeOK, BrokerType
  <2> QED
    BY <2>1, LostTyped DEF EndTask, Acknowledge, Die, Overrun
<1>3. \A n \in Message :
        /\ queue[n] > 0 => queue'[n] > 0
        /\ queue'[n] > 0 => queue[n] > 0 \/ (n = held[k] /\ ~At(k, "idle"))
  <2>1. \A m \in Message : queue[m] \in Nat
    BY DEF TypeOK, BrokerType
  <2>2. CASE EndTask(k)
    BY <2>2 DEF EndTask, Acknowledge
  <2>3. CASE Die(k) \/ Overrun(k)
    BY <2>1, <2>3, LostTyped DEF Die, Overrun
  <2> QED
    BY <2>2, <2>3
<1>4. \A j \in Worker : /\ j # k => held'[j] = held[j] /\ task'[j] = task[j]
                        /\ task'[j].pc = "idle" \/ (held'[j] = held[j] /\ task'[j] = task[j])
  <2>1. CASE EndTask(k) \/ Die(k)
    BY <2>1, IdleTask DEF EndTask, Acknowledge, Die, WorkerLost, TypeOK, BrokerType
  <2>2. CASE Overrun(k)
    BY <2>2 DEF Overrun, VisibilityTimeout
  <2> QED
    BY <2>1, <2>2
<1>5. \A j \in Worker : (~At(j, "idle"))' =>
        /\ ~At(j, "idle") /\ held'[j] = held[j] /\ task'[j] = task[j]
        /\ Pair(j)' = Pair(j) /\ Hook(j)' = Hook(j)
  BY <1>4 DEF At, Pair, Hook
<1>6. Pair(k) = Pair1(held[k])
  BY DEF Pair, Pair1
<1>7. Known'
  <2>1. \A n \in Message : queue'[n] > 0 => Pair1(n) \in asked
    BY <1>3, <1>6 DEF Fate, Known
  <2> QED
    BY <1>1, <1>5, <2>1 DEF Fate, Known
<1>8. Counted'
  <2>1. \A n \in Message : queue'[n] > 0 => posts[Pair1(n)] >= n.retries
    BY <1>3, <1>6 DEF Fate, Counted
  <2>2. \A j \in Worker : (At(j, "note") \/ At(j, "retry"))' => posts'[Pair(j)'] >= held'[j].retries + 1
    BY <1>1, <1>5 DEF Fate, Counted, At
  <2>3. \A j \in Worker : At(j, "clear")' => accepted'[Pair(j)'] > 0
    BY <1>1, <1>5 DEF Fate, Counted, At
  <2> QED
    BY <1>1, <1>5, <2>1, <2>2, <2>3 DEF Fate, Counted
<1>9. SeenHolds'
  BY <1>1, <1>5 DEF Fate, SeenHolds, Unaccepted
<1>10. \A p, L : Trying(p, L) /\ "ack" \notin L /\ "idle" \notin L => Trying(p, L)'
  <2> SUFFICES ASSUME NEW p, NEW L, Trying(p, L), "ack" \notin L, "idle" \notin L
               PROVE Trying(p, L)'
    OBVIOUS
  <2>1. CASE Queued(p)
    BY <1>3, <2>1 DEF Trying, Queued
  <2>2. ASSUME NEW j \in Worker, task[j].pc \in L, Pair(j) = p
        PROVE Trying(p, L)'
    <3>1. CASE j = k
      <4>1. held[k] \in Message /\ queue'[held[k]] > 0
        BY <1>2, <2>2, <3>1 DEF At
      <4> QED
        BY <1>6, <2>2, <3>1, <4>1 DEF Trying, Queued
    <3>2. CASE j # k
      <4>1. task'[j] = task[j] /\ Pair(j)' = Pair(j)
        BY <1>4, <3>2 DEF Pair
      <4> QED
        BY <2>2, <4>1 DEF Trying
    <3> QED
      BY <3>1, <3>2
  <2> QED
    BY <2>1, <2>2 DEF Trying
<1>11. Accounted'
  BY <1>1, <1>10 DEF Fate, Accounted
<1>12. Told'
  BY <1>1, <1>10 DEF Fate, Told, Unaccepted
<1> QED
  BY <1>7, <1>8, <1>9, <1>11, <1>12 DEF Fate

LEMMA StutterFate ==
  ASSUME Fate, UNCHANGED vars
  PROVE Fate'
<1>1. UNCHANGED <<status, malformed, lastError, fired, asked, posts, accepted, task, queue, held>>
  BY DEF vars, counts, broker
<1>2. \A p, L : Trying(p, L)' <=> Trying(p, L)
  BY <1>1 DEF Trying, Queued, Pair
<1>3. Known' /\ Counted' /\ SeenHolds'
  BY <1>1 DEF Fate, Known, Counted, SeenHolds, Unaccepted, At, Pair, Hook
<1>4. Accounted' /\ Told'
  BY <1>1, <1>2 DEF Fate, Accounted, Told, Unaccepted
<1> QED
  BY <1>3, <1>4 DEF Fate

LEMMA FateStep == TypeOK /\ Fate /\ [Next]_vars => Fate'
<1> SUFFICES ASSUME TypeOK, Fate, [Next]_vars PROVE Fate'
  OBVIOUS
<1>1. CASE ApiStep
  BY <1>1, RegistrationFate, DispatchFate DEF ApiStep, StopReported, TestWebhook
<1>2. ASSUME NEW k \in Worker, TaskStep(k) \/ Die(k) \/ Overrun(k)
      PROVE Fate'
  BY <1>2, TakeFate, ProgressFate, RetryFate, LeaveFate DEF TaskStep, Progress
<1>3. CASE UNCHANGED vars
  BY <1>3, StutterFate
<1> QED
  BY <1>1, <1>2, <1>3 DEF Next

LEMMA StillUnderway ==
  ASSUME TypeOK, NEW p \in asked, NEW L, L \subseteq Working, Trying(p, L)
  PROVE Underway(p[1], p[2])
<1>1. p = <<p[1], p[2]>>
  BY AskedPairs
<1>2. ASSUME NEW m \in Message, Pair1(m) = p, Pending(m)
      PROVE Underway(p[1], p[2])
  <2>1. /\ m = [hook |-> m.hook, event |-> m.event, retries |-> m.retries]
        /\ m.retries \in 0..MaxRetries
    BY MessageParts
  <2>2. m.hook = p[1] /\ m.event = p[2]
    BY <1>1, <1>2 DEF Pair1
  <2> QED
    BY <1>2, <2>1, <2>2 DEF Underway
<1>3. CASE Queued(p)
  BY <1>2, <1>3 DEF Queued, Pending
<1>4. ASSUME NEW k \in Worker, task[k].pc \in L, Pair(k) = p
      PROVE Underway(p[1], p[2])
  <2>1. held[k] \in Message /\ Pair1(held[k]) = p
    BY <1>4, HeldMessage DEF Working, At, Pair, Pair1
  <2> QED
    BY <1>2, <2>1 DEF Pending
<1> QED
  BY <1>3, <1>4 DEF Trying

LEMMA FateDropsNothing == TypeOK /\ Fate => NothingDropped
<1> SUFFICES ASSUME TypeOK, Fate, NEW p \in asked, ~Underway(p[1], p[2])
             PROVE \/ accepted[p] > 0 \/ posts[p] > MaxRetries
                   \/ status[p[1]] = "INACTIVE" \/ p[1] \in malformed
  BY DEF NothingDropped
<1>1. ~Trying(p, {"post", "note", "retry"})
  BY StillUnderway DEF Working
<1> QED
  BY <1>1 DEF Fate, Accounted

\* No event is dropped, whatever dies or is delivered twice.
THEOREM WebhookNothingDropped == Spec => []NothingDropped
BY FateDropsNothing, InitTyped, InitFate, TypeStep, FateStep, PTL DEF Spec

\* A partner that accepted nothing shows an error once nothing is under way.
THEOREM WebhookFailureShown == Spec => []FailureShown
<1>1. TypeOK /\ Fate => FailureShown
  <2> SUFFICES ASSUME TypeOK, Fate, NEW p \in asked, ~Underway(p[1], p[2]),
                      status[p[1]] = "ACTIVE", p[1] \notin malformed,
                      \A e \in Event : accepted[<<p[1], e>>] = 0
               PROVE lastError[p[1]]
    BY DEF FailureShown
  <2>1. ~Trying(p, {"post", "note"})
    BY StillUnderway DEF Working
  <2> QED
    BY <2>1 DEF Fate, Told, Unaccepted
<1> QED
  BY <1>1, InitTyped, InitFate, TypeStep, FateStep, PTL DEF Spec

-----------------------------------------------------------------------------
(* Calls are bounded, and so are acceptances                               *)
(*                                                                         *)
(* A copy of a message, in the queue or in hand, stands for the tries that *)
(* are still to come of it: those numbered from its retry count, or its    *)
(* next step, to MaxRetries.  J is the tries that count: all of them for   *)
(* the POSTs, the last one for the acceptances, each of which uses up what *)
(* its copy had.  What was used and what is to come stays within the       *)
(* tries of 1 + faults copies.                                             *)

Tries == 0..MaxRetries
Last == {MaxRetries}

From(n, J) == {j \in J : n <= j}

QueuedTries(q, p, J) ==
  {x \in (Message \X Nat) \X J :
     /\ Pair1(x[1][1]) = p
     /\ 1 <= x[1][2] /\ x[1][2] <= q[x[1][1]]
     /\ x[1][1].retries <= x[2]}

HeldTries(f, J) == {x \in Worker \X J : f[x[1]] <= x[2]}

\* The first try that worker k may still make of p; none is after MaxRetries.
NextTry(k) ==
  IF At(k, "post") THEN held[k].retries
  ELSE IF At(k, "note") \/ At(k, "retry") THEN held[k].retries + 1
  ELSE MaxRetries + 1

TriesOf(p) ==
  [k \in Worker |-> IF ~At(k, "idle") /\ Pair(k) = p THEN NextTry(k) ELSE MaxRetries + 1]

Fits(p, J, q, f, used, x) ==
  /\ IsFiniteSet(QueuedTries(q, p, J)) /\ IsFiniteSet(HeldTries(f, J))
  /\ used + Cardinality(QueuedTries(q, p, J)) + Cardinality(HeldTries(f, J))
       <= Cardinality(J) * (1 + x)

Budget ==
  \A p \in Webhook \X Event :
    /\ Fits(p, Tries, queue, TriesOf(p), posts[p], faults)
    /\ Fits(p, Last, queue, TriesOf(p), accepted[p], faults)

LEMMA Disjoint ==
  ASSUME NEW A, NEW B, IsFiniteSet(A), IsFiniteSet(B), A \cap B = {}
  PROVE /\ IsFiniteSet(A \cup B) /\ Cardinality(A) \in Nat /\ Cardinality(B) \in Nat
        /\ Cardinality(A \cup B) = Cardinality(A) + Cardinality(B)
<1>1. /\ IsFiniteSet(A \cup B)
      /\ Cardinality(A \cup B) = Cardinality(A) + Cardinality(B) - Cardinality(A \cap B)
  BY FS_Union
<1>2. Cardinality(A \cap B) = 0 /\ Cardinality(A) \in Nat /\ Cardinality(B) \in Nat
  BY FS_EmptySet, FS_CardinalityType
<1> QED
  BY <1>1, <1>2

\* The tries from n on of one copy c.
Copy(c, n, J) == {c} \X From(n, J)

LEMMA CopySize ==
  ASSUME NEW c, NEW n \in Nat, NEW J \in SUBSET Nat, IsFiniteSet(J)
  PROVE /\ IsFiniteSet(Copy(c, n, J)) /\ IsFiniteSet(From(n, J))
        /\ Cardinality(From(n, J)) \in Nat /\ Cardinality(J) \in Nat
        /\ Cardinality(From(n, J)) <= Cardinality(J)
        /\ Cardinality(Copy(c, n, J)) = Cardinality(From(n, J))
<1>1. From(n, J) \in SUBSET J
  BY DEF From
<1>2. /\ IsFiniteSet(From(n, J)) /\ Cardinality(From(n, J)) <= Cardinality(J)
      /\ Cardinality(From(n, J)) \in Nat /\ Cardinality(J) \in Nat
  BY <1>1, FS_Subset, FS_CardinalityType
<1>3. IsFiniteSet({c}) /\ Cardinality({c}) = 1
  BY FS_Singleton
<1>4. /\ IsFiniteSet(Copy(c, n, J))
      /\ Cardinality(Copy(c, n, J)) = Cardinality({c}) * Cardinality(From(n, J))
  BY <1>2, <1>3, FS_Product DEF Copy
<1> QED
  BY <1>2, <1>3, <1>4

LEMMA Fewer ==
  ASSUME NEW J \in SUBSET Nat, IsFiniteSet(J), NEW n \in Nat, NEW m \in Nat, n <= m
  PROVE /\ Cardinality(From(m, J)) <= Cardinality(From(n, J))
        /\ (\E j \in J : n <= j /\ j < m)
             => Cardinality(From(m, J)) + 1 <= Cardinality(From(n, J))
<1>1. IsFiniteSet(From(n, J)) /\ Cardinality(From(n, J)) \in Nat /\ Cardinality(From(m, J)) \in Nat
  BY CopySize
<1>2. From(m, J) \in SUBSET From(n, J)
  <2>1. \A j \in J : j \in Nat /\ (m <= j => n <= j)
    OBVIOUS
  <2> QED
    BY <2>1 DEF From
<1>3. Cardinality(From(m, J)) <= Cardinality(From(n, J))
  BY <1>1, <1>2, FS_Subset
<1>4. ASSUME NEW j \in J, n <= j, j < m
      PROVE Cardinality(From(m, J)) # Cardinality(From(n, J))
  <2>1. j \in From(n, J) /\ j \notin From(m, J)
    BY <1>4 DEF From
  <2> QED
    BY <1>1, <1>2, <2>1, FS_Subset
<1> QED
  BY <1>1, <1>3, <1>4

LEMMA QueueSame ==
  ASSUME NEW q \in [Message -> Nat], NEW r \in [Message -> Nat], NEW p, NEW J,
         \A m \in Message : Pair1(m) = p => r[m] = q[m]
  PROVE QueuedTries(r, p, J) = QueuedTries(q, p, J)
BY DEF QueuedTries

\* One copy of m more in r than in q.
LEMMA QueueGrows ==
  ASSUME NEW q \in [Message -> Nat], NEW r \in [Message -> Nat], NEW m \in Message,
         r[m] = q[m] + 1, \A n \in Message : n # m /\ Pair1(n) = Pair1(m) => r[n] = q[n],
         NEW J \in SUBSET Nat, IsFiniteSet(J),
         \/ IsFiniteSet(QueuedTries(q, Pair1(m), J))
         \/ IsFiniteSet(QueuedTries(r, Pair1(m), J))
  PROVE /\ IsFiniteSet(QueuedTries(q, Pair1(m), J)) /\ IsFiniteSet(QueuedTries(r, Pair1(m), J))
        /\ Cardinality(QueuedTries(r, Pair1(m), J))
             = Cardinality(QueuedTries(q, Pair1(m), J)) + Cardinality(From(m.retries, J))
<1> DEFINE A == QueuedTries(q, Pair1(m), J)
           B == Copy(<<m, r[m]>>, m.retries, J)
           C == QueuedTries(r, Pair1(m), J)
<1>0. m.retries \in Nat
  BY MessageParts
<1>1. C = A \cup B
  <2>1. \A x \in A : x \in C
    BY DEF QueuedTries
  <2>2. \A x \in B : x \in C
    BY <1>0 DEF QueuedTries, Copy, From
  <2>3. \A x \in C : x \notin A => x \in B
    <3> SUFFICES ASSUME NEW x \in C, x \notin A PROVE x \in B
      OBVIOUS
    <3>1. /\ x = <<x[1], x[2]>> /\ x[1] = <<x[1][1], x[1][2]>>
          /\ x[1][1] \in Message /\ x[1][2] \in Nat /\ x[2] \in J
          /\ Pair1(x[1][1]) = Pair1(m) /\ 1 <= x[1][2] /\ x[1][2] <= r[x[1][1]]
          /\ x[1][1].retries <= x[2]
      BY DEF QueuedTries
    <3>2. ~(x[1][2] <= q[x[1][1]])
      BY <3>1 DEF QueuedTries
    <3>3. x[1][1] = m /\ x[1][2] = r[m]
      BY <3>1, <3>2
    <3> QED
      BY <3>1, <3>3 DEF Copy, From
  <2> QED
    BY <2>1, <2>2, <2>3
<1>2. A \cap B = {}
  BY DEF QueuedTries, Copy
<1>3. IsFiniteSet(B) /\ Cardinality(B) = Cardinality(From(m.retries, J))
  <2>1. \A c : /\ IsFiniteSet(Copy(c, m.retries, J))
               /\ Cardinality(Copy(c, m.retries, J)) = Cardinality(From(m.retries, J))
    BY <1>0, CopySize
  <2> QED
    BY <2>1
<1>4. IsFiniteSet(A)
  BY <1>1, FS_Subset
<1> HIDE DEF A, B, C
<1>5. IsFiniteSet(C) /\ Cardinality(C) = Cardinality(A) + Cardinality(B)
  BY <1>1, <1>2, <1>3, <1>4, Disjoint
<1> QED
  BY <1>3, <1>4, <1>5 DEF A, C

\* Only worker k's tries change.
LEMMA HeldChanges ==
  ASSUME NEW f \in [Worker -> Nat], NEW g \in [Worker -> Nat], NEW k \in Worker,
         \A j \in Worker : j # k => g[j] = f[j],
         NEW J \in SUBSET Nat, IsFiniteSet(J), IsFiniteSet(HeldTries(f, J))
  PROVE /\ IsFiniteSet(HeldTries(g, J))
        /\ Cardinality(HeldTries(g, J)) + Cardinality(From(f[k], J))
             = Cardinality(HeldTries(f, J)) + Cardinality(From(g[k], J))
<1> DEFINE C == {x \in HeldTries(f, J) : x[1] # k}
           F == Copy(k, f[k], J)
           G == Copy(k, g[k], J)
<1>1. HeldTries(f, J) = C \cup F /\ C \cap F = {}
  BY DEF HeldTries, Copy, From
<1>2. HeldTries(g, J) = C \cup G /\ C \cap G = {}
  BY DEF HeldTries, Copy, From
<1>3. /\ IsFiniteSet(F) /\ Cardinality(F) = Cardinality(From(f[k], J))
      /\ IsFiniteSet(G) /\ Cardinality(G) = Cardinality(From(g[k], J))
  <2>1. \A n \in Nat : /\ IsFiniteSet(Copy(k, n, J))
                        /\ Cardinality(Copy(k, n, J)) = Cardinality(From(n, J))
    BY CopySize
  <2>2. f[k] \in Nat /\ g[k] \in Nat
    OBVIOUS
  <2> QED
    BY <2>1, <2>2
<1>4. IsFiniteSet(C)
  BY FS_Subset
<1> HIDE DEF C, F, G
<1>5. /\ Cardinality(HeldTries(f, J)) = Cardinality(C) + Cardinality(F)
      /\ Cardinality(F) \in Nat /\ Cardinality(C) \in Nat
  BY <1>1, <1>3, <1>4, Disjoint
<1>6. /\ IsFiniteSet(HeldTries(g, J)) /\ Cardinality(G) \in Nat
      /\ Cardinality(HeldTries(g, J)) = Cardinality(C) + Cardinality(G)
  BY <1>2, <1>3, <1>4, Disjoint
<1> QED
  BY <1>3, <1>5, <1>6

LEMMA SomeTries ==
  ASSUME NEW J \in SUBSET Tries
  PROVE /\ J \in SUBSET Nat /\ IsFiniteSet(J) /\ Cardinality(J) \in Nat
        /\ From(MaxRetries + 1, J) = {} /\ Cardinality(From(MaxRetries + 1, J)) = 0
<1>1. J \in SUBSET Nat /\ IsFiniteSet(Tries)
  BY WebhookAssumption, FS_Interval DEF Tries
<1>2. \A j \in J : j \in Nat /\ j <= MaxRetries
  BY WebhookAssumption DEF Tries
<1>3. From(MaxRetries + 1, J) = {}
  BY <1>2, WebhookAssumption DEF From
<1> QED
  BY <1>1, <1>3, FS_Subset, FS_EmptySet, FS_CardinalityType

AllTries == \A p : TriesOf(p) \in [Worker -> Nat]

LEMMA TriesTyped == TypeOK => AllTries
<1> SUFFICES ASSUME TypeOK, NEW p, NEW k \in Worker
             PROVE (IF ~At(k, "idle") /\ Pair(k) = p THEN NextTry(k) ELSE MaxRetries + 1) \in Nat
  BY DEF AllTries, TriesOf
<1>1. ~At(k, "idle") => held[k].retries \in Nat
  BY HeldMessage, MessageParts, WebhookAssumption
<1> QED
  BY <1>1, WebhookAssumption DEF NextTry, At

\* A step that moves worker k only: what it uses and adds must be what leaves.
LEMMA WorkerFits ==
  ASSUME TypeOK, TypeOK', NEW k \in Worker,
         \A j \in Worker : j # k => task'[j] = task[j] /\ held'[j] = held[j],
         NEW p, NEW J \in SUBSET Tries, NEW u \in Nat, NEW v \in Nat,
         Fits(p, J, queue, TriesOf(p), u, faults),
         IsFiniteSet(QueuedTries(queue', p, J)), NEW a \in Nat, NEW b \in Nat,
         Cardinality(QueuedTries(queue', p, J)) + a = Cardinality(QueuedTries(queue, p, J)) + b,
         NEW c \in Nat, NEW d \in Nat,
         c = Cardinality(From(TriesOf(p)[k], J)), d = Cardinality(From(TriesOf(p)'[k], J)),
         \/ faults' = faults /\ v + b + d <= u + a + c
         \/ faults' = faults + 1 /\ v + b + d <= u + a + c + Cardinality(J)
  PROVE Fits(p, J, queue', TriesOf(p)', v, faults')
<1>1. \A j \in Worker : j # k => TriesOf(p)'[j] = TriesOf(p)[j]
  BY DEF TriesOf, NextTry, At, Pair
<1>2. TypeOK' => AllTries'
  BY TriesTyped, PTL
<1>3. TriesOf(p) \in [Worker -> Nat] /\ TriesOf(p)' \in [Worker -> Nat]
  BY <1>2, TriesTyped DEF AllTries
<1>4. J \in SUBSET Nat /\ IsFiniteSet(J)
  BY SomeTries
<1>5. IsFiniteSet(HeldTries(TriesOf(p), J))
  BY DEF Fits
<1>6. /\ IsFiniteSet(HeldTries(TriesOf(p)', J))
      /\ Cardinality(HeldTries(TriesOf(p)', J)) + c = Cardinality(HeldTries(TriesOf(p), J)) + d
  BY <1>1, <1>3, <1>4, <1>5, HeldChanges
<1>7. faults \in Nat /\ faults' \in Nat
  BY DEF TypeOK, BrokerType
<1>8. faults' = faults \/ faults' = faults + 1
  OBVIOUS
<1> DEFINE Q == Cardinality(QueuedTries(queue, p, J))
           R == Cardinality(QueuedTries(queue', p, J))
           F == Cardinality(HeldTries(TriesOf(p), J))
           G == Cardinality(HeldTries(TriesOf(p)', J))
           n == Cardinality(J)
           t == n * (1 + faults)
           z == n * (1 + faults')
<1>9. Q \in Nat /\ R \in Nat /\ F \in Nat /\ G \in Nat /\ n \in Nat
  BY <1>4, <1>5, <1>6, FS_CardinalityType DEF Fits
<1>10. u + Q + F <= t /\ R + a = Q + b /\ G + c = F + d
  BY <1>6 DEF Fits
<1>11. t \in Nat /\ z \in Nat /\ (faults' = faults => z = t) /\ (faults' = faults + 1 => z = t + n)
  <2> HIDE DEF n
  <2> QED
    BY <1>7, <1>9
<1>12. \/ faults' = faults /\ v + b + d <= u + a + c
       \/ faults' = faults + 1 /\ v + b + d <= u + a + c + n
  OBVIOUS
<1> HIDE DEF Q, R, F, G, n, t, z
<1>13. v + R + G <= z
  <2>1. CASE faults' = faults /\ v + b + d <= u + a + c
    BY <1>9, <1>10, <1>11, <2>1
  <2>2. CASE faults' = faults + 1 /\ v + b + d <= u + a + c + n
    BY <1>9, <1>10, <1>11, <2>2
  <2> QED
    BY <1>12, <2>1, <2>2
<1> QED
  BY <1>6, <1>13 DEF Fits, R, G, n, z

\* A step that leaves the queue and the task's count alone, but for its POST.
LEMMA ProgressFits ==
  ASSUME TypeOK, TypeOK', NEW k \in Worker, NEW l \in Working,
         Moves(k, [pc |-> l, seen |-> task[k].seen]), ~At(k, "idle"),
         UNCHANGED <<queue, held, faults>>,
         NEW p \in Webhook \X Event, NEW J \in SUBSET Tries, NEW u \in Nat, NEW v \in Nat,
         Fits(p, J, queue, TriesOf(p), u, faults),
         NextTry(k) <= NextTry(k)',
         \/ v = u
         \/ /\ v = u + 1 /\ p = Pair(k)
            /\ \E j \in J : NextTry(k) <= j /\ j < NextTry(k)'
  PROVE Fits(p, J, queue', TriesOf(p)', v, faults')
<1> DEFINE x == TriesOf(p)[k]
           y == TriesOf(p)'[k]
           c == Cardinality(From(x, J))
           d == Cardinality(From(y, J))
<1>1. Pair(k)' = Pair(k) /\ (~At(k, "idle"))'
  BY DEF Pair, Moves, At, Working
<1>2. /\ p = Pair(k) => x = NextTry(k) /\ y = NextTry(k)'
      /\ p # Pair(k) => x = MaxRetries + 1 /\ y = MaxRetries + 1
  BY <1>1 DEF TriesOf
<1>3. x \in Nat /\ y \in Nat
  <2>1. TypeOK' => AllTries'
    BY TriesTyped, PTL
  <2> QED
    BY <2>1, TriesTyped DEF AllTries
<1>4. x <= y /\ (v = u \/ (v = u + 1 /\ \E j \in J : x <= j /\ j < y))
  BY <1>2, <1>3
<1>5. J \in SUBSET Nat /\ IsFiniteSet(J)
  BY SomeTries
<1> HIDE DEF x, y
<1>6. c \in Nat /\ d \in Nat /\ d <= c /\ (v = u + 1 => d + 1 <= c)
  <2>1. c \in Nat /\ d \in Nat
    BY <1>3, <1>5, CopySize
  <2>2. d <= c
    BY <1>3, <1>4, <1>5, Fewer
  <2>3. (\E j \in J : x <= j /\ j < y) => d + 1 <= c
    BY <1>3, <1>4, <1>5, Fewer
  <2>4. v = u + 1 => v # u
    OBVIOUS
  <2> QED
    BY <1>4, <2>1, <2>2, <2>3, <2>4
<1>7. v + 0 + d <= u + 0 + c
  <2> HIDE DEF c, d
  <2> QED
    BY <1>4, <1>6
<1>8. /\ IsFiniteSet(QueuedTries(queue', p, J)) /\ faults' = faults
      /\ Cardinality(QueuedTries(queue', p, J)) + 0 = Cardinality(QueuedTries(queue, p, J)) + 0
  BY DEF Fits
<1>9. \A j \in Worker : j # k => task'[j] = task[j] /\ held'[j] = held[j]
  BY DEF Moves
<1>10. c = Cardinality(From(TriesOf(p)[k], J)) /\ d = Cardinality(From(TriesOf(p)'[k], J))
  BY DEF x, y
<1> HIDE DEF c, d
<1> QED
  BY <1>6, <1>7, <1>8, <1>9, <1>10, WorkerFits

LEMMA ProgressBudget ==
  ASSUME TypeOK, TypeOK', Budget, NEW k \in Worker, Progress(k)
  PROVE Budget'
<1>1. PICK l \in Working :
        Moves(k, [pc |-> l, seen |-> task[k].seen]) /\ Effect(k, l)
  BY ProgressEffect
<1>2. UNCHANGED <<queue, held, faults>>
  BY DEF Progress, PostOk, PostFails, PostRefused, ClearError, NoteError, broker
<1>3. \A p \in Webhook \X Event : p # Pair(k) => posts'[p] = posts[p] /\ accepted'[p] = accepted[p]
  BY ProgressEffect
<1>4. ~At(k, "idle") /\ held[k].retries \in Tries
  BY ProgressTyped, HeldMessage, MessageParts DEF Tries
<1>5. task'[k].pc = l
  BY <1>1 DEF Moves
<1> SUFFICES ASSUME NEW p \in Webhook \X Event
             PROVE /\ Fits(p, Tries, queue', TriesOf(p)', posts'[p], faults')
                   /\ Fits(p, Last, queue', TriesOf(p)', accepted'[p], faults')
  BY DEF Budget
<1>6. /\ posts[p] \in Nat /\ accepted[p] \in Nat /\ posts'[p] \in Nat /\ accepted'[p] \in Nat
  BY DEF TypeOK
<1>7. NextTry(k) <= NextTry(k)'
  BY <1>1, <1>2, <1>4, <1>5, WebhookAssumption DEF Effect, NextTry, At, Tries
<1>8. \/ posts'[p] = posts[p]
      \/ /\ posts'[p] = posts[p] + 1 /\ p = Pair(k)
         /\ \E j \in Tries : NextTry(k) <= j /\ j < NextTry(k)'
  <2>1. CASE p # Pair(k) \/ task[k].pc # "post"
    BY <1>1, <1>3, <2>1 DEF Effect
  <2>2. CASE p = Pair(k) /\ task[k].pc = "post" /\ posts'[p] # posts[p]
    <3>1. posts'[p] = posts[p] + 1 /\ l \in {"clear", "ack", "note"}
      BY <1>1, <2>2 DEF Effect
    <3>2. NextTry(k) <= held[k].retries /\ held[k].retries < NextTry(k)'
      BY <1>2, <1>4, <1>5, <2>2, <3>1, WebhookAssumption DEF NextTry, At, Tries
    <3> QED
      BY <1>4, <2>2, <3>1, <3>2
  <2> QED
    BY <2>1, <2>2
<1>9. \/ accepted'[p] = accepted[p]
      \/ /\ accepted'[p] = accepted[p] + 1 /\ p = Pair(k)
         /\ \E j \in Last : NextTry(k) <= j /\ j < NextTry(k)'
  <2>1. CASE p # Pair(k) \/ task[k].pc # "post"
    BY <1>1, <1>3, <2>1 DEF Effect
  <2>2. CASE p = Pair(k) /\ task[k].pc = "post" /\ accepted'[p] # accepted[p]
    <3>1. accepted'[p] = accepted[p] + 1 /\ l \in {"clear", "ack"}
      BY <1>1, <2>2 DEF Effect
    <3>2. NextTry(k) <= MaxRetries /\ MaxRetries < NextTry(k)'
      BY <1>4, <1>5, <2>2, <3>1, WebhookAssumption DEF NextTry, At, Tries
    <3> QED
      BY <2>2, <3>1, <3>2 DEF Last
  <2> QED
    BY <2>1, <2>2
<1>10. Tries \in SUBSET Tries /\ Last \in SUBSET Tries
  BY WebhookAssumption DEF Tries, Last
<1>11. Fits(p, Tries, queue', TriesOf(p)', posts'[p], faults')
  <2>1. Fits(p, Tries, queue, TriesOf(p), posts[p], faults)
    BY DEF Budget
  <2> QED
    BY <1>1, <1>2, <1>4, <1>6, <1>7, <1>8, <1>10, <2>1, ProgressFits
<1>12. Fits(p, Last, queue', TriesOf(p)', accepted'[p], faults')
  <2>1. Fits(p, Last, queue, TriesOf(p), accepted[p], faults)
    BY DEF Budget
  <2> QED
    BY <1>1, <1>2, <1>4, <1>6, <1>7, <1>9, <1>10, <2>1, ProgressFits
<1> QED
  BY <1>11, <1>12

\* A step that uses nothing: it suffices that it fits for every J.
LEMMA QuietBudget ==
  ASSUME TypeOK, Budget, UNCHANGED <<posts, accepted>>,
         \A p \in Webhook \X Event, J \in SUBSET Tries, u \in Nat :
           Fits(p, J, queue, TriesOf(p), u, faults) => Fits(p, J, queue', TriesOf(p)', u, faults')
  PROVE Budget'
<1> SUFFICES ASSUME NEW p \in Webhook \X Event
             PROVE /\ Fits(p, Tries, queue', TriesOf(p)', posts[p], faults')
                   /\ Fits(p, Last, queue', TriesOf(p)', accepted[p], faults')
  BY DEF Budget
<1>1. posts[p] \in Nat /\ accepted[p] \in Nat
  BY DEF TypeOK
<1>2. Tries \in SUBSET Tries /\ Last \in SUBSET Tries
  BY WebhookAssumption DEF Tries, Last
<1>3. /\ Fits(p, Tries, queue, TriesOf(p), posts[p], faults)
      /\ Fits(p, Last, queue, TriesOf(p), accepted[p], faults)
  BY DEF Budget
<1> QED
  BY <1>1, <1>2, <1>3

LEMMA QueueTyped == TypeOK => queue \in [Message -> Nat]
BY DEF TypeOK, BrokerType

LEMMA NewTyped == TypeOK' => queue' \in [Message -> Nat] /\ AllTries'
<1>1. TypeOK' => AllTries'
  BY TriesTyped, PTL
<1> QED
  BY <1>1 DEF TypeOK, BrokerType

\* Other pairs than the moved message's do not notice.
LEMMA ElsewhereFits ==
  ASSUME TypeOK, TypeOK', NEW p, NEW J \in SUBSET Tries, NEW u \in Nat,
         Fits(p, J, queue, TriesOf(p), u, faults),
         \A m \in Message : Pair1(m) = p => queue'[m] = queue[m],
         TriesOf(p)' = TriesOf(p), faults' \in {faults, faults + 1}
  PROVE Fits(p, J, queue', TriesOf(p)', u, faults')
<1>1. QueuedTries(queue', p, J) = QueuedTries(queue, p, J)
  BY QueueTyped, NewTyped, QueueSame
<1> DEFINE n == Cardinality(J)
           t == Cardinality(QueuedTries(queue, p, J)) + Cardinality(HeldTries(TriesOf(p), J))
<1>2. n \in Nat /\ faults \in Nat
  BY SomeTries DEF TypeOK, BrokerType
<1>3. Cardinality(QueuedTries(queue, p, J)) \in Nat /\ Cardinality(HeldTries(TriesOf(p), J)) \in Nat
  BY FS_CardinalityType DEF Fits
<1>4. u + t <= n * (1 + faults)
  BY <1>3 DEF Fits
<1>5. t \in Nat
  BY <1>3
<1> HIDE DEF n, t
<1>6. u + t <= n * (1 + faults')
  <2>1. n * (1 + faults) \in Nat /\ n * (1 + (faults + 1)) = n * (1 + faults) + n
    BY <1>2
  <2>2. CASE faults' = faults
    BY <1>4, <2>2
  <2>3. CASE faults' = faults + 1
    BY <1>2, <1>4, <1>5, <2>1, <2>3
  <2> QED
    BY <2>2, <2>3
<1> QED
  BY <1>1, <1>3, <1>6 DEF Fits, n, t

\* A message is taken: its tries move from the queue to the worker.
LEMMA TakeBudget ==
  ASSUME TypeOK, TypeOK', Budget, NEW k \in Worker, TakeTask(k)
  PROVE Budget'
<1>1. PICK m \in Message : Taking(k, m)
  BY TakeTakes
<1>2. UNCHANGED <<posts, accepted, faults>>
  BY <1>1 DEF TakeTask, Taking, counts
<1>3. \A j \in Worker : j # k => task'[j] = task[j] /\ held'[j] = held[j]
  BY <1>1 DEF Taking, Moves
<1>4. /\ Pair(k)' = Pair1(m) /\ held'[k] = m
      /\ task'[k].pc = IF status[m.hook] = "ACTIVE" THEN "post" ELSE "ack"
  BY <1>1 DEF Taking, Moves, Pair, Pair1
<1>5. NextTry(k)' \in {m.retries, MaxRetries + 1}
  BY <1>4 DEF NextTry, At
<1> SUFFICES ASSUME NEW p \in Webhook \X Event, NEW J \in SUBSET Tries, NEW u \in Nat,
                    Fits(p, J, queue, TriesOf(p), u, faults)
             PROVE Fits(p, J, queue', TriesOf(p)', u, faults')
  BY <1>2, QuietBudget
<1>6. CASE p # Pair1(m)
  <2>1. \A j \in Worker : TriesOf(p)'[j] = TriesOf(p)[j]
    BY <1>1, <1>3, <1>4, <1>6 DEF TriesOf, NextTry, At, Pair, Taking
  <2>2. TriesOf(p)' = TriesOf(p)
    BY <2>1, TriesTyped, NewTyped DEF AllTries
  <2>3. \A n \in Message : Pair1(n) = p => queue'[n] = queue[n]
    BY <1>1, <1>6 DEF Taking
  <2> QED
    BY <1>2, <2>2, <2>3, ElsewhereFits
<1>7. CASE p = Pair1(m)
  <2> DEFINE a == Cardinality(From(m.retries, J))
             c == Cardinality(From(TriesOf(p)[k], J))
             d == Cardinality(From(TriesOf(p)'[k], J))
  <2>1. J \in SUBSET Nat /\ IsFiniteSet(J) /\ Cardinality(From(MaxRetries + 1, J)) = 0
    BY SomeTries
  <2>2. m.retries \in Nat /\ a \in Nat
    BY <2>1, MessageParts, CopySize
  <2>3. TriesOf(p)[k] = MaxRetries + 1 /\ TriesOf(p)'[k] \in {m.retries, MaxRetries + 1}
    BY <1>1, <1>4, <1>5 DEF TriesOf, Taking
  <2>4. d \in Nat /\ d <= a
    BY <2>1, <2>2, <2>3
  <2>5. queue \in [Message -> Nat] /\ queue' \in [Message -> Nat] /\ queue[m] = queue'[m] + 1
    BY <1>1, QueueTyped DEF Taking
  <2>6. IsFiniteSet(QueuedTries(queue, p, J))
    BY DEF Fits
  <2>7. \A n \in Message : n # m /\ Pair1(n) = Pair1(m) => queue[n] = queue'[n]
    BY <1>1 DEF Taking
  <2>8. /\ IsFiniteSet(QueuedTries(queue', p, J))
        /\ Cardinality(QueuedTries(queue, p, J)) = Cardinality(QueuedTries(queue', p, J)) + a
    BY <1>7, <2>1, <2>5, <2>6, <2>7, QueueGrows
  <2>9. Cardinality(QueuedTries(queue, p, J)) \in Nat /\ Cardinality(QueuedTries(queue', p, J)) \in Nat
    BY <2>6, <2>8, FS_CardinalityType
  <2>10. c = 0
    BY <2>1, <2>3
  <2> HIDE DEF a, c, d
  <2>11. u + 0 + d <= u + a + c
    BY <2>2, <2>4, <2>10
  <2>12. Cardinality(QueuedTries(queue', p, J)) + a = Cardinality(QueuedTries(queue, p, J)) + 0
    BY <2>2, <2>8, <2>9
  <2> QED
    BY <1>2, <1>3, <2>2, <2>4, <2>8, <2>10, <2>11, <2>12, WorkerFits DEF c, d
<1> QED
  BY <1>6, <1>7

\* What a new copy of m adds to the tries to come of its pair.
LEMMA CopyAdds ==
  ASSUME TypeOK, TypeOK', NEW m \in Message, queue'[m] = queue[m] + 1,
         \A n \in Message : n # m /\ Pair1(n) = Pair1(m) => queue'[n] = queue[n],
         NEW J \in SUBSET Tries, IsFiniteSet(QueuedTries(queue, Pair1(m), J)),
         NEW b, b = Cardinality(From(m.retries, J))
  PROVE /\ b \in Nat /\ b <= Cardinality(J)
        /\ IsFiniteSet(QueuedTries(queue', Pair1(m), J))
        /\ Cardinality(QueuedTries(queue', Pair1(m), J)) + 0
             = Cardinality(QueuedTries(queue, Pair1(m), J)) + b
<1>1. J \in SUBSET Nat /\ IsFiniteSet(J)
  BY SomeTries
<1>2. m.retries \in Nat
  BY MessageParts
<1>3. b \in Nat /\ b <= Cardinality(J)
  BY <1>1, <1>2, CopySize
<1>4. queue \in [Message -> Nat] /\ queue' \in [Message -> Nat]
  BY QueueTyped, NewTyped
<1>5. \A n \in Message : n # m /\ Pair1(n) = Pair1(m) => queue'[n] = queue[n]
  OBVIOUS
<1>6. /\ IsFiniteSet(QueuedTries(queue', Pair1(m), J))
      /\ Cardinality(QueuedTries(queue', Pair1(m), J))
           = Cardinality(QueuedTries(queue, Pair1(m), J)) + Cardinality(From(m.retries, J))
  BY <1>1, <1>4, <1>5, QueueGrows
<1>7. Cardinality(QueuedTries(queue', Pair1(m), J)) \in Nat
  BY <1>6, FS_CardinalityType
<1> QED
  BY <1>3, <1>6, <1>7

\* A retry is published before the task ends: the tries left move to the new copy.
LEMMA RetryBudget ==
  ASSUME TypeOK, TypeOK', Budget, NEW k \in Worker, Retry(k)
  PROVE Budget'
<1>1. /\ ~At(k, "idle") /\ At(k, "retry")
      /\ Moves(k, [pc |-> "ack", seen |-> task[k].seen])
      /\ held' = held /\ faults' = faults
      /\ \/ \E m \in Message : Retrying(k, m)
         \/ held[k].retries = MaxRetries /\ queue' = queue
  BY RetryRetries
<1>2. UNCHANGED <<posts, accepted>>
  BY DEF Retry, counts
<1>3. \A j \in Worker : j # k => task'[j] = task[j] /\ held'[j] = held[j]
  BY <1>1 DEF Moves
<1>4. Pair(k)' = Pair(k) /\ task'[k].pc = "ack"
  BY <1>1 DEF Moves, Pair
<1>5. NextTry(k) = held[k].retries + 1 /\ NextTry(k)' = MaxRetries + 1
  BY <1>1, <1>4 DEF NextTry, At
<1>6. held[k].retries \in Nat
  BY <1>1, HeldMessage, MessageParts
<1> SUFFICES ASSUME NEW p \in Webhook \X Event, NEW J \in SUBSET Tries, NEW u \in Nat,
                    Fits(p, J, queue, TriesOf(p), u, faults)
             PROVE Fits(p, J, queue', TriesOf(p)', u, faults')
  BY <1>2, QuietBudget
<1>7. CASE p # Pair(k) \/ (held[k].retries = MaxRetries /\ queue' = queue)
  <2>1. \A j \in Worker : TriesOf(p)'[j] = TriesOf(p)[j]
    BY <1>1, <1>3, <1>4, <1>5, <1>7 DEF TriesOf, NextTry, At, Pair
  <2>2. TriesOf(p)' = TriesOf(p)
    BY <2>1, TriesTyped, NewTyped DEF AllTries
  <2>3. \A n \in Message : Pair1(n) = p => queue'[n] = queue[n]
    BY <1>1, <1>7 DEF Retrying
  <2> QED
    BY <1>1, <2>2, <2>3, ElsewhereFits
<1>8. ASSUME NEW m \in Message, Retrying(k, m), p = Pair(k)
      PROVE Fits(p, J, queue', TriesOf(p)', u, faults')
  <2> DEFINE b == Cardinality(From(m.retries, J))
             c == Cardinality(From(TriesOf(p)[k], J))
             d == Cardinality(From(TriesOf(p)'[k], J))
  <2>1. TriesOf(p)[k] = m.retries /\ TriesOf(p)'[k] = MaxRetries + 1
    BY <1>1, <1>4, <1>5, <1>8 DEF TriesOf, Retrying, At
  <2>2. c = b /\ d = 0
    BY <2>1, SomeTries
  <2>3. Pair1(m) = p /\ IsFiniteSet(QueuedTries(queue, p, J))
    BY <1>8 DEF Retrying, Fits
  <2>4. queue'[m] = queue[m] + 1 /\ \A n \in Message : n # m => queue'[n] = queue[n]
    BY <1>8 DEF Retrying
  <2>5. /\ b \in Nat /\ IsFiniteSet(QueuedTries(queue', p, J))
        /\ Cardinality(QueuedTries(queue', p, J)) + 0 = Cardinality(QueuedTries(queue, p, J)) + b
    BY <2>3, <2>4, CopyAdds
  <2> HIDE DEF b, c, d
  <2>6. u + b + d <= u + 0 + c
    BY <2>2, <2>5
  <2> QED
    BY <1>1, <1>3, <2>2, <2>5, <2>6, WorkerFits DEF c, d
<1>9. CASE p = Pair(k) /\ \E m \in Message : Retrying(k, m)
  <2>1. PICK m \in Message : Retrying(k, m)
    BY <1>9
  <2> QED
    BY <1>8, <1>9, <2>1
<1>10. p # Pair(k) \/ (held[k].retries = MaxRetries /\ queue' = queue)
       \/ (p = Pair(k) /\ \E m \in Message : Retrying(k, m))
  BY <1>1
<1> QED
  BY <1>7, <1>9, <1>10

LEMMA EndBudget ==
  ASSUME TypeOK, TypeOK', Budget, NEW k \in Worker, EndTask(k)
  PROVE Budget'
<1>1. /\ UNCHANGED <<posts, accepted, queue, faults>> /\ At(k, "ack")
      /\ held' = [held EXCEPT ![k] = NoTask] /\ task' = [task EXCEPT ![k] = Idle]
  BY DEF EndTask, Acknowledge, counts
<1>2. \A j \in Worker : j # k => task'[j] = task[j] /\ held'[j] = held[j]
  BY <1>1
<1>3. task'[k].pc = "idle"
  BY <1>1, IdleTask DEF TypeOK
<1> SUFFICES ASSUME NEW p \in Webhook \X Event, NEW J \in SUBSET Tries, NEW u \in Nat,
                    Fits(p, J, queue, TriesOf(p), u, faults)
             PROVE Fits(p, J, queue', TriesOf(p)', u, faults')
  BY <1>1, QuietBudget
<1>4. \A j \in Worker : TriesOf(p)'[j] = TriesOf(p)[j]
  BY <1>1, <1>2, <1>3 DEF TriesOf, NextTry, At, Pair
<1>5. TriesOf(p)' = TriesOf(p)
  BY <1>4, TriesTyped, NewTyped DEF AllTries
<1> QED
  BY <1>1, <1>5, ElsewhereFits

\* A death or a redelivery starts the message's tries again: a fault pays for them.
LEMMA FaultBudget ==
  ASSUME TypeOK, TypeOK', Budget, NEW k \in Worker, Die(k) \/ Overrun(k)
  PROVE Budget'
<1> DEFINE m == held[k]
<1>1. /\ m \in Message /\ ~At(k, "idle") /\ faults' = faults + 1
      /\ queue'[m] = queue[m] + 1
      /\ \A n \in Message : n # m => queue'[n] = queue[n]
  BY LostTyped DEF Die, Overrun
<1>2. UNCHANGED <<posts, accepted>>
  BY DEF Die, Overrun, counts
<1>3. /\ \A j \in Worker : j # k => task'[j] = task[j] /\ held'[j] = held[j]
      /\ task'[k].pc = "idle" \/ (task' = task /\ held' = held)
  <2>1. task \in [Worker -> Task] /\ held \in [Worker -> Message \cup {NoTask}]
    BY DEF TypeOK, BrokerType
  <2>2. CASE Die(k)
    <3>1. task' = [task EXCEPT ![k] = Idle] /\ held' = [held EXCEPT ![k] = NoTask]
      BY <2>2 DEF Die, WorkerLost
    <3> QED
      BY <2>1, <3>1, IdleTask
  <2>3. CASE Overrun(k)
    BY <2>3 DEF Overrun, VisibilityTimeout
  <2> QED
    BY <2>2, <2>3
<1>4. Pair(k) = Pair1(m)
  BY DEF Pair, Pair1
<1> HIDE DEF m
<1> SUFFICES ASSUME NEW p \in Webhook \X Event, NEW J \in SUBSET Tries, NEW u \in Nat,
                    Fits(p, J, queue, TriesOf(p), u, faults)
             PROVE Fits(p, J, queue', TriesOf(p)', u, faults')
  BY <1>2, QuietBudget
<1>5. TriesOf(p)'[k] = TriesOf(p)[k] \/ TriesOf(p)'[k] = MaxRetries + 1
  BY <1>3 DEF TriesOf, NextTry, At, Pair
<1>6. CASE p # Pair1(m)
  <2>1. \A j \in Worker : TriesOf(p)'[j] = TriesOf(p)[j]
    BY <1>1, <1>3, <1>4, <1>6 DEF TriesOf, NextTry, At, Pair
  <2>2. TriesOf(p)' = TriesOf(p)
    BY <2>1, TriesTyped, NewTyped DEF AllTries
  <2>3. \A n \in Message : Pair1(n) = p => queue'[n] = queue[n]
    BY <1>1, <1>6
  <2> QED
    BY <1>1, <2>2, <2>3, ElsewhereFits
<1>7. CASE p = Pair1(m)
  <2> DEFINE b == Cardinality(From(m.retries, J))
             c == Cardinality(From(TriesOf(p)[k], J))
             d == Cardinality(From(TriesOf(p)'[k], J))
             n == Cardinality(J)
  <2>1. J \in SUBSET Nat /\ IsFiniteSet(J) /\ Cardinality(From(MaxRetries + 1, J)) = 0 /\ n \in Nat
    BY SomeTries
  <2>2. TriesOf(p)[k] \in Nat
    BY TriesTyped DEF AllTries
  <2>3. c \in Nat
    BY <2>1, <2>2, CopySize
  <2>4. d \in Nat /\ d <= c
    BY <1>5, <2>1, <2>3
  <2>5. IsFiniteSet(QueuedTries(queue, p, J))
    BY DEF Fits
  <2>6. /\ b \in Nat /\ b <= n /\ IsFiniteSet(QueuedTries(queue', p, J))
        /\ Cardinality(QueuedTries(queue', p, J)) + 0 = Cardinality(QueuedTries(queue, p, J)) + b
    BY <1>1, <1>7, <2>5, CopyAdds
  <2> HIDE DEF b, c, d, n
  <2>7. u + b + d <= u + 0 + c + n
    BY <2>1, <2>3, <2>4, <2>6
  <2> QED
    BY <1>1, <1>3, <2>3, <2>4, <2>6, <2>7, WorkerFits DEF c, d, n
<1> QED
  BY <1>6, <1>7

\* A pair that nobody asked for has no tries to come.
LEMMA UnaskedEmpty ==
  ASSUME TypeOK, Known, NEW p \in Webhook \X Event, p \notin asked, NEW J \in SUBSET Tries
  PROVE /\ posts[p] = 0 /\ accepted[p] = 0
        /\ QueuedTries(queue, p, J) = {} /\ HeldTries(TriesOf(p), J) = {}
<1>1. posts[p] = 0 /\ accepted[p] = 0
  BY DEF Known
<1>2. \A m \in Message : queue[m] \in Nat /\ (Pair1(m) = p => ~(queue[m] > 0))
  BY QueueTyped DEF Known
<1>3. QueuedTries(queue, p, J) = {}
  <2> SUFFICES ASSUME NEW x \in QueuedTries(queue, p, J) PROVE FALSE
    OBVIOUS
  <2>1. x[1][1] \in Message /\ x[1][2] \in Nat /\ Pair1(x[1][1]) = p /\ 1 <= x[1][2]
        /\ x[1][2] <= queue[x[1][1]]
    BY DEF QueuedTries
  <2> QED
    BY <1>2, <2>1
<1>4. \A k \in Worker : TriesOf(p)[k] = MaxRetries + 1
  BY DEF TriesOf, Known
<1>5. HeldTries(TriesOf(p), J) = {}
  <2> SUFFICES ASSUME NEW x \in HeldTries(TriesOf(p), J) PROVE FALSE
    OBVIOUS
  <2>1. x[1] \in Worker /\ x[2] \in J /\ TriesOf(p)[x[1]] <= x[2]
    BY DEF HeldTries
  <2>2. x[2] \in Nat /\ x[2] <= MaxRetries
    <3>1. \A j \in J : j \in Nat /\ j <= MaxRetries
      BY WebhookAssumption DEF Tries
    <3> QED
      BY <2>1, <3>1
  <2> QED
    BY <1>4, <2>1, <2>2, WebhookAssumption
<1> QED
  BY <1>1, <1>3, <1>5

\* An event is dispatched once, so that a registration is asked for it once.
LEMMA DispatchBudget ==
  ASSUME TypeOK, TypeOK', Known, Budget, NEW e \in Event, e \notin fired, DispatchEvent(e)
  PROVE Budget'
<1>1. PICK S : Asking(e, S)
  BY DispatchAsks
<1>2. UNCHANGED <<posts, accepted, task, held, faults>>
  BY DispatchAsks DEF DispatchEvent
<1> SUFFICES ASSUME NEW p \in Webhook \X Event
             PROVE /\ Fits(p, Tries, queue', TriesOf(p)', posts[p], faults')
                   /\ Fits(p, Last, queue', TriesOf(p)', accepted[p], faults')
  BY <1>2 DEF Budget
<1>3. TriesOf(p)' = TriesOf(p)
  BY <1>2 DEF TriesOf, NextTry, At, Pair
<1>4. Tries \in SUBSET Tries /\ Last \in SUBSET Tries
  BY WebhookAssumption DEF Tries, Last
<1>5. posts[p] \in Nat /\ accepted[p] \in Nat
  BY DEF TypeOK
<1>6. CASE p[2] # e \/ p[1] \notin S
  <2>1. \A m \in Message : Pair1(m) = p => queue'[m] = queue[m]
    BY <1>1, <1>6 DEF Asking, Pair1
  <2>2. /\ Fits(p, Tries, queue, TriesOf(p), posts[p], faults)
        /\ Fits(p, Last, queue, TriesOf(p), accepted[p], faults)
    BY DEF Budget
  <2>3. faults' \in {faults, faults + 1}
    BY <1>2
  <2> QED
    BY <1>3, <1>4, <1>5, <2>1, <2>2, <2>3, ElsewhereFits
<1>7. CASE p[2] = e /\ p[1] \in S
  <2>1. p \notin asked
    BY <1>7 DEF Known
  <2> DEFINE m == Fresh(p[1], e)
  <2>2. m \in Message /\ Pair1(m) = p /\ m.event = e /\ m.hook \in S /\ m.retries = 0
    BY <1>7, FreshMessage DEF Fresh, Pair1
  <2>3. \A n \in Message : Pair1(n) = p /\ n.retries = 0 => n = m
    <3> SUFFICES ASSUME NEW n \in Message, Pair1(n) = p, n.retries = 0 PROVE n = m
      OBVIOUS
    <3>1. n = [hook |-> n.hook, event |-> n.event, retries |-> n.retries]
      BY MessageParts
    <3>2. n.hook = p[1] /\ n.event = e
      BY <1>7 DEF Pair1
    <3> QED
      BY <3>1, <3>2 DEF Fresh
  <2> HIDE DEF m
  <2>4. queue'[m] = queue[m] + 1
    BY <1>1, <2>2 DEF Asking
  <2>5. \A n \in Message : n # m /\ Pair1(n) = Pair1(m) => queue'[n] = queue[n]
    BY <1>1, <2>2, <2>3 DEF Asking
  <2>6. ASSUME NEW J \in SUBSET Tries
        PROVE Fits(p, J, queue', TriesOf(p)', 0, faults')
    <3> DEFINE b == Cardinality(From(m.retries, J))
               x == Cardinality(J)
    <3>1. QueuedTries(queue, p, J) = {} /\ HeldTries(TriesOf(p), J) = {}
      BY <2>1, UnaskedEmpty
    <3>2. IsFiniteSet({}) /\ Cardinality({}) = 0
      BY FS_EmptySet
    <3>3. IsFiniteSet(QueuedTries(queue, Pair1(m), J))
      BY <2>2, <3>1, <3>2
    <3>4. /\ b \in Nat /\ b <= x /\ IsFiniteSet(QueuedTries(queue', Pair1(m), J))
          /\ Cardinality(QueuedTries(queue', Pair1(m), J)) + 0
               = Cardinality(QueuedTries(queue, Pair1(m), J)) + b
      BY <2>2, <2>4, <2>5, <3>3, CopyAdds
    <3>5. x \in Nat /\ faults \in Nat
      BY SomeTries DEF TypeOK, BrokerType
    <3>6. Cardinality(QueuedTries(queue', p, J)) \in Nat
      BY <2>2, <3>4, FS_CardinalityType
    <3> HIDE DEF b, x
    <3>7. b <= x * (1 + faults)
      <4>1. x * (1 + faults) = x + x * faults /\ x * faults \in Nat
        BY <3>5
      <4> QED
        BY <3>4, <3>5, <4>1
    <3>8. Cardinality(QueuedTries(queue', p, J)) = b
      BY <2>2, <3>1, <3>2, <3>4, <3>6
    <3> QED
      BY <1>2, <1>3, <2>2, <3>1, <3>2, <3>4, <3>5, <3>7, <3>8 DEF Fits, x
  <2>7. posts[p] = 0 /\ accepted[p] = 0
    BY <2>1, <1>4, UnaskedEmpty
  <2> QED
    BY <1>4, <2>6, <2>7
<1> QED
  BY <1>6, <1>7

\* The steps that touch neither the queue nor the workers.
LEMMA StillBudget ==
  ASSUME Budget, UNCHANGED <<queue, held, faults, task, posts, accepted>>
  PROVE Budget'
<1>1. \A p : TriesOf(p)' = TriesOf(p)
  BY DEF TriesOf, NextTry, At, Pair
<1> QED
  BY <1>1 DEF Budget

LEMMA InitBudget == Init => Budget
<1> SUFFICES ASSUME Init, NEW p \in Webhook \X Event, NEW J \in SUBSET Tries
             PROVE Fits(p, J, queue, TriesOf(p), 0, faults)
  <2>1. Tries \in SUBSET Tries /\ Last \in SUBSET Tries
    BY WebhookAssumption DEF Tries, Last
  <2>2. Init => \A p \in Webhook \X Event : posts[p] = 0 /\ accepted[p] = 0
    BY DEF Init
  <2> QED
    BY <2>1, <2>2 DEF Budget
<1>1. TypeOK /\ Known /\ p \notin asked
  BY InitTyped, InitFate DEF Init, Fate
<1>2. QueuedTries(queue, p, J) = {} /\ HeldTries(TriesOf(p), J) = {}
  BY <1>1, UnaskedEmpty
<1>3. IsFiniteSet({}) /\ Cardinality({}) = 0 /\ Cardinality(J) \in Nat /\ faults = 0
  BY FS_EmptySet, SomeTries DEF Init, BrokerInit
<1> QED
  BY <1>2, <1>3 DEF Fits

LEMMA BudgetStep == TypeOK /\ TypeOK' /\ Fate /\ Budget /\ [Next]_vars => Budget'
<1> SUFFICES ASSUME TypeOK, TypeOK', Fate, Budget, [Next]_vars PROVE Budget'
  OBVIOUS
<1>1. ASSUME NEW w \in Webhook, Register(w) \/ Deactivate(w)
      PROVE Budget'
  BY <1>1, StillBudget DEF Register, Deactivate, counts, broker
<1>2. ASSUME NEW e \in Event, e \notin fired, DispatchEvent(e)
      PROVE Budget'
  BY <1>2, DispatchBudget DEF Fate
<1>3. CASE ApiStep
  BY <1>1, <1>2, <1>3 DEF ApiStep, StopReported, TestWebhook
<1>4. ASSUME NEW k \in Worker, TaskStep(k) \/ Die(k) \/ Overrun(k)
      PROVE Budget'
  BY <1>4, TakeBudget, ProgressBudget, RetryBudget, EndBudget, FaultBudget
     DEF TaskStep, Progress
<1>5. CASE UNCHANGED vars
  BY <1>5, StillBudget DEF vars, counts, broker
<1> QED
  BY <1>3, <1>4, <1>5 DEF Next

LEMMA WithinBudget ==
  ASSUME TypeOK, NEW p, NEW J \in SUBSET Tries, NEW u \in Nat,
         Fits(p, J, queue, TriesOf(p), u, faults)
  PROVE u <= Cardinality(J) * (1 + faults)
<1> DEFINE Q == Cardinality(QueuedTries(queue, p, J))
           H == Cardinality(HeldTries(TriesOf(p), J))
           t == Cardinality(J) * (1 + faults)
<1>1. Q \in Nat /\ H \in Nat /\ u + Q + H <= t
  BY FS_CardinalityType DEF Fits
<1>2. t \in Nat
  <2>1. Cardinality(J) \in Nat /\ faults \in Nat
    BY SomeTries DEF TypeOK, BrokerType
  <2> QED
    BY <2>1
<1> HIDE DEF Q, H, t
<1>3. u <= t
  BY <1>1, <1>2
<1> QED
  BY <1>3 DEF t

LEMMA BudgetHolds == Spec => [](TypeOK /\ Fate /\ Budget)
BY InitTyped, InitFate, InitBudget, TypeStep, FateStep, BudgetStep, PTL DEF Spec

\* An event is POSTed to a registration at most once per try, for each copy of
\* its message that a death or a redelivery made.
THEOREM WebhookPostsBounded == Spec => []PostsBounded
<1>1. TypeOK /\ Budget => PostsBounded
  <2> SUFFICES ASSUME TypeOK, Budget, NEW p \in Webhook \X Event
               PROVE posts[p] <= (MaxRetries + 1) * (1 + faults)
    BY DEF PostsBounded
  <2>1. Cardinality(Tries) = MaxRetries + 1
    BY WebhookAssumption, FS_Interval DEF Tries
  <2>2. posts[p] \in Nat /\ Fits(p, Tries, queue, TriesOf(p), posts[p], faults)
    BY DEF TypeOK, Budget
  <2>3. posts[p] <= Cardinality(Tries) * (1 + faults)
    BY <2>2, WithinBudget
  <2> QED
    BY <2>1, <2>3
<1> QED
  BY <1>1, BudgetHolds, PTL

\* What the partner accepted is not delivered again without a fault.
THEOREM WebhookAcceptedOnce == Spec => []AcceptedOnce
<1>1. TypeOK /\ Budget => AcceptedOnce
  <2> SUFFICES ASSUME TypeOK, Budget, NEW p \in Webhook \X Event
               PROVE accepted[p] <= 1 + faults
    BY DEF AcceptedOnce
  <2>1. Cardinality(Last) = 1 /\ Last \in SUBSET Tries
    <3>1. MaxRetries \in Tries
      BY WebhookAssumption DEF Tries
    <3> QED
      BY <3>1, FS_Singleton DEF Last
  <2>2. accepted[p] \in Nat /\ Fits(p, Last, queue, TriesOf(p), accepted[p], faults)
    BY DEF TypeOK, Budget
  <2>3. accepted[p] <= Cardinality(Last) * (1 + faults)
    BY <2>1, <2>2, WithinBudget
  <2>4. faults \in Nat
    BY DEF TypeOK, BrokerType
  <2> QED
    BY <2>1, <2>3, <2>4
<1> QED
  BY <1>1, BudgetHolds, PTL

-----------------------------------------------------------------------------
(* The courier.  A pair is under way as long as a copy of one of its messages *)
(* is; only fan-out adds pairs, and only the end of a task removes one.       *)

LEMMA UndeliveredPairs ==
  \A p \in Webhook \X Event :
    p \in Undelivered <=> \E m \in Message : Pair1(m) = p /\ Pending(m)
<1> SUFFICES ASSUME NEW p \in Webhook \X Event
             PROVE p \in Undelivered <=> \E m \in Message : Pair1(m) = p /\ Pending(m)
  OBVIOUS
<1>1. ASSUME NEW m \in Message, Pair1(m) = p, Pending(m)
      PROVE p \in Undelivered
  <2>1. m = [hook |-> p[1], event |-> p[2], retries |-> m.retries] /\ m.retries \in 0..MaxRetries
    BY <1>1, MessageParts DEF Pair1
  <2> QED
    BY <1>1, <2>1 DEF Undelivered, Underway
<1>2. ASSUME p \in Undelivered
      PROVE \E m \in Message : Pair1(m) = p /\ Pending(m)
  <2>1. PICK n \in 0..MaxRetries : Pending([hook |-> p[1], event |-> p[2], retries |-> n])
    BY <1>2 DEF Undelivered, Underway
  <2> DEFINE m == [hook |-> p[1], event |-> p[2], retries |-> n]
  <2>2. m \in Message /\ Pair1(m) = p
    BY DEF Message, Pair1
  <2> QED
    BY <2>1, <2>2
<1> QED
  BY <1>1, <1>2

LEMMA UndeliveredNext ==
  \A p \in Webhook \X Event :
    p \in Undelivered' <=> \E m \in Message : Pair1(m) = p /\ Pending(m)'
<1>1. (\A p \in Webhook \X Event :
         p \in Undelivered <=> \E m \in Message : Pair1(m) = p /\ Pending(m))'
  BY UndeliveredPairs, PTL
<1> QED
  BY <1>1 DEF Pair1

\* The same pairs are under way if each that has a message keeps one.
LEMMA UndeliveredSame ==
  ASSUME \A m \in Message : Pending(m) => Pending(m)',
         \A m \in Message :
           Pending(m)' => \E n \in Message : Pair1(n) = Pair1(m) /\ Pending(n)
  PROVE Undelivered' = Undelivered
<1>1. Undelivered \subseteq Webhook \X Event /\ Undelivered' \subseteq Webhook \X Event
  BY DEF Undelivered
<1>2. ASSUME NEW p \in Webhook \X Event PROVE p \in Undelivered' <=> p \in Undelivered
  BY UndeliveredPairs, UndeliveredNext
<1> QED
  BY <1>1, <1>2

\* A step of the code that is one of the courier, or none of it.
Delivers == [Promised!CNext]_(Promised!cvars)

LEMMA RegistrationDelivers ==
  ASSUME TypeOK, NEW w \in Webhook, Register(w) \/ Deactivate(w)
  PROVE Delivers
<1>1. UNCHANGED <<asked, posts, accepted, queue, held>>
  BY DEF Register, Deactivate, counts, broker
<1>2. Undelivered' = Undelivered
  BY <1>1 DEF Undelivered, Underway, Pending
<1>3. Gone \subseteq Gone'
  BY DEF Register, Deactivate, Gone, TypeOK
<1>4. Gone' = Gone \cup Gone' /\ Gone' \in SUBSET (Webhook \X Event)
  BY <1>3 DEF Gone
<1> QED
  BY <1>1, <1>2, <1>4 DEF Delivers, Promised!CNext, Promised!Leave

LEMMA DispatchDelivers ==
  ASSUME TypeOK, Fate, NEW e \in Event, e \notin fired, DispatchEvent(e)
  PROVE Delivers
<1>1. PICK S : Asking(e, S)
  BY DispatchAsks
<1> DEFINE P == {<<w, e>> : w \in S}
<1>2. /\ UNCHANGED <<status, malformed, posts, accepted, held>>
      /\ S \subseteq Webhook /\ asked' = asked \cup P /\ P \in SUBSET (Webhook \X Event)
  <2>1. UNCHANGED <<status, malformed, posts, accepted, held>>
    BY DispatchAsks DEF DispatchEvent
  <2>2. S \subseteq Webhook /\ asked' = asked \cup P
    BY <1>1 DEF Asking
  <2> QED
    BY <2>1, <2>2
<1>3. P \cap asked = {}
  BY DEF Fate, Known
<1>4. \A m \in Message :
        /\ queue[m] \in Nat
        /\ queue'[m] = IF m.event = e /\ m.hook \in S /\ m.retries = 0
                       THEN queue[m] + 1 ELSE queue[m]
  BY <1>1 DEF Asking, TypeOK, BrokerType
<1>5. \A m \in Message : Pending(m) => Pending(m)'
  BY <1>2, <1>4 DEF Pending
<1>6. \A m \in Message : Pending(m)' => Pending(m) \/ Pair1(m) \in P
  BY <1>2, <1>4 DEF Pending, Pair1
<1>7. ASSUME NEW p \in P PROVE \E m \in Message : Pair1(m) = p /\ Pending(m)'
  <2>1. PICK w \in S : p = <<w, e>>
    OBVIOUS
  <2>2. Fresh(w, e) \in Message /\ Pair1(Fresh(w, e)) = p
    BY <1>2, <2>1, FreshMessage DEF Fresh, Pair1
  <2>3. queue'[Fresh(w, e)] > 0
    BY <1>4, <2>2 DEF Fresh
  <2> QED
    BY <2>2, <2>3 DEF Pending
<1>8. Undelivered' = Undelivered \cup P
  <2>1. Undelivered \subseteq Webhook \X Event /\ Undelivered' \subseteq Webhook \X Event
    BY DEF Undelivered
  <2> HIDE DEF P
  <2>2. ASSUME NEW p \in Webhook \X Event
        PROVE p \in Undelivered' <=> p \in Undelivered \cup P
    BY <1>5, <1>6, <1>7, UndeliveredPairs, UndeliveredNext
  <2> QED
    BY <1>2, <2>1, <2>2
<1>9. Gone' = Gone
  BY <1>2 DEF Gone
<1> HIDE DEF P
<1> QED
  BY <1>2, <1>3, <1>8, <1>9 DEF Delivers, Promised!CNext, Promised!Hand

\* Steps of a task and of the broker that call nobody and keep every pair's message.
LEMMA QuietDelivers ==
  ASSUME UNCHANGED <<status, malformed, asked, posts, accepted>>, Undelivered' = Undelivered
  PROVE Delivers
<1>1. Gone' = Gone
  BY DEF Gone
<1> QED
  BY <1>1 DEF Delivers, Promised!cvars

LEMMA ProgressDelivers ==
  ASSUME TypeOK, NEW k \in Worker, Progress(k)
  PROVE Delivers
<1>1. ~At(k, "idle") /\ UNCHANGED <<status, malformed, fired, asked, broker>>
  BY ProgressTyped
<1>2. Undelivered' = Undelivered
  BY <1>1 DEF broker, Undelivered, Underway, Pending
<1>3. CASE UNCHANGED <<posts, accepted>>
  BY <1>1, <1>2, <1>3, QuietDelivers
<1>4. CASE PostOk(k) \/ PostFails(k)
  <2>1. held[k] \in Message /\ Pair(k) \in Webhook \X Event /\ Pair(k) = Pair1(held[k])
    BY <1>1, HeldMessage DEF Pair, Pair1, Hook
  <2>2. Pair(k) \in Undelivered
    BY <2>1, UndeliveredPairs DEF Pending
  <2>3. Gone' = Gone
    BY <1>1 DEF Gone
  <2>4. /\ posts' = [posts EXCEPT ![Pair(k)] = @ + 1]
        /\ accepted' \in {accepted, [accepted EXCEPT ![Pair(k)] = @ + 1]}
    BY <1>4 DEF PostOk, PostFails
  <2>5. Promised!Try(Pair(k))
    BY <1>1, <1>2, <2>2, <2>3, <2>4 DEF Promised!Try
  <2> QED
    BY <2>1, <2>5 DEF Delivers, Promised!CNext
<1> QED
  BY <1>3, <1>4 DEF Progress, PostRefused, ClearError, NoteError, counts

LEMMA TakeDelivers ==
  ASSUME TypeOK, NEW k \in Worker, TakeTask(k)
  PROVE Delivers
<1>1. PICK m \in Message : Taking(k, m)
  BY TakeTakes
<1>2. \A n \in Message : queue[n] \in Nat /\ queue'[n] \in Nat
  BY <1>1 DEF Taking, TypeOK, BrokerType
<1>3. NoTask \notin Message
  BY WebhookAssumption
<1>4. ASSUME NEW n \in Message PROVE Pending(n)' <=> Pending(n)
  <2>1. CASE n = m
    BY <1>1, <2>1 DEF Taking, Pending
  <2>2. CASE n # m
    BY <1>1, <1>2, <1>3, <2>2 DEF Taking, Pending
  <2> QED
    BY <2>1, <2>2
<1>5. Undelivered' = Undelivered
  BY <1>4, UndeliveredSame
<1> QED
  BY <1>5, QuietDelivers DEF TakeTask, counts

LEMMA RetryDelivers ==
  ASSUME TypeOK, NEW k \in Worker, Retry(k)
  PROVE Delivers
<1>1. ~At(k, "idle") /\ held' = held
  BY RetryRetries
<1>2. held[k] \in Message /\ Pair(k) = Pair1(held[k]) /\ Pending(held[k])
  BY <1>1, HeldMessage DEF Pair, Pair1, Pending
<1>3. Undelivered' = Undelivered
  <2>1. CASE queue' = queue
    BY <1>1, <2>1 DEF Undelivered, Underway, Pending
  <2>2. ASSUME NEW m \in Message, Retrying(k, m) PROVE Undelivered' = Undelivered
    <3>1. /\ queue[m] \in Nat /\ queue'[m] = queue[m] + 1 /\ Pair1(m) = Pair1(held[k])
          /\ \A n \in Message : n # m => queue'[n] = queue[n]
      BY <1>2, <2>2 DEF Retrying, TypeOK, BrokerType
    <3>2. \A n \in Message : Pending(n) => Pending(n)'
      BY <1>1, <3>1 DEF Pending
    <3>3. \A n \in Message : n # m /\ Pending(n)' => Pending(n)
      BY <1>1, <3>1 DEF Pending
    <3> QED
      BY <1>2, <3>1, <3>2, <3>3, UndeliveredSame
  <2> QED
    BY <2>1, <2>2, RetryRetries
<1> QED
  BY <1>3, QuietDelivers DEF Retry, counts

\* A fault gives back what the worker had in hand, or adds a copy of it.
LEMMA FaultDelivers ==
  ASSUME TypeOK, NEW k \in Worker, Die(k) \/ Overrun(k)
  PROVE Delivers
<1>1. /\ held[k] \in Message
      /\ queue'[held[k]] = queue[held[k]] + 1 /\ queue[held[k]] \in Nat
      /\ \A n \in Message : n # held[k] => queue'[n] = queue[n]
  BY LostTyped DEF Die, Overrun, TypeOK, BrokerType
<1>2. \A j \in Worker : held'[j] = held[j] \/ (j = k /\ held'[j] = NoTask)
  BY DEF Die, Overrun, WorkerLost, VisibilityTimeout, TypeOK, BrokerType
<1>3. ASSUME NEW n \in Message PROVE Pending(n)' <=> Pending(n)
  <2>1. CASE n = held[k]
    BY <1>1, <2>1 DEF Pending
  <2>2. CASE n # held[k]
    BY <1>1, <1>2, <2>2, WebhookAssumption DEF Pending
  <2> QED
    BY <2>1, <2>2
<1>4. Undelivered' = Undelivered
  BY <1>3, UndeliveredSame
<1> QED
  BY <1>4, QuietDelivers DEF Die, Overrun, counts

\* The end of a task closes the delivery, unless another copy is still under way.
LEMMA EndDelivers ==
  ASSUME TypeOK, TypeOK', Fate, Fate', NEW k \in Worker, EndTask(k)
  PROVE Delivers
<1>1. held[k] \in Message /\ Pair(k) \in Webhook \X Event /\ Pair(k) = Pair1(held[k])
  BY HeldMessage DEF EndTask, At, Pair, Pair1, Hook
<1>2. /\ queue' = queue
      /\ \A j \in Worker : held'[j] = IF j = k THEN NoTask ELSE held[j]
      /\ UNCHANGED <<status, malformed, lastError, fired, asked, posts, accepted>>
  BY DEF EndTask, Acknowledge, TypeOK, BrokerType, counts
<1>3. \A n \in Message : Pending(n)' => Pending(n)
  BY <1>2, WebhookAssumption DEF Pending
<1>4. \A n \in Message : n # held[k] /\ Pending(n) => Pending(n)'
  BY <1>2 DEF Pending
<1>5. Pair(k) \in Undelivered
  BY <1>1, UndeliveredPairs DEF Pending
<1>6. Undelivered \subseteq Webhook \X Event /\ Undelivered' \subseteq Webhook \X Event
  BY DEF Undelivered
<1>7. \A p \in Webhook \X Event :
        /\ p \in Undelivered' => p \in Undelivered
        /\ p # Pair(k) /\ p \in Undelivered => p \in Undelivered'
  BY <1>1, <1>3, <1>4, UndeliveredPairs, UndeliveredNext
<1>8. Gone' = Gone
  BY <1>2 DEF Gone
<1>9. CASE Pair(k) \in Undelivered'
  <2>1. Undelivered' = Undelivered
    BY <1>6, <1>7, <1>9
  <2> QED
    BY <1>2, <2>1, QuietDelivers
<1>10. CASE Pair(k) \notin Undelivered'
  <2>1. Undelivered' = Undelivered \ {Pair(k)}
    BY <1>6, <1>7, <1>10
  <2>2. NothingDropped'
    BY FateDropsNothing, PTL
  <2>3. PICK p \in asked : p = Pair(k) /\ p \in Webhook \X Event
    BY <1>1 DEF EndTask, At, Fate, Known
  <2>4. ~Underway(p[1], p[2])'
    BY <1>10, <2>3 DEF Undelivered
  <2>5. /\ p \in asked'
        /\ \/ accepted'[p] > 0 \/ posts'[p] > MaxRetries
           \/ status'[p[1]] = "INACTIVE" \/ p[1] \in malformed'
    BY <1>2, <2>2, <2>4 DEF NothingDropped
  <2>6. Promised!Settled(Pair(k))
    BY <1>2, <2>3, <2>5 DEF Promised!Settled, Gone
  <2> QED
    BY <1>1, <1>2, <1>5, <1>8, <2>1, <2>6 DEF Delivers, Promised!CNext, Promised!Close
<1> QED
  BY <1>9, <1>10

LEMMA DeliversStep == TypeOK /\ TypeOK' /\ Fate /\ Fate' /\ [Next]_vars => Delivers
<1> SUFFICES ASSUME TypeOK, TypeOK', Fate, Fate', [Next]_vars PROVE Delivers
  OBVIOUS
<1>1. CASE ApiStep
  BY <1>1, RegistrationDelivers, DispatchDelivers DEF ApiStep, StopReported, TestWebhook
<1>2. ASSUME NEW k \in Worker, TaskStep(k) \/ Die(k) \/ Overrun(k)
      PROVE Delivers
  BY <1>2, TakeDelivers, ProgressDelivers, RetryDelivers, EndDelivers, FaultDelivers
     DEF TaskStep, Progress
<1>3. CASE UNCHANGED vars
  <2>1. Undelivered' = Undelivered
    BY <1>3 DEF vars, broker, Undelivered, Underway, Pending
  <2> QED
    BY <1>3, <2>1, QuietDelivers DEF vars, counts
<1> QED
  BY <1>1, <1>2, <1>3 DEF Next

\* Webhook delivery implements the courier: what is handed over stays under way
\* until its fate is known, is tried only then, and is never taken up again.
THEOREM WebhookDelivers == Spec => ImplementsCourier
<1>1. Init => Promised!CInit
  <2> SUFFICES ASSUME Init PROVE Promised!CInit
    OBVIOUS
  <2>1. \A m \in Message : ~Pending(m)
    BY WebhookAssumption DEF Init, BrokerInit, Pending
  <2>2. Undelivered = {}
    BY <2>1, UndeliveredPairs DEF Undelivered
  <2>3. Gone = {}
    BY DEF Init, Gone
  <2> QED
    BY <2>2, <2>3 DEF Init, Promised!CInit
<1>2. TypeOK /\ TypeOK' /\ Fate /\ Fate' /\ [Next]_vars => [Promised!CNext]_(Promised!cvars)
  BY DeliversStep DEF Delivers
<1> QED
  BY <1>1, <1>2, InitTyped, InitFate, TypeStep, FateStep, PTL
     DEF Spec, ImplementsCourier, Promised!CSpec

\* The courier's word, as far as it goes: what it no longer has under way is settled.
CourierKeeps ==
  /\ asked \subseteq Webhook \X Event
  /\ posts \in [Webhook \X Event -> Nat] /\ accepted \in [Webhook \X Event -> Nat]
  /\ \A p \in asked : p \in Undelivered \/ Promised!Settled(p)

\* An implementation of the courier drops nothing, whatever it does inside.
THEOREM CourierDropsNothing == ImplementsCourier => []NothingDropped
<1>1. Promised!CInit => CourierKeeps
  BY DEF Promised!CInit, CourierKeeps
<1>2. CourierKeeps /\ [Promised!CNext]_(Promised!cvars) => CourierKeeps'
  <2> SUFFICES ASSUME CourierKeeps, [Promised!CNext]_(Promised!cvars)
               PROVE CourierKeeps'
    OBVIOUS
  <2> USE DEF CourierKeeps, Promised!Settled
  <2>1. CASE UNCHANGED Promised!cvars
    BY <2>1 DEF Promised!cvars
  <2>2. ASSUME NEW S \in SUBSET (Webhook \X Event), Promised!Hand(S)
        PROVE CourierKeeps'
    BY <2>2 DEF Promised!Hand
  <2>3. ASSUME NEW S \in SUBSET (Webhook \X Event), Promised!Leave(S)
        PROVE CourierKeeps'
    BY <2>3 DEF Promised!Leave
  <2>4. ASSUME NEW i \in Webhook \X Event, Promised!Try(i)
        PROVE CourierKeeps'
    BY <2>4, WebhookAssumption DEF Promised!Try
  <2>5. ASSUME NEW i \in Webhook \X Event, Promised!Close(i)
        PROVE CourierKeeps'
    BY <2>5 DEF Promised!Close
  <2> QED
    BY <2>1, <2>2, <2>3, <2>4, <2>5 DEF Promised!CNext
<1>3. CourierKeeps => NothingDropped
  BY DEF CourierKeeps, Promised!Settled, NothingDropped, Undelivered, Gone
<1> QED
  BY <1>1, <1>2, <1>3, PTL DEF ImplementsCourier, Promised!CSpec
=============================================================================
