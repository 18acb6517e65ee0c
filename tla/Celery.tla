------------------------------- MODULE Celery -------------------------------
(***************************************************************************)
(* The task queue as the application configures it (workers/celery_app.py):*)
(* Redis holds the messages, a pool of workers takes them, a message is    *)
(* acknowledged when its task has ended (task_acks_late) and goes back to  *)
(* the queue when the worker dies (task_reject_on_worker_lost) or takes    *)
(* longer than the visibility timeout.                                     *)
(***************************************************************************)
EXTENDS Naturals

CONSTANTS Worker, Message,
          NoTask,      \* what an idle worker holds
          MaxFaults    \* deaths and timeouts, together (bounds the model)

VARIABLES queue,       \* copies of each message in the queue
          held,        \* the message each worker has in hand
          faults       \* deaths and timeouts so far

BrokerInit ==
  /\ queue = [m \in Message |-> 0]
  /\ held = [k \in Worker |-> NoTask]
  /\ faults = 0

BrokerType ==
  /\ queue \in [Message -> Nat]
  /\ held \in [Worker -> Message \cup {NoTask}]
  /\ faults \in 0..MaxFaults

\* apply_async of every message of S.
Publish(S) ==
  /\ queue' = [m \in Message |-> IF m \in S THEN queue[m] + 1 ELSE queue[m]]
  /\ UNCHANGED <<held, faults>>

Reserve(k, m) ==
  /\ held[k] = NoTask /\ queue[m] > 0
  /\ queue' = [queue EXCEPT ![m] = @ - 1]
  /\ held' = [held EXCEPT ![k] = m]
  /\ UNCHANGED faults

Acknowledge(k) ==
  /\ held' = [held EXCEPT ![k] = NoTask]
  /\ UNCHANGED <<queue, faults>>

WorkerLost(k) ==
  /\ held[k] # NoTask /\ faults < MaxFaults
  /\ queue' = [queue EXCEPT ![held[k]] = @ + 1]
  /\ held' = [held EXCEPT ![k] = NoTask]
  /\ faults' = faults + 1

\* The message is delivered again while the worker still works on it.
VisibilityTimeout(k) ==
  /\ held[k] # NoTask /\ faults < MaxFaults
  /\ queue' = [queue EXCEPT ![held[k]] = @ + 1]
  /\ faults' = faults + 1
  /\ UNCHANGED held

\* Some copy of m is still to be worked off.
Pending(m) == queue[m] > 0 \/ \E k \in Worker : held[k] = m
=============================================================================
