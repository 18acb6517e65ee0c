----------------------------- MODULE Scenarios -----------------------------
(***************************************************************************)
(* The scenario simulator: a request creates a run and queues its task     *)
(* (api/v1/scenarios.py), a Celery worker executes it                      *)
(* (services/scenario_service.py): a planned horizon as the baseline, one  *)
(* with the scenario's parameters, a row of KPIs per day.                  *)
(*                                                                         *)
(* A task may be delivered twice, its worker may die, the run may be       *)
(* deleted under it, and the planner underneath may fail.                  *)
(***************************************************************************)
EXTENDS Naturals, FiniteSets

CONSTANTS
  Run,             \* scenario runs that can be created (bound)
  Uuid4Imported,   \* does ortools_planner.py import uuid4 (it does not)
  ApiFails,        \* may the API die, or the broker be down, after the commit
  Worker, NoTask, MaxFaults

Message == Run

VARIABLES
  status,     \* scenario_runs.status; "NONE" and "GONE" when there is no row
  baseline,   \* runs with baseline_kpis
  results,    \* complete sets of scenario_results of each run
  drafts,     \* runs that left a plan in route_plans
  hurt,       \* runs whose task was not queued, or was rejected a route (history)
  creating,   \* committed runs whose task is not queued yet
  task,       \* what each worker's task does next, and its session
  queue, held, faults

INSTANCE Celery

ASSUME ScenarioAssumption ==
  /\ Uuid4Imported \in BOOLEAN /\ ApiFails \in BOOLEAN
  /\ MaxFaults \in Nat
  /\ NoTask \notin Run
  /\ IsFiniteSet(Worker)

broker == <<queue, held, faults>>
tables == <<status, baseline, results, drafts>>
vars == <<tables, hurt, creating, task, broker>>

(***************************************************************************)
(* pc is the task's next step, each up to one COMMIT or refresh of the run:*)
(*   idle      take a message and SELECT its run                           *)
(*   begin     COMMIT RUNNING          dates    refresh the run            *)
(*   baseline  plan the horizon        kpis     COMMIT baseline_kpis       *)
(*   params    refresh the run         scenario plan the horizon again     *)
(*   results   COMMIT the results      fail     COMMIT FAILED              *)
(*   ack       acknowledge                                                 *)
(* seen: the run's status as the session loaded it, "NONE" when it expired *)
(* with a commit of the planner; a value that is set and equal to it is    *)
(* not written.  partial: a plan is flushed and not committed.  broken: the*)
(* session refuses every statement until a rollback, which nobody calls.   *)
(***************************************************************************)
Session(l, s) == [pc |-> l, seen |-> s, partial |-> FALSE, broken |-> FALSE]
Idle == Session("idle", "NONE")

At(k, l) == task[k].pc = l
Goto(k, l) == task' = [task EXCEPT ![k].pc = l]
Row(r) == status[r] \notin {"NONE", "GONE"}
MyRow(k) == Row(held[k])
Seen(k, s) == task[k].seen = s

-----------------------------------------------------------------------------
(* The API *)

CreateScenario(r) ==
  /\ status[r] = "NONE"
  /\ status' = [status EXCEPT ![r] = "QUEUED"]
  /\ creating' = creating \cup {r}
  /\ UNCHANGED <<baseline, results, drafts, hurt, task, broker>>

\* Mutated QueueRun: apply_async is repeated although the first call worked.
QueueTwice(r) ==
  /\ r \in creating
  /\ creating' = creating \ {r}
  /\ queue' = [queue EXCEPT ![r] = @ + 2]
  /\ UNCHANGED <<tables, hurt, task, held, faults>>

QueueRun(r) ==
  /\ r \in creating
  /\ creating' = creating \ {r}
  /\ Publish({r})
  /\ UNCHANGED <<tables, hurt, task>>

\* apply_async raises, or the process dies before it.
LoseRun(r) ==
  /\ ApiFails /\ r \in creating
  /\ creating' = creating \ {r}
  /\ hurt' = hurt \cup {r}
  /\ UNCHANGED <<tables, task, broker>>

\* Results committed after db.delete loaded them go by ON DELETE CASCADE.
DeleteScenario(r) ==
  /\ Row(r)
  /\ status' = [status EXCEPT ![r] = "GONE"]
  /\ baseline' = baseline \ {r}
  /\ results' = [results EXCEPT ![r] = 0]
  /\ UNCHANGED <<drafts, hurt, creating, task, broker>>

-----------------------------------------------------------------------------
(* scenario_run_task *)

TakeTask(k) ==
  /\ \E r \in Run :
       /\ Reserve(k, r)
       /\ task' = [task EXCEPT ![k] =
            Session(IF Row(r) THEN "begin" ELSE "ack", status[r])]
  /\ UNCHANGED <<tables, hurt, creating>>

\* A run whose task is delivered again may be RUNNING.  An UPDATE of a deleted
\* row is an error, here outside of the try.
Begin(k) ==
  /\ At(k, "begin")
  /\ \/ Seen(k, "RUNNING") /\ UNCHANGED status /\ Goto(k, "dates")
     \/ /\ ~Seen(k, "RUNNING") /\ MyRow(k)
        /\ status' = [status EXCEPT ![held[k]] = "RUNNING"]
        /\ Goto(k, "dates")
     \/ ~Seen(k, "RUNNING") /\ ~MyRow(k) /\ UNCHANGED status /\ Goto(k, "ack")
  /\ UNCHANGED <<baseline, results, drafts, hurt, creating, broker>>

\* The columns expired with the commit; they are read again.
Refresh(k, found, missing) ==
  /\ task' = [task EXCEPT ![k].pc = IF MyRow(k) THEN found ELSE missing,
                          ![k].seen = status[held[k]]]
  /\ UNCHANGED <<tables, hurt, creating, broker>>

ReadDates(k) == At(k, "dates") /\ Refresh(k, "baseline", "ack")

ReadParameters(k) == At(k, "params") /\ Refresh(k, "scenario", "fail")

Break(k) == task' = [task EXCEPT ![k].pc = "fail", ![k].broken = TRUE]

Planning(k) == At(k, "baseline") \/ At(k, "scenario")

\* A day is solved: plan_day commits its DRAFT plan, with commit_assignments
\* off as well.  As shipped only a plan without stops gets this far.
PlanDay(k) ==
  /\ Planning(k)
  /\ drafts' = drafts \cup {held[k]}
  /\ task' = [task EXCEPT ![k].seen = "NONE"]
  /\ UNCHANGED <<status, baseline, results, hurt, creating, broker>>

\* The first stop of a plan needs uuid4; plan and route are flushed by then.
PlanDayRaises(k) ==
  /\ Planning(k) /\ ~Uuid4Imported
  /\ task' = [task EXCEPT ![k].pc = "fail", ![k].partial = TRUE]
  /\ UNCHANGED <<tables, hurt, creating, broker>>

\* A route's driver was deleted while the solver ran: the flush fails.
PlanDayRejected(k) ==
  /\ Planning(k)
  /\ Break(k)
  /\ hurt' = hurt \cup {held[k]}
  /\ UNCHANGED <<tables, creating, broker>>

\* The days that are left have no orders, no drivers or no solution.
HorizonPlanned(k) ==
  /\ Planning(k)
  /\ Goto(k, IF At(k, "baseline") THEN "kpis" ELSE "results")
  /\ UNCHANGED <<tables, hurt, creating, broker>>

CommitBaseline(k) ==
  /\ At(k, "kpis")
  /\ \/ MyRow(k) /\ baseline' = baseline \cup {held[k]} /\ Goto(k, "params")
     \/ ~MyRow(k) /\ UNCHANGED baseline /\ Break(k)
  /\ UNCHANGED <<status, results, drafts, hurt, creating, broker>>

\* Mutated CommitResults: the rows are committed, the status is not.
ResultsAlone(k) ==
  /\ At(k, "results")
  /\ \/ /\ MyRow(k)
        /\ results' = [results EXCEPT ![held[k]] = @ + 1]
        /\ Goto(k, "ack")
     \/ ~MyRow(k) /\ UNCHANGED results /\ Break(k)
  /\ UNCHANGED <<status, baseline, drafts, hurt, creating, broker>>

\* Mutated CommitResults: no foreign key, and the run is updated in bulk.
ResultsOfAnyRun(k) ==
  /\ At(k, "results")
  /\ results' = [results EXCEPT ![held[k]] = @ + 1]
  /\ status' = [status EXCEPT ![held[k]] = IF MyRow(k) THEN "COMPLETED" ELSE @]
  /\ Goto(k, "ack")
  /\ UNCHANGED <<baseline, drafts, hurt, creating, broker>>

CommitResults(k) ==
  /\ At(k, "results")
  /\ \/ /\ MyRow(k)
        /\ results' = [results EXCEPT ![held[k]] = @ + 1]
        /\ status' = [status EXCEPT ![held[k]] =
                        IF Seen(k, "COMPLETED") THEN @ ELSE "COMPLETED"]
        /\ Goto(k, "ack")
     \/ ~MyRow(k) /\ UNCHANGED <<results, status>> /\ Break(k)
  /\ UNCHANGED <<baseline, drafts, hurt, creating, broker>>

\* Mutated CommitFailed: the error is raised before the commit.
FailureNotMarked(k) ==
  /\ At(k, "fail")
  /\ Goto(k, "ack")
  /\ UNCHANGED <<tables, hurt, creating, broker>>

\* The handler does not roll back: it commits what plan_day has flushed, or
\* fails itself.
CommitFailed(k) ==
  /\ At(k, "fail")
  /\ \/ /\ MyRow(k) \/ Seen(k, "FAILED")
        /\ ~task[k].broken
        /\ status' = [status EXCEPT ![held[k]] =
                        IF Seen(k, "FAILED") THEN @ ELSE "FAILED"]
        /\ drafts' = IF task[k].partial THEN drafts \cup {held[k]} ELSE drafts
     \/ /\ task[k].broken \/ ~(MyRow(k) \/ Seen(k, "FAILED"))
        /\ UNCHANGED <<status, drafts>>
  /\ Goto(k, "ack")
  /\ UNCHANGED <<baseline, results, hurt, creating, broker>>

\* Mutated EndTask: the message is not acknowledged.
EndUnacknowledged(k) ==
  /\ At(k, "ack")
  /\ task' = [task EXCEPT ![k] = Idle]
  /\ UNCHANGED <<tables, hurt, creating, broker>>

EndTask(k) ==
  /\ At(k, "ack")
  /\ Acknowledge(k)
  /\ task' = [task EXCEPT ![k] = Idle]
  /\ UNCHANGED <<tables, hurt, creating>>

Die(k) ==
  /\ WorkerLost(k)
  /\ task' = [task EXCEPT ![k] = Idle]
  /\ UNCHANGED <<tables, hurt, creating>>

Overrun(k) ==
  /\ VisibilityTimeout(k)
  /\ UNCHANGED <<tables, hurt, creating, task>>

-----------------------------------------------------------------------------
Init ==
  /\ status = [r \in Run |-> "NONE"]
  /\ baseline = {} /\ drafts = {} /\ hurt = {} /\ creating = {}
  /\ results = [r \in Run |-> 0]
  /\ task = [k \in Worker |-> Idle]
  /\ BrokerInit

ApiStep(r) ==
  \/ CreateScenario(r)
  \/ QueueRun(r)
  \/ LoseRun(r)
  \/ DeleteScenario(r)

TaskStep(k) ==
  \/ TakeTask(k)
  \/ Begin(k)
  \/ ReadDates(k)
  \/ ReadParameters(k)
  \/ PlanDay(k)
  \/ PlanDayRaises(k)
  \/ PlanDayRejected(k)
  \/ HorizonPlanned(k)
  \/ CommitBaseline(k)
  \/ CommitResults(k)
  \/ CommitFailed(k)
  \/ EndTask(k)

Next ==
  \/ \E r \in Run : ApiStep(r)
  \/ \E k \in Worker : TaskStep(k) \/ Die(k) \/ Overrun(k)

Spec == Init /\ [][Next]_vars

\* A request that has committed goes on, and so do workers; dead ones are
\* replaced.
FairSpec ==
  /\ Spec
  /\ \A r \in Run : WF_vars(QueueRun(r))
  /\ \A k \in Worker : WF_vars(TaskStep(k))

-----------------------------------------------------------------------------
(* Properties *)

Status == {"NONE", "QUEUED", "RUNNING", "COMPLETED", "FAILED", "GONE"}
Step == {"idle", "begin", "dates", "baseline", "kpis", "params", "scenario",
         "results", "fail", "ack"}

Sessions == [pc : Step, seen : Status, partial : BOOLEAN, broken : BOOLEAN]

\* Columns, messages and sessions hold values of their types.
TypeOK ==
  /\ status \in [Run -> Status]
  /\ baseline \subseteq Run
  /\ results \in [Run -> Nat]
  /\ drafts \subseteq Run
  /\ hurt \subseteq Run
  /\ creating \subseteq Run
  /\ task \in [Worker -> Sessions]
  /\ BrokerType
  /\ \A k \in Worker : At(k, "idle") <=> held[k] = NoTask

\* What the status endpoint tells of a run agrees with its rows: a COMPLETED run
\* has results and a baseline to compare them with; while the queue delivers a
\* task once, results are only those of a COMPLETED run; a run shown as QUEUED or
\* RUNNING is queued or in a worker's hands, or has been hurt.
StatusTells ==
  \A r \in Run :
    /\ status[r] = "COMPLETED" => results[r] > 0 /\ r \in baseline
    /\ results[r] > 0 /\ faults = 0 => status[r] = "COMPLETED"
    /\ status[r] \in {"QUEUED", "RUNNING"} /\ r \notin hurt
         => r \in creating \/ Pending(r)

\* A run's days are recorded once, and once more for each time that the queue
\* delivered its task again: failed executions leave no rows behind.
OneResultSet == \A r \in Run : results[r] <= 1 + faults

\* A deleted run leaves no rows, whatever its task is doing.
DeletedLeavesNothing ==
  \A r \in Run : ~Row(r) => results[r] = 0 /\ r \notin baseline

\* A run that was created ends, although workers die and tasks are repeated,
\* unless its task was never queued or lost its session to a rejected route.
RunsEnd ==
  \A r \in Run :
    status[r] \in {"QUEUED", "RUNNING"}
      ~> r \in hurt \/ status[r] \in {"COMPLETED", "FAILED", "GONE"}
=============================================================================
